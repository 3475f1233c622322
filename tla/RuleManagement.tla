--------------------------- MODULE RuleManagement ---------------------------
(***************************************************************************)
(* The rules of one domain: operators save, import, switch and remove them  *)
(* (internal/api/rule), requests and the scheduled job fetch those of other *)
(* authors (internal/app/rule_sync.go, internal/sync/rule). Every batch and *)
(* every author is one transaction; what is committed is published by a     *)
(* refresh of the runtime snapshot, which may fail (RuntimeProvider).       *)
(***************************************************************************)
EXTENDS Naturals, Sequences, FiniteSetsExt

CONSTANTS
    Requests,     \* requests of operators
    Job,          \* the rule-sync task
    Ids,          \* rule ids
    primaryID,    \* the rule that the API leaves alone
    Contents,     \* token, regex, replacement, ...
    Configured,   \* values of ruleSyncAuthors: sequences of authors, or ALL
    ALL,
    AuthorLists,  \* answers to author.json
    Remote        \* [author -> answers to its file: sequences of remote rules]

Actors == Requests \cup {Job}

Statuses == {"valid", "invalid"}

VARIABLES
    rows,           \* [Ids -> a rule or NoRule]
    published,      \* the rows that the runtime snapshot was loaded from
    actor,          \* [Actors -> locals of the request or of the task]
    refreshFailed,  \* history: a refresh has failed since the last one that succeeded
    off             \* history: rules an operator disabled, and did not enable or save since

vars == <<rows, published, actor, refreshFailed, off>>

NoRule == [status |-> "none", content |-> "none"]

\* at: idle; sync: an author is next; commit: its rules were fetched; refresh, partial:
\* before the refresh that ends in success, or in errPartialRuleSync.
Local(at, authors) ==
    [at |-> at, authors |-> authors, rules |-> <<>>, failed |-> FALSE, committed |-> FALSE]

Idle == Local("idle", <<>>)

InitialRows ==
    {table \in [Ids -> {NoRule} \cup [status : {"valid"}, content : Contents]] :
        table[primaryID] # NoRule}

Init ==
    /\ rows \in InitialRows
    /\ published = rows
    /\ actor = [a \in Actors |-> Idle]
    /\ refreshFailed = FALSE
    /\ off = {}

At(a, place) == actor[a].at = place

Becomes(a, local) == actor' = [actor EXCEPT ![a] = local]

-----------------------------------------------------------------------------
(* Operators. A request that is refused or whose transaction fails changes   *)
(* nothing and publishes nothing.                                           *)

\* The transaction of a request has been committed; done is next.
Committed(r, newRows) ==
    /\ At(r, "idle")
    /\ rows' = newRows
    /\ Becomes(r, Local("refresh", <<>>))
    /\ UNCHANGED <<published, refreshFailed>>

Rule(status, content) == [status |-> status, content |-> content]

\* The whole row, its status included.
Save(r) ==
    \E i \in Ids \ {primaryID}, s \in Statuses, c \in Contents :
        /\ Committed(r, [rows EXCEPT ![i] = Rule(s, c)])
        /\ off' = off \ {i}

\* The rows of a file, in one transaction; one of an id that is repeated stays.
ImportRules(r) ==
    \E ids \in SUBSET (Ids \ {primaryID}) \ {{}} :
      \E file \in [ids -> [status : Statuses, content : Contents]] :
        /\ Committed(r, [i \in Ids |-> IF i \in ids THEN file[i] ELSE rows[i]])
        /\ off' = off \ ids

RemoveRules(r) ==
    \E ids \in SUBSET (Ids \ {primaryID}) :
        /\ Committed(r, [i \in Ids |-> IF i \in ids THEN NoRule ELSE rows[i]])
        /\ off' = off \ ids

\* switchStatus: an id without a rule is passed over.
Switched(ids, status) ==
    [i \in Ids |-> IF i \in ids /\ rows[i] # NoRule
                   THEN [rows[i] EXCEPT !.status = status] ELSE rows[i]]

Enable(r) ==
    \E ids \in SUBSET Ids :
        /\ Committed(r, Switched(ids, "valid"))
        /\ off' = off \ ids

Disable(r) ==
    \E ids \in SUBSET (Ids \ {primaryID}) :
        /\ Committed(r, Switched(ids, "invalid"))
        /\ off' = off \cup {i \in ids : rows[i] # NoRule}

-----------------------------------------------------------------------------
(* Synchronisation.                                                         *)

\* normalizeAuthors, and the list that is fetched for ALL.
AuthorsOf(value) == IF value = ALL THEN AuthorLists ELSE {value}

\* The configuration is read and with it the authors.
BeginSync(a) ==
    /\ At(a, "idle")
    /\ \E value \in Configured : \E authors \in AuthorsOf(value) :
          Becomes(a, Local("sync", authors))
    /\ UNCHANGED <<rows, published, refreshFailed, off>>

\* The next author, after one that failed or did not.
NextAuthor(a) ==
    [actor[a] EXCEPT !.at = "sync", !.authors = Tail(@), !.rules = <<>>]

\* syncAuthor: the primary source has the file, or the backup has it.
FetchRules(a) ==
    /\ At(a, "sync") /\ actor[a].authors # <<>>
    /\ \E rules \in Remote[Head(actor[a].authors)] :
          Becomes(a, [actor[a] EXCEPT !.at = "commit", !.rules = rules])
    /\ UNCHANGED <<rows, published, refreshFailed, off>>

\* Neither source has it, a rule of it is not valid, or the transaction fails.
AuthorFails(a) ==
    /\ At(a, "commit") \/ (At(a, "sync") /\ actor[a].authors # <<>>)
    /\ Becomes(a, [NextAuthor(a) EXCEPT !.failed = TRUE])
    /\ UNCHANGED <<rows, published, refreshFailed, off>>

\* Mutant: the status is the one the author has.
RemoteStatus(stored, remote) ==
    IF \E rule \in remote : rule.status = "invalid" THEN "invalid" ELSE "valid"

\* remoteStatus, and the upsert that COALESCEs, over the remote rules of one id: valid
\* ones keep the status that is stored, an invalid one disables.
StatusAfter(stored, remote) ==
    IF \E rule \in remote : rule.status = "invalid" THEN "invalid"
    ELSE IF stored = NoRule THEN "valid" ELSE stored.status

\* UpsertRemoteSonarrRules, UpsertRemoteRadarrRules: one rule after the other, of which
\* several may have the same id.
Upserted(table, rules) ==
    [i \in Ids |->
        LET at == {k \in DOMAIN rules : rules[k].id = i}
        IN  IF at = {} THEN table[i]
            ELSE Rule(StatusAfter(table[i], {rules[k] : k \in at}), rules[Max(at)].content)]

CommitAuthor(a) ==
    /\ At(a, "commit")
    /\ rows' = Upserted(rows, actor[a].rules)
    /\ Becomes(a, [NextAuthor(a) EXCEPT !.committed = @ \/ actor[a].rules # <<>>])
    /\ UNCHANGED <<published, refreshFailed, off>>

\* Mutant: a sync that failed for an author publishes nothing.
AfterAuthorsAtFailure(local) == IF local.failed THEN "idle" ELSE "refresh"

\* What other authors had committed is published also if one failed.
AfterAuthors(local) ==
    IF ~local.failed THEN "refresh" ELSE IF local.committed THEN "partial" ELSE "idle"

EndSync(a) ==
    /\ At(a, "sync") /\ actor[a].authors = <<>>
    /\ Becomes(a, Local(AfterAuthors(actor[a]), <<>>))
    /\ UNCHANGED <<rows, published, refreshFailed, off>>

-----------------------------------------------------------------------------
(* Publication.                                                             *)

\* done, the end of the task, and the refresh before errPartialRuleSync.
Refresh(a) ==
    /\ At(a, "refresh") \/ At(a, "partial")
    /\ published' = rows
    /\ refreshFailed' = FALSE
    /\ Becomes(a, Idle)
    /\ UNCHANGED <<rows, off>>

\* The caller gets the error: an operator a 500, the scheduler's log a line.
RefreshFails(a) ==
    /\ At(a, "refresh") \/ At(a, "partial")
    /\ refreshFailed' = TRUE
    /\ Becomes(a, Idle)
    /\ UNCHANGED <<rows, published, off>>

\* The process ends somewhere and a new one loads its snapshot.
Restart ==
    /\ published' = rows
    /\ refreshFailed' = FALSE
    /\ actor' = [a \in Actors |-> Idle]
    /\ UNCHANGED <<rows, off>>

Next ==
    \/ \E r \in Requests : Save(r) \/ ImportRules(r) \/ RemoveRules(r) \/ Enable(r) \/ Disable(r)
    \/ \E a \in Actors :
          \/ BeginSync(a) \/ FetchRules(a) \/ CommitAuthor(a) \/ AuthorFails(a) \/ EndSync(a)
          \/ Refresh(a) \/ RefreshFails(a)
    \/ Restart

Spec == Init /\ [][Next]_vars

-----------------------------------------------------------------------------
(* Properties.                                                              *)

\* A rule that an operator disabled stays disabled until an operator enables, saves or
\* removes it, whatever its authors publish and however many syncs overlap
\* (remoteStatus, upsertSonarrRule, upsertRadarrRule).
DisabledStaysOff == \A i \in off : rows[i].status = "invalid"

\* Rules that are committed and not published are owed by someone who is still to
\* refresh, or a refresh has failed and said so: a sync that fails for one author after
\* it committed another leaves no such rules behind (Sync, done, ruleSyncTask).
CommittedRulesAreServed ==
    rows # published =>
        \/ refreshFailed
        \/ \E a \in Actors : At(a, "refresh") \/ At(a, "partial") \/ actor[a].committed
=============================================================================
