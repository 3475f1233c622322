--------------------------- MODULE RuntimeProvider ---------------------------
(***************************************************************************)
(* The published runtime snapshot (internal/runtime/snapshot.go) and the    *)
(* code that changes it: the management handlers of internal/api, which     *)
(* commit rows to SQLite and then publish them, and the downloader clients, *)
(* which may start a mutation only at the revision that is published.       *)
(*                                                                         *)
(* Data is abstracted to versions: rows[p] is the number of the last commit *)
(* to part p of the database, and a snapshot holds, for every part, the     *)
(* number of the commit it was read from.                                   *)
(***************************************************************************)
EXTENDS Naturals, FiniteSets

CONSTANTS
    Handlers,          \* goroutines serving management requests or sync tasks
    Clients,           \* goroutines starting a downloader mutation
    None,              \* "nobody": the value of a free mutex
    EditedParts,       \* the parts that rule and title requests write
    ClearScopes,       \* the scopes that cache-clear requests ask for
    MaxVersion,        \* bound: commits to one part
    MaxPublications    \* bound: snapshots published before clears stop arriving

\* The bits of Scope: each names one part of the formatter data.
Parts == {"config", "sonarrRules", "sonarrTitles", "radarrRules", "radarrTitles"}

\* The revision counters of Snapshot.
Revisions == {"qbittorrent", "transmission", "radarr", "sonarr",
              "radarrSearch", "sonarrSearch"}

ASSUME PartiesAssumption ==
    /\ Handlers \cap Clients = {}
    /\ None \notin Handlers \cup Clients

ASSUME ScopesAssumption ==
    /\ EditedParts \subseteq Parts \ {"config"}
    /\ ClearScopes \subseteq SUBSET Parts

ASSUME BoundsAssumption == MaxVersion \in Nat /\ MaxPublications \in Nat

VARIABLES
    rows,         \* [Parts -> Nat]: committed version of each part (SQLite)
    current,      \* the snapshot behind provider.value
    published,    \* history: every snapshot ever stored in provider.value
    providerMu,   \* owner of provider.mu
    handlerMu,    \* owner of system.Handler.mu
    pc,           \* what each handler is doing
    scopes,       \* the scopes of the handler's publication
    source,       \* the database snapshot the handler has read
    wrote,        \* the version the handler committed, 0 if it wrote nothing
    acked,        \* history: newest version of each part answered with success
    failed,       \* history: newest version of each part answered with an error
    clientPc,     \* what each downloader client is doing
    frozen        \* the revision and configuration a client has captured

storeVars == <<rows, acked, failed>>
providerVars == <<current, published, providerMu>>
handlerVars == <<handlerMu, pc, scopes, source, wrote>>
clientVars == <<clientPc, frozen>>
vars == <<storeVars, providerVars, handlerVars, clientVars>>

Versions == [Parts -> Nat]
Snapshots == [parts : Versions, revision : [Revisions -> Nat]]
Captures == [kind : {"qbittorrent", "transmission"}, revision : Nat, config : Nat]

-----------------------------------------------------------------------------
\* The parts a revision stands for: a value derived from those parts may be
\* reused as long as the revision has not moved.
Covers ==
    [qbittorrent  |-> {"config"},
     transmission |-> {"config"},
     radarr       |-> {"config", "radarrRules", "radarrTitles"},
     sonarr       |-> {"config", "sonarrRules", "sonarrTitles"},
     radarrSearch |-> {"radarrTitles"},
     sonarrSearch |-> {"sonarrTitles"}]

One(condition) == IF condition THEN 1 ELSE 0

\* Mutant: the search revisions are not advanced.
BumpWithoutSearch(r, S) ==
    One("config" \in S \cap Covers[r])
      + One(r \in {"radarr", "sonarr"} /\ (S \cap Covers[r]) \ {"config"} # {})

\* How far one publication of S moves a revision: the configuration and the
\* domain's own rows are counted separately.
Bump(r, S) ==
    One("config" \in S \cap Covers[r]) + One((S \cap Covers[r]) \ {"config"} # {})

\* Mutant: every part that was loaded is copied, whatever the scopes.
SnapshotCopyingAll(loaded, previous, S) ==
    [parts |-> loaded,
     revision |-> [r \in Revisions |-> previous.revision[r] + Bump(r, S)]]

SnapshotFromSQLite(loaded, previous, S) ==
    [parts |-> [p \in Parts |-> IF p \in S THEN loaded[p] ELSE previous.parts[p]],
     revision |-> [r \in Revisions |-> previous.revision[r] + Bump(r, S)]]

InitialRows == [p \in Parts |-> 1]

ZeroSnapshot == [parts |-> [p \in Parts |-> 0], revision |-> [r \in Revisions |-> 0]]

Larger(a, b) == IF a >= b THEN a ELSE b

\* NewProvider publishes the start-up snapshot with every scope.
NewProvider ==
    /\ current = SnapshotFromSQLite(InitialRows, ZeroSnapshot, Parts)
    /\ published = {current}
    /\ providerMu = None

Init ==
    /\ rows = InitialRows
    /\ NewProvider
    /\ handlerMu = None
    /\ pc = [h \in Handlers |-> "idle"]
    /\ scopes = [h \in Handlers |-> {}]
    /\ source = [h \in Handlers |-> InitialRows]
    /\ wrote = [h \in Handlers |-> 0]
    /\ acked = InitialRows
    /\ failed = [p \in Parts |-> 0]
    /\ clientPc = [c \in Clients |-> "idle"]
    /\ frozen = [c \in Clients |-> [kind |-> "qbittorrent", revision |-> 0, config |-> 0]]

-----------------------------------------------------------------------------
(* Pieces shared by the handlers' actions.                                  *)

\* The published parts and counters change in one atomic pointer store.
Publish(next) ==
    /\ current' = next
    /\ published' = published \cup {next}

\* The handler releases what it holds and answers.
Return(h) ==
    /\ pc' = [pc EXCEPT ![h] = "idle"]
    /\ scopes' = [scopes EXCEPT ![h] = {}]
    /\ source' = [source EXCEPT ![h] = InitialRows]
    /\ wrote' = [wrote EXCEPT ![h] = 0]
    /\ handlerMu' = IF handlerMu = h THEN None ELSE handlerMu

Record(answers, h) ==
    [p \in Parts |-> IF p \in scopes[h] THEN Larger(answers[p], wrote[h]) ELSE answers[p]]

Succeed(h) ==
    /\ Return(h)
    /\ acked' = Record(acked, h)
    /\ UNCHANGED <<rows, failed>>

Fail(h) ==
    /\ Return(h)
    /\ failed' = Record(failed, h)
    /\ UNCHANGED <<rows, acked>>

-----------------------------------------------------------------------------
(* System configuration: Handler.update.                                    *)

\* Mutant: the handlers of api/system run side by side.
IgnoreHandlerMu(h) == handlerMu' = h

\* Every update and every cache clear runs under system.Handler.mu.
TakeHandlerMu(h) ==
    /\ handlerMu = None
    /\ handlerMu' = h

BeginUpdate(h) ==
    /\ pc[h] = "idle"
    /\ TakeHandlerMu(h)
    /\ pc' = [pc EXCEPT ![h] = "update"]
    /\ UNCHANGED <<storeVars, providerVars, scopes, source, wrote, clientVars>>

\* The rows are malformed, or the transaction rolls back: nothing is written.
RejectUpdate(h) ==
    /\ pc[h] = "update"
    /\ Fail(h)
    /\ UNCHANGED <<providerVars, clientVars>>

\* UpdateSystemConfigs: the rows and the snapshot derived from them are the
\* result of one transaction.
CommitUpdate(h) ==
    /\ pc[h] = "update"
    /\ rows["config"] < MaxVersion
    /\ rows' = [rows EXCEPT !["config"] = @ + 1]
    /\ source' = [source EXCEPT ![h] = rows']
    /\ wrote' = [wrote EXCEPT ![h] = rows'["config"]]
    /\ scopes' = [scopes EXCEPT ![h] = {"config"}]
    /\ pc' = [pc EXCEPT ![h] = "prepared"]
    /\ UNCHANGED <<acked, failed, providerVars, handlerMu, clientVars>>

\* publishPrepared takes provider.mu, swaps the snapshot and releases the mutex;
\* the update then answers 200. PublishPrepared refuses only a provider without
\* that method (runtime/prepared.go:12): NewProvider's, the only one, has it.
PublishPrepared(h) ==
    /\ pc[h] = "prepared"
    /\ providerMu = None
    /\ Publish(SnapshotFromSQLite(source[h], current, {"config"}))
    /\ Succeed(h)
    /\ UNCHANGED <<providerMu, clientVars>>

-----------------------------------------------------------------------------
(* Rule and title requests and sync tasks: commit, then Registry.Invalidate. *)

\* The commit of one dataset, outside any mutex of the process.
CommitRows(h, p) ==
    /\ pc[h] = "idle"
    /\ rows[p] < MaxVersion
    /\ rows' = [rows EXCEPT ![p] = @ + 1]
    /\ wrote' = [wrote EXCEPT ![h] = rows'[p]]
    /\ scopes' = [scopes EXCEPT ![h] = {p}]
    /\ pc' = [pc EXCEPT ![h] = "refresh"]
    /\ UNCHANGED <<acked, failed, providerVars, handlerMu, source, clientVars>>

\* A request to clear named caches, or all of them: a Refresh without a commit.
BeginClear(h, S) ==
    /\ pc[h] = "idle"
    /\ Cardinality(published) < MaxPublications
    /\ TakeHandlerMu(h)
    /\ scopes' = [scopes EXCEPT ![h] = S]
    /\ pc' = [pc EXCEPT ![h] = "refresh"]
    /\ UNCHANGED <<storeVars, providerVars, source, wrote, clientVars>>

-----------------------------------------------------------------------------
(* provider.Refresh                                                         *)

\* No scope to refresh: Refresh returns at once.
RefreshNothing(h) ==
    /\ pc[h] = "refresh"
    /\ scopes[h] = {}
    /\ Succeed(h)
    /\ UNCHANGED <<providerVars, clientVars>>

\* Mutant: the database is read first, and the mutex guards only the swap.
RefreshWithoutLock(h) ==
    /\ pc[h] = "refresh"
    /\ scopes[h] # {}
    /\ pc' = [pc EXCEPT ![h] = "loading"]
    /\ UNCHANGED <<storeVars, providerVars, handlerMu, scopes, source, wrote,
                   clientVars>>

\* The mutex is taken before the database is read.
RefreshLock(h) ==
    /\ pc[h] = "refresh"
    /\ scopes[h] # {}
    /\ providerMu = None
    /\ providerMu' = h
    /\ pc' = [pc EXCEPT ![h] = "loading"]
    /\ UNCHANGED <<storeVars, current, published, handlerMu, scopes, source, wrote,
                   clientVars>>

\* LoadFormatterSnapshot: one read transaction sees every part at once.
RefreshLoad(h) ==
    /\ pc[h] = "loading"
    /\ source' = [source EXCEPT ![h] = rows]
    /\ pc' = [pc EXCEPT ![h] = "loaded"]
    /\ UNCHANGED <<storeVars, providerVars, handlerMu, scopes, wrote, clientVars>>

RefreshPublish(h) ==
    /\ pc[h] = "loaded"
    /\ Publish(SnapshotFromSQLite(source[h], current, scopes[h]))
    /\ providerMu' = None
    /\ Succeed(h)
    /\ UNCHANGED clientVars

\* Mutant: a failed Refresh forgets to unlock provider.mu.
RefreshFailsLocked(h) ==
    /\ pc[h] \in {"refresh", "loading", "loaded"}
    /\ scopes[h] # {}
    /\ Fail(h)
    /\ UNCHANGED <<providerVars, clientVars>>

\* The context ends before the mutex is taken, after it, or before the swap, or
\* the snapshot cannot be loaded: nothing is published and the request fails.
RefreshFails(h) ==
    /\ pc[h] \in {"refresh", "loading", "loaded"}
    /\ scopes[h] # {}
    /\ providerMu' = IF providerMu = h THEN None ELSE providerMu
    /\ Fail(h)
    /\ UNCHANGED <<current, published, clientVars>>

-----------------------------------------------------------------------------
(* Downloader mutations: AdmitQBittorrentMutation, AdmitTransmissionMutation *)

\* The client freezes the configuration and its revision from one Snapshot.
Capture(c, kind) ==
    /\ clientPc[c] = "idle"
    /\ frozen' = [frozen EXCEPT ![c] = [kind |-> kind,
                                        revision |-> current.revision[kind],
                                        config |-> current.parts["config"]]]
    /\ clientPc' = [clientPc EXCEPT ![c] = "captured"]
    /\ UNCHANGED <<storeVars, providerVars, handlerVars>>

\* Mutant: the comparison holds no mutex, as if Snapshot() were enough.
AdmitUnlocked(c) ==
    /\ clientPc[c] = "captured"
    /\ current.revision[frozen[c].kind] = frozen[c].revision
    /\ clientPc' = [clientPc EXCEPT ![c] = "admitted"]
    /\ UNCHANGED <<storeVars, providerVars, handlerVars, frozen>>

\* The revision is still published: begin() runs inside provider.mu.
Admit(c) ==
    /\ clientPc[c] = "captured"
    /\ providerMu = None
    /\ current.revision[frozen[c].kind] = frozen[c].revision
    /\ providerMu' = c
    /\ clientPc' = [clientPc EXCEPT ![c] = "admitted"]
    /\ UNCHANGED <<storeVars, current, published, handlerVars, frozen>>

\* The revision has moved: the mutation is refused and never starts.
RefuseStale(c) ==
    /\ clientPc[c] = "captured"
    /\ providerMu = None
    /\ current.revision[frozen[c].kind] # frozen[c].revision
    /\ clientPc' = [clientPc EXCEPT ![c] = "idle"]
    /\ UNCHANGED <<storeVars, providerVars, handlerVars, frozen>>

\* begin() returns: the request has started, or its context has ended.
BeginReturns(c) ==
    /\ clientPc[c] = "admitted"
    /\ providerMu' = None
    /\ clientPc' = [clientPc EXCEPT ![c] = "idle"]
    /\ UNCHANGED <<storeVars, current, published, handlerVars, frozen>>

-----------------------------------------------------------------------------
HandlerStep(h) ==
    \/ RejectUpdate(h)
    \/ CommitUpdate(h)
    \/ PublishPrepared(h)
    \/ RefreshNothing(h)
    \/ RefreshLock(h)
    \/ RefreshLoad(h)
    \/ RefreshPublish(h)

ClientStep(c) == Admit(c) \/ RefuseStale(c) \/ BeginReturns(c)

Arrival ==
    \/ \E h \in Handlers :
          \/ BeginUpdate(h)
          \/ \E p \in EditedParts : CommitRows(h, p)
          \/ \E S \in ClearScopes : BeginClear(h, S)
    \/ \E c \in Clients, kind \in {"qbittorrent", "transmission"} : Capture(c, kind)

Next ==
    \/ Arrival
    \/ \E h \in Handlers : HandlerStep(h) \/ RefreshFails(h)
    \/ \E c \in Clients : ClientStep(c)

\* Requests need not arrive, but goroutines run, and a sync.Mutex lets every
\* waiter in eventually (its starvation mode hands the mutex to the oldest one).
\* Nothing is assumed of contexts: a waiting handler need not time out.
Fairness ==
    /\ \A h \in Handlers : SF_vars(HandlerStep(h))
    /\ \A c \in Clients : SF_vars(ClientStep(c))

Spec == Init /\ [][Next]_vars

FairSpec == Spec /\ Fairness

-----------------------------------------------------------------------------
HandlerStates == {"idle", "update", "prepared", "refresh", "loading", "loaded"}
ClientStates == {"idle", "captured", "admitted"}

\* Every variable has its type, and a published revision is never 0: clients
\* use revision 0 for "no session yet" (qbittorrent and transmission sessions).
TypeOK ==
    /\ rows \in Versions
    /\ current \in Snapshots
    /\ published \subseteq Snapshots
    /\ \A r \in Revisions : current.revision[r] > 0
    /\ providerMu \in Handlers \cup Clients \cup {None}
    /\ handlerMu \in Handlers \cup {None}
    /\ pc \in [Handlers -> HandlerStates]
    /\ scopes \in [Handlers -> SUBSET Parts]
    /\ source \in [Handlers -> Versions]
    /\ wrote \in [Handlers -> Nat]
    /\ acked \in Versions
    /\ failed \in Versions
    /\ clientPc \in [Clients -> ClientStates]
    /\ frozen \in [Clients -> Captures]

\* Two published snapshots with the same revision hold the same data in every
\* part the revision covers. Result-cache keys, offset-cache keys and downloader
\* sessions identify configuration and data by revision alone
\* (proxy/server.go makeCacheKey, qbittorrent/client.go sessionFor).
RevisionIdentifiesContent ==
    \A s, t \in published : \A r \in Revisions :
        s.revision[r] = t.revision[r] =>
            \A p \in Covers[r] : s.parts[p] = t.parts[p]

\* A publication never replaces a part by an older version of it, although
\* refreshes, prepared publications and commits interleave.
NeverRegresses ==
    [][\A p \in Parts : current.parts[p] <= current'.parts[p]]_current

\* Once a write has been answered with success, every later snapshot shows it.
AcknowledgedIsVisible ==
    \A p \in Parts : acked[p] <= current.parts[p]

\* A handler that has committed version v of part p and has not answered yet.
Publishing(p, v) ==
    \E h \in Handlers : pc[h] # "idle" /\ p \in scopes[h] /\ wrote[h] = v

\* A commit that is not visible yet still has a handler working on it, or was
\* answered with an error: no commit is silently left unpublished.
UnpublishedIsReported ==
    \A p \in Parts : current.parts[p] < rows[p] =>
        Publishing(p, rows[p]) \/ failed[p] = rows[p]

\* While a mutation is being started, the configuration it was built from is the
\* published one: no publication completes between its admission and its start.
AdmittedIsCurrent ==
    \A c \in Clients : clientPc[c] = "admitted" =>
        /\ frozen[c].config = current.parts["config"]
        /\ frozen[c].revision = current.revision[frozen[c].kind]

\* Every request is answered and every mutation attempt is decided: nobody waits
\* forever for provider.mu or system.Handler.mu.
EveryoneReturns ==
    /\ \A h \in Handlers : pc[h] # "idle" ~> pc[h] = "idle"
    /\ \A c \in Clients : clientPc[c] # "idle" ~> clientPc[c] = "idle"

\* Readers of snapshots see the abstract publication: one forward-moving view
\* whose revisions move exactly when the data they cover is republished.
Publication == INSTANCE SnapshotPublication
    WITH view <- current.parts, revision <- current.revision

ImplementsPublication == Publication!Spec

=============================================================================
