-------------------------- MODULE ManagementProofs --------------------------
(***************************************************************************)
(* Proofs about the management API, for any operators, rules, authors,      *)
(* clients and tokens, and any length of the list of revocations.           *)
(***************************************************************************)
EXTENDS Management, TLAPS

-----------------------------------------------------------------------------
(* Rules: the inductive invariant.                                          *)

IsRule(r) == r = [status |-> r.status, content |-> r.content]

IsActor(l) ==
    /\ l \in [at : {l.at}, authors : {l.authors}, rules : {l.rules},
              failed : BOOLEAN, committed : BOOLEAN]
    /\ l.at = "idle" => ~l.committed

\* Tables and actors have their shape, and who is idle owes nothing.
RulesTyped ==
    /\ rows = [i \in Ids |-> rows[i]]
    /\ \A i \in Ids : IsRule(rows[i])
    /\ actor = [a \in Rules!Actors |-> actor[a]]
    /\ \A a \in Rules!Actors : IsActor(actor[a])
    /\ refreshFailed \in BOOLEAN
    /\ off \subseteq Ids

\* Somebody is still to publish what is committed.
Owed == \E a \in Rules!Actors :
            Rules!At(a, "refresh") \/ Rules!At(a, "partial") \/ actor[a].committed

RulesInv ==
    /\ RulesTyped
    /\ Rules!DisabledStaysOff
    /\ rows # published => refreshFailed \/ Owed

\* The record of an actor, from its fields.
LEMMA NewActor ==
    ASSUME NEW at, NEW authors, NEW rules, NEW failed \in BOOLEAN, NEW committed \in BOOLEAN,
           at = "idle" => ~committed
    PROVE  LET l == [at |-> at, authors |-> authors, rules |-> rules,
                     failed |-> failed, committed |-> committed]
           IN  /\ IsActor(l)
               /\ l.at = at /\ l.authors = authors /\ l.rules = rules
               /\ l.failed = failed /\ l.committed = committed
  BY DEF IsActor

\* One actor goes on: the others are where they were.
LEMMA ActorMoves ==
    ASSUME RulesTyped, NEW a \in Rules!Actors, NEW local, IsActor(local),
           Rules!Becomes(a, local)
    PROVE  /\ actor' = [b \in Rules!Actors |-> actor'[b]]
           /\ actor'[a] = local
           /\ \A b \in Rules!Actors \ {a} : actor'[b] = actor[b]
           /\ \A b \in Rules!Actors : IsActor(actor'[b])
<1>1. actor' = [actor EXCEPT ![a] = local]
  BY DEF Rules!Becomes
<1>2. /\ actor' = [b \in Rules!Actors |-> actor'[b]]
      /\ actor'[a] = local
      /\ \A b \in Rules!Actors \ {a} : actor'[b] = actor[b]
  BY <1>1 DEF RulesTyped
<1> QED BY <1>2 DEF RulesTyped

\* While the one that moves goes on to owe, or takes nothing over from what it owed, the
\* debt of others and of itself is still there.
LEMMA OwedStays ==
    ASSUME NEW a \in Rules!Actors, Owed,
           \A b \in Rules!Actors \ {a} : actor'[b] = actor[b],
           Rules!At(a, "refresh") \/ Rules!At(a, "partial") \/ actor[a].committed =>
              actor'[a].at \in {"refresh", "partial"} \/ actor'[a].committed
    PROVE  Owed'
<1>1. PICK b \in Rules!Actors :
         Rules!At(b, "refresh") \/ Rules!At(b, "partial") \/ actor[b].committed
  BY DEF Owed
<1>2. CASE b = a
  BY <1>1, <1>2 DEF Owed, Rules!At
<1>3. CASE b # a
  BY <1>1, <1>3 DEF Owed, Rules!At
<1> QED BY <1>2, <1>3

\* An operator's request commits rows, and owes a refresh.
LEMMA CommittedKeeps ==
    ASSUME RulesInv, NEW r \in Requests, NEW newRows, Rules!Committed(r, newRows),
           newRows = [i \in Ids |-> newRows[i]], \A i \in Ids : IsRule(newRows[i]),
           off' \subseteq Ids, \A i \in off' : newRows[i].status = "invalid"
    PROVE  RulesInv'
<1>1. r \in Rules!Actors
  BY DEF Rules!Actors
<1> DEFINE L == [at |-> "refresh", authors |-> <<>>, rules |-> <<>>,
                 failed |-> FALSE, committed |-> FALSE]
<1>2. IsActor(L) /\ L.at = "refresh"
  BY NewActor
<1>3. Rules!Becomes(r, L)
  BY DEF Rules!Committed, Rules!Local
<1>4. rows' = newRows /\ refreshFailed' = refreshFailed
  BY DEF Rules!Committed
<1> HIDE DEF L
<1>5. RulesTyped'
  BY <1>1, <1>2, <1>3, <1>4, ActorMoves DEF RulesInv, RulesTyped
<1>6. Owed'
  BY <1>1, <1>2, <1>3, ActorMoves DEF RulesInv, Owed, Rules!At
<1> QED BY <1>4, <1>5, <1>6 DEF RulesInv, Rules!DisabledStaysOff

\* A step of an actor that leaves the rows alone.
LEMMA QuietStepKeeps ==
    ASSUME RulesInv, NEW a \in Rules!Actors, NEW local, IsActor(local),
           Rules!Becomes(a, local),
           UNCHANGED <<rows, published, refreshFailed, off>>,
           Rules!At(a, "refresh") \/ Rules!At(a, "partial") \/ actor[a].committed =>
              local.at \in {"refresh", "partial"} \/ local.committed
    PROVE  RulesInv'
<1>1. RulesTyped'
  BY ActorMoves DEF RulesInv, RulesTyped
<1>2. Owed => Owed'
  <2>1. actor'[a] = local /\ \A b \in Rules!Actors \ {a} : actor'[b] = actor[b]
    BY ActorMoves DEF RulesInv
  <2> QED BY <2>1, OwedStays
<1> QED BY <1>1, <1>2 DEF RulesInv, Rules!DisabledStaysOff

-----------------------------------------------------------------------------
(* Rules: what an operator does.                                            *)

\* A row has its shape, and the status it is made with.
LEMMA RuleIsRule ==
    ASSUME NEW s, NEW c
    PROVE  IsRule(Rules!Rule(s, c)) /\ Rules!Rule(s, c).status = s
  BY DEF IsRule, Rules!Rule

\* A saved rule is no longer off, whatever its status.
LEMMA SaveKeeps == ASSUME RulesInv, NEW r \in Requests, Rules!Save(r) PROVE RulesInv'
<1>1. PICK j \in Ids \ {primaryID}, s \in Rules!Statuses, c \in Contents :
         Rules!Committed(r, [rows EXCEPT ![j] = Rules!Rule(s, c)]) /\ off' = off \ {j}
  BY DEF Rules!Save
<1> DEFINE N == [rows EXCEPT ![j] = Rules!Rule(s, c)]
<1>2. \A i \in Ids : IsRule(N[i])
  BY RuleIsRule DEF RulesInv, RulesTyped
<1>3. off' \subseteq Ids /\ \A i \in off' : N[i].status = "invalid"
  BY <1>1 DEF RulesInv, RulesTyped, Rules!DisabledStaysOff
<1>4. N = [i \in Ids |-> N[i]]
  BY DEF RulesInv, RulesTyped
<1> HIDE DEF N
<1> QED BY <1>1, <1>2, <1>3, <1>4, CommittedKeeps DEF N

\* Neither are those of a file.
LEMMA ImportRulesKeeps ==
    ASSUME RulesInv, NEW r \in Requests, Rules!ImportRules(r) PROVE RulesInv'
<1>1. PICK ids \in SUBSET (Ids \ {primaryID}) \ {{}} :
        \E file \in [ids -> [status : Rules!Statuses, content : Contents]] :
         /\ Rules!Committed(r, [i \in Ids |-> IF i \in ids THEN file[i] ELSE rows[i]])
         /\ off' = off \ ids
  BY DEF Rules!ImportRules
<1>2. PICK file \in [ids -> [status : Rules!Statuses, content : Contents]] :
         /\ Rules!Committed(r, [i \in Ids |-> IF i \in ids THEN file[i] ELSE rows[i]])
         /\ off' = off \ ids
  BY <1>1
<1> DEFINE N == [i \in Ids |-> IF i \in ids THEN file[i] ELSE rows[i]]
<1>3. \A i \in Ids : IsRule(N[i])
  <2>1. \A i \in ids : IsRule(file[i])
    BY <1>2 DEF IsRule
  <2> QED BY <2>1 DEF RulesInv, RulesTyped
<1>4. off' \subseteq Ids /\ \A i \in off' : N[i].status = "invalid"
  BY <1>2 DEF RulesInv, RulesTyped, Rules!DisabledStaysOff
<1>5. N = [i \in Ids |-> N[i]]
  OBVIOUS
<1> HIDE DEF N
<1> QED BY <1>2, <1>3, <1>4, <1>5, CommittedKeeps DEF N

\* Neither is one that is removed.
LEMMA RemoveRulesKeeps ==
    ASSUME RulesInv, NEW r \in Requests, Rules!RemoveRules(r) PROVE RulesInv'
<1>1. PICK ids \in SUBSET (Ids \ {primaryID}) :
         /\ Rules!Committed(r, [i \in Ids |-> IF i \in ids THEN Rules!NoRule ELSE rows[i]])
         /\ off' = off \ ids
  BY DEF Rules!RemoveRules
<1> DEFINE N == [i \in Ids |-> IF i \in ids THEN Rules!NoRule ELSE rows[i]]
<1>2. \A i \in Ids : IsRule(N[i])
  <2>1. IsRule(Rules!NoRule)
    BY DEF IsRule, Rules!NoRule
  <2> QED BY <2>1 DEF RulesInv, RulesTyped
<1>3. off' \subseteq Ids /\ \A i \in off' : N[i].status = "invalid"
  BY <1>1 DEF RulesInv, RulesTyped, Rules!DisabledStaysOff
<1>4. N = [i \in Ids |-> N[i]]
  OBVIOUS
<1> HIDE DEF N
<1> QED BY <1>1, <1>2, <1>3, <1>4, CommittedKeeps DEF N

\* A switch changes the status of the rules there are, and of nothing else.
LEMMA SwitchedRules ==
    ASSUME RulesTyped, NEW ids, NEW status
    PROVE  LET N == Rules!Switched(ids, status)
           IN  /\ N = [i \in Ids |-> N[i]]
               /\ \A i \in Ids : IsRule(N[i])
               /\ \A i \in Ids : i \notin ids \/ rows[i] = Rules!NoRule => N[i] = rows[i]
               /\ \A i \in Ids : i \in ids /\ rows[i] # Rules!NoRule => N[i].status = status
<1> DEFINE N == Rules!Switched(ids, status)
<1>1. N = [i \in Ids |-> N[i]]
  BY DEF Rules!Switched
<1>2. ASSUME NEW i \in Ids PROVE IsRule(N[i])
  BY DEF Rules!Switched, RulesTyped, IsRule
<1>3. \A i \in Ids : i \notin ids \/ rows[i] = Rules!NoRule => N[i] = rows[i]
  BY DEF Rules!Switched
<1>4. ASSUME NEW i \in Ids, i \in ids, rows[i] # Rules!NoRule PROVE N[i].status = status
  BY <1>4 DEF Rules!Switched, RulesTyped, IsRule
<1> QED BY <1>1, <1>2, <1>3, <1>4

\* Neither is one that is enabled; the others have their status still.
LEMMA EnableKeeps == ASSUME RulesInv, NEW r \in Requests, Rules!Enable(r) PROVE RulesInv'
<1>1. PICK ids \in SUBSET Ids :
         Rules!Committed(r, Rules!Switched(ids, "valid")) /\ off' = off \ ids
  BY DEF Rules!Enable
<1> DEFINE N == Rules!Switched(ids, "valid")
<1>2. /\ N = [i \in Ids |-> N[i]]
      /\ \A i \in Ids : IsRule(N[i])
      /\ \A i \in Ids : i \notin ids => N[i] = rows[i]
  BY SwitchedRules DEF RulesInv
<1>3. off' \subseteq Ids /\ \A i \in off' : N[i].status = "invalid"
  <2> HIDE DEF N
  <2> QED BY <1>1, <1>2 DEF RulesInv, RulesTyped, Rules!DisabledStaysOff
<1> HIDE DEF N
<1> QED BY <1>1, <1>2, <1>3, CommittedKeeps DEF N

\* A disabled rule is off and invalid; an id without a rule is not off.
LEMMA DisableKeeps == ASSUME RulesInv, NEW r \in Requests, Rules!Disable(r) PROVE RulesInv'
<1>1. PICK ids \in SUBSET (Ids \ {primaryID}) :
         /\ Rules!Committed(r, Rules!Switched(ids, "invalid"))
         /\ off' = off \cup {i \in ids : rows[i] # Rules!NoRule}
  BY DEF Rules!Disable
<1> DEFINE N == Rules!Switched(ids, "invalid")
<1>2. /\ N = [i \in Ids |-> N[i]]
      /\ \A i \in Ids : IsRule(N[i])
      /\ \A i \in Ids : i \notin ids \/ rows[i] = Rules!NoRule => N[i] = rows[i]
      /\ \A i \in Ids : i \in ids /\ rows[i] # Rules!NoRule => N[i].status = "invalid"
  BY SwitchedRules DEF RulesInv
<1>3. off' \subseteq Ids /\ \A i \in off' : N[i].status = "invalid"
  <2> HIDE DEF N
  <2> QED BY <1>1, <1>2 DEF RulesInv, RulesTyped, Rules!DisabledStaysOff
<1> HIDE DEF N
<1> QED BY <1>1, <1>2, <1>3, CommittedKeeps DEF N
-----------------------------------------------------------------------------
(* Rules: what a sync does.                                                 *)

\* The locals of an actor that begins something, and of one that goes on.
LEMMA LocalIsActor ==
    ASSUME NEW at, NEW authors
    PROVE  LET l == Rules!Local(at, authors)
           IN  IsActor(l) /\ l.at = at /\ l.committed = FALSE
  BY NewActor DEF Rules!Local

\* Whoever begins was idle, and owed nothing.
LEMMA BeginSyncKeeps ==
    ASSUME RulesInv, NEW a \in Rules!Actors, Rules!BeginSync(a) PROVE RulesInv'
<1>1. PICK authors : Rules!Becomes(a, Rules!Local("sync", authors))
  BY DEF Rules!BeginSync
<1>2. UNCHANGED <<rows, published, refreshFailed, off>> /\ Rules!At(a, "idle")
  BY DEF Rules!BeginSync
<1>3. ~(Rules!At(a, "refresh") \/ Rules!At(a, "partial") \/ actor[a].committed)
  BY <1>2 DEF Rules!At, RulesInv, RulesTyped, IsActor
<1> QED BY <1>1, <1>2, <1>3, LocalIsActor, QuietStepKeeps

\* Fetching rules commits none.
LEMMA FetchRulesKeeps ==
    ASSUME RulesInv, NEW a \in Rules!Actors, Rules!FetchRules(a) PROVE RulesInv'
<1>1. PICK rules : Rules!Becomes(a, [actor[a] EXCEPT !.at = "commit", !.rules = rules])
  BY DEF Rules!FetchRules
<1> DEFINE L == [actor[a] EXCEPT !.at = "commit", !.rules = rules]
<1>2. IsActor(actor[a])
  BY DEF RulesInv, RulesTyped
<1>3. IsActor(L) /\ L.committed = actor[a].committed
  BY <1>2 DEF IsActor
<1>4. UNCHANGED <<rows, published, refreshFailed, off>> /\ Rules!At(a, "sync")
  BY DEF Rules!FetchRules
<1> HIDE DEF L
<1>5. Rules!At(a, "refresh") \/ Rules!At(a, "partial") => FALSE
  BY <1>4 DEF Rules!At
<1> QED BY <1>1, <1>3, <1>4, <1>5, QuietStepKeeps DEF L

\* Whoever goes on to the next author, or ends, keeps what it owes.
LEMMA NextAuthorIsActor ==
    ASSUME RulesTyped, NEW a \in Rules!Actors, ~Rules!At(a, "idle")
    PROVE  LET l == Rules!NextAuthor(a)
           IN  IsActor(l) /\ l.at = "sync" /\ l.committed = actor[a].committed
<1>1. IsActor(actor[a])
  BY DEF RulesTyped
<1> QED BY <1>1 DEF IsActor, Rules!NextAuthor

\* A failed author takes nothing from what was committed before it.
LEMMA AuthorFailsKeeps ==
    ASSUME RulesInv, NEW a \in Rules!Actors, Rules!AuthorFails(a) PROVE RulesInv'
<1> DEFINE N == Rules!NextAuthor(a)
           L == [N EXCEPT !.failed = TRUE]
<1>1. /\ Rules!At(a, "commit") \/ Rules!At(a, "sync")
      /\ Rules!Becomes(a, L)
      /\ UNCHANGED <<rows, published, refreshFailed, off>>
  BY DEF Rules!AuthorFails
<1>2. ~Rules!At(a, "idle") /\ ~Rules!At(a, "refresh") /\ ~Rules!At(a, "partial")
  BY <1>1 DEF Rules!At
<1>3. IsActor(N) /\ N.at = "sync" /\ N.committed = actor[a].committed
  BY <1>2, NextAuthorIsActor DEF RulesInv
<1> HIDE DEF N
<1>4. IsActor(L) /\ L.committed = actor[a].committed
  BY <1>3 DEF IsActor
<1> HIDE DEF L
<1> QED BY <1>1, <1>2, <1>4, QuietStepKeeps

\* Who committed something goes on to a refresh, of one kind or the other.
LEMMA EndSyncKeeps ==
    ASSUME RulesInv, NEW a \in Rules!Actors, Rules!EndSync(a) PROVE RulesInv'
<1> DEFINE at == Rules!AfterAuthors(actor[a])
           L  == Rules!Local(at, <<>>)
<1>1. /\ Rules!At(a, "sync") /\ Rules!Becomes(a, L)
      /\ UNCHANGED <<rows, published, refreshFailed, off>>
  BY DEF Rules!EndSync
<1>2. IsActor(L) /\ L.at = at /\ L.committed = FALSE
  BY LocalIsActor
<1>3. actor[a].committed => at \in {"refresh", "partial"}
  BY DEF Rules!AfterAuthors
<1>4. ~Rules!At(a, "refresh") /\ ~Rules!At(a, "partial")
  BY <1>1 DEF Rules!At
<1> HIDE DEF at, L
<1> QED BY <1>1, <1>2, <1>3, <1>4, QuietStepKeeps

\* The rules of an author: what is stored as invalid stays invalid, and no rules change
\* no row.
LEMMA UpsertedRules ==
    ASSUME RulesTyped, NEW rules
    PROVE  LET N == Rules!Upserted(rows, rules)
           IN  /\ N = [i \in Ids |-> N[i]]
               /\ \A i \in Ids : IsRule(N[i])
               /\ \A i \in Ids : rows[i].status = "invalid" => N[i].status = "invalid"
               /\ rules = <<>> => N = rows
<1> DEFINE N == Rules!Upserted(rows, rules)
           At(i) == {k \in DOMAIN rules : rules[k].id = i}
<1>1. N = [i \in Ids |-> N[i]]
  BY DEF Rules!Upserted
<1>2. ASSUME NEW i \in Ids
      PROVE  \/ N[i] = rows[i]
             \/ \E remote, c : N[i] = Rules!Rule(Rules!StatusAfter(rows[i], remote), c)
  BY DEF Rules!Upserted
<1>3. ASSUME NEW i \in Ids PROVE IsRule(N[i])
  BY <1>2, RuleIsRule DEF RulesTyped
<1>4. ASSUME NEW i \in Ids, rows[i].status = "invalid" PROVE N[i].status = "invalid"
  <2>1. rows[i] # Rules!NoRule
    BY <1>4 DEF Rules!NoRule
  <2>2. \A remote : Rules!StatusAfter(rows[i], remote) = "invalid"
    BY <1>4, <2>1 DEF Rules!StatusAfter
  <2> HIDE DEF N
  <2> QED BY <1>2, <1>4, <2>2, RuleIsRule
<1>5. ASSUME rules = <<>> PROVE N = rows
  <2>1. \A i \in Ids : At(i) = {}
    BY <1>5
  <2> QED BY <2>1 DEF Rules!Upserted, RulesTyped
<1> QED BY <1>1, <1>3, <1>4, <1>5

\* An author without rules changes nothing; with one, the sync owes a refresh.
LEMMA CommitAuthorKeeps ==
    ASSUME RulesInv, NEW a \in Rules!Actors, Rules!CommitAuthor(a) PROVE RulesInv'
<1> DEFINE N == Rules!NextAuthor(a)
           L == [N EXCEPT !.committed = @ \/ actor[a].rules # <<>>]
           table == Rules!Upserted(rows, actor[a].rules)
<1>1. /\ Rules!At(a, "commit") /\ Rules!Becomes(a, L) /\ rows' = table
      /\ UNCHANGED <<published, refreshFailed, off>>
  BY DEF Rules!CommitAuthor
<1>2. ~Rules!At(a, "idle") /\ ~Rules!At(a, "refresh") /\ ~Rules!At(a, "partial")
  BY <1>1 DEF Rules!At
<1>3. IsActor(N) /\ N.at = "sync" /\ N.committed = actor[a].committed
  BY <1>2, NextAuthorIsActor DEF RulesInv
<1>4. actor[a].committed \in BOOLEAN
  BY DEF RulesInv, RulesTyped, IsActor
<1> HIDE DEF N
<1>5. IsActor(L) /\ L.at = "sync"
  BY <1>3, <1>4 DEF IsActor
<1>6. L.committed = (actor[a].committed \/ actor[a].rules # <<>>)
  BY <1>3, <1>4 DEF IsActor
<1>7. /\ table = [i \in Ids |-> table[i]]
      /\ \A i \in Ids : IsRule(table[i])
      /\ \A i \in Ids : rows[i].status = "invalid" => table[i].status = "invalid"
      /\ actor[a].rules = <<>> => table = rows
  BY UpsertedRules DEF RulesInv
<1> HIDE DEF L, table
<1>8. /\ actor' = [b \in Rules!Actors |-> actor'[b]]
      /\ actor'[a] = L
      /\ \A b \in Rules!Actors \ {a} : actor'[b] = actor[b]
      /\ \A b \in Rules!Actors : IsActor(actor'[b])
  BY <1>1, <1>5, ActorMoves DEF RulesInv
<1>9. RulesTyped'
  BY <1>1, <1>7, <1>8 DEF RulesInv, RulesTyped
<1>10. Rules!DisabledStaysOff'
  BY <1>1, <1>7 DEF RulesInv, RulesTyped, Rules!DisabledStaysOff
<1>11. CASE actor[a].rules = <<>>
  <2>1. Owed => Owed'
    BY <1>2, <1>4, <1>6, <1>8, <1>11, OwedStays
  <2> QED BY <1>1, <1>7, <1>9, <1>10, <1>11, <2>1 DEF RulesInv
<1>12. CASE actor[a].rules # <<>>
  <2>1. actor'[a].committed
    BY <1>4, <1>6, <1>8, <1>12
  <2>2. Owed'
    BY <2>1 DEF Owed
  <2> QED BY <1>9, <1>10, <2>2 DEF RulesInv
<1> QED BY <1>11, <1>12

\* After a refresh nothing is owed, or it has failed.
LEMMA RefreshKeeps ==
    ASSUME RulesInv, NEW a \in Rules!Actors, Rules!Refresh(a) \/ Rules!RefreshFails(a)
    PROVE  RulesInv'
<1>1. /\ Rules!Becomes(a, Rules!Local("idle", <<>>))
      /\ rows' = rows /\ off' = off
      /\ \/ published' = rows /\ refreshFailed' = FALSE
         \/ refreshFailed' = TRUE
  BY DEF Rules!Refresh, Rules!RefreshFails, Rules!Idle
<1>2. IsActor(Rules!Local("idle", <<>>))
  BY LocalIsActor
<1>3. RulesTyped'
  BY <1>1, <1>2, ActorMoves DEF RulesInv, RulesTyped
<1> QED BY <1>1, <1>3 DEF RulesInv, Rules!DisabledStaysOff

\* A new process loads what is committed.
LEMMA RestartKeeps == ASSUME RulesInv, Rules!Restart PROVE RulesInv'
<1>1. /\ published' = rows /\ refreshFailed' = FALSE /\ rows' = rows /\ off' = off
      /\ actor' = [a \in Rules!Actors |-> Rules!Local("idle", <<>>)]
  BY DEF Rules!Restart, Rules!Idle
<1>2. RulesTyped'
  BY <1>1, LocalIsActor DEF RulesInv, RulesTyped
<1> QED BY <1>1, <1>2 DEF RulesInv, Rules!DisabledStaysOff

\* The invariant holds of the rules that the migrations made, or an earlier process left.
LEMMA RulesBegin == ASSUME Rules!Init PROVE RulesInv
<1>1. /\ rows \in [Ids -> {Rules!NoRule} \cup [status : {"valid"}, content : Contents]]
      /\ published = rows /\ refreshFailed = FALSE /\ off = {}
      /\ actor = [a \in Rules!Actors |-> Rules!Local("idle", <<>>)]
  BY DEF Rules!Init, Rules!InitialRows, Rules!Idle
<1>2. ASSUME NEW i \in Ids PROVE IsRule(rows[i])
  <2>1. IsRule(Rules!NoRule)
    BY DEF IsRule, Rules!NoRule
  <2>2. \A r \in [status : {"valid"}, content : Contents] : IsRule(r)
    BY DEF IsRule
  <2> QED BY <1>1, <2>1, <2>2
<1>3. RulesTyped
  BY <1>1, <1>2, LocalIsActor DEF RulesTyped
<1> QED BY <1>1, <1>3 DEF RulesInv, Rules!DisabledStaysOff

\* Every step keeps it.
LEMMA RulesStep == RulesInv /\ [Rules!Next]_rulesVars => RulesInv'
<1> SUFFICES ASSUME RulesInv, [Rules!Next]_rulesVars PROVE RulesInv'
  OBVIOUS
<1>1. CASE UNCHANGED rulesVars
  BY <1>1 DEF rulesVars, RulesInv, RulesTyped, Rules!DisabledStaysOff, Owed, Rules!At
<1>2. ASSUME NEW r \in Requests,
             \/ Rules!Save(r) \/ Rules!ImportRules(r) \/ Rules!RemoveRules(r)
             \/ Rules!Enable(r) \/ Rules!Disable(r)
      PROVE  RulesInv'
  BY <1>2, SaveKeeps, ImportRulesKeeps, RemoveRulesKeeps, EnableKeeps, DisableKeeps
<1>3. ASSUME NEW a \in Rules!Actors,
             \/ Rules!BeginSync(a) \/ Rules!FetchRules(a) \/ Rules!CommitAuthor(a)
             \/ Rules!AuthorFails(a) \/ Rules!EndSync(a)
             \/ Rules!Refresh(a) \/ Rules!RefreshFails(a)
      PROVE  RulesInv'
  BY <1>3, BeginSyncKeeps, FetchRulesKeeps, CommitAuthorKeeps, AuthorFailsKeeps, EndSyncKeeps,
     RefreshKeeps
<1>4. CASE Rules!Restart
  BY <1>4, RestartKeeps
<1> QED BY <1>1, <1>2, <1>3, <1>4 DEF Rules!Next

-----------------------------------------------------------------------------
(* Sessions: the inductive invariant.                                       *)

IsClient(l, issued) ==
    /\ l \in [at : {l.at}, token : {l.token}, row : {l.row}, wants : {l.wants}]
    /\ l.at = "revoke" => l.token \in issued

\* The times are numbers, and what is on the list is there with the time it expires.
UsersTyped ==
    /\ now \in Nat
    /\ \A t \in DOMAIN expiry : expiry[t] \in Nat
    /\ \A t \in DOMAIN entries : t \in DOMAIN expiry /\ entries[t] = expiry[t]
    /\ client = [c \in Clients |-> client[c]]
    /\ \A c \in Clients : IsClient(client[c], DOMAIN expiry)

\* What was logged out is on the list until it expires, unless the list lost it.
Listed ==
    \A t \in loggedOut :
        /\ t \in DOMAIN expiry
        /\ t \notin lost /\ expiry[t] > now => t \in DOMAIN entries

UsersInv == UsersTyped /\ Listed

\* The list while it is cleaned: what has not expired is left alone.
LEMMA CleanList ==
    ASSUME UsersTyped
    PROVE  LET list == Users!Clean(entries)
           IN  /\ \A t : t \in DOMAIN list <=> t \in DOMAIN entries /\ expiry[t] > now
               /\ \A t \in DOMAIN list : list[t] = expiry[t]
  BY DEF Users!Clean, Users!Keep, UsersTyped

\* So a token on the list does not verify, and one that has expired does not, either.
LEMMA LogoutHolds == UsersInv => Users!LoggedOutStaysOut
  BY CleanList DEF UsersInv, UsersTyped, Listed, Users!LoggedOutStaysOut, Users!Verify,
     Users!contains

\* A client goes on, with no token to revoke but one that was issued.
LEMMA ClientMoves ==
    ASSUME UsersTyped, NEW c \in Clients, NEW local, Users!Becomes(c, local),
           local \in [at : {local.at}, token : {local.token}, row : {local.row},
                      wants : {local.wants}],
           local.at = "revoke" => local.token \in DOMAIN expiry',
           DOMAIN expiry \subseteq DOMAIN expiry'
    PROVE  /\ client' = [d \in Clients |-> client'[d]]
           /\ \A d \in Clients : IsClient(client'[d], DOMAIN expiry')
<1>1. client' = [client EXCEPT ![c] = local]
  BY DEF Users!Becomes
<1>2. /\ client' = [d \in Clients |-> client'[d]]
      /\ client'[c] = local
      /\ \A d \in Clients \ {c} : client'[d] = client[d]
  BY <1>1 DEF UsersTyped
<1>3. \A d \in Clients \ {c} : IsClient(client[d], DOMAIN expiry)
  BY DEF UsersTyped
<1> QED BY <1>2, <1>3 DEF IsClient

\* A step of a client that looks at the list at most, and leaves the time alone.
LEMMA LookKeeps ==
    ASSUME UsersInv, NEW c \in Clients, NEW local, Users!Becomes(c, local),
           local \in [at : {local.at}, token : {local.token}, row : {local.row},
                      wants : {local.wants}],
           local.at = "revoke" => local.token \in DOMAIN expiry,
           entries' = entries \/ entries' = Users!Clean(entries),
           UNCHANGED <<now, expiry, loggedOut, lost>>
    PROVE  UsersInv'
<1>1. /\ client' = [d \in Clients |-> client'[d]]
      /\ \A d \in Clients : IsClient(client'[d], DOMAIN expiry')
  BY ClientMoves DEF UsersInv
<1>2. /\ \A t \in DOMAIN entries' : t \in DOMAIN entries /\ entries'[t] = expiry[t]
      /\ \A t \in DOMAIN entries : expiry[t] > now => t \in DOMAIN entries'
  BY CleanList DEF UsersInv, UsersTyped
<1>3. UsersTyped'
  BY <1>1, <1>2 DEF UsersInv, UsersTyped
<1>4. Listed'
  BY <1>2 DEF UsersInv, Listed
<1> QED BY <1>3, <1>4 DEF UsersInv

\* The locals of a request.
LEMMA LocalIsClient ==
    ASSUME NEW at, NEW token, NEW row
    PROVE  LET l == Users!Local(at, token, row)
           IN  /\ l \in [at : {l.at}, token : {l.token}, row : {l.row}, wants : {l.wants}]
               /\ l.at = at /\ l.token = token
  BY DEF Users!Local

\* Requests that read and write the row of the user.
LEMMA RowStepsKeep ==
    ASSUME UsersInv, NEW c \in Clients,
           Users!Find(c) \/ Users!Upgrade(c) \/ Users!Get(c) \/ Users!Upsert(c)
    PROVE  UsersInv'
<1>1. UNCHANGED <<now, expiry, loggedOut, lost>> /\ entries' = entries
  BY DEF Users!Find, Users!Upgrade, Users!Get, Users!Upsert
<1>2. PICK l : Users!Becomes(c, l)
               /\ l \in [at : {l.at}, token : {l.token}, row : {l.row}, wants : {l.wants}]
               /\ l.at # "revoke"
  <2>1. client[c] \in [at : {client[c].at}, token : {client[c].token},
                       row : {client[c].row}, wants : {client[c].wants}]
    BY DEF UsersInv, UsersTyped, IsClient
  <2>2. CASE Users!Find(c)
    BY <2>2, LocalIsClient DEF Users!Find
  <2>3. CASE Users!Upgrade(c)
    <3>1. \/ Users!Becomes(c, Users!Local("idle", Nothing, Nothing))
          \/ Users!Becomes(c, [client[c] EXCEPT !.at = "issue"])
      BY <2>3 DEF Users!Upgrade, Users!Quiet
    <3>2. LET l == [client[c] EXCEPT !.at = "issue"]
          IN  /\ l \in [at : {l.at}, token : {l.token}, row : {l.row}, wants : {l.wants}]
              /\ l.at = "issue"
      BY <2>1
    <3> QED BY <3>1, <3>2, LocalIsClient
  <2>4. CASE Users!Get(c)
    <3>1. PICK new : Users!Becomes(c, [client[c] EXCEPT !.at = "upsert", !.row = user,
                                                        !.wants = new])
      BY <2>4 DEF Users!Get
    <3>2. LET l == [client[c] EXCEPT !.at = "upsert", !.row = user, !.wants = new]
          IN  /\ l \in [at : {l.at}, token : {l.token}, row : {l.row}, wants : {l.wants}]
              /\ l.at = "upsert"
      BY <2>1
    <3> QED BY <3>1, <3>2
  <2>5. CASE Users!Upsert(c)
    BY <2>5, LocalIsClient DEF Users!Upsert, Users!Quiet
  <2> QED BY <2>2, <2>3, <2>4, <2>5
<1> QED BY <1>1, <1>2, LookKeeps

\* A new token takes no time from those issued before it.
LEMMA IssueKeeps == ASSUME UsersInv, NEW c \in Clients, Users!Issue(c) PROVE UsersInv'
<1>1. PICK t \in Tokens \ DOMAIN expiry :
         expiry' = [s \in DOMAIN expiry \cup {t} |->
                       IF s = t THEN now + Lifetime ELSE expiry[s]]
  BY DEF Users!Issue
<1>2. /\ Users!Becomes(c, Users!Local("idle", Nothing, Nothing))
      /\ UNCHANGED <<now, entries, loggedOut, lost>>
  BY DEF Users!Issue, Users!Quiet
<1>3. /\ DOMAIN expiry \subseteq DOMAIN expiry'
      /\ \A s \in DOMAIN expiry : expiry'[s] = expiry[s]
  BY <1>1
<1>4. \A s \in DOMAIN expiry' : expiry'[s] \in Nat
  BY <1>1, LifetimeAssumption DEF UsersInv, UsersTyped
<1>5. /\ client' = [d \in Clients |-> client'[d]]
      /\ \A d \in Clients : IsClient(client'[d], DOMAIN expiry')
  BY <1>2, <1>3, ClientMoves, LocalIsClient DEF UsersInv
<1>6. UsersTyped'
  BY <1>2, <1>3, <1>4, <1>5 DEF UsersInv, UsersTyped
<1>7. Listed'
  BY <1>2, <1>3 DEF UsersInv, Listed
<1> QED BY <1>6, <1>7 DEF UsersInv

\* Require puts an issued token into the context.
LEMMA RequireKeeps == ASSUME UsersInv, NEW c \in Clients, Users!Require(c) PROVE UsersInv'
<1>1. PICK t \in DOMAIN expiry, place \in {"get", "revoke"} :
         Users!Becomes(c, Users!Local(place, t, Nothing))
  BY DEF Users!Require
<1>2. entries' = Users!Clean(entries) /\ UNCHANGED <<now, expiry, loggedOut, lost>>
  BY DEF Users!Require
<1> QED BY <1>1, <1>2, LocalIsClient, LookKeeps

\* Logout lists its token, and what it evicts counts as lost.
LEMMA RevokeKeeps == ASSUME UsersInv, NEW c \in Clients, Users!Revoke(c) PROVE UsersInv'
<1> DEFINE t    == client[c].token
           list == Users!Clean(entries)
<1>1. PICK evicted \in Users!Evictions(list) :
         /\ entries' = [s \in (DOMAIN list \ evicted) \cup {t} |-> expiry[s]]
         /\ lost' = (lost \cup evicted) \ {t}
         /\ loggedOut' = loggedOut \cup {t}
  BY DEF Users!Revoke
<1>2. /\ Users!At(c, "revoke") /\ Users!Becomes(c, Users!Local("idle", Nothing, Nothing))
      /\ UNCHANGED <<now, expiry>>
  BY DEF Users!Revoke, Users!Quiet
<1>3. t \in DOMAIN expiry
  BY <1>2 DEF UsersInv, UsersTyped, IsClient, Users!At
<1>4. \A s : s \in DOMAIN list <=> s \in DOMAIN entries /\ expiry[s] > now
  BY CleanList DEF UsersInv
<1> HIDE DEF t, list
<1>5. \A s \in DOMAIN entries' : s \in DOMAIN expiry' /\ entries'[s] = expiry'[s]
  BY <1>1, <1>2, <1>3, <1>4 DEF UsersInv, UsersTyped
<1>6. UsersTyped'
  BY <1>2, <1>5, ClientMoves, LocalIsClient DEF UsersInv, UsersTyped
<1>7. Listed'
  <2>1. DOMAIN entries' = (DOMAIN list \ evicted) \cup {t}
    BY <1>1
  <2> QED BY <1>1, <1>2, <1>3, <1>4, <2>1 DEF UsersInv, Listed
<1> QED BY <1>6, <1>7 DEF UsersInv

\* Time passes: fewer tokens have to be on the list.
LEMMA TickKeeps == ASSUME UsersInv, Users!Tick PROVE UsersInv'
<1>1. now' = now + 1 /\ UNCHANGED <<expiry, entries, client, loggedOut, lost>>
  BY DEF Users!Tick
<1>2. UsersTyped'
  BY <1>1 DEF UsersInv, UsersTyped
<1>3. Listed'
  BY <1>1 DEF UsersInv, UsersTyped, Listed
<1> QED BY <1>2, <1>3 DEF UsersInv

\* A restart loses the list.
LEMMA RestartProcessKeeps == ASSUME UsersInv, Users!RestartProcess PROVE UsersInv'
<1>1. /\ entries' = <<>> /\ lost' = lost \cup DOMAIN entries
      /\ client' = [c \in Clients |-> Users!Local("idle", Nothing, Nothing)]
      /\ UNCHANGED <<now, expiry, loggedOut>>
  BY DEF Users!RestartProcess, Users!Quiet
<1>2. DOMAIN entries' = {}
  BY <1>1
<1>3. \A c \in Clients : IsClient(client'[c], DOMAIN expiry')
  BY <1>1, LocalIsClient DEF IsClient
<1>4. UsersTyped'
  BY <1>1, <1>2, <1>3 DEF UsersInv, UsersTyped
<1>5. Listed'
  BY <1>1 DEF UsersInv, Listed
<1> QED BY <1>4, <1>5 DEF UsersInv

\* Nobody is logged in at the beginning.
LEMMA UsersBegin == ASSUME Users!Init PROVE UsersInv
<1>1. /\ now = 1 /\ DOMAIN expiry = {} /\ DOMAIN entries = {} /\ loggedOut = {}
      /\ client = [c \in Clients |-> Users!Local("idle", Nothing, Nothing)]
  BY DEF Users!Init, Users!Quiet
<1>2. \A c \in Clients : IsClient(client[c], DOMAIN expiry)
  BY <1>1, LocalIsClient DEF IsClient
<1> QED BY <1>1, <1>2 DEF UsersInv, UsersTyped, Listed

\* Every step keeps the invariant of the sessions.
LEMMA UsersStep == UsersInv /\ [Users!Next]_usersVars => UsersInv'
<1> SUFFICES ASSUME UsersInv, [Users!Next]_usersVars PROVE UsersInv'
  OBVIOUS
<1>1. CASE UNCHANGED usersVars
  BY <1>1 DEF usersVars, UsersInv, UsersTyped, IsClient, Listed
<1>2. ASSUME NEW c \in Clients,
             \/ Users!Find(c) \/ Users!Upgrade(c) \/ Users!Issue(c) \/ Users!Require(c)
             \/ Users!Get(c) \/ Users!Upsert(c) \/ Users!Revoke(c)
      PROVE  UsersInv'
  BY <1>2, RowStepsKeep, IssueKeeps, RequireKeeps, RevokeKeeps
<1>3. CASE Users!Tick \/ Users!RestartProcess
  BY <1>3, TickKeeps, RestartProcessKeeps
<1> QED BY <1>1, <1>2, <1>3 DEF Users!Next

-----------------------------------------------------------------------------
(* The theorems.                                                            *)

\* A step of one of the two leaves the other alone.
LEMMA Parts == [Next]_vars => [Rules!Next]_rulesVars /\ [Users!Next]_usersVars
  BY DEF Next, RulesNext, UsersNext, vars, rulesVars, usersVars

\* The invariant of the rules, of the specification.
LEMMA RulesInvariant == Spec => []RulesInv
<1>1. Init => RulesInv
  BY RulesBegin DEF Init
<1>2. RulesInv /\ [Next]_vars => RulesInv'
  BY Parts, RulesStep
<1> QED BY <1>1, <1>2, PTL DEF Spec

\* A rule that an operator disabled stays disabled, whatever its authors publish: the
\* upsert of remote rules keeps an invalid row invalid (remoteStatus, UpsertRemote*Rules).
THEOREM OperatorsDecide == Spec => []DisabledStaysOff
<1>1. RulesInv => DisabledStaysOff
  BY DEF RulesInv, DisabledStaysOff
<1> QED BY <1>1, RulesInvariant, PTL

\* Committed rules that are not published are owed by somebody, or a refresh has failed:
\* who commits rules goes on to a refresh, also after the failure of an author
\* (Sync, done, ruleSyncTask).
THEOREM CommitsAreServed == Spec => []CommittedRulesAreServed
<1>1. RulesInv => CommittedRulesAreServed
  BY DEF RulesInv, Owed, CommittedRulesAreServed, Rules!CommittedRulesAreServed
<1> QED BY <1>1, RulesInvariant, PTL

\* A token that was logged out lets nobody in before it expires, while the list has it:
\* neither the cleaning nor another logout takes it off too early (auth/revocation.go).
THEOREM LogoutsHold == Spec => []LoggedOutStaysOut
<1>1. Init => UsersInv
  BY UsersBegin DEF Init
<1>2. UsersInv /\ [Next]_vars => UsersInv'
  BY Parts, UsersStep
<1>3. UsersInv => LoggedOutStaysOut
  BY LogoutHolds DEF LoggedOutStaysOut
<1> QED BY <1>1, <1>2, <1>3, PTL DEF Spec
=============================================================================
