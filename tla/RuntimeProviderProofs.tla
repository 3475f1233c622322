------------------------ MODULE RuntimeProviderProofs ------------------------
(***************************************************************************)
(* Proofs about RuntimeProvider, for any number of handlers and clients and *)
(* any bounds.                                                              *)
(***************************************************************************)
EXTENDS RuntimeProvider, TLAPS

-----------------------------------------------------------------------------
(* The publication function.                                                *)

\* Every part of the formatter data is covered by some set of parts.
LEMMA CoversType == Covers \in [Revisions -> SUBSET Parts]
BY DEF Covers, Revisions, Parts

\* snapshotFromSQLite replaces exactly the parts in scope and advances exactly
\* the revisions that cover one of them.
LEMMA SnapshotFacts ==
    ASSUME NEW loaded \in Versions, NEW previous \in Snapshots, NEW S \in SUBSET Parts
    PROVE  LET next == SnapshotFromSQLite(loaded, previous, S)
           IN /\ next \in Snapshots
              /\ \A p \in S : next.parts[p] = loaded[p]
              /\ \A p \in Parts \ S : next.parts[p] = previous.parts[p]
              /\ \A r \in Revisions :
                    IF S \cap Covers[r] = {}
                    THEN next.revision[r] = previous.revision[r]
                    ELSE next.revision[r] > previous.revision[r]
<1> DEFINE next == SnapshotFromSQLite(loaded, previous, S)
<1>1. \A r \in Revisions : Bump(r, S) \in Nat
  BY DEF Bump, One
<1>2. next \in Snapshots
  BY <1>1 DEF SnapshotFromSQLite, Snapshots, Versions
<1>3. \A p \in S : next.parts[p] = loaded[p]
  BY DEF SnapshotFromSQLite
<1>4. \A p \in Parts \ S : next.parts[p] = previous.parts[p]
  BY DEF SnapshotFromSQLite
<1>5. ASSUME NEW r \in Revisions
      PROVE  IF S \cap Covers[r] = {}
             THEN next.revision[r] = previous.revision[r]
             ELSE next.revision[r] > previous.revision[r]
  <2>1. next.revision[r] = previous.revision[r] + Bump(r, S)
    BY DEF SnapshotFromSQLite
  <2>2. previous.revision[r] \in Nat
    BY DEF Snapshots
  <2>3. CASE S \cap Covers[r] = {}
    <3>1. Bump(r, S) = 0
      BY <2>3 DEF Bump, One
    <3> QED BY <2>1, <2>2, <2>3, <3>1
  <2>4. CASE S \cap Covers[r] # {}
    <3>1. "config" \in S \cap Covers[r] \/ (S \cap Covers[r]) \ {"config"} # {}
      BY <2>4
    <3>2. Bump(r, S) >= 1
      BY <3>1 DEF Bump, One
    <3> QED BY <1>1, <2>1, <2>2, <2>4, <3>2
  <2> QED BY <2>3, <2>4
<1> QED BY <1>2, <1>3, <1>4, <1>5

\* The newer of two versions is a version, and not older than either.
LEMMA LargerFacts ==
    ASSUME NEW a \in Nat, NEW b \in Nat
    PROVE  Larger(a, b) \in {a, b} /\ Larger(a, b) >= a /\ Larger(a, b) >= b
BY DEF Larger

-----------------------------------------------------------------------------
(* Type correctness.                                                        *)

\* What every answer of a handler does to the types.
LEMMA ReturnType ==
    ASSUME TypeOK, NEW h \in Handlers, Return(h)
    PROVE  /\ pc' \in [Handlers -> HandlerStates]
           /\ scopes' \in [Handlers -> SUBSET Parts]
           /\ source' \in [Handlers -> Versions]
           /\ wrote' \in [Handlers -> Nat]
           /\ handlerMu' \in Handlers \cup {None}
<1>1. InitialRows \in Versions
  BY DEF InitialRows, Versions
<1> QED BY <1>1 DEF Return, TypeOK, HandlerStates

\* What an answer records about the handler's write.
LEMMA RecordType ==
    ASSUME TypeOK, NEW h \in Handlers, NEW answers \in Versions
    PROVE  Record(answers, h) \in Versions
<1>1. ASSUME NEW p \in Parts
      PROVE  Larger(answers[p], wrote[h]) \in Nat
  BY DEF Larger, TypeOK, Versions
<1> QED BY <1>1 DEF Record, Versions

\* Storing a snapshot computed from typed arguments keeps the types.
LEMMA PublishType ==
    ASSUME TypeOK, NEW loaded \in Versions, NEW S \in SUBSET Parts,
           Publish(SnapshotFromSQLite(loaded, current, S))
    PROVE  /\ current' \in Snapshots
           /\ published' \subseteq Snapshots
           /\ \A r \in Revisions : current'.revision[r] > 0
<1> DEFINE next == SnapshotFromSQLite(loaded, current, S)
<1>1. /\ next \in Snapshots
      /\ \A r \in Revisions : next.revision[r] >= current.revision[r]
  <2>1. current \in Snapshots
    BY DEF TypeOK
  <2>2. \A r \in Revisions : current.revision[r] \in Nat
    BY <2>1 DEF Snapshots
  <2>3. next \in Snapshots
    BY <2>1, SnapshotFacts
  <2>4. \A r \in Revisions : next.revision[r] \in Nat
    BY <2>3 DEF Snapshots
  <2>5. ASSUME NEW r \in Revisions PROVE next.revision[r] >= current.revision[r]
    BY <2>1, <2>2, <2>4, SnapshotFacts
  <2> QED BY <2>3, <2>5
<1>2. current' = next /\ published' = published \cup {next}
  BY DEF Publish
<1>3. \A r \in Revisions : current.revision[r] \in Nat /\ current.revision[r] > 0
  BY DEF TypeOK, Snapshots
<1>4. \A r \in Revisions : next.revision[r] \in Nat
  BY <1>1 DEF Snapshots
<1> HIDE DEF next
<1> QED BY <1>1, <1>2, <1>3, <1>4 DEF TypeOK

\* The variables always have their types, and no published revision is 0.
LEMMA TypeStep == TypeOK /\ [Next]_vars => TypeOK'
<1> SUFFICES ASSUME TypeOK, [Next]_vars PROVE TypeOK'
  OBVIOUS
<1> USE PartiesAssumption, ScopesAssumption DEF HandlerStates, ClientStates
<1>1. ASSUME NEW h \in Handlers, BeginUpdate(h) PROVE TypeOK'
  BY <1>1 DEF TypeOK, BeginUpdate, TakeHandlerMu, storeVars, providerVars, clientVars
<1>2. ASSUME NEW h \in Handlers, RejectUpdate(h) PROVE TypeOK'
  BY <1>2, ReturnType, RecordType DEF TypeOK, RejectUpdate, Fail, providerVars, clientVars
<1>3. ASSUME NEW h \in Handlers, CommitUpdate(h) PROVE TypeOK'
  BY <1>3 DEF TypeOK, CommitUpdate, Versions, Parts, providerVars, clientVars
<1>4. ASSUME NEW h \in Handlers, PublishPrepared(h) PROVE TypeOK'
  <2>1. source[h] \in Versions /\ {"config"} \in SUBSET Parts
    BY DEF TypeOK, Parts
  <2> QED BY <1>4, <2>1, PublishType, ReturnType, RecordType
          DEF TypeOK, PublishPrepared, Succeed, clientVars
<1>5. ASSUME NEW h \in Handlers, NEW p \in EditedParts, CommitRows(h, p) PROVE TypeOK'
  BY <1>5 DEF TypeOK, CommitRows, Versions, providerVars, clientVars
<1>6. ASSUME NEW h \in Handlers, NEW S \in ClearScopes, BeginClear(h, S) PROVE TypeOK'
  BY <1>6 DEF TypeOK, BeginClear, TakeHandlerMu, storeVars, providerVars, clientVars
<1>7. ASSUME NEW h \in Handlers, RefreshNothing(h) PROVE TypeOK'
  BY <1>7, ReturnType, RecordType DEF TypeOK, RefreshNothing, Succeed, providerVars, clientVars
<1>8. ASSUME NEW h \in Handlers, RefreshLock(h) PROVE TypeOK'
  BY <1>8 DEF TypeOK, RefreshLock, storeVars, clientVars
<1>9. ASSUME NEW h \in Handlers, RefreshLoad(h) PROVE TypeOK'
  BY <1>9 DEF TypeOK, RefreshLoad, storeVars, providerVars, clientVars
<1>10. ASSUME NEW h \in Handlers, RefreshPublish(h) PROVE TypeOK'
  <2>1. source[h] \in Versions /\ scopes[h] \in SUBSET Parts
    BY DEF TypeOK
  <2> QED BY <1>10, <2>1, PublishType, ReturnType, RecordType
          DEF TypeOK, RefreshPublish, Succeed, clientVars
<1>11. ASSUME NEW h \in Handlers, RefreshFails(h) PROVE TypeOK'
  BY <1>11, ReturnType, RecordType DEF TypeOK, RefreshFails, Fail, clientVars
<1>12. ASSUME NEW c \in Clients, NEW kind \in {"qbittorrent", "transmission"},
              Capture(c, kind)
       PROVE  TypeOK'
  <2>1. current.revision[kind] \in Nat /\ current.parts["config"] \in Nat
    BY DEF TypeOK, Snapshots, Versions, Revisions, Parts
  <2> QED BY <1>12, <2>1
          DEF TypeOK, Capture, Captures, storeVars, providerVars, handlerVars
<1>13. ASSUME NEW c \in Clients, ClientStep(c) PROVE TypeOK'
  BY <1>13 DEF TypeOK, ClientStep, Admit, RefuseStale, BeginReturns,
               storeVars, providerVars, handlerVars
<1>14. CASE UNCHANGED vars
  BY <1>14 DEF TypeOK, vars, storeVars, providerVars, handlerVars, clientVars
<1> QED BY <1>1, <1>2, <1>3, <1>4, <1>5, <1>6, <1>7, <1>8, <1>9, <1>10, <1>11,
           <1>12, <1>13, <1>14 DEF Next, Arrival, HandlerStep

\* NewProvider starts every revision above 0.
LEMMA TypeInit == Init => TypeOK
<1> SUFFICES ASSUME Init PROVE TypeOK
  OBVIOUS
<1>1. InitialRows \in Versions /\ ZeroSnapshot \in Snapshots /\ Parts \in SUBSET Parts
  BY DEF InitialRows, ZeroSnapshot, Versions, Snapshots
<1>2. current \in Snapshots
  BY <1>1, SnapshotFacts DEF Init, NewProvider
<1>3. ASSUME NEW r \in Revisions PROVE current.revision[r] > 0
  <2>1. Parts \cap Covers[r] # {}
    BY DEF Parts, Covers, Revisions
  <2>2. ZeroSnapshot.revision[r] = 0
    BY DEF ZeroSnapshot
  <2> QED BY <1>1, <2>1, <2>2, SnapshotFacts DEF Init, NewProvider
<1> QED BY <1>1, <1>2, <1>3
        DEF Init, NewProvider, TypeOK, HandlerStates, ClientStates, Captures, Versions

\* Every variable always has its type, and no published revision is ever 0, the
\* value that means "no session" to the downloader clients.
THEOREM TypeCorrect == Spec => []TypeOK
BY TypeInit, TypeStep, PTL DEF Spec

-----------------------------------------------------------------------------
(* The inductive invariant.                                                 *)

\* Who holds which mutex in which state.
MutexInv ==
    /\ \A h \in Handlers :
          /\ pc[h] \in {"loading", "loaded"} => providerMu = h
          /\ pc[h] \in {"update", "prepared"} => handlerMu = h
    /\ \A c \in Clients : clientPc[c] = "admitted" => providerMu = c

\* What a handler remembers of its own commit.
WroteInv ==
    \A h \in Handlers :
        /\ pc[h] \in {"idle", "update"} => scopes[h] = {} /\ wrote[h] = 0
        /\ pc[h] = "prepared" =>
              /\ scopes[h] = {"config"}
              /\ source[h]["config"] = rows["config"]
              /\ wrote[h] = rows["config"]
        /\ \A p \in scopes[h] : wrote[h] <= rows[p]

\* A snapshot that is about to be published is not older than the current one.
LoadedInv ==
    \A h \in Handlers : pc[h] = "loaded" =>
        /\ \A p \in Parts : current.parts[p] <= source[h][p] /\ source[h][p] <= rows[p]
        /\ \A p \in scopes[h] : wrote[h] <= source[h][p]

\* The published versions lie between the acknowledged and the committed ones.
VersionInv ==
    \A p \in Parts :
        /\ acked[p] <= current.parts[p]
        /\ current.parts[p] <= rows[p]
        /\ failed[p] <= rows[p]

\* The newest commit of a part is visible, in somebody's hands, or reported.
DecidedInv ==
    \A p \in Parts :
        \/ current.parts[p] = rows[p]
        \/ Publishing(p, rows[p])
        \/ failed[p] = rows[p]

\* Older snapshots have smaller revisions, or the same covered data.
HistoryInv ==
    /\ current \in published
    /\ \A s \in published : \A r \in Revisions :
          /\ s.revision[r] <= current.revision[r]
          /\ s.revision[r] = current.revision[r] =>
                \A p \in Covers[r] : s.parts[p] = current.parts[p]

\* What a client has captured is the published configuration or an older one.
FrozenInv ==
    \A c \in Clients : clientPc[c] # "idle" =>
        LET r == frozen[c].kind IN
        /\ frozen[c].revision <= current.revision[r]
        /\ frozen[c].revision = current.revision[r] =>
              frozen[c].config = current.parts["config"]
        /\ clientPc[c] = "admitted" => frozen[c].revision = current.revision[r]

IInv ==
    /\ MutexInv
    /\ WroteInv
    /\ LoadedInv
    /\ VersionInv
    /\ DecidedInv
    /\ HistoryInv
    /\ RevisionIdentifiesContent
    /\ FrozenInv

\* A publication from versions that are not older moves every part and every
\* revision forward, and leaves alone the parts of a revision it does not move.
LEMMA PublishForward ==
    ASSUME TypeOK, NEW loaded \in Versions, NEW S \in SUBSET Parts,
           Publish(SnapshotFromSQLite(loaded, current, S)),
           \A p \in S : current.parts[p] <= loaded[p]
    PROVE  /\ current' \in Snapshots
           /\ \A p \in Parts : current.parts[p] <= current'.parts[p]
           /\ \A p \in S : current'.parts[p] = loaded[p]
           /\ \A p \in Parts \ S : current'.parts[p] = current.parts[p]
           /\ \A r \in Revisions :
                 /\ current.revision[r] <= current'.revision[r]
                 /\ current.revision[r] = current'.revision[r] =>
                       \A p \in Covers[r] : current.parts[p] = current'.parts[p]
<1> DEFINE next == SnapshotFromSQLite(loaded, current, S)
<1>1. current' = next /\ current \in Snapshots
  BY DEF Publish, TypeOK
<1>2. /\ next \in Snapshots
      /\ \A p \in S : next.parts[p] = loaded[p]
      /\ \A p \in Parts \ S : next.parts[p] = current.parts[p]
      /\ \A r \in Revisions :
            IF S \cap Covers[r] = {}
            THEN next.revision[r] = current.revision[r]
            ELSE next.revision[r] > current.revision[r]
  BY <1>1, SnapshotFacts
<1> HIDE DEF next
<1>3. \A r \in Revisions : current.revision[r] \in Nat /\ next.revision[r] \in Nat
  BY <1>1, <1>2 DEF Snapshots
<1>4. \A p \in Parts : current.parts[p] \in Nat /\ next.parts[p] \in Nat
  BY <1>1, <1>2 DEF Snapshots, Versions
<1>5. \A p \in Parts : current.parts[p] <= next.parts[p]
  BY <1>2, <1>4
<1>6. ASSUME NEW r \in Revisions
      PROVE  /\ current.revision[r] <= next.revision[r]
             /\ current.revision[r] = next.revision[r] =>
                   \A p \in Covers[r] : current.parts[p] = next.parts[p]
  <2>1. CASE S \cap Covers[r] = {}
    <3>1. \A p \in Covers[r] : p \in Parts \ S
      BY <2>1, CoversType
    <3> QED BY <1>2, <1>3, <2>1, <3>1
  <2>2. CASE S \cap Covers[r] # {}
    BY <1>2, <1>3, <2>2
  <2> QED BY <2>1, <2>2
<1> QED BY <1>1, <1>2, <1>5, <1>6

\* Storing such a snapshot keeps the history consistent.
LEMMA PublishHistory ==
    ASSUME TypeOK, HistoryInv, RevisionIdentifiesContent,
           NEW next \in Snapshots, Publish(next),
           \A r \in Revisions :
               /\ current.revision[r] <= next.revision[r]
               /\ current.revision[r] = next.revision[r] =>
                     \A p \in Covers[r] : current.parts[p] = next.parts[p]
    PROVE  HistoryInv' /\ RevisionIdentifiesContent'
<1>1. current' = next /\ published' = published \cup {next}
  BY DEF Publish
<1>2. \A s \in published, r \in Revisions : s.revision[r] \in Nat
  BY DEF TypeOK, Snapshots
<1>3. \A r \in Revisions : current.revision[r] \in Nat /\ next.revision[r] \in Nat
  BY DEF TypeOK, Snapshots
<1>4. ASSUME NEW s \in published, NEW r \in Revisions
      PROVE  /\ s.revision[r] <= next.revision[r]
             /\ s.revision[r] = next.revision[r] =>
                   \A p \in Covers[r] : s.parts[p] = next.parts[p]
  <2>1. /\ s.revision[r] <= current.revision[r]
        /\ s.revision[r] = current.revision[r] =>
              \A p \in Covers[r] : s.parts[p] = current.parts[p]
    BY DEF HistoryInv
  <2> QED BY <1>2, <1>3, <2>1
<1>5. ASSUME NEW s \in published', NEW r \in Revisions
      PROVE  /\ s.revision[r] <= next.revision[r]
             /\ s.revision[r] = next.revision[r] =>
                   \A p \in Covers[r] : s.parts[p] = next.parts[p]
  BY <1>1, <1>3, <1>4
<1>6. HistoryInv'
  BY <1>1, <1>5 DEF HistoryInv
<1>7. ASSUME NEW s \in published', NEW t \in published', NEW r \in Revisions,
             s.revision[r] = t.revision[r], NEW p \in Covers[r]
      PROVE  s.parts[p] = t.parts[p]
  <2>1. CASE s \in published /\ t \in published
    BY <1>7, <2>1 DEF RevisionIdentifiesContent
  <2>2. CASE s = next \/ t = next
    BY <1>5, <1>7, <2>2
  <2> QED BY <1>1, <2>1, <2>2
<1>8. RevisionIdentifiesContent'
  BY <1>7 DEF RevisionIdentifiesContent
<1> QED BY <1>6, <1>8

\* A captured configuration stays the published one or an older one.
LEMMA PublishFrozen ==
    ASSUME TypeOK, FrozenInv, MutexInv, UNCHANGED <<clientPc, frozen>>,
           \A c \in Clients : providerMu # c,
           current' \in Snapshots,
           \A r \in Revisions :
               /\ current.revision[r] <= current'.revision[r]
               /\ current.revision[r] = current'.revision[r] =>
                     \A p \in Covers[r] : current.parts[p] = current'.parts[p]
    PROVE  FrozenInv'
<1> SUFFICES ASSUME NEW c \in Clients, clientPc[c] # "idle"
             PROVE  /\ frozen[c].revision <= current'.revision[frozen[c].kind]
                    /\ frozen[c].revision = current'.revision[frozen[c].kind] =>
                          frozen[c].config = current'.parts["config"]
                    /\ clientPc[c] # "admitted"
  BY DEF FrozenInv
<1> DEFINE r == frozen[c].kind
<1>1. /\ r \in Revisions /\ "config" \in Covers[r]
      /\ frozen[c].revision \in Nat
  BY DEF TypeOK, Captures, Revisions, Covers
<1>2. current.revision[r] \in Nat /\ current'.revision[r] \in Nat
  BY <1>1 DEF TypeOK, Snapshots
<1>3. /\ frozen[c].revision <= current.revision[r]
      /\ frozen[c].revision = current.revision[r] =>
            frozen[c].config = current.parts["config"]
  BY DEF FrozenInv
<1>4. /\ current.revision[r] <= current'.revision[r]
      /\ current.revision[r] = current'.revision[r] =>
            current.parts["config"] = current'.parts["config"]
  BY <1>1
<1>5. clientPc[c] # "admitted"
  BY DEF MutexInv
<1> HIDE DEF r
<1>6. /\ frozen[c].revision <= current'.revision[r]
      /\ frozen[c].revision = current'.revision[r] =>
            frozen[c].config = current'.parts["config"]
  BY <1>1, <1>2, <1>3, <1>4
<1> QED BY <1>5, <1>6 DEF r

\* Steps that neither publish nor commit leave the history and the captured
\* configurations as they are.
LEMMA QuietHistory ==
    ASSUME HistoryInv, RevisionIdentifiesContent, UNCHANGED <<current, published>>
    PROVE  HistoryInv' /\ RevisionIdentifiesContent'
BY DEF HistoryInv, RevisionIdentifiesContent

\* The same for what the clients have captured, when they capture nothing.
LEMMA QuietFrozen ==
    ASSUME FrozenInv, UNCHANGED <<current, clientPc, frozen>>
    PROVE  FrozenInv'
BY DEF FrozenInv

\* What an answer records lies between what was recorded and what was written.
LEMMA RecordFacts ==
    ASSUME TypeOK, NEW h \in Handlers, NEW answers \in Versions, NEW p \in Parts
    PROVE  /\ p \notin scopes[h] => Record(answers, h)[p] = answers[p]
           /\ p \in scopes[h] =>
                 /\ Record(answers, h)[p] \in {answers[p], wrote[h]}
                 /\ Record(answers, h)[p] >= answers[p]
                 /\ Record(answers, h)[p] >= wrote[h]
BY LargerFacts DEF Record, TypeOK, Versions

\* A publication and the successful answer that follows it in the same step.
LEMMA PublishSucceeds ==
    ASSUME TypeOK, IInv, NEW h \in Handlers, pc[h] # "idle",
           NEW loaded \in Versions, NEW S \in SUBSET Parts, scopes[h] = S,
           Publish(SnapshotFromSQLite(loaded, current, S)),
           \A p \in S : current.parts[p] <= loaded[p] /\ loaded[p] <= rows[p],
           \A p \in S : wrote[h] <= loaded[p],
           \A g \in Handlers : g # h => pc[g] # "loaded",
           Succeed(h)
    PROVE  /\ WroteInv'
           /\ LoadedInv'
           /\ VersionInv'
           /\ DecidedInv'
<1>1. /\ current' \in Snapshots
      /\ \A p \in Parts : current.parts[p] <= current'.parts[p]
      /\ \A p \in S : current'.parts[p] = loaded[p]
      /\ \A p \in Parts \ S : current'.parts[p] = current.parts[p]
  BY PublishForward
<1>2. /\ rows' = rows /\ failed' = failed /\ acked' = Record(acked, h)
      /\ pc' = [pc EXCEPT ![h] = "idle"]
      /\ scopes' = [scopes EXCEPT ![h] = {}]
      /\ source' = [source EXCEPT ![h] = InitialRows]
      /\ wrote' = [wrote EXCEPT ![h] = 0]
  BY DEF Succeed, Return
<1>3. \A p \in Parts : /\ current.parts[p] \in Nat /\ current'.parts[p] \in Nat
                        /\ rows[p] \in Nat /\ acked[p] \in Nat /\ failed[p] \in Nat
                        /\ loaded[p] \in Nat
  BY <1>1 DEF TypeOK, Snapshots, Versions
<1>4. wrote[h] \in Nat
  BY DEF TypeOK
<1>5. WroteInv'
  BY <1>2, <1>3 DEF WroteInv, IInv, TypeOK
<1>6. LoadedInv'
  BY <1>2 DEF LoadedInv, IInv, TypeOK
<1>7. VersionInv'
  <2> SUFFICES ASSUME NEW p \in Parts
               PROVE  /\ acked'[p] <= current'.parts[p]
                      /\ current'.parts[p] <= rows[p]
                      /\ failed[p] <= rows[p]
    BY <1>2 DEF VersionInv
  <2>1. /\ acked[p] <= current.parts[p]
        /\ current.parts[p] <= rows[p]
        /\ failed[p] <= rows[p]
    BY DEF IInv, VersionInv
  <2>2. /\ p \notin S => acked'[p] = acked[p]
        /\ p \in S => acked'[p] \in {acked[p], wrote[h]}
    BY <1>2, RecordFacts DEF TypeOK
  <2>3. CASE p \in S
    BY <1>1, <1>3, <1>4, <2>1, <2>2, <2>3
  <2>4. CASE p \notin S
    BY <1>1, <1>3, <2>1, <2>2, <2>4
  <2> QED BY <2>3, <2>4
<1>8. DecidedInv'
  <2> SUFFICES ASSUME NEW p \in Parts, current'.parts[p] # rows[p], failed[p] # rows[p]
               PROVE  Publishing(p, rows[p])'
    BY <1>2 DEF DecidedInv
  <2>1. current.parts[p] # rows[p]
    <3>1. current.parts[p] <= rows[p]
      BY DEF IInv, VersionInv
    <3>2. current'.parts[p] <= rows[p]
      BY <1>1, <1>3, <3>1
    <3> QED BY <1>1, <1>3, <3>2
  <2>2. PICK g \in Handlers : pc[g] # "idle" /\ p \in scopes[g] /\ wrote[g] = rows[p]
    BY <2>1 DEF IInv, DecidedInv, Publishing
  <2>3. g # h
    <3> SUFFICES ASSUME g = h PROVE FALSE
      OBVIOUS
    <3>1. p \in S /\ wrote[h] = rows[p]
      BY <2>2
    <3> QED BY <1>1, <1>3, <3>1
  <2> QED BY <1>2, <2>2, <2>3 DEF Publishing, TypeOK
<1> QED BY <1>5, <1>6, <1>7, <1>8

\* An answer that follows no publication: what the handler committed, if it did,
\* is recorded as failed.
LEMMA FailReports ==
    ASSUME TypeOK, IInv, NEW h \in Handlers, Fail(h), UNCHANGED current
    PROVE  /\ WroteInv'
           /\ LoadedInv'
           /\ VersionInv'
           /\ DecidedInv'
<1>2. /\ rows' = rows /\ acked' = acked /\ failed' = Record(failed, h)
      /\ pc' = [pc EXCEPT ![h] = "idle"]
      /\ scopes' = [scopes EXCEPT ![h] = {}]
      /\ source' = [source EXCEPT ![h] = InitialRows]
      /\ wrote' = [wrote EXCEPT ![h] = 0]
  BY DEF Fail, Return
<1>3. \A p \in Parts : /\ current.parts[p] \in Nat /\ rows[p] \in Nat
                        /\ acked[p] \in Nat /\ failed[p] \in Nat
  BY DEF TypeOK, Snapshots, Versions
<1>4. wrote[h] \in Nat /\ \A p \in scopes[h] : p \in Parts /\ wrote[h] <= rows[p]
  BY DEF TypeOK, IInv, WroteInv
<1>5. WroteInv'
  BY <1>2, <1>3 DEF WroteInv, IInv, TypeOK
<1>6. LoadedInv'
  BY <1>2 DEF LoadedInv, IInv, TypeOK
<1>7. ASSUME NEW p \in Parts
      PROVE  /\ p \notin scopes[h] => failed'[p] = failed[p]
             /\ p \in scopes[h] =>
                   /\ failed'[p] \in {failed[p], wrote[h]}
                   /\ failed'[p] >= failed[p]
                   /\ failed'[p] >= wrote[h]
  BY <1>2, RecordFacts DEF TypeOK
<1>8. VersionInv'
  <2> SUFFICES ASSUME NEW p \in Parts
               PROVE  failed'[p] <= rows[p]
    BY <1>2 DEF VersionInv, IInv
  <2>1. failed[p] <= rows[p]
    BY DEF IInv, VersionInv
  <2> QED BY <1>3, <1>4, <1>7, <2>1
<1>9. DecidedInv'
  <2> SUFFICES ASSUME NEW p \in Parts, current.parts[p] # rows[p]
               PROVE  Publishing(p, rows[p])' \/ failed'[p] = rows[p]
    BY <1>2 DEF DecidedInv
  <2>1. CASE failed[p] = rows[p]
    BY <1>3, <1>4, <1>7, <2>1
  <2>2. CASE Publishing(p, rows[p])
    <3>1. PICK g \in Handlers : pc[g] # "idle" /\ p \in scopes[g] /\ wrote[g] = rows[p]
      BY <2>2 DEF Publishing
    <3>2. CASE g = h
      <4>1. failed'[p] \in {failed[p], rows[p]} /\ failed'[p] >= rows[p]
        BY <1>7, <3>1, <3>2
      <4>2. failed[p] <= rows[p]
        BY DEF IInv, VersionInv
      <4> QED BY <1>3, <4>1, <4>2
    <3>3. CASE g # h
      BY <1>2, <3>1, <3>3 DEF Publishing, TypeOK
    <3> QED BY <3>2, <3>3
  <2> QED BY <2>1, <2>2 DEF IInv, DecidedInv
<1> QED BY <1>5, <1>6, <1>8, <1>9

\* A new commit of part p by handler h, which is now publishing it.
LEMMA CommitPublishing ==
    ASSUME TypeOK, IInv, NEW h \in Handlers, NEW p \in Parts,
           pc[h] \in {"idle", "update"}, pc'[h] # "idle",
           rows' = [rows EXCEPT ![p] = @ + 1],
           wrote' = [wrote EXCEPT ![h] = rows'[p]],
           scopes' = [scopes EXCEPT ![h] = {p}],
           \A g \in Handlers \ {h} : pc'[g] = pc[g],
           UNCHANGED <<current, acked, failed>>
    PROVE  VersionInv' /\ DecidedInv'
<1>1. \A q \in Parts : /\ current.parts[q] \in Nat /\ rows[q] \in Nat
                        /\ acked[q] \in Nat /\ failed[q] \in Nat
  BY DEF TypeOK, Snapshots, Versions
<1>2. rows'[p] = rows[p] + 1 /\ \A q \in Parts \ {p} : rows'[q] = rows[q]
  BY DEF TypeOK, Versions
<1>3. VersionInv'
  BY <1>1, <1>2 DEF VersionInv, IInv
<1>4. Publishing(p, rows[p])'
  BY DEF Publishing, TypeOK
<1>5. ASSUME NEW q \in Parts \ {p}, Publishing(q, rows[q]) PROVE Publishing(q, rows[q])'
  <2>1. PICK g \in Handlers : pc[g] # "idle" /\ q \in scopes[g] /\ wrote[g] = rows[q]
    BY <1>5 DEF Publishing
  <2>2. g # h
    BY <2>1 DEF IInv, WroteInv
  <2> QED BY <1>2, <2>1, <2>2 DEF Publishing, TypeOK
<1>6. DecidedInv'
  <2> SUFFICES ASSUME NEW q \in Parts
               PROVE  \/ current.parts[q] = rows'[q]
                      \/ Publishing(q, rows[q])'
                      \/ failed[q] = rows'[q]
    BY DEF DecidedInv
  <2>1. CASE q = p
    BY <1>4, <2>1
  <2>2. CASE q # p
    BY <1>2, <1>5, <2>2 DEF IInv, DecidedInv
  <2> QED BY <2>1, <2>2
<1> QED BY <1>3, <1>6

-----------------------------------------------------------------------------
(* Every action preserves the invariant.                                    *)

\* The one mutex of the handlers and the one of the provider.
LEMMA MutexStep == TypeOK /\ MutexInv /\ [Next]_vars => MutexInv'
<1> SUFFICES ASSUME TypeOK, MutexInv, [Next]_vars PROVE MutexInv'
  OBVIOUS
<1> USE PartiesAssumption DEF MutexInv, TypeOK, handlerVars, providerVars, clientVars, storeVars
<1>1. ASSUME NEW h \in Handlers, BeginUpdate(h) PROVE MutexInv'
  BY <1>1 DEF BeginUpdate, TakeHandlerMu
<1>2. ASSUME NEW h \in Handlers, RejectUpdate(h) PROVE MutexInv'
  BY <1>2 DEF RejectUpdate, Fail, Return
<1>3. ASSUME NEW h \in Handlers, CommitUpdate(h) PROVE MutexInv'
  BY <1>3 DEF CommitUpdate
<1>4. ASSUME NEW h \in Handlers, PublishPrepared(h) PROVE MutexInv'
  BY <1>4 DEF PublishPrepared, Succeed, Return
<1>5. ASSUME NEW h \in Handlers, NEW p \in EditedParts, CommitRows(h, p) PROVE MutexInv'
  BY <1>5 DEF CommitRows
<1>6. ASSUME NEW h \in Handlers, NEW S \in ClearScopes, BeginClear(h, S) PROVE MutexInv'
  BY <1>6 DEF BeginClear, TakeHandlerMu
<1>7. ASSUME NEW h \in Handlers, RefreshNothing(h) PROVE MutexInv'
  BY <1>7 DEF RefreshNothing, Succeed, Return
<1>8. ASSUME NEW h \in Handlers, RefreshLock(h) PROVE MutexInv'
  BY <1>8 DEF RefreshLock
<1>9. ASSUME NEW h \in Handlers, RefreshLoad(h) PROVE MutexInv'
  BY <1>9 DEF RefreshLoad
<1>10. ASSUME NEW h \in Handlers, RefreshPublish(h) PROVE MutexInv'
  BY <1>10 DEF RefreshPublish, Succeed, Return
<1>11. ASSUME NEW h \in Handlers, RefreshFails(h) PROVE MutexInv'
  BY <1>11 DEF RefreshFails, Fail, Return
<1>12. ASSUME NEW c \in Clients, NEW kind \in {"qbittorrent", "transmission"},
              Capture(c, kind)
       PROVE  MutexInv'
  BY <1>12 DEF Capture
<1>13. ASSUME NEW c \in Clients, ClientStep(c) PROVE MutexInv'
  BY <1>13 DEF ClientStep, Admit, RefuseStale, BeginReturns
<1>14. CASE UNCHANGED vars
  BY <1>14 DEF vars
<1> QED BY <1>1, <1>2, <1>3, <1>4, <1>5, <1>6, <1>7, <1>8, <1>9, <1>10, <1>11,
           <1>12, <1>13, <1>14 DEF Next, Arrival, HandlerStep

\* A publication by PublishPrepared is a publication from newer versions.
LEMMA PreparedStep ==
    ASSUME TypeOK, IInv, NEW h \in Handlers, PublishPrepared(h)
    PROVE  WroteInv' /\ LoadedInv' /\ VersionInv' /\ DecidedInv' /\ HistoryInv'
           /\ RevisionIdentifiesContent' /\ FrozenInv'
<1>1. /\ pc[h] = "prepared" /\ providerMu = None
      /\ Publish(SnapshotFromSQLite(source[h], current, {"config"}))
      /\ Succeed(h)
      /\ UNCHANGED <<clientPc, frozen>>
  BY DEF PublishPrepared, clientVars
<1>2. /\ scopes[h] = {"config"} /\ source[h]["config"] = rows["config"]
      /\ wrote[h] = rows["config"]
  BY <1>1 DEF IInv, WroteInv
<1>3. source[h] \in Versions /\ {"config"} \in SUBSET Parts
  BY DEF TypeOK, Parts
<1>4. /\ current.parts["config"] <= source[h]["config"]
      /\ wrote[h] <= source[h]["config"]
      /\ source[h]["config"] <= rows["config"]
  BY <1>2, <1>3 DEF IInv, VersionInv, TypeOK, Versions
<1>5. \A g \in Handlers : pc[g] # "loaded"
  BY <1>1, PartiesAssumption DEF IInv, MutexInv
<1>6. \A c \in Clients : providerMu # c
  BY <1>1, PartiesAssumption
<1>7. WroteInv' /\ LoadedInv' /\ VersionInv' /\ DecidedInv'
  BY <1>1, <1>2, <1>3, <1>4, <1>5, PublishSucceeds
<1>8. /\ current' \in Snapshots
      /\ \A r \in Revisions :
            /\ current.revision[r] <= current'.revision[r]
            /\ current.revision[r] = current'.revision[r] =>
                  \A p \in Covers[r] : current.parts[p] = current'.parts[p]
  BY <1>1, <1>3, <1>4, PublishForward
<1>9. Publish(current')
  BY <1>1 DEF Publish
<1>10. HistoryInv' /\ RevisionIdentifiesContent'
  BY <1>8, <1>9, PublishHistory DEF IInv
<1>11. FrozenInv'
  BY <1>1, <1>6, <1>8, PublishFrozen DEF IInv
<1> QED BY <1>7, <1>10, <1>11

\* So is a publication at the end of a Refresh.
LEMMA RefreshStep ==
    ASSUME TypeOK, IInv, NEW h \in Handlers, RefreshPublish(h)
    PROVE  WroteInv' /\ LoadedInv' /\ VersionInv' /\ DecidedInv' /\ HistoryInv'
           /\ RevisionIdentifiesContent' /\ FrozenInv'
<1>1. /\ pc[h] = "loaded"
      /\ Publish(SnapshotFromSQLite(source[h], current, scopes[h]))
      /\ Succeed(h)
      /\ UNCHANGED <<clientPc, frozen>>
  BY DEF RefreshPublish, clientVars
<1>2. providerMu = h
  BY <1>1 DEF IInv, MutexInv
<1>3. source[h] \in Versions /\ scopes[h] \in SUBSET Parts
  BY DEF TypeOK
<1>4. \A p \in scopes[h] : /\ current.parts[p] <= source[h][p]
                           /\ source[h][p] <= rows[p]
                           /\ wrote[h] <= source[h][p]
  BY <1>1, <1>3 DEF IInv, LoadedInv
<1>5. \A g \in Handlers : g # h => pc[g] # "loaded"
  BY <1>2 DEF IInv, MutexInv
<1>6. \A c \in Clients : providerMu # c
  BY <1>2, PartiesAssumption
<1>7. WroteInv' /\ LoadedInv' /\ VersionInv' /\ DecidedInv'
  BY <1>1, <1>3, <1>4, <1>5, PublishSucceeds
<1>8. /\ current' \in Snapshots
      /\ \A r \in Revisions :
            /\ current.revision[r] <= current'.revision[r]
            /\ current.revision[r] = current'.revision[r] =>
                  \A p \in Covers[r] : current.parts[p] = current'.parts[p]
  BY <1>1, <1>3, <1>4, PublishForward
<1>9. Publish(current')
  BY <1>1 DEF Publish
<1>10. HistoryInv' /\ RevisionIdentifiesContent'
  BY <1>8, <1>9, PublishHistory DEF IInv
<1>11. FrozenInv'
  BY <1>1, <1>6, <1>8, PublishFrozen DEF IInv
<1> QED BY <1>7, <1>10, <1>11

\* Steps of the handlers that neither publish nor answer.
LEMMA HandlerWorkStep ==
    ASSUME TypeOK, IInv, NEW h \in Handlers,
           \/ BeginUpdate(h) \/ CommitUpdate(h) \/ RefreshLock(h) \/ RefreshLoad(h)
           \/ \E p \in EditedParts : CommitRows(h, p)
           \/ \E S \in ClearScopes : BeginClear(h, S)
    PROVE  WroteInv' /\ LoadedInv' /\ VersionInv' /\ DecidedInv'
<1> USE ScopesAssumption DEF storeVars, providerVars, clientVars
<1>0. \A p \in Parts : /\ current.parts[p] \in Nat /\ rows[p] \in Nat
                        /\ acked[p] \in Nat /\ failed[p] \in Nat
  BY DEF TypeOK, Snapshots, Versions
<1>1. CASE BeginUpdate(h)
  <2>1. WroteInv' /\ LoadedInv' /\ VersionInv'
    BY <1>1 DEF BeginUpdate, IInv, WroteInv, LoadedInv, VersionInv, TypeOK
  <2>2. DecidedInv'
    BY <1>1 DEF BeginUpdate, IInv, WroteInv, DecidedInv, Publishing, TypeOK
  <2> QED BY <2>1, <2>2
<1>2. CASE CommitUpdate(h)
  <2>1. /\ pc[h] = "update" /\ pc' = [pc EXCEPT ![h] = "prepared"]
        /\ "config" \in Parts
        /\ rows' = [rows EXCEPT !["config"] = @ + 1]
        /\ wrote' = [wrote EXCEPT ![h] = rows'["config"]]
        /\ scopes' = [scopes EXCEPT ![h] = {"config"}]
        /\ source' = [source EXCEPT ![h] = rows']
        /\ UNCHANGED <<current, acked, failed, handlerMu>>
    BY <1>2 DEF CommitUpdate, Parts
  <2>2. VersionInv' /\ DecidedInv'
    <3>1. pc'[h] # "idle" /\ \A g \in Handlers \ {h} : pc'[g] = pc[g]
      BY <2>1 DEF TypeOK
    <3> QED BY <2>1, <3>1, CommitPublishing
  <2>3. WroteInv'
    <3>1. \A g \in Handlers : g # h => pc[g] # "prepared"
      BY <2>1 DEF IInv, MutexInv
    <3>2. rows' \in Versions /\ \A p \in Parts : rows[p] <= rows'[p]
      BY <1>0, <2>1 DEF TypeOK, Versions
    <3>3. \A g \in Handlers : wrote[g] \in Nat
      BY DEF TypeOK
    <3>4. \A g \in Handlers : \A p \in scopes[g] : p \in Parts /\ wrote[g] <= rows'[p]
      BY <1>0, <3>2, <3>3 DEF IInv, WroteInv, TypeOK, Versions
    <3> QED BY <2>1, <3>1, <3>2, <3>4 DEF IInv, WroteInv, TypeOK, Versions
  <2>4. LoadedInv'
    BY <1>0, <2>1 DEF IInv, LoadedInv, TypeOK, Versions
  <2> QED BY <2>2, <2>3, <2>4
<1>3. CASE RefreshLock(h)
  <2>1. WroteInv' /\ LoadedInv' /\ VersionInv'
    BY <1>3 DEF RefreshLock, IInv, WroteInv, LoadedInv, VersionInv, TypeOK
  <2>2. DecidedInv'
    BY <1>3 DEF RefreshLock, IInv, DecidedInv, Publishing, TypeOK
  <2> QED BY <2>1, <2>2
<1>4. CASE RefreshLoad(h)
  <2>1. WroteInv' /\ VersionInv'
    BY <1>4 DEF RefreshLoad, IInv, WroteInv, VersionInv, TypeOK
  <2>2. LoadedInv'
    <3>1. \A p \in Parts : current.parts[p] <= rows[p] /\ rows[p] <= rows[p]
      BY <1>0 DEF IInv, VersionInv
    <3>2. \A p \in scopes[h] : wrote[h] <= rows[p]
      BY DEF IInv, WroteInv
    <3> QED BY <1>4, <3>1, <3>2 DEF RefreshLoad, IInv, LoadedInv, TypeOK
  <2>3. DecidedInv'
    BY <1>4 DEF RefreshLoad, IInv, DecidedInv, Publishing, TypeOK
  <2> QED BY <2>1, <2>2, <2>3
<1>5. ASSUME NEW p \in EditedParts, CommitRows(h, p)
      PROVE  WroteInv' /\ LoadedInv' /\ VersionInv' /\ DecidedInv'
  <2>1. /\ pc[h] = "idle" /\ pc' = [pc EXCEPT ![h] = "refresh"]
        /\ p \in Parts /\ p # "config"
        /\ rows' = [rows EXCEPT ![p] = @ + 1]
        /\ wrote' = [wrote EXCEPT ![h] = rows'[p]]
        /\ scopes' = [scopes EXCEPT ![h] = {p}]
        /\ UNCHANGED <<current, acked, failed, source>>
    BY <1>5 DEF CommitRows
  <2>2. VersionInv' /\ DecidedInv'
    <3>1. pc'[h] # "idle" /\ \A g \in Handlers \ {h} : pc'[g] = pc[g]
      BY <2>1 DEF TypeOK
    <3> QED BY <2>1, <3>1, CommitPublishing
  <2>3. WroteInv'
    <3>2. rows' \in Versions /\ \A q \in Parts : rows[q] <= rows'[q]
      BY <1>0, <2>1 DEF TypeOK, Versions
    <3>3. \A g \in Handlers : wrote[g] \in Nat
      BY DEF TypeOK
    <3>4. \A g \in Handlers : \A q \in scopes[g] : q \in Parts /\ wrote[g] <= rows'[q]
      BY <1>0, <3>2, <3>3 DEF IInv, WroteInv, TypeOK, Versions
    <3>5. rows'["config"] = rows["config"]
      BY <2>1 DEF TypeOK, Versions
    <3> QED BY <2>1, <3>2, <3>4, <3>5 DEF IInv, WroteInv, TypeOK, Versions
  <2>4. LoadedInv'
    BY <1>0, <2>1 DEF IInv, LoadedInv, TypeOK, Versions
  <2> QED BY <2>2, <2>3, <2>4
<1>6. ASSUME NEW S \in ClearScopes, BeginClear(h, S)
      PROVE  WroteInv' /\ LoadedInv' /\ VersionInv' /\ DecidedInv'
  <2>1. /\ pc[h] = "idle" /\ pc' = [pc EXCEPT ![h] = "refresh"]
        /\ scopes' = [scopes EXCEPT ![h] = S] /\ S \in SUBSET Parts
        /\ UNCHANGED <<rows, current, acked, failed, source, wrote>>
    BY <1>6 DEF BeginClear
  <2>2. wrote[h] = 0
    BY <2>1 DEF IInv, WroteInv
  <2>3. WroteInv' /\ VersionInv'
    BY <1>0, <2>1, <2>2 DEF IInv, WroteInv, VersionInv, TypeOK
  <2>4. LoadedInv'
    BY <2>1 DEF IInv, LoadedInv, TypeOK
  <2>5. DecidedInv'
    <3> SUFFICES ASSUME NEW p \in Parts, Publishing(p, rows[p])
                 PROVE  Publishing(p, rows[p])'
      BY <2>1 DEF IInv, DecidedInv
    <3>1. PICK g \in Handlers : pc[g] # "idle" /\ p \in scopes[g] /\ wrote[g] = rows[p]
      BY DEF Publishing
    <3> QED BY <2>1, <3>1 DEF Publishing, TypeOK
  <2> QED BY <2>3, <2>4, <2>5
<1> QED BY <1>1, <1>2, <1>3, <1>4, <1>5, <1>6

\* A request with nothing to refresh succeeds and wrote nothing.
LEMMA NothingStep ==
    ASSUME TypeOK, IInv, NEW h \in Handlers, RefreshNothing(h)
    PROVE  WroteInv' /\ LoadedInv' /\ VersionInv' /\ DecidedInv'
<1>1. /\ scopes[h] = {} /\ rows' = rows /\ failed' = failed
      /\ UNCHANGED current
      /\ pc' = [pc EXCEPT ![h] = "idle"]
      /\ scopes' = [scopes EXCEPT ![h] = {}]
      /\ source' = [source EXCEPT ![h] = InitialRows]
      /\ wrote' = [wrote EXCEPT ![h] = 0]
      /\ acked' = Record(acked, h)
  BY DEF RefreshNothing, Succeed, Return, providerVars
<1>2. \A p \in Parts : acked'[p] = acked[p]
  BY <1>1, RecordFacts DEF TypeOK
<1>3. WroteInv' /\ LoadedInv'
  BY <1>1 DEF IInv, WroteInv, LoadedInv, TypeOK, Versions
<1>4. VersionInv'
  BY <1>1, <1>2 DEF IInv, VersionInv
<1>5. DecidedInv'
  BY <1>1 DEF IInv, DecidedInv, Publishing, TypeOK
<1> QED BY <1>3, <1>4, <1>5

\* Steps of the clients change nothing but provider.mu and what is captured.
LEMMA ClientsStep ==
    ASSUME TypeOK, IInv, NEW c \in Clients,
           \/ ClientStep(c)
           \/ \E kind \in {"qbittorrent", "transmission"} : Capture(c, kind)
    PROVE  WroteInv' /\ LoadedInv' /\ VersionInv' /\ DecidedInv' /\ HistoryInv'
           /\ RevisionIdentifiesContent' /\ FrozenInv'
<1>1. UNCHANGED <<storeVars, current, published, handlerVars>>
  BY DEF ClientStep, Admit, RefuseStale, BeginReturns, Capture, providerVars
<1>2. WroteInv' /\ LoadedInv' /\ VersionInv' /\ DecidedInv'
  BY <1>1 DEF IInv, WroteInv, LoadedInv, VersionInv, DecidedInv, Publishing,
              storeVars, handlerVars
<1>3. HistoryInv' /\ RevisionIdentifiesContent'
  BY <1>1, QuietHistory DEF IInv
<1>4. ASSUME ClientStep(c) PROVE FrozenInv'
  BY <1>1, <1>4
     DEF ClientStep, Admit, RefuseStale, BeginReturns, IInv, FrozenInv, TypeOK
<1>5. ASSUME NEW kind \in {"qbittorrent", "transmission"}, Capture(c, kind)
      PROVE  FrozenInv'
  <2>1. current.revision[kind] \in Nat
    BY DEF TypeOK, Snapshots, Revisions
  <2> QED BY <1>5, <2>1 DEF Capture, IInv, FrozenInv, TypeOK, providerVars
<1> QED BY <1>2, <1>3, <1>4, <1>5

\* NewProvider's first publication satisfies the invariant.
LEMMA InvInit == Init => IInv
<1> SUFFICES ASSUME Init PROVE IInv
  OBVIOUS
<1> USE DEF Init, NewProvider
<1>1. InitialRows \in Versions /\ ZeroSnapshot \in Snapshots /\ Parts \in SUBSET Parts
  BY DEF InitialRows, ZeroSnapshot, Versions, Snapshots
<1>2. \A p \in Parts : current.parts[p] = 1 /\ rows[p] = 1 /\ acked[p] = 1 /\ failed[p] = 0
  BY <1>1, SnapshotFacts DEF InitialRows
<1>3. \A r \in Revisions : current.revision[r] \in Nat
  BY TypeInit DEF TypeOK, Snapshots
<1>4. MutexInv /\ WroteInv /\ LoadedInv /\ FrozenInv
  BY DEF MutexInv, WroteInv, LoadedInv, FrozenInv
<1>5. VersionInv /\ DecidedInv
  BY <1>2 DEF VersionInv, DecidedInv
<1>6. HistoryInv /\ RevisionIdentifiesContent
  BY <1>3 DEF HistoryInv, RevisionIdentifiesContent
<1> QED BY <1>4, <1>5, <1>6 DEF IInv

\* Every step of the handlers and the clients preserves the invariant.
LEMMA InvStep == TypeOK /\ IInv /\ [Next]_vars => IInv'
<1> SUFFICES ASSUME TypeOK, IInv, [Next]_vars PROVE IInv'
  OBVIOUS
<1>0. MutexInv'
  BY MutexStep DEF IInv
<1> DEFINE Rest == WroteInv /\ LoadedInv /\ VersionInv /\ DecidedInv /\ HistoryInv
                     /\ RevisionIdentifiesContent /\ FrozenInv
<1>1. ASSUME NEW h \in Handlers, PublishPrepared(h) PROVE Rest'
  BY <1>1, PreparedStep
<1>2. ASSUME NEW h \in Handlers, RefreshPublish(h) PROVE Rest'
  BY <1>2, RefreshStep
<1>3. ASSUME NEW h \in Handlers, RejectUpdate(h) \/ RefreshFails(h) PROVE Rest'
  <2>1. Fail(h) /\ UNCHANGED <<current, published, clientPc, frozen>>
    BY <1>3 DEF RejectUpdate, RefreshFails, providerVars, clientVars
  <2> QED BY <2>1, FailReports, QuietHistory, QuietFrozen DEF IInv
<1>4. ASSUME NEW h \in Handlers, RefreshNothing(h) PROVE Rest'
  <2>1. UNCHANGED <<current, published, clientPc, frozen>>
    BY <1>4 DEF RefreshNothing, providerVars, clientVars
  <2> QED BY <1>4, <2>1, NothingStep, QuietHistory, QuietFrozen DEF IInv
<1>5. ASSUME NEW h \in Handlers,
             \/ BeginUpdate(h) \/ CommitUpdate(h) \/ RefreshLock(h) \/ RefreshLoad(h)
             \/ \E p \in EditedParts : CommitRows(h, p)
             \/ \E S \in ClearScopes : BeginClear(h, S)
      PROVE  Rest'
  <2>1. UNCHANGED <<current, published, clientPc, frozen>>
    BY <1>5 DEF BeginUpdate, CommitUpdate, RefreshLock, RefreshLoad, CommitRows,
                BeginClear, providerVars, clientVars
  <2> QED BY <1>5, <2>1, HandlerWorkStep, QuietHistory, QuietFrozen DEF IInv
<1>6. ASSUME NEW c \in Clients,
             \/ ClientStep(c)
             \/ \E kind \in {"qbittorrent", "transmission"} : Capture(c, kind)
      PROVE  Rest'
  BY <1>6, ClientsStep
<1>7. ASSUME UNCHANGED vars PROVE Rest'
  <2> USE <1>7 DEF vars, storeVars, providerVars, handlerVars, clientVars
  <2>1. WroteInv' /\ LoadedInv' /\ VersionInv' /\ DecidedInv'
    BY DEF IInv, WroteInv, LoadedInv, VersionInv, DecidedInv, Publishing
  <2>2. HistoryInv' /\ RevisionIdentifiesContent' /\ FrozenInv'
    BY QuietHistory, QuietFrozen DEF IInv
  <2> QED BY <2>1, <2>2
<1> HIDE DEF Rest
<1>8. Rest'
  BY <1>1, <1>2, <1>3, <1>4, <1>5, <1>6, <1>7 DEF Next, Arrival, HandlerStep
<1> QED BY <1>0, <1>8 DEF IInv, Rest

\* The inductive invariant holds in every behaviour.
LEMMA Invariant == Spec => [](TypeOK /\ IInv)
<1>1. Init => TypeOK /\ IInv
  BY TypeInit, InvInit
<1>2. (TypeOK /\ IInv) /\ [Next]_vars => (TypeOK /\ IInv)'
  BY TypeStep, InvStep
<1> QED BY <1>1, <1>2, PTL DEF Spec

-----------------------------------------------------------------------------
(* The theorems.                                                            *)

\* The same revision means the same data, in every history of publications.
THEOREM RevisionsIdentifyContent == Spec => []RevisionIdentifiesContent
<1>1. IInv => RevisionIdentifiesContent
  BY DEF IInv
<1> QED BY <1>1, Invariant, PTL

\* A write answered with success is never missing from a later snapshot.
THEOREM AcknowledgedStaysVisible == Spec => []AcknowledgedIsVisible
<1>1. IInv => AcknowledgedIsVisible
  BY DEF IInv, VersionInv, AcknowledgedIsVisible
<1> QED BY <1>1, Invariant, PTL

\* A commit is published, being published, or answered with an error.
THEOREM NothingSilentlyUnpublished == Spec => []UnpublishedIsReported
<1>1. TypeOK /\ IInv => UnpublishedIsReported
  <2> SUFFICES ASSUME TypeOK, IInv, NEW p \in Parts, current.parts[p] < rows[p]
               PROVE  Publishing(p, rows[p]) \/ failed[p] = rows[p]
    BY DEF UnpublishedIsReported
  <2>1. current.parts[p] \in Nat /\ rows[p] \in Nat
    BY DEF TypeOK, Snapshots, Versions
  <2>2. current.parts[p] # rows[p]
    BY <2>1
  <2> QED BY <2>2 DEF IInv, DecidedInv
<1> QED BY <1>1, Invariant, PTL

\* A mutation is started only while its configuration is the published one.
THEOREM AdmissionIsExact == Spec => []AdmittedIsCurrent
<1>1. IInv => AdmittedIsCurrent
  BY DEF IInv, FrozenInv, AdmittedIsCurrent
<1> QED BY <1>1, Invariant, PTL

\* What one step does to the published versions and revisions.
LEMMA ForwardStep ==
    TypeOK /\ IInv /\ [Next]_vars =>
        [\A p \in Parts : current.parts[p] <= current'.parts[p]]_current
<1> SUFFICES ASSUME TypeOK, IInv, [Next]_vars, current' # current
             PROVE  \A p \in Parts : current.parts[p] <= current'.parts[p]
  OBVIOUS
<1>1. PICK h \in Handlers : PublishPrepared(h) \/ RefreshPublish(h)
  BY DEF Next, Arrival, HandlerStep, ClientStep, BeginUpdate, CommitRows, BeginClear,
         Capture, RejectUpdate, CommitUpdate, RefreshNothing, RefreshLock, RefreshLoad,
         RefreshFails, Admit, RefuseStale, BeginReturns, vars, providerVars
<1>2. CASE PublishPrepared(h)
  <2>1. /\ source[h] \in Versions /\ {"config"} \in SUBSET Parts
        /\ current.parts["config"] <= source[h]["config"]
    BY <1>2 DEF PublishPrepared, IInv, WroteInv, VersionInv, TypeOK, Parts
  <2> QED BY <1>2, <2>1, PublishForward DEF PublishPrepared
<1>3. CASE RefreshPublish(h)
  <2>1. /\ source[h] \in Versions /\ scopes[h] \in SUBSET Parts
        /\ \A p \in scopes[h] : current.parts[p] <= source[h][p]
    BY <1>3 DEF RefreshPublish, IInv, LoadedInv, TypeOK
  <2> QED BY <1>3, <2>1, PublishForward DEF RefreshPublish
<1> QED BY <1>1, <1>2, <1>3

\* No publication replaces a part by an older version of it.
THEOREM PublicationNeverRegresses == Spec => NeverRegresses
<1>1. (TypeOK /\ IInv) /\ [Next]_vars =>
        [\A p \in Parts : current.parts[p] <= current'.parts[p]]_current
  BY ForwardStep
<1> QED BY <1>1, Invariant, PTL DEF Spec, NeverRegresses

\* A step that stores a snapshot is a Publish step of the abstract specification.
LEMMA PublishRefines ==
    ASSUME TypeOK, NEW loaded \in Versions, NEW S \in SUBSET Parts,
           Publish(SnapshotFromSQLite(loaded, current, S)), UNCHANGED rows,
           \A p \in S : current.parts[p] <= loaded[p] /\ loaded[p] <= rows[p]
    PROVE  Publication!Publish(S)
<1> DEFINE next == SnapshotFromSQLite(loaded, current, S)
<1>1. current' = next /\ current \in Snapshots
  BY DEF Publish, TypeOK
<1>2. /\ next \in Snapshots
      /\ \A p \in S : next.parts[p] = loaded[p]
      /\ \A p \in Parts \ S : next.parts[p] = current.parts[p]
      /\ \A r \in Revisions :
            IF S \cap Covers[r] = {}
            THEN next.revision[r] = current.revision[r]
            ELSE next.revision[r] > current.revision[r]
  BY <1>1, SnapshotFacts
<1> HIDE DEF next
<1> QED BY <1>1, <1>2 DEF Publication!Publish, Snapshots, Versions

\* The provider and its handlers implement the abstract publication.
THEOREM ImplementsAbstractPublication == Spec => ImplementsPublication
<1>1. Init => Publication!Init
  <2> SUFFICES ASSUME Init PROVE Publication!Init
    OBVIOUS
  <2>1. TypeOK
    BY TypeInit
  <2>2. InitialRows \in Versions /\ ZeroSnapshot \in Snapshots /\ Parts \in SUBSET Parts
    BY DEF InitialRows, ZeroSnapshot, Versions, Snapshots
  <2>3. \A p \in Parts : current.parts[p] = rows[p]
    BY <2>2, SnapshotFacts DEF Init, NewProvider
  <2>4. current.parts = rows
    BY <2>1, <2>3 DEF TypeOK, Snapshots, Versions
  <2> QED BY <2>1, <2>4 DEF Publication!Init, TypeOK, Snapshots, Versions
<1>2. (TypeOK /\ IInv) /\ [Next]_vars => [Publication!Next]_Publication!vars
  <2> SUFFICES ASSUME TypeOK, IInv, [Next]_vars
               PROVE  [Publication!Next]_Publication!vars
    OBVIOUS
  <2> USE DEF Publication!Next, Publication!vars
  <2>1. ASSUME NEW h \in Handlers, PublishPrepared(h) PROVE Publication!Next
    <3>1. /\ source[h] \in Versions /\ {"config"} \in SUBSET Parts
          /\ source[h]["config"] = rows["config"]
          /\ current.parts["config"] <= rows["config"]
          /\ rows["config"] \in Nat
      BY <2>1 DEF PublishPrepared, IInv, WroteInv, VersionInv, TypeOK, Parts, Versions
    <3>2. Publication!Publish({"config"})
      BY <2>1, <3>1, PublishRefines DEF PublishPrepared, Succeed
    <3> QED BY <3>1, <3>2
  <2>2. ASSUME NEW h \in Handlers, RefreshPublish(h) PROVE Publication!Next
    <3>1. /\ source[h] \in Versions /\ scopes[h] \in SUBSET Parts
          /\ \A p \in scopes[h] : /\ current.parts[p] <= source[h][p]
                                  /\ source[h][p] <= rows[p]
      BY <2>2 DEF RefreshPublish, IInv, LoadedInv, TypeOK
    <3>2. Publication!Publish(scopes[h])
      BY <2>2, <3>1, PublishRefines DEF RefreshPublish, Succeed
    <3> QED BY <3>1, <3>2
  <2>3. ASSUME NEW h \in Handlers,
               CommitUpdate(h) \/ \E p \in EditedParts : CommitRows(h, p)
        PROVE  Publication!Next
    <3>1. Publication!Commit
      BY <2>3, ScopesAssumption
         DEF CommitUpdate, CommitRows, Publication!Commit, Parts, providerVars
    <3> QED BY <3>1
  <2>4. ASSUME NEW h \in Handlers,
               \/ BeginUpdate(h) \/ RejectUpdate(h) \/ RefreshNothing(h)
               \/ RefreshLock(h) \/ RefreshLoad(h) \/ RefreshFails(h)
               \/ \E S \in ClearScopes : BeginClear(h, S)
        PROVE  UNCHANGED <<rows, current>>
    BY <2>4 DEF BeginUpdate, RejectUpdate, RefreshNothing, RefreshLock, RefreshLoad,
                RefreshFails, BeginClear, Succeed, Fail, storeVars, providerVars
  <2>5. ASSUME NEW c \in Clients,
               \/ ClientStep(c)
               \/ \E kind \in {"qbittorrent", "transmission"} : Capture(c, kind)
        PROVE  UNCHANGED <<rows, current>>
    BY <2>5 DEF ClientStep, Admit, RefuseStale, BeginReturns, Capture,
                storeVars, providerVars
  <2>6. CASE UNCHANGED vars
    BY <2>6 DEF vars, storeVars, providerVars
  <2>7. UNCHANGED <<rows, current>> => UNCHANGED Publication!vars
    OBVIOUS
  <2> QED BY <2>1, <2>2, <2>3, <2>4, <2>5, <2>6, <2>7 DEF Next, Arrival, HandlerStep
<1> QED BY <1>1, <1>2, Invariant, PTL DEF Spec, ImplementsPublication, Publication!Spec

=============================================================================
