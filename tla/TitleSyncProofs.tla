--------------------------- MODULE TitleSyncProofs ---------------------------
(***************************************************************************)
(* Proofs about title synchronisation, for any set of requests and any      *)
(* bounds.                                                                  *)
(***************************************************************************)
EXTENDS TitleSync, TLAPS

-----------------------------------------------------------------------------
(* The gate's operations.                                                   *)

\* begin puts the marker, and only it, in flight under a number never used.
LEMMA BeginFacts ==
    ASSUME states \in [Markers -> GateStates], nextID \in Nat,
           NEW m \in Markers, BeginTitleSync(m)
    PROVE  /\ states' \in [Markers -> GateStates]
           /\ nextID' = nextID + 1
           /\ ~states[m].inFlight /\ ~states[m].retainedSuccess
           /\ states'[m].inFlight /\ ~states'[m].retainedSuccess
           /\ states'[m].attemptID = nextID + 1
           /\ states'[m].generation = states[m].generation
           /\ \A n \in Markers \ {m} : states'[n] = states[n]
BY DEF BeginTitleSync, TooFrequent, GateStates

\* finish by the marker's own attempt takes it out of flight; what it retains
\* depends on the generation.
LEMMA FinishFacts ==
    ASSUME states \in [Markers -> GateStates], nextID \in Nat,
           NEW a \in Attempts, NEW succeeded \in BOOLEAN,
           FinishTitleSync(a, succeeded),
           states[a.marker].inFlight, states[a.marker].attemptID = a.id
    PROVE  /\ states' \in [Markers -> GateStates]
           /\ nextID' = nextID
           /\ ~states'[a.marker].inFlight
           /\ states'[a.marker].attemptID = states[a.marker].attemptID
           /\ states'[a.marker].generation = states[a.marker].generation
           /\ states[a.marker].generation = a.generation =>
                  states'[a.marker].retainedSuccess = succeeded
           /\ states[a.marker].generation # a.generation =>
                  states'[a.marker].retainedSuccess = states[a.marker].retainedSuccess
           /\ \A n \in Markers \ {a.marker} : states'[n] = states[n]
<1>1. a.marker \in Markers
  BY DEF Attempts
<1>2. RetainsSuccess(a, succeeded) \in BOOLEAN
  BY <1>1 DEF RetainsSuccess, GateStates
<1>3. states' = [states EXCEPT ![a.marker] =
                   [inFlight |-> FALSE, retainedSuccess |-> RetainsSuccess(a, succeeded),
                    generation |-> @.generation, attemptID |-> @.attemptID]]
  BY DEF FinishTitleSync, IsCurrent
<1>4. states' \in [Markers -> GateStates]
  BY <1>1, <1>2, <1>3 DEF GateStates
<1> QED BY <1>1, <1>2, <1>3, <1>4 DEF RetainsSuccess, FinishTitleSync

\* clear forgets the success and starts a new generation, in flight or not.
LEMMA ClearFacts ==
    ASSUME states \in [Markers -> GateStates], nextID \in Nat,
           NEW m \in Markers, ClearGate(m)
    PROVE  /\ states' \in [Markers -> GateStates]
           /\ nextID' = nextID
           /\ states'[m].inFlight = states[m].inFlight
           /\ ~states'[m].retainedSuccess
           /\ states'[m].attemptID = states[m].attemptID
           /\ states'[m].generation = states[m].generation + 1
           /\ \A n \in Markers \ {m} : states'[n] = states[n]
BY DEF ClearGate, GateStates

-----------------------------------------------------------------------------
(* The inductive invariant.                                                 *)

\* s is admitted and has not told the gate its outcome.
Held(s) == pc[s] \in {"admitted", "configured", "stored", "failed"}

\* The gate knows the attempt of whoever is synchronising.
OwnerInv ==
    \A s \in Syncers : Held(s) =>
        /\ states[attempt[s].marker].inFlight
        /\ states[attempt[s].marker].attemptID = attempt[s].id
        /\ attempt[s].generation <= states[attempt[s].marker].generation

\* Nothing is retained while a new attempt is in flight.
ShutInv == \A m \in Markers : ~(states[m].inFlight /\ states[m].retainedSuccess)

\* An attempt of the present generation has read the committed configuration.
FreshInv ==
    \A s \in Syncers :
        /\ pc[s] \in {"configured", "stored"}
        /\ attempt[s].generation = states[attempt[s].marker].generation
        /\ ~ClearDue(attempt[s].marker)
        => read[s] = config

\* The stored rows are the ones of the attempt that has just stored them.
StoredInv ==
    \A s \in Syncers : pc[s] = "stored" =>
        /\ read[s] \in titles[attempt[s].marker]
        /\ attempt[s].marker \in Replaced => titles[attempt[s].marker] = {read[s]}

\* Only the holder of Handler.mu has markers left to clear.
PendingInv == admin # "clearing" => pending = {}

\* OneSyncPerMarker and RetainedTitlesAreCurrent are not inductive: that an
\* attempt leaves its own marker needs OwnerInv, and that the success it leaves
\* is current needs FreshInv and StoredInv.
IInv ==
    /\ OneSyncPerMarker
    /\ OwnerInv
    /\ ShutInv
    /\ FreshInv
    /\ StoredInv
    /\ PendingInv
    /\ RetainedTitlesAreCurrent

-----------------------------------------------------------------------------
(* Type correctness.                                                        *)

\* The initial state of the gate and of everyone around it is typed.
LEMMA TypeInit == Init => TypeOK
BY SyncersAssumption
   DEF Init, newTitleSyncGate, TypeOK, GateStates, Attempts, SyncerStates, Syncers,
       NoAttempt, Markers

\* Moving a syncer to another of its states, or returning, keeps the types.
LEMMA GotoTypes ==
    ASSUME TypeOK, NEW s \in Syncers, NEW state \in SyncerStates
    PROVE  /\ Goto(s, state) => pc' \in [Syncers -> SyncerStates]
           /\ GotoOrReturn(s, state) => /\ pc' \in [Syncers -> SyncerStates]
                                        /\ attempt' \in [Syncers -> Attempts]
                                        /\ read' \in [Syncers -> Nat]
<1>1. NoAttempt \in Attempts
  BY DEF NoAttempt, Attempts, Markers
<1> QED BY <1>1 DEF TypeOK, Goto, GotoOrReturn

\* An admission keeps the types.
LEMMA AdmitTypes ==
    ASSUME TypeOK, NEW s \in Syncers, NEW m \in Markers, Admit(s, m)
    PROVE  TypeOK'
<1>1. NewAttempt(m) \in Attempts
  BY DEF TypeOK, NewAttempt, Attempts, GateStates
<1>2. /\ states' \in [Markers -> GateStates]
      /\ nextID' = nextID + 1
      /\ states'[m].attemptID = nextID + 1
      /\ \A n \in Markers \ {m} : states'[n] = states[n]
  BY BeginFacts DEF Admit, TypeOK
<1>3. \A n \in Markers : states'[n].attemptID <= nextID'
  BY <1>2 DEF TypeOK, GateStates
<1> QED
  BY <1>1, <1>2, <1>3 DEF Admit, Goto, TypeOK, SyncerStates, adminVars

\* So does the end of an attempt, whatever its outcome.
LEMMA FinishTypes ==
    ASSUME TypeOK, NEW a \in Attempts, NEW succeeded \in BOOLEAN,
           FinishTitleSync(a, succeeded)
    PROVE  /\ states' \in [Markers -> GateStates]
           /\ nextID' = nextID
           /\ \A m \in Markers : states'[m].attemptID = states[m].attemptID
<1>1. a.marker \in Markers
  BY DEF Attempts
<1>2. RetainsSuccess(a, succeeded) \in BOOLEAN
  BY <1>1 DEF RetainsSuccess, TypeOK, GateStates
<1>3. CASE IsCurrent(a)
  BY <1>1, <1>2, <1>3 DEF FinishTitleSync, TypeOK, GateStates
<1>4. CASE ~IsCurrent(a)
  BY <1>4 DEF FinishTitleSync, TypeOK
<1> QED BY <1>3, <1>4

\* Every step keeps the types.
LEMMA TypeStep == TypeOK /\ [Next]_vars => TypeOK'
<1> SUFFICES ASSUME TypeOK, [Next]_vars PROVE TypeOK'
  OBVIOUS
<1> USE DEF adminVars, gateVars
<1>1. ASSUME NEW s \in Requests, NEW m \in Active, StartRequest(s, m) PROVE TypeOK'
  BY <1>1, AdmitTypes, SyncersAssumption DEF StartRequest, Syncers
<1>2. ASSUME NEW m \in Replaced \cap Active, StartTask(m) PROVE TypeOK'
  BY <1>2, AdmitTypes, SyncersAssumption DEF StartTask, Syncers
<1>3. CASE ChainTMDB
  BY <1>3, AdmitTypes DEF ChainTMDB, Syncers, Markers
<1>4. ASSUME NEW s \in Syncers, LoadConfig(s) PROVE TypeOK'
  BY <1>4 DEF LoadConfig, Goto, TypeOK, SyncerStates
<1>5. ASSUME NEW s \in Syncers, Replace(s) PROVE TypeOK'
  <2>1. attempt[s].marker \in Markers /\ read[s] \in Nat
    BY DEF TypeOK, Attempts
  <2> QED BY <1>5, <2>1 DEF Replace, TitlesAfter, Goto, TypeOK, SyncerStates
<1>6. ASSUME NEW s \in Syncers, SyncFails(s) PROVE TypeOK'
  BY <1>6 DEF SyncFails, Goto, TypeOK, SyncerStates
<1>7. ASSUME NEW s \in Syncers, FinishSucceeded(s) PROVE TypeOK'
  <2>1. attempt[s] \in Attempts
    BY DEF TypeOK
  <2> QED BY <1>7, <2>1, FinishTypes DEF FinishSucceeded, Goto, TypeOK, SyncerStates
<1>8. ASSUME NEW s \in Syncers, FinishFailed(s) PROVE TypeOK'
  <2>1. attempt[s] \in Attempts
    BY DEF TypeOK
  <2> QED BY <1>8, <2>1, FinishTypes, GotoTypes DEF FinishFailed, TypeOK, SyncerStates
<1>9. ASSUME NEW s \in Syncers, DeleteMarker(s) PROVE TypeOK'
  <2>1. attempt[s].marker \in Markers
    BY DEF TypeOK, Attempts
  <2>2. /\ states' \in [Markers -> GateStates]
        /\ \A n \in Markers : states'[n].attemptID = states[n].attemptID
    BY <1>9, <2>1, ClearFacts DEF DeleteMarker, TypeOK
  <2> QED BY <1>9, <2>1, <2>2, GotoTypes DEF DeleteMarker, ClearGate, TypeOK, SyncerStates
<1>10. ASSUME NEW s \in Syncers, Invalidate(s) PROVE TypeOK'
  BY <1>10, GotoTypes DEF Invalidate, TypeOK, SyncerStates
<1>11. ASSUME NEW s \in Syncers, InvalidateFails(s) PROVE TypeOK'
  <2>1. attempt[s].marker \in Markers
    BY DEF TypeOK, Attempts
  <2>2. spared' \in [Markers -> BOOLEAN]
    BY <1>11, <2>1 DEF InvalidateFails, TypeOK, GateStates
  <2> QED BY <1>11, <2>2, GotoTypes DEF InvalidateFails, TypeOK, SyncerStates
<1>12. CASE SkipTMDB
  BY <1>12, GotoTypes DEF SkipTMDB, TypeOK, SyncerStates, Syncers
<1>13. CASE ClearNext
  <2>1. PICK m \in pending : ClearGate(m) /\ pending' = pending \ {m}
                             /\ spared' = [spared EXCEPT ![m] = FALSE]
    BY <1>13 DEF ClearNext
  <2>2. m \in Markers
    BY DEF TypeOK
  <2>3. /\ states' \in [Markers -> GateStates]
        /\ nextID' = nextID
        /\ \A n \in Markers : states'[n].attemptID = states[n].attemptID
    BY <2>1, <2>2, ClearFacts DEF TypeOK
  <2> QED BY <1>13, <2>1, <2>2, <2>3 DEF ClearNext, TypeOK, syncVars
<1>14. CASE BeginUpdate \/ RejectUpdate \/ CommitConfig \/ PublishConfig \/ ClearDone
  BY <1>14 DEF BeginUpdate, RejectUpdate, CommitConfig, PublishConfig, ClearDone,
               TypeOK, syncVars
<1>15. ASSUME NEW S \in {Markers} \cup {{m} : m \in Markers}, BeginClear(S) PROVE TypeOK'
  BY <1>15 DEF BeginClear, TypeOK, syncVars
<1>16. CASE UNCHANGED vars
  BY <1>16 DEF vars, syncVars, TypeOK
<1> QED
  BY <1>1, <1>2, <1>3, <1>4, <1>5, <1>6, <1>7, <1>8, <1>9, <1>10, <1>11, <1>12,
     <1>13, <1>14, <1>15, <1>16
  DEF Next, Arrival, SyncerStep, TaskStep, AdminStep

-----------------------------------------------------------------------------
(* Every action preserves the invariant.                                    *)

\* A new admission: the marker was free, so nobody else holds it.
LEMMA AdmitInv ==
    ASSUME TypeOK, IInv, NEW s \in Syncers, NEW m \in Markers,
           pc[s] \in {"idle", "chained"}, Admit(s, m)
    PROVE  IInv'
<1>1. /\ ~states[m].inFlight /\ ~states[m].retainedSuccess
      /\ states'[m].inFlight /\ ~states'[m].retainedSuccess
      /\ states'[m].attemptID = nextID + 1
      /\ states'[m].generation = states[m].generation
      /\ \A n \in Markers \ {m} : states'[n] = states[n]
  BY BeginFacts DEF Admit, TypeOK
<1>2. /\ pc' = [pc EXCEPT ![s] = "admitted"]
      /\ attempt' = [attempt EXCEPT ![s] = NewAttempt(m)]
      /\ NewAttempt(m).marker = m /\ NewAttempt(m).id = nextID + 1
      /\ NewAttempt(m).generation = states[m].generation
      /\ UNCHANGED <<config, admin, pending, read, titles>>
  BY DEF Admit, Goto, NewAttempt, adminVars
<1>3. \A t \in Syncers : attempt[t].marker \in Markers
  BY DEF TypeOK, Attempts
<1>4. \A t \in Syncers : Held(t) => attempt[t].marker # m
  BY <1>1 DEF IInv, OwnerInv
<1>5. \A t \in Syncers \ {s} : pc'[t] = pc[t] /\ attempt'[t] = attempt[t]
  BY <1>2 DEF TypeOK
<1>6. pc'[s] = "admitted" /\ attempt'[s] = NewAttempt(m)
  BY <1>2 DEF TypeOK
<1>7. OneSyncPerMarker'
  BY <1>1, <1>2, <1>3, <1>4, <1>5, <1>6 DEF IInv, OneSyncPerMarker, Syncing, Held
<1>8. OwnerInv'
  BY <1>1, <1>2, <1>3, <1>4, <1>5, <1>6 DEF IInv, OwnerInv, Held, TypeOK, GateStates
<1>9. ShutInv' /\ PendingInv'
  BY <1>1, <1>2 DEF IInv, ShutInv, PendingInv
<1>10. FreshInv' /\ StoredInv'
  <2>1. \A t \in Syncers : pc'[t] \in {"configured", "stored"} =>
          /\ pc'[t] = pc[t] /\ attempt'[t] = attempt[t]
          /\ states'[attempt[t].marker] = states[attempt[t].marker]
    BY <1>1, <1>3, <1>4, <1>5, <1>6 DEF Held
  <2> QED BY <1>2, <2>1 DEF IInv, FreshInv, StoredInv, ClearDue
<1>11. RetainedTitlesAreCurrent'
  BY <1>1, <1>2 DEF IInv, RetainedTitlesAreCurrent, ClearDue
<1> QED BY <1>7, <1>8, <1>9, <1>10, <1>11 DEF IInv

\* Reading the configuration, storing the rows and failing leave the gate alone.
LEMMA WorkInv ==
    ASSUME TypeOK, IInv, NEW s \in Syncers, LoadConfig(s) \/ Replace(s) \/ SyncFails(s)
    PROVE  IInv'
<1>1. /\ UNCHANGED <<states, config, admin, pending, attempt>>
      /\ pc[s] \in {"admitted", "configured"}
      /\ pc'[s] \in {"configured", "stored", "failed"}
      /\ \A t \in Syncers \ {s} : pc'[t] = pc[t]
  BY DEF LoadConfig, Replace, SyncFails, Goto, TypeOK, gateVars, adminVars
<1>2. \A t \in Syncers : attempt[t].marker \in Markers /\ Held(t) = Held(t)'
  BY <1>1 DEF TypeOK, Attempts, Held
<1>3. \A t \in Syncers \ {s} : Held(t) => attempt[t].marker # attempt[s].marker
  BY <1>1, <1>2 DEF IInv, OneSyncPerMarker, Syncing, Held
<1>4. states[attempt[s].marker].inFlight
  BY <1>1 DEF IInv, OwnerInv, Held
<1>5. OneSyncPerMarker' /\ OwnerInv' /\ ShutInv' /\ PendingInv'
  BY <1>1, <1>2
  DEF IInv, OneSyncPerMarker, Syncing, OwnerInv, Held, ShutInv, PendingInv
<1>6. \A t \in Syncers \ {s} : read'[t] = read[t]
  BY DEF LoadConfig, Replace, SyncFails, TypeOK
<1>7. \A n \in Markers \ {attempt[s].marker} : titles'[n] = titles[n]
  BY DEF LoadConfig, Replace, SyncFails, TypeOK
<1>8. FreshInv'
  BY <1>1, <1>6 DEF IInv, FreshInv, ClearDue, LoadConfig, Replace, SyncFails, TypeOK, Goto
<1>9. pc'[s] = "stored" =>
        /\ read'[s] \in titles'[attempt[s].marker]
        /\ attempt[s].marker \in Replaced => titles'[attempt[s].marker] = {read'[s]}
  BY <1>2 DEF LoadConfig, Replace, TitlesAfter, SyncFails, TypeOK, Goto
<1>10. StoredInv'
  BY <1>1, <1>2, <1>3, <1>6, <1>7, <1>9 DEF IInv, StoredInv, Held
<1>11. RetainedTitlesAreCurrent'
  BY <1>1, <1>4, <1>7 DEF IInv, ShutInv, RetainedTitlesAreCurrent, ClearDue
<1> QED BY <1>5, <1>8, <1>10, <1>11 DEF IInv

\* The end of an attempt: a success of the present generation is current.
LEMMA FinishInv ==
    ASSUME TypeOK, IInv, NEW s \in Syncers, FinishSucceeded(s) \/ FinishFailed(s)
    PROVE  IInv'
<1> DEFINE m == attempt[s].marker
           succeeded == pc[s] = "stored"
<1>1. /\ attempt[s] \in Attempts /\ m \in Markers /\ succeeded \in BOOLEAN
      /\ \A t \in Syncers : attempt[t].marker \in Markers
  BY DEF TypeOK, Attempts
<1>2. /\ FinishTitleSync(attempt[s], succeeded)
      /\ pc[s] \in {"stored", "failed"}
      /\ pc'[s] \in {"publishing", "released", "idle"}
      /\ UNCHANGED <<config, admin, pending, titles>>
      /\ \A t \in Syncers \ {s} :
            pc'[t] = pc[t] /\ attempt'[t] = attempt[t] /\ read'[t] = read[t]
  BY DEF FinishSucceeded, FinishFailed, Goto, GotoOrReturn, TypeOK, adminVars
<1>3. Held(s) /\ states[m].inFlight /\ states[m].attemptID = attempt[s].id
  BY <1>2 DEF IInv, OwnerInv, Held
<1>4. /\ ~states'[m].inFlight
      /\ states'[m].attemptID = states[m].attemptID
      /\ states'[m].generation = states[m].generation
      /\ states[m].generation = attempt[s].generation =>
             states'[m].retainedSuccess = succeeded
      /\ states[m].generation # attempt[s].generation =>
             states'[m].retainedSuccess = states[m].retainedSuccess
      /\ \A n \in Markers \ {m} : states'[n] = states[n]
  BY <1>1, <1>2, <1>3, FinishFacts DEF TypeOK
<1>5. \A t \in Syncers \ {s} : Held(t) => attempt[t].marker # m
  BY <1>1, <1>3 DEF IInv, OneSyncPerMarker, Syncing, Held
<1>6. ~states[m].retainedSuccess
  BY <1>1, <1>3 DEF IInv, ShutInv
<1>7. states'[m].retainedSuccess /\ ~ClearDue(m) =>
        /\ config \in titles[m]
        /\ m \in Replaced => titles[m] = {config}
  BY <1>2, <1>4, <1>6 DEF IInv, FreshInv, StoredInv
<1> HIDE DEF m, succeeded
<1>8. OneSyncPerMarker'
  BY <1>1, <1>2, <1>4, <1>5 DEF IInv, OneSyncPerMarker, Syncing, Held, m
<1>9. OwnerInv'
  BY <1>1, <1>2, <1>4, <1>5 DEF IInv, OwnerInv, Held
<1>10. ShutInv' /\ PendingInv'
  BY <1>1, <1>2, <1>4 DEF IInv, ShutInv, PendingInv
<1>11. FreshInv' /\ StoredInv'
  BY <1>1, <1>2, <1>4, <1>5 DEF IInv, FreshInv, StoredInv, ClearDue, Held
<1>12. RetainedTitlesAreCurrent'
  BY <1>1, <1>2, <1>4, <1>7 DEF IInv, RetainedTitlesAreCurrent, ClearDue
<1> QED BY <1>8, <1>9, <1>10, <1>11, <1>12 DEF IInv

\* A clear of m, by whomever: what was admitted for m is of an older generation.
LEMMA ClearInv ==
    ASSUME TypeOK, IInv, NEW m \in Markers, ClearGate(m),
           UNCHANGED <<config, titles>>,
           \A t \in Syncers : Held(t) => UNCHANGED <<pc[t], attempt[t], read[t]>>,
           \A t \in Syncers : Held(t)' => Held(t),
           admin' = admin, pending' = pending \/ pending' = pending \ {m}
    PROVE  IInv'
<1>1. /\ states'[m].inFlight = states[m].inFlight
      /\ ~states'[m].retainedSuccess
      /\ states'[m].attemptID = states[m].attemptID
      /\ states'[m].generation = states[m].generation + 1
      /\ \A n \in Markers \ {m} : states'[n] = states[n]
  BY ClearFacts DEF TypeOK
<1>2. \A n \in Markers : states'[n].inFlight = states[n].inFlight
  BY <1>1
<1>3. \A t \in Syncers : attempt[t].marker \in Markers /\ attempt[t].generation \in Nat
  BY DEF TypeOK, Attempts
<1>4. \A n \in Markers : states[n].generation \in Nat
  BY DEF TypeOK, GateStates
<1>5. \A t \in Syncers, n \in Markers : Syncing(t, n)' <=> Syncing(t, n)
  BY DEF Syncing, Held
<1>6. OneSyncPerMarker'
  BY <1>2, <1>5 DEF IInv, OneSyncPerMarker
<1>7. OwnerInv'
  BY <1>1, <1>3, <1>4 DEF IInv, OwnerInv, Held
<1>8. ShutInv' /\ PendingInv'
  BY <1>1 DEF IInv, ShutInv, PendingInv
<1>9. \A n \in Markers \ {m} : ClearDue(n)' <=> ClearDue(n)
  BY DEF ClearDue
<1>10. \A t \in Syncers : Held(t)' =>
         /\ pc'[t] = pc[t] /\ attempt'[t] = attempt[t] /\ read'[t] = read[t]
         /\ attempt[t].marker = m => attempt[t].generation # states'[m].generation
  BY <1>1, <1>3, <1>4 DEF IInv, OwnerInv
<1>11. FreshInv'
  BY <1>1, <1>3, <1>9, <1>10 DEF IInv, FreshInv, Held
<1>12. StoredInv'
  BY <1>10 DEF IInv, StoredInv, Held
<1>13. RetainedTitlesAreCurrent'
  BY <1>1, <1>9 DEF IInv, RetainedTitlesAreCurrent
<1> QED BY <1>6, <1>7, <1>8, <1>11, <1>12, <1>13 DEF IInv

\* Steps of a syncer that the gate does not know any more.
LEMMA AfterwardsInv ==
    ASSUME TypeOK, IInv, NEW s \in Syncers,
           Invalidate(s) \/ InvalidateFails(s) \/ (SkipTMDB /\ s = Task)
    PROVE  IInv'
<1>1. /\ UNCHANGED <<states, config, admin, pending, titles>>
      /\ pc[s] \in {"publishing", "chained"}
      /\ pc'[s] \in {"chained", "idle"}
      /\ \A t \in Syncers \ {s} :
            pc'[t] = pc[t] /\ attempt'[t] = attempt[t] /\ read'[t] = read[t]
  BY DEF Invalidate, InvalidateFails, SkipTMDB, GotoOrReturn, Goto, TypeOK,
         gateVars, adminVars
<1>2. \A t \in Syncers, n \in Markers : Syncing(t, n)' <=> Syncing(t, n)
  BY <1>1 DEF Syncing
<1>3. OneSyncPerMarker'
  BY <1>1, <1>2 DEF IInv, OneSyncPerMarker
<1>4. OwnerInv' /\ ShutInv' /\ PendingInv'
  BY <1>1 DEF IInv, OwnerInv, Held, ShutInv, PendingInv
<1>5. FreshInv' /\ StoredInv' /\ RetainedTitlesAreCurrent'
  BY <1>1 DEF IInv, FreshInv, StoredInv, RetainedTitlesAreCurrent, ClearDue
<1> QED BY <1>3, <1>4, <1>5 DEF IInv

\* Steps under Handler.mu that leave the gate alone: from the commit on, every
\* marker is due to be cleared.
LEMMA AdminInv ==
    ASSUME TypeOK, IInv,
           \/ BeginUpdate \/ RejectUpdate \/ CommitConfig \/ PublishConfig \/ ClearDone
           \/ \E S \in {Markers} \cup {{m} : m \in Markers} : BeginClear(S)
    PROVE  IInv'
<1>1. UNCHANGED <<states, titles, pc, attempt, read>>
  BY DEF BeginUpdate, RejectUpdate, CommitConfig, PublishConfig, ClearDone, BeginClear,
         gateVars, syncVars
<1>2. OneSyncPerMarker' /\ OwnerInv' /\ ShutInv' /\ StoredInv'
  BY <1>1 DEF IInv, OneSyncPerMarker, Syncing, OwnerInv, Held, ShutInv, StoredInv
<1>3. PendingInv'
  BY DEF IInv, PendingInv, BeginUpdate, RejectUpdate, CommitConfig, PublishConfig,
         ClearDone, BeginClear
<1>4. \A m \in Markers : ~ClearDue(m)' => ~ClearDue(m) /\ config' = config
  BY DEF IInv, PendingInv, ClearDue, BeginUpdate, RejectUpdate, CommitConfig,
         PublishConfig, ClearDone, BeginClear
<1>5. \A s \in Syncers : attempt[s].marker \in Markers
  BY DEF TypeOK, Attempts
<1>6. FreshInv' /\ RetainedTitlesAreCurrent'
  BY <1>1, <1>4, <1>5 DEF IInv, FreshInv, RetainedTitlesAreCurrent
<1> QED BY <1>2, <1>3, <1>6 DEF IInv

\* Nobody synchronises and nothing is retained at the start.
LEMMA InvInit == Init => IInv
BY DEF Init, newTitleSyncGate, IInv, OneSyncPerMarker, Syncing, OwnerInv, Held, ShutInv,
       FreshInv, StoredInv, PendingInv, RetainedTitlesAreCurrent

\* Every step of the syncers and of the handler preserves the invariant.
LEMMA InvStep == TypeOK /\ IInv /\ [Next]_vars => IInv'
<1> SUFFICES ASSUME TypeOK, IInv, [Next]_vars PROVE IInv'
  OBVIOUS
<1>1. CASE Arrival
  <2>1. ASSUME NEW s \in Requests, NEW m \in Active, StartRequest(s, m) PROVE IInv'
    BY <2>1, AdmitInv, SyncersAssumption DEF StartRequest, Syncers
  <2>2. ASSUME NEW m \in Replaced \cap Active, StartTask(m) PROVE IInv'
    BY <2>2, AdmitInv, SyncersAssumption DEF StartTask, Syncers
  <2> QED BY <1>1, <2>1, <2>2, AdminInv DEF Arrival
<1>2. ASSUME NEW s \in Syncers, SyncerStep(s) \/ SyncFails(s) \/ InvalidateFails(s)
      PROVE  IInv'
  <2>1. CASE DeleteMarker(s)
    <3>1. attempt[s].marker \in Markers
      BY DEF TypeOK, Attempts
    <3>2. /\ UNCHANGED <<config, titles, admin, pending>>
          /\ pc[s] = "released" /\ pc'[s] = "idle"
          /\ \A t \in Syncers \ {s} :
                pc'[t] = pc[t] /\ attempt'[t] = attempt[t] /\ read'[t] = read[t]
      BY <2>1 DEF DeleteMarker, GotoOrReturn, Goto, TypeOK, adminVars
    <3>3. \A t \in Syncers :
            /\ Held(t) => UNCHANGED <<pc[t], attempt[t], read[t]>>
            /\ Held(t)' => Held(t)
      BY <3>2 DEF Held
    <3> QED BY <2>1, <3>1, <3>2, <3>3, ClearInv DEF DeleteMarker
  <2> QED BY <1>2, <2>1, WorkInv, FinishInv, AfterwardsInv DEF SyncerStep
<1>3. CASE TaskStep
  <2>1. CASE ChainTMDB
    BY <2>1, AdmitInv DEF ChainTMDB, Syncers, Markers
  <2>2. CASE SkipTMDB
    BY <2>2, AfterwardsInv DEF Syncers
  <2> QED BY <1>3, <2>1, <2>2 DEF TaskStep
<1>4. CASE AdminStep
  <2>1. CASE ClearNext
    <3>1. PICK m \in pending : ClearGate(m) /\ pending' = pending \ {m}
      BY <2>1 DEF ClearNext
    <3>2. m \in Markers /\ UNCHANGED <<config, admin, pc, attempt, read, titles>>
      BY <2>1 DEF ClearNext, TypeOK, syncVars
    <3> QED BY <3>1, <3>2, ClearInv DEF Held
  <2> QED BY <1>4, <2>1, AdminInv DEF AdminStep
<1>5. CASE UNCHANGED vars
  BY <1>5 DEF vars, gateVars, adminVars, syncVars, IInv, OneSyncPerMarker, Syncing,
              OwnerInv, Held, ShutInv, FreshInv, StoredInv, PendingInv,
              RetainedTitlesAreCurrent, ClearDue
<1> QED BY <1>1, <1>2, <1>3, <1>4, <1>5 DEF Next

\* The inductive invariant holds in every behaviour.
LEMMA Invariant == Spec => [](TypeOK /\ IInv)
<1>1. Init => TypeOK /\ IInv
  BY TypeInit, InvInit
<1>2. TypeOK /\ IInv /\ [Next]_vars => (TypeOK /\ IInv)'
  BY TypeStep, InvStep
<1> QED BY <1>1, <1>2, PTL DEF Spec

-----------------------------------------------------------------------------
(* The theorems.                                                            *)

\* Every variable keeps its type, and attempt numbers are given out once.
THEOREM AttemptsAreTyped == Spec => []TypeOK
BY Invariant, PTL

\* For any number of requests: never two synchronisations of one marker, and the
\* gate is shut exactly while there is one.
THEOREM GateAdmitsOne == Spec => []OneSyncPerMarker
<1>1. IInv => OneSyncPerMarker
  BY DEF IInv
<1> QED BY <1>1, Invariant, PTL

\* For any number of requests and updates: a retained success never stands for
\* titles fetched with a configuration that has been replaced.
THEOREM RetainedIsCurrent == Spec => []RetainedTitlesAreCurrent
<1>1. IInv => RetainedTitlesAreCurrent
  BY DEF IInv
<1> QED BY <1>1, Invariant, PTL

=============================================================================
