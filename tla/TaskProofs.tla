----------------------------- MODULE TaskProofs -----------------------------
(***************************************************************************)
(* Proofs about the scheduler, for any set of jobs, any concurrency limit    *)
(* and any number of run goroutines, and about the rename task that it runs, *)
(* for any torrents, titles, histories and formats.                         *)
(***************************************************************************)
EXTENDS Scheduler, RenameState, Sequences, FiniteSetTheorems, WellFoundedInduction, TLAPS

-----------------------------------------------------------------------------
(* The scheduler: the inductive invariant.                                  *)

\* A goroutine that exists was started for a job.
JobInv == \A g \in Runs : run[g] # "none" => job[g] \in Jobs

\* A job has at most one run in flight, and no claim beside it.
UniqueInv ==
    /\ NoOverlap
    /\ \A g \in Runs : InFlight(g) => loop[job[g]] # "claimed"

\* The flags of jobState tell what is in flight.
FlagInv ==
    /\ \A j \in Jobs : loop[j] = "claimed" => waiting[j] /\ ~running[j]
    /\ \A g \in Runs : InQueue(g) => waiting[job[g]]
    /\ \A g \in Runs : InCallback(g) => running[job[g]]

\* Whoever got the semaphore after the cancellation cannot get past the check.
LateInv ==
    \A g \in Runs :
        /\ late[g] => cancelled
        /\ run[g] = "checked" \/ InCallback(g) => ~late[g]

\* The semaphore counts the goroutines that hold it.
TokenInv == tokens = Cardinality({g \in Runs : Holding(g)})

\* The loops have ended before the runs are waited for.
FinalInv ==
    /\ main \in {"runs", "done"} => \A j \in Jobs : loop[j] \in {"off", "exited"}
    /\ main = "done" => \A g \in Runs : run[g] = "none"

IInv ==
    /\ JobInv
    /\ UniqueInv
    /\ FlagInv
    /\ LateInv
    /\ TokenInv
    /\ FinalInv

-----------------------------------------------------------------------------
(* The semaphore.                                                           *)

\* The holders are finitely many, and one that holds makes the count positive.
LEMMA Holders ==
    /\ IsFiniteSet({g \in Runs : Holding(g)})
    /\ TokenInv => tokens \in Nat
    /\ TokenInv => \A g \in Runs : Holding(g) => tokens > 0
<1>1. IsFiniteSet({g \in Runs : Holding(g)})
  BY RunsAssumption, FS_Subset
<1>2. Cardinality({g \in Runs : Holding(g)}) \in Nat
  BY <1>1, FS_CardinalityType
<1>3. ASSUME NEW g \in Runs, Holding(g) PROVE Cardinality({h \in Runs : Holding(h)}) # 0
  BY <1>1, <1>3, FS_EmptySet
<1> QED BY <1>1, <1>2, <1>3 DEF TokenInv

\* One goroutine changes state: the count follows if it takes or gives the
\* semaphore, and stays otherwise.
LEMMA TokenStep ==
    ASSUME TypeOK, TokenInv, NEW g \in Runs, NEW state \in RunStates, Goto(g, state),
           \/ ~Holding(g) /\ Holding(g)' /\ tokens' = tokens + 1
           \/ Holding(g) /\ ~Holding(g)' /\ tokens' = tokens - 1
           \/ (Holding(g) <=> Holding(g)') /\ tokens' = tokens
    PROVE  TokenInv'
<1> DEFINE H == {h \in Runs : Holding(h)}
           N == {h \in Runs : Holding(h)'}
<1>1. \A h \in Runs \ {g} : Holding(h) <=> Holding(h)'
  BY DEF Goto, TypeOK, Holding
<1>2. IsFiniteSet(H) /\ tokens = Cardinality(H) /\ tokens \in Nat
  BY Holders DEF TokenInv
<1>3. CASE ~Holding(g) /\ Holding(g)' /\ tokens' = tokens + 1
  <2>1. N = H \cup {g} /\ g \notin H
    BY <1>1, <1>3
  <2> HIDE DEF H, N
  <2>2. Cardinality(N) = Cardinality(H) + 1
    BY <1>2, <2>1, FS_AddElement
  <2> QED BY <1>2, <1>3, <2>2 DEF TokenInv, N
<1>4. CASE Holding(g) /\ ~Holding(g)' /\ tokens' = tokens - 1
  <2>1. N = H \ {g} /\ g \in H
    BY <1>1, <1>4
  <2> HIDE DEF H, N
  <2>2. Cardinality(N) = Cardinality(H) - 1
    BY <1>2, <2>1, FS_RemoveElement
  <2> QED BY <1>2, <1>4, <2>2 DEF TokenInv, N
<1>5. CASE (Holding(g) <=> Holding(g)') /\ tokens' = tokens
  <2>1. N = H
    BY <1>1, <1>5
  <2> QED BY <1>2, <1>5, <2>1 DEF TokenInv
<1> QED BY <1>3, <1>4, <1>5

-----------------------------------------------------------------------------
(* Type correctness.                                                        *)

\* The start of the process is typed.
LEMMA TypeInit == Init => TypeOK
<1> SUFFICES ASSUME Init PROVE TypeOK
  OBVIOUS
<1>1. 0 \in 0..Limit
  BY LimitAssumption
<1>2. tokens \in 0..Limit
  BY <1>1 DEF Init
<1>3. /\ loop \in [Jobs -> LoopStates]
      /\ run \in [Runs -> RunStates]
      /\ job \in [Runs -> Jobs \cup {None}]
      /\ verdict \in [Runs -> {"failed", "succeeded", "neither"}]
  BY DEF Init, LoopStates, RunStates
<1>4. /\ waiting \in [Jobs -> BOOLEAN] /\ running \in [Jobs -> BOOLEAN]
      /\ episode \in [Jobs -> BOOLEAN] /\ logged \in [Jobs -> BOOLEAN]
      /\ ended \in [Runs -> BOOLEAN] /\ report \in [Runs -> BOOLEAN]
      /\ late \in [Runs -> BOOLEAN]
  BY DEF Init
<1>5. jobs \subseteq Jobs /\ cancelled \in BOOLEAN /\ main = "composing"
  BY DEF Init
<1> QED BY <1>2, <1>3, <1>4, <1>5 DEF TypeOK

\* Every step keeps the types.
LEMMA TypeStep == TypeOK /\ [Next]_vars => TypeOK'
<1> SUFFICES ASSUME TypeOK, [Next]_vars PROVE TypeOK'
  OBVIOUS
<1> USE LimitAssumption DEF TypeOK, stateVars, runVars
<1>1. CASE \E j \in Jobs : Add(j)
  BY <1>1 DEF Add
<1>2. CASE Start
  BY <1>2 DEF Start, LoopStates
<1>3. CASE Cancel \/ MainStep
  BY <1>3 DEF Cancel, MainStep, CallWait, LoopsWait, RunsWait
<1>4. ASSUME NEW j \in Jobs, LoopStep(j) \/ LoopExits(j) PROVE TypeOK'
  <2>1. CASE LoopBegins(j) \/ Skip(j) \/ LoopExits(j)
    BY <2>1 DEF LoopBegins, Skip, LoopExits, LoopStates
  <2>2. CASE Claim(j)
    BY <2>2 DEF Claim, LoopStates
  <2>3. ASSUME NEW g \in Runs, Spawn(j, g) PROVE TypeOK'
    BY <2>3 DEF Spawn, LoopStates, RunStates
  <2> QED BY <1>4, <2>1, <2>2, <2>3 DEF LoopStep
<1>5. ASSUME NEW g \in Runs, RunStep(g) \/ Acquire(g) \/ ContextEnds(g) \/ Returns(g)
      PROVE  TypeOK'
  <2>1. CASE Abandon(g) \/ Drop(g) \/ Log(g)
    BY <2>1 DEF Abandon, Drop, Log, Exit, Goto, RunStates
  <2>2. CASE GiveBack(g) \/ Release(g)
    BY <2>2 DEF GiveBack, Release, GivePlaceBack, Goto, RunStates
  <2>3. CASE Acquire(g)
    BY <2>3 DEF Acquire, Goto, RunStates
  <2>4. CASE Pass(g) \/ Begin(g) \/ ContextEnds(g)
    BY <2>4 DEF Pass, Begin, ContextEnds, Goto, RunStates
  <2>5. CASE Settle(g)
    BY <2>5 DEF Settle, Goto, RunStates
  <2>6. CASE Returns(g)
    BY <2>6 DEF Returns, CallbackReturns, Verdict, Goto, RunStates
  <2> QED BY <1>5, <2>1, <2>2, <2>3, <2>4, <2>5, <2>6 DEF RunStep
<1>6. CASE UNCHANGED vars
  BY <1>6 DEF vars
<1> QED BY <1>1, <1>2, <1>3, <1>4, <1>5, <1>6 DEF Next

-----------------------------------------------------------------------------
(* Every action preserves the invariant.                                    *)

\* Steps of the process leave the runs alone.
LEMMA ProcessInv ==
    ASSUME TypeOK, IInv, (\E j \in Jobs : Add(j)) \/ Start \/ Cancel \/ MainStep
    PROVE  IInv'
<1> USE DEF stateVars, runVars
<1>1. UNCHANGED <<stateVars, tokens, runVars>>
  BY DEF Add, Start, Cancel, MainStep, CallWait, LoopsWait, RunsWait
<1>2. \A j \in Jobs : loop'[j] = "claimed" => loop[j] = "claimed"
  BY DEF Add, Start, Cancel, MainStep, CallWait, LoopsWait, RunsWait, TypeOK
<1>3. JobInv' /\ TokenInv'
  BY <1>1 DEF IInv, JobInv, TokenInv, Holding
<1>4. UniqueInv' /\ FlagInv'
  BY <1>1, <1>2 DEF IInv, JobInv, UniqueInv, NoOverlap, FlagInv, InFlight, InQueue, InCallback
<1>5. LateInv'
  BY <1>1 DEF IInv, LateInv, InCallback, Add, Start, Cancel, MainStep, CallWait,
              LoopsWait, RunsWait, TypeOK
<1>6. FinalInv'
  BY <1>1 DEF IInv, FinalInv, Add, Start, Cancel, MainStep, CallWait, LoopsWait, RunsWait
<1> QED BY <1>3, <1>4, <1>5, <1>6 DEF IInv

\* Steps of a loop: it claims only when nothing of the job is in flight.
LEMMA LoopInv ==
    ASSUME TypeOK, IInv, NEW j \in Jobs,
           LoopBegins(j) \/ Claim(j) \/ Skip(j) \/ LoopExits(j)
    PROVE  IInv'
<1> USE DEF stateVars, runVars
<1>1. UNCHANGED <<main, cancelled, tokens, runVars, running>>
  BY DEF LoopBegins, Claim, Skip, LoopExits
<1>2. /\ \A i \in Jobs \ {j} : loop'[i] = loop[i] /\ waiting'[i] = waiting[i]
      /\ loop[j] \in {"begin", "waiting"}
      /\ waiting[j] => waiting'[j]
      /\ loop'[j] = "claimed" => waiting'[j] /\ ~waiting[j] /\ ~running[j]
  BY DEF LoopBegins, Claim, Skip, LoopExits, CallsStartRun, TypeOK
<1>3. JobInv' /\ TokenInv' /\ LateInv'
  BY <1>1 DEF IInv, JobInv, TokenInv, Holding, LateInv, InCallback
<1>4. FinalInv'
  BY <1>1, <1>2 DEF IInv, FinalInv
<1>5. UniqueInv'
  BY <1>1, <1>2 DEF IInv, JobInv, UniqueInv, NoOverlap, FlagInv, InFlight, InQueue, InCallback
<1>6. FlagInv'
  BY <1>1, <1>2 DEF IInv, JobInv, FlagInv, InQueue, InCallback
<1> QED BY <1>3, <1>4, <1>5, <1>6 DEF IInv

\* A claim becomes the only run in flight of its job.
LEMMA SpawnInv ==
    ASSUME TypeOK, IInv, NEW j \in Jobs, NEW g \in Runs, Spawn(j, g)
    PROVE  IInv'
<1> USE DEF stateVars
<1>1. /\ UNCHANGED <<main, cancelled, tokens, stateVars, late>>
      /\ run[g] = "none" /\ run'[g] = "pending" /\ job'[g] = j
      /\ loop[j] = "claimed" /\ loop'[j] = "waiting"
      /\ \A h \in Runs \ {g} : run'[h] = run[h] /\ job'[h] = job[h]
      /\ \A i \in Jobs \ {j} : loop'[i] = loop[i]
  BY DEF Spawn, TypeOK
<1>2. \A h \in Runs \ {g} : InFlight(h) => job[h] # j
  BY <1>1 DEF IInv, UniqueInv, NoOverlap
<1>3. JobInv'
  BY <1>1 DEF IInv, JobInv
<1>4. TokenInv'
  BY <1>1, TokenStep DEF Spawn, Goto, Holding, RunStates, IInv
<1>5. LateInv'
  BY <1>1 DEF IInv, LateInv, InCallback
<1>6. FinalInv'
  BY <1>1 DEF IInv, FinalInv
<1>7. UniqueInv'
  BY <1>1, <1>2 DEF IInv, JobInv, UniqueInv, NoOverlap, InFlight, InQueue, InCallback
<1>8. FlagInv'
  BY <1>1 DEF IInv, JobInv, FlagInv, InQueue, InCallback
<1> QED BY <1>3, <1>4, <1>5, <1>6, <1>7, <1>8 DEF IInv

\* Steps of a run. Its flags concern nobody else, because it is the only run of
\* its job in flight.
LEMMA RunInv ==
    ASSUME TypeOK, IInv, NEW g \in Runs,
           RunStep(g) \/ Acquire(g) \/ ContextEnds(g) \/ Returns(g)
    PROVE  IInv'
<1> USE DEF stateVars
<1> DEFINE j == job[g]
<1>1. run[g] # "none"
  BY DEF RunStep, Abandon, GiveBack, Drop, Pass, Begin, Settle, Release, Log, Acquire,
         ContextEnds, Returns, CallbackReturns
<1>2. j \in Jobs
  BY <1>1 DEF IInv, JobInv
<1>3. /\ UNCHANGED <<main, cancelled, loop>>
      /\ \A h \in Runs \ {g} : run'[h] = run[h] /\ job'[h] = job[h] /\ late'[h] = late[h]
  BY DEF RunStep, Abandon, GiveBack, Drop, Pass, Begin, Settle, Release, Log, Acquire,
         ContextEnds, Returns, CallbackReturns, Exit, Goto, TypeOK
<1>4. /\ InFlight(g)' => InFlight(g) /\ job'[g] = j
      /\ run'[g] # "none" => job'[g] = j
      /\ \A i \in Jobs \ {j} : waiting'[i] = waiting[i] /\ running'[i] = running[i]
      /\ waiting'[j] # waiting[j] \/ running'[j] # running[j] => InFlight(g)
      /\ InQueue(g)' => waiting'[j] = waiting[j] /\ InQueue(g)
      /\ InCallback(g)' => \/ running'[j] = running[j] /\ InCallback(g)
                          \/ running'[j]
  BY <1>2 DEF RunStep, Abandon, GiveBack, Drop, Pass, Begin, Settle, Release, Log, Acquire,
         ContextEnds, Returns, CallbackReturns, Exit, Goto, TypeOK, InFlight, InQueue,
         InCallback
<1>5. JobInv'
  BY <1>2, <1>3, <1>4 DEF IInv, JobInv
<1>6. TokenInv'
  <2>1. \E state \in RunStates :
          /\ Goto(g, state)
          /\ \/ ~Holding(g) /\ Holding(g)' /\ tokens' = tokens + 1
             \/ Holding(g) /\ ~Holding(g)' /\ tokens' = tokens - 1
             \/ (Holding(g) <=> Holding(g)') /\ tokens' = tokens
    <3>1. CASE ContextEnds(g)
      <4>1. Goto(g, run[g]) /\ run[g] \in RunStates /\ UNCHANGED <<run, tokens>>
        BY <3>1 DEF ContextEnds, Goto, TypeOK
      <4> QED BY <4>1 DEF Holding
    <3>2. CASE ~ContextEnds(g)
      BY <3>2 DEF RunStep, Abandon, GiveBack, GivePlaceBack, Drop, Pass, Begin, Settle,
         Release, Log, Acquire, Returns, CallbackReturns, Exit, Goto, TypeOK, Holding, RunStates
    <3> QED BY <3>1, <3>2
  <2> QED BY <2>1, TokenStep DEF IInv
<1>7. LateInv'
  <2>1. /\ late'[g] => cancelled
        /\ run'[g] = "checked" \/ InCallback(g)' => ~late'[g]
    BY DEF IInv, LateInv, RunStep, Abandon, GiveBack, Drop, Pass, Begin, Settle, Release,
         Log, Acquire, ContextEnds, Returns, CallbackReturns, Exit, Goto, TypeOK, InCallback
  <2> QED BY <1>3, <2>1 DEF IInv, LateInv, InCallback
<1>8. FinalInv'
  BY <1>1, <1>3 DEF IInv, FinalInv
<1>9. \A h \in Runs \ {g} : /\ InFlight(h)' <=> InFlight(h)
                            /\ InQueue(h)' <=> InQueue(h)
                            /\ InCallback(h)' <=> InCallback(h)
  BY <1>3 DEF InFlight, InQueue, InCallback
<1>10. UniqueInv'
  BY <1>2, <1>3, <1>4, <1>9 DEF IInv, JobInv, UniqueInv, NoOverlap
<1>11. \A h \in Runs \ {g} : InFlight(h) /\ InFlight(g) => job[h] # j
  BY DEF IInv, UniqueInv, NoOverlap
<1>12. FlagInv'
  <2>1. \A i \in Jobs : loop'[i] = "claimed" => waiting'[i] /\ ~running'[i]
    BY <1>2, <1>3, <1>4 DEF IInv, FlagInv, UniqueInv, NoOverlap
  <2>2. InQueue(g)' => waiting'[job'[g]]
    BY <1>4 DEF IInv, FlagInv, InFlight
  <2>3. InCallback(g)' => running'[job'[g]]
    BY <1>4 DEF IInv, FlagInv, InFlight
  <2>4. ASSUME NEW h \in Runs \ {g}
        PROVE  /\ InQueue(h)' => waiting'[job'[h]]
               /\ InCallback(h)' => running'[job'[h]]
    <3>1. InFlight(h) => job[h] \in Jobs
      BY DEF IInv, JobInv, InFlight, InQueue, InCallback
    <3> QED BY <1>3, <1>4, <1>9, <1>11, <3>1 DEF IInv, FlagInv, InFlight
  <2> QED BY <2>1, <2>2, <2>3, <2>4 DEF FlagInv
<1> QED BY <1>5, <1>6, <1>7, <1>8, <1>10, <1>12 DEF IInv

\* Nothing is in flight when the process starts.
LEMMA InvInit == Init => IInv
<1> SUFFICES ASSUME Init PROVE IInv
  OBVIOUS
<1>1. {g \in Runs : Holding(g)} = {}
  BY DEF Init, Holding
<1>2. TokenInv
  BY <1>1, FS_EmptySet DEF TokenInv, Init
<1>3. JobInv /\ UniqueInv /\ FlagInv /\ LateInv /\ FinalInv
  BY DEF Init, JobInv, UniqueInv, NoOverlap, FlagInv, LateInv, FinalInv, InFlight, InQueue,
         InCallback
<1> QED BY <1>2, <1>3 DEF IInv

\* Every step preserves the invariant.
LEMMA InvStep == TypeOK /\ IInv /\ [Next]_vars => IInv'
<1> SUFFICES ASSUME TypeOK, IInv, [Next]_vars PROVE IInv'
  OBVIOUS
<1>1. CASE (\E j \in Jobs : Add(j)) \/ Start \/ Cancel \/ MainStep
  BY <1>1, ProcessInv
<1>2. ASSUME NEW j \in Jobs, LoopStep(j) \/ LoopExits(j) PROVE IInv'
  BY <1>2, LoopInv, SpawnInv DEF LoopStep
<1>3. ASSUME NEW g \in Runs, RunStep(g) \/ Acquire(g) \/ ContextEnds(g) \/ Returns(g)
      PROVE  IInv'
  BY <1>3, RunInv
<1>4. CASE UNCHANGED vars
  BY <1>4 DEF vars, stateVars, runVars, IInv, JobInv, UniqueInv, NoOverlap, FlagInv, LateInv,
              TokenInv, FinalInv, InFlight, InQueue, InCallback, Holding
<1> QED BY <1>1, <1>2, <1>3, <1>4 DEF Next

\* The inductive invariant holds in every behaviour.
LEMMA Invariant == Spec => [](TypeOK /\ IInv)
<1>1. Init => TypeOK /\ IInv
  BY TypeInit, InvInit
<1>2. TypeOK /\ IInv /\ [Next]_vars => (TypeOK /\ IInv)'
  BY TypeStep, InvStep DEF IInv
<1> QED BY <1>1, <1>2, PTL DEF Spec

-----------------------------------------------------------------------------
(* The theorems.                                                            *)

\* Every variable keeps its type; the semaphore channel never exceeds its capacity.
THEOREM FlagsAreTyped == Spec => []TypeOK
BY Invariant, PTL

\* Two runs of one job are never in flight together, for any number of goroutines.
THEOREM CallbacksDoNotOverlap == Spec => []NoOverlap
<1>1. IInv => NoOverlap
  BY DEF IInv, UniqueInv
<1> QED BY <1>1, Invariant, PTL

\* At most Limit callbacks run, and the semaphore counts exactly its holders.
THEOREM LimitHolds == Spec => []ConcurrencyLimited
<1>1. TypeOK /\ IInv => ConcurrencyLimited
  <2> SUFFICES ASSUME TypeOK, IInv PROVE ConcurrencyLimited
    OBVIOUS
  <2> DEFINE C == {g \in Runs : InCallback(g)}
             H == {g \in Runs : Holding(g)}
  <2>1. C \in SUBSET H
    BY DEF InCallback, Holding
  <2>2. IsFiniteSet(H) /\ tokens = Cardinality(H) /\ tokens \in 0..Limit
    BY Holders DEF IInv, TokenInv, TypeOK
  <2> HIDE DEF C, H
  <2>3. Cardinality(C) <= Cardinality(H) /\ IsFiniteSet(C)
    BY <2>1, <2>2, FS_Subset
  <2>4. Cardinality(C) \in Nat
    BY <2>3, FS_CardinalityType
  <2>5. Cardinality(C) <= Limit
    BY <2>2, <2>3, <2>4, LimitAssumption
  <2> QED BY <2>2, <2>5 DEF ConcurrencyLimited, C, H
<1> QED BY <1>1, Invariant, PTL

\* No goroutine that holds a place waits to give it back (the receive of a finished
\* run and of one that was cancelled after its acquisition), and none gives back a
\* place that another one holds.
THEOREM GivingBackNeverWaits == Spec => [](\A g \in Runs : Holding(g) => tokens > 0)
<1>1. IInv => \A g \in Runs : Holding(g) => tokens > 0
  BY Holders DEF IInv
<1> QED BY <1>1, Invariant, PTL

\* When Wait has returned, no loop and no run is left, and none can start.
THEOREM WaitReturnsLast == Spec => []WaitIsFinal
<1>1. IInv => WaitIsFinal
  BY DEF IInv, FinalInv, WaitIsFinal
<1> QED BY <1>1, Invariant, PTL

\* A run that gets the semaphore after the cancellation never calls its callback.
THEOREM CancelledRunsDoNotCall == Spec => []LateRunNeverCalls
<1>1. IInv => LateRunNeverCalls
  BY DEF IInv, LateInv, LateRunNeverCalls
<1> QED BY <1>1, Invariant, PTL

-----------------------------------------------------------------------------
(* Failure episodes.                                                        *)

\* Only a goroutine that has settled is going to report.
ReportInv == \A g \in Runs : report[g] => run[g] \in {"settled", "released"}

\* A goroutine's report is decided when it settles and forgotten when it exits.
LEMMA ReportStep ==
    TypeOK /\ ReportInv /\ [Next]_vars => ReportInv'
<1> SUFFICES ASSUME TypeOK, ReportInv, [Next]_vars PROVE ReportInv'
  OBVIOUS
<1>1. ASSUME NEW g \in Runs, RunStep(g) \/ Acquire(g) \/ ContextEnds(g) \/ Returns(g)
      PROVE  ReportInv'
  <2>1. \A h \in Runs \ {g} : run'[h] = run[h] /\ report'[h] = report[h]
    BY <1>1 DEF RunStep, Abandon, GiveBack, Drop, Pass, Begin, Settle, Release, Log,
       Acquire, ContextEnds, Returns, CallbackReturns, Exit, Goto, TypeOK
  <2>2. report'[g] => run'[g] \in {"settled", "released"}
    BY <1>1 DEF ReportInv, RunStep, Abandon, GiveBack, Drop, Pass, Begin, Settle, Release,
       Log, Acquire, ContextEnds, Returns, CallbackReturns, Exit, Goto, TypeOK
  <2> QED BY <2>1, <2>2 DEF ReportInv
<1>2. ASSUME NEW j \in Jobs, LoopStep(j) PROVE ReportInv'
  BY <1>2 DEF LoopStep, LoopBegins, Claim, Skip, Spawn, ReportInv, runVars, TypeOK
<1>3. ASSUME NEW j \in Jobs, Add(j) \/ LoopExits(j) PROVE ReportInv'
  BY <1>3 DEF Add, LoopExits, ReportInv, runVars
<1>4. CASE Start \/ Cancel \/ MainStep
  BY <1>4 DEF Start, Cancel, MainStep, CallWait, LoopsWait, RunsWait, ReportInv, runVars
<1>5. CASE UNCHANGED vars
  BY <1>5 DEF vars, runVars, ReportInv
<1> QED BY <1>1, <1>2, <1>3, <1>4, <1>5 DEF Next

\* The failure that opens an episode is logged, or its goroutine still exists.
LEMMA EpisodeStep ==
    TypeOK /\ JobInv /\ ReportInv /\ FailureIsReported /\ [Next]_vars
        => FailureIsReported'
<1> SUFFICES ASSUME TypeOK, JobInv, ReportInv, FailureIsReported, [Next]_vars
             PROVE  FailureIsReported'
  OBVIOUS
<1> USE DEF stateVars, runVars
<1>1. ASSUME NEW g \in Runs, Settle(g) PROVE FailureIsReported'
  <2>1. job[g] \in Jobs
    BY <1>1 DEF Settle, JobInv
  <2>2. /\ \A i \in Jobs \ {job[g]} : episode'[i] = episode[i] /\ logged'[i] = logged[i]
        /\ \A h \in Runs \ {g} : report'[h] = report[h]
        /\ job' = job
        /\ ~report[g]
    BY <1>1, <2>1 DEF Settle, TypeOK, ReportInv
  <2>3. episode'[job[g]] =>
          \/ report'[g]
          \/ episode[job[g]] /\ logged'[job[g]] = logged[job[g]]
    BY <1>1, <2>1 DEF Settle, TypeOK
  <2> QED BY <2>1, <2>2, <2>3 DEF FailureIsReported
<1>2. ASSUME NEW g \in Runs, Log(g) PROVE FailureIsReported'
  <2>1. job[g] \in Jobs
    BY <1>2 DEF Log, JobInv
  <2>2. /\ episode' = episode
        /\ \A i \in Jobs : logged[i] => logged'[i]
        /\ report[g] => logged'[job[g]]
        /\ \A h \in Runs \ {g} : report'[h] = report[h] /\ job'[h] = job[h]
    BY <1>2, <2>1 DEF Log, Exit, TypeOK
  <2> QED BY <2>1, <2>2 DEF FailureIsReported
<1>3. ASSUME NEW g \in Runs, Abandon(g) \/ Drop(g) PROVE FailureIsReported'
  <2>1. /\ UNCHANGED <<episode, logged>> /\ ~report[g]
        /\ \A h \in Runs \ {g} : report'[h] = report[h] /\ job'[h] = job[h]
    BY <1>3 DEF Abandon, Drop, Exit, TypeOK, ReportInv
  <2> QED BY <2>1 DEF FailureIsReported
<1>4. ASSUME NEW g \in Runs,
             \/ GiveBack(g) \/ Pass(g) \/ Begin(g) \/ Release(g) \/ Acquire(g)
             \/ ContextEnds(g) \/ Returns(g)
      PROVE  FailureIsReported'
  BY <1>4 DEF GiveBack, Pass, Begin, Release, Acquire, ContextEnds, Returns,
              CallbackReturns, FailureIsReported
<1>5. ASSUME NEW j \in Jobs, NEW g \in Runs, Spawn(j, g) PROVE FailureIsReported'
  <2>1. /\ UNCHANGED <<episode, logged, report>> /\ ~report[g]
        /\ \A h \in Runs \ {g} : job'[h] = job[h]
    BY <1>5 DEF Spawn, TypeOK, ReportInv
  <2> QED BY <2>1 DEF FailureIsReported
<1>6. ASSUME NEW j \in Jobs, Add(j) \/ LoopBegins(j) \/ Claim(j) \/ Skip(j) \/ LoopExits(j)
      PROVE  FailureIsReported'
  BY <1>6 DEF Add, LoopBegins, Claim, Skip, LoopExits, FailureIsReported
<1>7. CASE Start \/ Cancel \/ MainStep
  BY <1>7 DEF Start, Cancel, MainStep, CallWait, LoopsWait, RunsWait, FailureIsReported
<1>8. CASE UNCHANGED vars
  BY <1>8 DEF vars, FailureIsReported
<1> QED BY <1>1, <1>2, <1>3, <1>4, <1>5, <1>6, <1>7, <1>8 DEF Next, LoopStep, RunStep

\* Suppressing the repeated failures of a job never hides its first failure.
THEOREM FirstFailureIsReported == Spec => []FailureIsReported
<1>1. Init => ReportInv /\ FailureIsReported
  BY DEF Init, ReportInv, FailureIsReported
<1>2. TypeOK /\ IInv /\ ReportInv /\ FailureIsReported /\ [Next]_vars
        => (ReportInv /\ FailureIsReported)'
  BY ReportStep, EpisodeStep DEF IInv
<1> QED BY <1>1, <1>2, Invariant, PTL DEF Spec

-----------------------------------------------------------------------------
(* The rename task. The scheduler's run is a goroutine; the task's is what  *)
(* one of them has done so far.                                             *)

CONSTANTS BadTitle, Bases, Unsafe, NoEpisode, Layouts, Histories, RenameFiles,
          SonarrFormat, Formatted

R == INSTANCE RenameTask

Handling == {"files", "rename", "renameFile"}
Places == {"idle", "fetch", "loop", "dead"} \cup Handling

IsRename(rename) == R!IsPath(rename.new)

\* The run and the listings have their shape.
RenameTypeOK ==
    /\ task \in [at : Places, kind : R!Kinds, events : {task.events}, next : Nat \ {0},
                seen : {task.seen}, plan : Seq(R!ToSet(task.plan)), failed : BOOLEAN,
                cancelled : BOOLEAN, first : {task.first}, touched : SUBSET Torrents]
    /\ \A k \in DOMAIN task.plan : R!IsPath(task.plan[k].new)
    /\ files = [h \in Torrents |-> files[h]]
    /\ \A h \in Torrents : R!Listed(files[h])

\* Every file of the torrent at hand is under its title or in the rest of the plan, and
\* the plan moves files that are not in their place, to the title.
PlanInv ==
    /\ task.at \in Handling => R!Event.hash \in Torrents
    /\ task.at \notin {"rename", "renameFile"} => task.plan = <<>>
    /\ task.at = "renameFile" => task.plan # <<>>
    /\ task.at = "fetch" => task.next = 1
    /\ task.at \in {"idle", "dead"} => task.touched = {}
    /\ \A k \in DOMAIN task.plan :
          /\ task.plan[k].new.folder = R!Event.title
          /\ ~R!InPlace(R!Event.title, task.plan[k].old)
    /\ task.plan # <<>> =>
          \A i \in DOMAIN files[R!Event.hash] :
              \/ files[R!Event.hash][i].folder = R!Event.title
              \/ \E k \in DOMAIN task.plan : task.plan[k].old = files[R!Event.hash][i]

\* The events before the next one are of torrents seen, or have no valid title; so the
\* one at hand is the first of its torrent.
FirstInv ==
    /\ \A h \in Torrents : task.first[h] = R!FirstTitle(task.events, h)
    /\ \A i \in 1..Len(task.events) :
          i < task.next => task.events[i].title = BadTitle \/ task.events[i].hash \in task.seen
    /\ task.at \in Handling /\ task.kind = "sonarr" => R!Event.title = task.first[R!Event.hash]
    /\ task.at \in Handling => R!Event.hash \in task.seen

\* A run that has not failed leaves nothing half renamed but the torrent at hand.
TouchedInv ==
    ~task.failed => \A h \in task.touched :
        R!HalfRenamed(files[h]) =>
            h \in reported \/ (task.at = "renameFile" /\ h = R!Event.hash)

RenameIInv == RenameTypeOK /\ PlanInv /\ FirstInv /\ TouchedInv /\ R!UnfinishedWasReported

\* A set of numbers that is not empty has a least one.
LEMMA LeastNumber ==
    ASSUME NEW S, S \subseteq Nat, S # {}
    PROVE  \E n \in S : \A m \in S : n <= m
<1>1. PICK n \in S : \A m \in S : ~(<<m, n>> \in OpToRel(<, Nat))
  BY NatLessThanWellFounded, WFMin, Zenon
<1>2. ASSUME NEW m \in S PROVE ~(m < n)
  <2>1. <<m, n>> \in Nat \X Nat
    OBVIOUS
  <2>2. m < n => <<m, n>> \in OpToRel(<, Nat)
    BY <2>1, Zenon DEF OpToRel
  <2> QED BY <1>1, <2>2
<1> QED BY <1>2

\* Min of the library is that one.
LEMMA MinIsLeast ==
    ASSUME NEW S, S \subseteq Nat, S # {}
    PROVE  R!Min(S) \in S /\ \A m \in S : R!Min(S) <= m
BY LeastNumber DEF R!Min

\* A planned path is under the title.
LEMMA NewPathIsUnderTitle ==
    ASSUME NEW kind, NEW title, NEW paths, NEW i, R!IsPath(paths[i])
    PROVE  /\ R!IsPath(R!NewPath(kind, title, paths, i))
           /\ R!NewPath(kind, title, paths, i).folder = title
<1> DEFINE moved == [paths[i] EXCEPT !.folder = title]
<1>1. /\ moved.folder = title
      /\ moved = [folder |-> title, sub |-> paths[i].sub, base |-> paths[i].base,
                  number |-> paths[i].number, suffix |-> paths[i].suffix]
  BY DEF R!IsPath
<1>2. ASSUME NEW base, NEW number
      PROVE  /\ [moved EXCEPT !.base = base, !.number = number].folder = title
             /\ R!IsPath([moved EXCEPT !.base = base, !.number = number])
  <2> DEFINE plain == [folder |-> title, sub |-> paths[i].sub, base |-> paths[i].base,
                       number |-> paths[i].number, suffix |-> paths[i].suffix]
  <2>1. ASSUME NEW p, p = [plain EXCEPT !.base = base, !.number = number]
        PROVE  p = [folder |-> title, sub |-> paths[i].sub, base |-> base,
                    number |-> number, suffix |-> paths[i].suffix]
    BY <2>1
  <2>2. moved = plain
    BY <1>1
  <2> QED BY <2>1, <2>2 DEF R!IsPath
<1>3. R!IsPath(moved)
  BY <1>1 DEF R!IsPath
<1> QED BY <1>1, <1>2, <1>3 DEF R!NewPath

\* The plan of a torrent: it moves every file or none, to the title, and no file that is
\* in its place.
PlanFits(renames, title, paths) ==
    /\ renames \in Seq(R!ToSet(renames))
    /\ \A k \in DOMAIN renames :
          /\ R!IsPath(renames[k].new)
          /\ renames[k].new.folder = title
          /\ ~R!InPlace(title, renames[k].old)
    /\ renames # <<>> => \A i \in DOMAIN paths :
          \E k \in DOMAIN renames : renames[k].old = paths[i]

\* planFiles makes such plans.
LEMMA PlanCovers ==
    ASSUME NEW kind, NEW title, NEW paths, R!Listed(paths)
    PROVE  PlanFits(R!planFiles(kind, title, paths).renames, title, paths)
<1> SUFFICES ASSUME NEW renames, renames = R!planFiles(kind, title, paths).renames
             PROVE  PlanFits(renames, title, paths)
  OBVIOUS
<1> DEFINE all == [i \in 1..Len(paths) |->
                      [old |-> paths[i], new |-> R!NewPath(kind, title, paths, i)]]
<1>1. Len(paths) \in Nat /\ DOMAIN paths = 1..Len(paths)
  BY DEF R!Listed
<1>2. \A i \in 1..Len(paths) : R!IsPath(paths[i])
  BY <1>1 DEF R!Listed, R!ToSet
<1>3. renames = <<>> \/ (renames = all /\ \A i \in 1..Len(paths) : ~R!InPlace(title, paths[i]))
  BY DEF R!planFiles, R!Plan, R!Invalid
<1>4. CASE renames = <<>>
  BY <1>4 DEF R!ToSet, PlanFits
<1>5. CASE renames = all /\ \A i \in 1..Len(paths) : ~R!InPlace(title, paths[i])
  <2>1. DOMAIN renames = 1..Len(paths)
    BY <1>5
  <2>2. \A k \in DOMAIN renames :
           renames[k].old = paths[k] /\ renames[k].new = R!NewPath(kind, title, paths, k)
    BY <1>5
  <2>3. renames \in Seq(R!ToSet(renames))
    BY <1>1, <1>5, <2>1 DEF R!ToSet
  <2> QED BY <1>1, <1>2, <1>5, <2>1, <2>2, <2>3, NewPathIsUnderTitle DEF PlanFits
<1> QED BY <1>3, <1>4, <1>5

-----------------------------------------------------------------------------
\* The initial states satisfy the invariant.
LEMMA RenameInvInit == R!LayoutsAreListed /\ R!Init => RenameIInv
<1> SUFFICES ASSUME R!LayoutsAreListed, R!Init PROVE RenameIInv
  OBVIOUS
<1>1. task = R!NoRun
  BY DEF R!Init
<1>2. \A h \in Torrents : R!Listed(files[h])
  BY DEF R!Init, R!LayoutsAreListed
<1>3. RenameTypeOK
  BY <1>1, <1>2 DEF R!Init, RenameTypeOK, R!NoRun, Places, R!Kinds, R!ToSet
<1>4. PlanInv
  BY <1>1 DEF PlanInv, R!NoRun, Handling
<1>5. FirstInv
  BY <1>1 DEF FirstInv, R!NoRun, Handling, R!FirstTitle
<1> QED BY <1>1, <1>3, <1>4, <1>5 DEF RenameIInv, R!Init, R!NoRun, TouchedInv,
       R!UnfinishedWasReported

\* A run that has nothing to do yet.
Fresh(at, kind) ==
    [at |-> at, kind |-> kind, events |-> <<>>, next |-> 1, seen |-> {},
     plan |-> <<>>, failed |-> FALSE, cancelled |-> FALSE,
     first |-> [h \in Torrents |-> R!Unnamed], touched |-> {}]

\* The runs that have nothing to do yet, as records.
LEMMA FreshRuns ==
    /\ R!NoRun = Fresh("idle", "sonarr")
    /\ [R!NoRun EXCEPT !.at = "dead"] = Fresh("dead", "sonarr")
    /\ \A kind : [R!NoRun EXCEPT !.at = "fetch", !.kind = kind] = Fresh("fetch", kind)
<1>1. R!NoRun = Fresh("idle", "sonarr")
  BY DEF R!NoRun, Fresh
<1>2. ASSUME NEW r, r = [R!NoRun EXCEPT !.at = "dead"] PROVE r = Fresh("dead", "sonarr")
  BY <1>2 DEF R!NoRun, Fresh
<1>3. ASSUME NEW kind, NEW r, r = [R!NoRun EXCEPT !.at = "fetch", !.kind = kind]
      PROVE  r = Fresh("fetch", kind)
  BY <1>3 DEF R!NoRun, Fresh
<1> QED BY <1>1, <1>2, <1>3

\* A run that starts, ends or dies begins from nothing.
LEMMA NothingToRun ==
    ASSUME RenameTypeOK, UNCHANGED <<name, files>>,
           NEW at \in {"idle", "fetch", "dead"}, NEW kind \in R!Kinds,
           task' = Fresh(at, kind)
    PROVE  RenameTypeOK' /\ PlanInv' /\ FirstInv' /\ TouchedInv'
<1>1. /\ task'.at = at /\ task'.events = <<>> /\ task'.next = 1
      /\ task'.plan = <<>> /\ task'.first = [h \in Torrents |-> R!Unnamed]
      /\ task'.touched = {}
  BY DEF Fresh
<1>2. task' \in [at : Places, kind : R!Kinds, events : {task'.events}, next : Nat \ {0},
                seen : {task'.seen}, plan : Seq(R!ToSet(task'.plan)), failed : BOOLEAN,
                cancelled : BOOLEAN, first : {task'.first}, touched : SUBSET Torrents]
  <2>1. <<>> \in Seq(R!ToSet(task'.plan))
    OBVIOUS
  <2> QED BY <2>1 DEF Fresh, Places
<1>3. RenameTypeOK'
  BY <1>1, <1>2 DEF RenameTypeOK
<1>4. PlanInv'
  BY <1>1 DEF PlanInv, Handling
<1>5. FirstInv'
  <2>1. \A h \in Torrents : R!FirstTitle(<<>>, h) = R!Unnamed
    BY DEF R!FirstTitle
  <2> QED BY <1>1, <2>1 DEF FirstInv, Handling
<1> QED BY <1>1, <1>3, <1>4, <1>5 DEF TouchedInv

\* A run ends: with an error, or between two events without one.
LEMMA EndKeeps ==
    ASSUME RenameIInv, UNCHANGED <<name, files>>, NEW failed \in BOOLEAN, R!End(failed),
           failed \/ (task.at = "loop" /\ ~task.failed)
    PROVE  RenameIInv'
<1>1. task' = Fresh("idle", "sonarr")
  BY FreshRuns DEF R!End
<1>2. RenameTypeOK' /\ PlanInv' /\ FirstInv' /\ TouchedInv'
  BY <1>1, NothingToRun DEF RenameIInv, R!Kinds
<1>3. R!UnfinishedWasReported'
  <2>1. \A h \in Torrents :
           R!HalfRenamed(files[h]) => h \in reported \/ (failed /\ h \in task.touched)
    BY DEF RenameIInv, R!UnfinishedWasReported, TouchedInv
  <2> QED BY <2>1 DEF R!End, R!StillHalf, R!UnfinishedWasReported
<1> QED BY <1>2, <1>3 DEF RenameIInv

\* The scheduler starts a run.
LEMMA RenameStartKeeps ==
    ASSUME RenameIInv, NEW kind \in R!Kinds, R!Start(kind) PROVE RenameIInv'
<1>1. task' = Fresh("fetch", kind) /\ UNCHANGED <<name, files, reported>>
  BY FreshRuns DEF R!Start
<1>2. RenameTypeOK' /\ PlanInv' /\ FirstInv' /\ TouchedInv'
  BY <1>1, NothingToRun DEF RenameIInv
<1>3. task.touched = {}
  BY DEF R!Start, R!At, RenameIInv, PlanInv
<1> QED BY <1>1, <1>2, <1>3 DEF RenameIInv, R!UnfinishedWasReported

\* A new process has no run.
LEMMA RestartKeeps == ASSUME RenameIInv, R!Restart PROVE RenameIInv'
<1>1. task' = Fresh("idle", "sonarr") /\ UNCHANGED <<name, files, reported>>
  BY FreshRuns DEF R!Restart
<1>2. RenameTypeOK' /\ PlanInv' /\ FirstInv' /\ TouchedInv'
  BY <1>1, NothingToRun DEF RenameIInv, R!Kinds
<1>3. task.touched = {}
  BY DEF R!Restart, R!At, RenameIInv, PlanInv
<1> QED BY <1>1, <1>2, <1>3 DEF RenameIInv, R!UnfinishedWasReported

\* The run is gone with its process.
LEMMA DieKeeps == ASSUME RenameIInv, R!Die PROVE RenameIInv'
<1>1. task' = Fresh("dead", "sonarr") /\ UNCHANGED <<name, files>>
  BY FreshRuns DEF R!Die
<1>2. RenameTypeOK' /\ PlanInv' /\ FirstInv' /\ TouchedInv'
  BY <1>1, NothingToRun DEF RenameIInv, R!Kinds
<1>3. R!UnfinishedWasReported'
  BY <1>1 DEF R!Die, R!StillHalf, RenameIInv, R!UnfinishedWasReported
<1> QED BY <1>1, <1>2, <1>3 DEF RenameIInv, R!UnfinishedWasReported

\* The history is read: nothing has been handled yet.
LEMMA FetchKeeps == ASSUME RenameIInv, R!Fetch PROVE RenameIInv'
<1>1. PICK events :
         /\ task.at = "fetch"
         /\ task' = [task EXCEPT !.at = "loop", !.events = events,
                               !.first = [h \in Torrents |-> R!FirstTitle(events, h)]]
         /\ UNCHANGED <<name, files, reported>>
  BY DEF R!Fetch, R!At
<1>2. /\ task'.at = "loop" /\ task'.events = events /\ task'.next = task.next
      /\ task'.first = [h \in Torrents |-> R!FirstTitle(events, h)]
      /\ task'.plan = task.plan /\ task'.touched = task.touched /\ task'.failed = task.failed
  BY <1>1 DEF RenameIInv, RenameTypeOK
<1>3. task.plan = <<>>
  BY <1>1 DEF RenameIInv, PlanInv
<1>4. RenameTypeOK'
  BY <1>1, <1>2 DEF RenameIInv, RenameTypeOK, Places
<1>5. PlanInv'
  BY <1>1, <1>2, <1>3 DEF PlanInv, Handling
<1>6. FirstInv'
  BY <1>1, <1>2 DEF RenameIInv, FirstInv, PlanInv, Handling
<1>7. TouchedInv' /\ R!UnfinishedWasReported'
  BY <1>1, <1>2 DEF RenameIInv, TouchedInv, R!UnfinishedWasReported
<1> QED BY <1>4, <1>5, <1>6, <1>7 DEF RenameIInv
\* The run goes over an event that it does not handle.
LEMMA SkipKeeps == ASSUME RenameIInv, R!Skip PROVE RenameIInv'
<1>1. /\ task.at = "loop" /\ R!More /\ R!Skipped(R!Event)
      /\ task' = [task EXCEPT !.next = @ + 1] /\ UNCHANGED <<name, files, reported>>
  BY DEF R!Skip, R!At
<1>2. /\ task'.at = "loop" /\ task'.events = task.events /\ task'.next = task.next + 1
      /\ task'.first = task.first /\ task'.seen = task.seen /\ task'.failed = task.failed
      /\ task'.plan = task.plan /\ task'.touched = task.touched
  BY <1>1 DEF RenameIInv, RenameTypeOK
<1>3. RenameTypeOK'
  BY <1>1, <1>2 DEF RenameIInv, RenameTypeOK
<1>4. PlanInv'
  BY <1>1, <1>2 DEF RenameIInv, PlanInv, Handling
<1>5. FirstInv'
  BY <1>1, <1>2 DEF RenameIInv, RenameTypeOK, FirstInv, Handling, R!Skipped, R!Event
<1>6. TouchedInv' /\ R!UnfinishedWasReported'
  BY <1>1, <1>2 DEF RenameIInv, TouchedInv, R!UnfinishedWasReported
<1> QED BY <1>3, <1>4, <1>5, <1>6 DEF RenameIInv

\* The event at hand is the first of its torrent that has a valid title.
LEMMA TakeKeeps == ASSUME RenameIInv, NEW h \in Torrents, R!Take(h) PROVE RenameIInv'
<1> DEFINE at == IF R!Event.client = "qbittorrent" /\ RenameFiles THEN "files" ELSE "rename"
<1>1. /\ task.at = "loop" /\ R!More /\ ~R!Skipped(R!Event) /\ R!Event.hash = h
      /\ task' = [task EXCEPT !.seen = R!Seen(R!Event), !.at = at]
      /\ UNCHANGED <<name, files, reported>>
  BY DEF R!Take, R!Ready, R!At
<1>2. /\ task'.at = at /\ task'.events = task.events /\ task'.next = task.next
      /\ task'.first = task.first /\ task'.seen = task.seen \cup {h} /\ task'.failed = task.failed
      /\ task'.plan = task.plan /\ task'.touched = task.touched /\ task'.kind = task.kind
  BY <1>1 DEF RenameIInv, RenameTypeOK, R!Seen
<1>3. at \in {"files", "rename"} /\ task.plan = <<>> /\ R!Event' = R!Event
  BY <1>1, <1>2 DEF RenameIInv, PlanInv, R!Event
<1>4. RenameTypeOK'
  BY <1>1, <1>2, <1>3 DEF RenameIInv, RenameTypeOK, Places, Handling
<1>5. PlanInv'
  BY <1>1, <1>2, <1>3 DEF PlanInv, Handling
<1>6. ASSUME task.kind = "sonarr" PROVE R!Event.title = R!FirstTitle(task.events, h)
  <2> DEFINE ofH == {i \in 1..Len(task.events) :
                        task.events[i].hash = h /\ task.events[i].title # BadTitle}
  <2>1. task.next \in ofH
    BY <1>1, <1>6 DEF RenameIInv, RenameTypeOK, R!More, R!Skipped, R!Event
  <2>2. h \notin task.seen
    BY <1>1, <1>6 DEF R!Skipped
  <2>3. \A i \in ofH : ~(i < task.next)
    BY <2>2 DEF RenameIInv, FirstInv
  <2>4. ofH \subseteq Nat
    OBVIOUS
  <2>5. R!Min(ofH) \in ofH /\ R!Min(ofH) <= task.next
    BY <2>1, <2>4, MinIsLeast
  <2>6. R!Min(ofH) = task.next
    BY <2>3, <2>5 DEF RenameIInv, RenameTypeOK
  <2> QED BY <2>1, <2>6 DEF R!FirstTitle, R!Event
<1>7. FirstInv'
  BY <1>1, <1>2, <1>3, <1>6 DEF RenameIInv, FirstInv
<1>8. TouchedInv' /\ R!UnfinishedWasReported'
  BY <1>1, <1>2 DEF RenameIInv, TouchedInv, R!UnfinishedWasReported
<1> QED BY <1>4, <1>5, <1>7, <1>8 DEF RenameIInv

\* The plan for the torrent at hand is made.
LEMMA FilesKeeps ==
    ASSUME RenameIInv, NEW h \in Torrents, R!At("files"), R!Event.hash = h,
           UNCHANGED <<name, files, reported>>,
           task' = [task EXCEPT !.at = "rename",
                              !.plan = R!planFiles(task.kind, R!Event.title, files[h]).renames]
    PROVE  RenameIInv'
<1> DEFINE renames == R!planFiles(task.kind, R!Event.title, files[h]).renames
<1>1. task.at = "files" /\ R!Listed(files[h])
  BY DEF R!At, RenameIInv, RenameTypeOK
<1>2. /\ task'.at = "rename" /\ task'.events = task.events /\ task'.next = task.next
      /\ task'.first = task.first /\ task'.seen = task.seen /\ task'.failed = task.failed
      /\ task'.plan = renames /\ task'.touched = task.touched /\ task'.kind = task.kind
  BY DEF RenameIInv, RenameTypeOK
<1>3. R!Event' = R!Event
  BY <1>2 DEF R!Event
<1>4. PlanFits(renames, R!Event.title, files[h])
  BY <1>1, PlanCovers
<1>5. RenameTypeOK'
  <2>1. task' \in [at : Places, kind : R!Kinds, events : {task'.events}, next : Nat \ {0},
                  seen : {task'.seen}, plan : Seq(R!ToSet(task'.plan)), failed : BOOLEAN,
                  cancelled : BOOLEAN, first : {task'.first}, touched : SUBSET Torrents]
    BY <1>2, <1>4 DEF RenameIInv, RenameTypeOK, Places, Handling, PlanFits
  <2> QED BY <1>2, <1>4, <2>1 DEF RenameIInv, RenameTypeOK, PlanFits
<1>6. PlanInv'
  BY <1>1, <1>2, <1>3, <1>4 DEF PlanInv, Handling, PlanFits
<1>7. FirstInv'
  BY <1>1, <1>2, <1>3 DEF RenameIInv, FirstInv, Handling
<1>8. TouchedInv' /\ R!UnfinishedWasReported'
  BY <1>1, <1>2 DEF RenameIInv, TouchedInv, R!UnfinishedWasReported
<1> QED BY <1>5, <1>6, <1>7, <1>8 DEF RenameIInv

\* The event is done with, for good or ill.
LEMMA NextKeeps ==
    ASSUME RenameIInv, task.at \in Handling, NEW failed \in BOOLEAN, task.failed => failed,
           \/ task' = [R!NextEvent EXCEPT !.failed = failed]
           \/ task' = R!NextEvent /\ failed = task.failed,
           files' = [h \in Torrents |-> files'[h]],
           \A h \in Torrents : R!Listed(files'[h]),
           \A h \in Torrents \ {R!Event.hash} : files'[h] = files[h],
           \A h \in reported : R!HalfRenamed(files'[h]) => h \in reported',
           \/ failed
           \/ task.at = "rename" /\ files' = files
           \/ ~R!HalfRenamed(files'[R!Event.hash])
    PROVE  RenameIInv'
<1> DEFINE moved == {h \in Torrents : files'[h] # files[h]}
<1>1. /\ task'.at = "loop" /\ task'.events = task.events /\ task'.next = task.next + 1
      /\ task'.first = task.first /\ task'.seen = task.seen /\ task'.failed = failed
      /\ task'.plan = <<>> /\ task'.touched = task.touched \cup moved /\ task'.kind = task.kind
      /\ task'.cancelled = task.cancelled
  BY DEF R!NextEvent, RenameIInv, RenameTypeOK
<1>2. task' \in [at : Places, kind : R!Kinds, events : {task'.events}, next : Nat \ {0},
                seen : {task'.seen}, plan : Seq(R!ToSet(task'.plan)), failed : BOOLEAN,
                cancelled : BOOLEAN, first : {task'.first}, touched : SUBSET Torrents]
  <2>1. <<>> \in Seq(R!ToSet(task'.plan))
    OBVIOUS
  <2>2. task' = [at |-> "loop", kind |-> task.kind, events |-> task.events,
                next |-> task.next + 1, seen |-> task.seen, plan |-> <<>>, failed |-> failed,
                cancelled |-> task.cancelled, first |-> task.first,
                touched |-> task.touched \cup moved]
    <3>1. R!NextEvent = [at |-> "loop", kind |-> task.kind, events |-> task.events,
                next |-> task.next + 1, seen |-> task.seen, plan |-> <<>>, failed |-> task.failed,
                cancelled |-> task.cancelled, first |-> task.first,
                touched |-> task.touched \cup moved]
      <4>1. ASSUME NEW r, r = R!NextEvent
            PROVE  r = [at |-> "loop", kind |-> task.kind, events |-> task.events,
                next |-> task.next + 1, seen |-> task.seen, plan |-> <<>>, failed |-> task.failed,
                cancelled |-> task.cancelled, first |-> task.first,
                touched |-> task.touched \cup moved]
        BY <4>1 DEF R!NextEvent, RenameIInv, RenameTypeOK
      <4> QED BY <4>1
    <3> QED BY <3>1
  <2>3. moved \subseteq Torrents
    OBVIOUS
  <2>4. task.next + 1 \in Nat \ {0} /\ task.kind \in R!Kinds /\ task.touched \subseteq Torrents
        /\ task.cancelled \in BOOLEAN
    BY DEF RenameIInv, RenameTypeOK
  <2> HIDE DEF moved
  <2> QED BY <2>1, <2>2, <2>3, <2>4, <1>1 DEF Places
<1>3. RenameTypeOK'
  BY <1>1, <1>2 DEF RenameTypeOK
<1>4. PlanInv'
  BY <1>1 DEF PlanInv, Handling
<1>5. FirstInv'
  <2>1. task.events[task.next].hash \in task.seen
    BY DEF RenameIInv, FirstInv, R!Event
  <2> QED BY <1>1, <2>1 DEF RenameIInv, RenameTypeOK, FirstInv, Handling
<1>6. \A h \in Torrents : R!HalfRenamed(files'[h]) =>
         /\ h \in reported => h \in reported'
         /\ files'[h] # files[h] => h \in moved
  BY DEF RenameIInv, RenameTypeOK
<1>7. R!UnfinishedWasReported'
  BY <1>1, <1>6 DEF RenameIInv, RenameTypeOK, R!UnfinishedWasReported
<1>8. TouchedInv'
  <2> SUFFICES ASSUME ~failed, NEW h \in task.touched \cup moved, R!HalfRenamed(files'[h])
               PROVE  h \in reported'
    BY <1>1 DEF TouchedInv
  <2>1. h \in Torrents
    BY DEF RenameIInv, RenameTypeOK
  <2>2. CASE h = R!Event.hash
    <3>1. task.at = "rename" /\ files' = files
      BY <2>2
    <3> QED BY <1>6, <2>1, <3>1 DEF RenameIInv, TouchedInv
  <2>3. CASE h # R!Event.hash
    BY <1>6, <2>1, <2>3 DEF RenameIInv, TouchedInv
  <2> QED BY <2>2, <2>3
<1> QED BY <1>3, <1>4, <1>5, <1>7, <1>8 DEF RenameIInv
\* The event fails: it is joined to the errors of the run.
LEMMA EventFailsKeeps ==
    ASSUME RenameIInv, task.at \in Handling, R!EventFails,
           files' = [h \in Torrents |-> files'[h]],
           \A h \in Torrents : R!Listed(files'[h]),
           \A h \in Torrents \ {R!Event.hash} : files'[h] = files[h]
    PROVE  RenameIInv'
<1>1. task' = [R!NextEvent EXCEPT !.failed = TRUE] /\ reported' = R!StillHalf(reported)
  BY DEF R!EventFails
<1>2. \A h \in reported : R!HalfRenamed(files'[h]) => h \in reported'
  BY <1>1 DEF R!StillHalf
<1> QED BY <1>1, <1>2, NextKeeps

\* A call for the torrent: its files stay as they are.
LEMMA RenameKeeps == ASSUME RenameIInv, NEW h \in Torrents, R!Rename(h) PROVE RenameIInv'
<1>1. task.at = "rename" /\ R!Event.hash = h /\ UNCHANGED <<files, reported>>
  BY DEF R!Rename, R!At
<1>2. CASE task.plan = <<>>
  <2>1. task' = R!NextEvent
    BY <1>2 DEF R!Rename
  <2>2. /\ files' = [g \in Torrents |-> files'[g]]
        /\ \A g \in Torrents : R!Listed(files'[g])
        /\ task.failed \in BOOLEAN
    BY <1>1 DEF RenameIInv, RenameTypeOK
  <2> QED BY <1>1, <2>1, <2>2, NextKeeps DEF Handling
<1>3. CASE task.plan # <<>>
  <2>1. task' = [task EXCEPT !.at = "renameFile"]
    BY <1>3 DEF R!Rename
  <2>2. /\ task'.at = "renameFile" /\ task'.events = task.events /\ task'.next = task.next
        /\ task'.first = task.first /\ task'.seen = task.seen /\ task'.failed = task.failed
        /\ task'.plan = task.plan /\ task'.touched = task.touched /\ task'.kind = task.kind
    BY <2>1 DEF RenameIInv, RenameTypeOK
  <2>3. RenameTypeOK'
    BY <1>1, <2>1, <2>2 DEF RenameIInv, RenameTypeOK, Places, Handling
  <2>4. R!Event' = R!Event
    BY <2>2 DEF R!Event
  <2>5. PlanInv'
    BY <1>1, <1>3, <2>2, <2>4 DEF RenameIInv, PlanInv, Handling
  <2>6. FirstInv'
    BY <1>1, <2>2, <2>4 DEF RenameIInv, FirstInv, Handling
  <2>7. TouchedInv' /\ R!UnfinishedWasReported'
    BY <1>1, <2>2, <2>4 DEF RenameIInv, TouchedInv, R!UnfinishedWasReported
  <2> QED BY <2>3, <2>5, <2>6, <2>7 DEF RenameIInv
<1> QED BY <1>2, <1>3

\* A file is moved to the path that the plan has for it.
LEMMA MovesFirst ==
    ASSUME RenameIInv, NEW h \in Torrents, task.at = "renameFile", R!Event.hash = h, R!Move(h)
    PROVE  /\ files' = [g \in Torrents |-> files'[g]]
           /\ \A g \in Torrents : R!Listed(files'[g])
           /\ \A g \in Torrents \ {h} : files'[g] = files[g]
           /\ DOMAIN files'[h] = DOMAIN files[h]
           /\ \A i \in DOMAIN files[h] :
                 \/ files[h][i] # task.plan[1].old /\ files'[h][i] = files[h][i]
                 \/ files[h][i] = task.plan[1].old /\ files'[h][i] = task.plan[1].new
           /\ task.plan # <<>> /\ task.plan \in Seq(R!ToSet(task.plan))
<1>1. task.plan # <<>> /\ task.plan \in Seq(R!ToSet(task.plan))
  BY DEF RenameIInv, RenameTypeOK, PlanInv
<1>2. Head(task.plan) = task.plan[1] /\ 1 \in DOMAIN task.plan
  BY <1>1
<1> DEFINE paths == R!Renamed(files[h], task.plan[1])
<1>3. files' = [files EXCEPT ![h] = paths]
  BY <1>2 DEF R!Move
<1>4. /\ files' = [g \in Torrents |-> files'[g]]
      /\ \A g \in Torrents \ {h} : files'[g] = files[g]
      /\ files'[h] = paths
  BY <1>3 DEF RenameIInv, RenameTypeOK
<1>5. /\ DOMAIN paths = DOMAIN files[h]
      /\ \A i \in DOMAIN files[h] :
            paths[i] = IF files[h][i] = task.plan[1].old THEN task.plan[1].new ELSE files[h][i]
  BY DEF R!Renamed
<1>6. R!Listed(paths)
  <2>1. files[h] \in Seq(R!ToSet(files[h])) /\ \A i \in DOMAIN files[h] : R!IsPath(files[h][i])
    BY DEF RenameIInv, RenameTypeOK, R!Listed, R!ToSet
  <2>2. DOMAIN files[h] = 1..Len(files[h]) /\ Len(files[h]) \in Nat
    BY <2>1
  <2>3. R!IsPath(task.plan[1].new)
    BY <1>2 DEF RenameIInv, RenameTypeOK
  <2>4. \A i \in DOMAIN paths : R!IsPath(paths[i])
    BY <1>5, <2>1, <2>3
  <2>5. paths \in Seq(R!ToSet(paths))
    BY <1>5, <2>2 DEF R!ToSet, R!Renamed
  <2> QED BY <2>4, <2>5 DEF R!Listed, R!ToSet
<1> QED BY <1>1, <1>4, <1>5, <1>6 DEF RenameIInv, RenameTypeOK

\* A file may have been moved although the call failed.
LEMMA RenameFileFailsKeeps == ASSUME RenameIInv, R!RenameFileFails PROVE RenameIInv'
<1>1. task.at = "renameFile" /\ R!EventFails
  BY DEF R!RenameFileFails, R!At
<1>2. R!Event.hash \in Torrents /\ task.at \in Handling
  BY <1>1 DEF RenameIInv, PlanInv, Handling
<1>3. /\ files' = [g \in Torrents |-> files'[g]]
      /\ \A g \in Torrents : R!Listed(files'[g])
      /\ \A g \in Torrents \ {R!Event.hash} : files'[g] = files[g]
  <2>1. CASE UNCHANGED files
    BY <2>1 DEF RenameIInv, RenameTypeOK
  <2>2. CASE R!Move(R!Event.hash)
    BY <1>1, <1>2, <2>2, MovesFirst
  <2> QED BY <2>1, <2>2 DEF R!RenameFileFails
<1> QED BY <1>1, <1>2, <1>3, EventFailsKeeps

\* The rest of a plan.
LEMMA TailShift ==
    ASSUME NEW s, s \in Seq(R!ToSet(s)), s # <<>>
    PROVE  /\ DOMAIN Tail(s) = 1..(Len(s) - 1)
           /\ \A k \in 1..(Len(s) - 1) : Tail(s)[k] = s[k + 1]
           /\ Tail(s) \in Seq(R!ToSet(Tail(s)))
           /\ Len(s) # 1 => Tail(s) # <<>> /\ Len(s) > 1
<1>1. PICK S : s \in Seq(S)
  OBVIOUS
<1>2. /\ Tail(s) \in Seq(S) /\ Len(s) \in Nat \ {0} /\ Len(Tail(s)) = Len(s) - 1
      /\ \A k \in 1..(Len(s) - 1) : Tail(s)[k] = s[k + 1]
  BY <1>1
<1>3. DOMAIN Tail(s) = 1..(Len(s) - 1)
  BY <1>2
<1>4. ASSUME NEW t \in Seq(S) PROVE t \in Seq(R!ToSet(t))
  BY DEF R!ToSet
<1>5. ASSUME Len(s) # 1 PROVE Tail(s) # <<>> /\ Len(s) > 1
  <2>1. Len(s) > 1
    BY <1>2, <1>5
  <2>2. Len(Tail(s)) > 0
    BY <1>2, <2>1
  <2>3. Len(<< >>) = 0
    OBVIOUS
  <2>4. ASSUME NEW t, Len(t) > 0 PROVE t # << >>
    BY <2>3, <2>4
  <2> QED BY <2>1, <2>2, <2>4
<1>6. Tail(s) \in Seq(R!ToSet(Tail(s)))
  BY <1>2, <1>4
<1> QED BY <1>2, <1>3, <1>5, <1>6

\* A file of the plan is moved; after the last one, no file is left behind.
LEMMA RenameFileKeeps ==
    ASSUME RenameIInv, NEW h \in Torrents, R!RenameFile(h) PROVE RenameIInv'
<1>1. /\ task.at = "renameFile" /\ R!Event.hash = h /\ R!Move(h)
      /\ reported' = R!StillHalf(reported) /\ UNCHANGED name
  BY DEF R!RenameFile, R!At
<1> DEFINE moved == {g \in Torrents : files'[g] # files[g]}
<1>2. /\ files' = [g \in Torrents |-> files'[g]]
      /\ \A g \in Torrents : R!Listed(files'[g])
      /\ \A g \in Torrents \ {h} : files'[g] = files[g]
      /\ DOMAIN files'[h] = DOMAIN files[h]
      /\ \A i \in DOMAIN files[h] :
            \/ files[h][i] # task.plan[1].old /\ files'[h][i] = files[h][i]
            \/ files[h][i] = task.plan[1].old /\ files'[h][i] = task.plan[1].new
      /\ task.plan # <<>> /\ task.plan \in Seq(R!ToSet(task.plan))
  BY <1>1, MovesFirst
<1>3. \A k \in DOMAIN task.plan :
         /\ task.plan[k].new.folder = R!Event.title
         /\ ~R!InPlace(R!Event.title, task.plan[k].old)
         /\ R!IsPath(task.plan[k].new)
  BY DEF RenameIInv, PlanInv, RenameTypeOK
<1>4. \A i \in DOMAIN files[h] :
         \/ files[h][i].folder = R!Event.title
         \/ \E k \in DOMAIN task.plan : task.plan[k].old = files[h][i]
  BY <1>1, <1>2 DEF RenameIInv, PlanInv
<1>5. DOMAIN task.plan = 1..Len(task.plan) /\ Len(task.plan) \in Nat \ {0}
  BY <1>2
<1>6. \A i \in DOMAIN files'[h] :
         \/ files'[h][i].folder = R!Event.title
         \/ \E k \in 2..Len(task.plan) : task.plan[k].old = files'[h][i]
  <2> SUFFICES ASSUME NEW i \in DOMAIN files[h]
               PROVE  \/ files'[h][i].folder = R!Event.title
                      \/ \E k \in 2..Len(task.plan) : task.plan[k].old = files'[h][i]
    BY <1>2
  <2>1. CASE files[h][i] = task.plan[1].old
    BY <1>2, <1>3, <1>5, <2>1
  <2>2. CASE files[h][i] # task.plan[1].old
    BY <1>2, <1>4, <1>5, <2>2
  <2> QED BY <2>1, <2>2
<1>7. \A g \in reported : R!HalfRenamed(files'[g]) => g \in reported'
  BY <1>1 DEF R!StillHalf
<1>8. CASE R!LastOfPlan
  <2>1. ~R!HalfRenamed(files'[h])
    BY <1>5, <1>6, <1>8 DEF R!LastOfPlan, R!HalfRenamed
  <2>2. task' = R!NextEvent /\ task.failed \in BOOLEAN
    BY <1>8 DEF R!RenameFile, RenameIInv, RenameTypeOK
  <2> QED BY <1>1, <1>2, <1>7, <2>1, <2>2, NextKeeps DEF Handling
<1>9. CASE ~R!LastOfPlan
  <2>1. task' = [task EXCEPT !.plan = Tail(@), !.touched = R!NextEvent.touched]
    BY <1>9 DEF R!RenameFile
  <2>2. R!NextEvent.touched = task.touched \cup moved
    BY DEF R!NextEvent, RenameIInv, RenameTypeOK
  <2>3. /\ task'.at = task.at /\ task'.events = task.events /\ task'.next = task.next
        /\ task'.first = task.first /\ task'.seen = task.seen /\ task'.failed = task.failed
        /\ task'.plan = Tail(task.plan) /\ task'.touched = task.touched \cup moved
        /\ task'.kind = task.kind
    BY <2>1, <2>2 DEF RenameIInv, RenameTypeOK
  <2>4. /\ DOMAIN Tail(task.plan) = 1..(Len(task.plan) - 1)
        /\ \A k \in 1..(Len(task.plan) - 1) : Tail(task.plan)[k] = task.plan[k + 1]
        /\ Len(task.plan) > 1
    BY <1>2, <1>9, TailShift DEF R!LastOfPlan
  <2>5. Tail(task.plan) # <<>> /\ Tail(task.plan) \in Seq(R!ToSet(Tail(task.plan)))
    BY <1>2, <1>9, TailShift DEF R!LastOfPlan
  <2>6. RenameTypeOK'
    <3>1. \A k \in DOMAIN task'.plan : R!IsPath(task'.plan[k].new)
      BY <1>3, <1>5, <2>3, <2>4
    <3>2. task' \in [at : Places, kind : R!Kinds, events : {task'.events}, next : Nat \ {0},
                    seen : {task'.seen}, plan : Seq(R!ToSet(task'.plan)), failed : BOOLEAN,
                    cancelled : BOOLEAN, first : {task'.first}, touched : SUBSET Torrents]
      <4>1. moved \subseteq Torrents /\ Tail(task.plan) \in Seq(R!ToSet(task'.plan))
        BY <2>3, <2>5
      <4> HIDE DEF moved
      <4> QED BY <2>1, <2>2, <2>3, <4>1 DEF RenameIInv, RenameTypeOK
    <3> QED BY <1>2, <3>1, <3>2 DEF RenameTypeOK
  <2>7. R!Event' = R!Event
    BY <2>3 DEF R!Event
  <2>8. PlanInv'
    <3>1. \A k \in DOMAIN task'.plan :
             /\ task'.plan[k].new.folder = R!Event.title
             /\ ~R!InPlace(R!Event.title, task'.plan[k].old)
      BY <1>3, <1>5, <2>3, <2>4
    <3>2. ASSUME NEW k \in 2..Len(task.plan)
          PROVE  k - 1 \in DOMAIN task'.plan /\ task'.plan[k - 1] = task.plan[k]
      <4>1. k - 1 \in 1..(Len(task.plan) - 1) /\ (k - 1) + 1 = k
        BY <1>5
      <4> QED BY <2>3, <2>4, <4>1
    <3>3. \A i \in DOMAIN files'[h] :
             \/ files'[h][i].folder = R!Event.title
             \/ \E k \in DOMAIN task'.plan : task'.plan[k].old = files'[h][i]
      BY <1>6, <3>2
    <3> QED BY <1>1, <2>3, <2>5, <2>7, <3>1, <3>3 DEF PlanInv, Handling
  <2>9. FirstInv'
    BY <1>1, <2>3, <2>7 DEF RenameIInv, FirstInv, Handling
  <2>10. TouchedInv'
    <3> SUFFICES ASSUME ~task.failed, NEW g \in task.touched \cup moved,
                        R!HalfRenamed(files'[g]), g # h
                 PROVE  g \in reported'
      BY <1>1, <2>3, <2>7 DEF TouchedInv
    <3>1. g \in task.touched /\ files'[g] = files[g]
      BY <1>2 DEF RenameIInv, RenameTypeOK
    <3>2. g \in reported
      BY <1>1, <3>1 DEF RenameIInv, TouchedInv
    <3> QED BY <1>7, <3>2
  <2>11. R!UnfinishedWasReported'
    BY <1>1, <1>2, <1>7, <2>3 DEF RenameIInv, R!UnfinishedWasReported
  <2> QED BY <2>6, <2>8, <2>9, <2>10, <2>11 DEF RenameIInv
<1> QED BY <1>8, <1>9

\* The end of the run's context is noticed later.
LEMMA RenameCancelKeeps == ASSUME RenameIInv, R!Cancel PROVE RenameIInv'
<1>1. task' = [task EXCEPT !.cancelled = TRUE] /\ UNCHANGED <<name, files, reported>>
  BY DEF R!Cancel
<1>2. /\ task'.at = task.at /\ task'.events = task.events /\ task'.next = task.next
      /\ task'.first = task.first /\ task'.seen = task.seen /\ task'.failed = task.failed
      /\ task'.plan = task.plan /\ task'.touched = task.touched /\ task'.kind = task.kind
  BY <1>1 DEF RenameIInv, RenameTypeOK
<1>3. RenameTypeOK'
  BY <1>1, <1>2 DEF RenameIInv, RenameTypeOK
<1>4. R!Event' = R!Event
  BY <1>2 DEF R!Event
<1>5. PlanInv' /\ FirstInv'
  BY <1>1, <1>2, <1>4 DEF RenameIInv, PlanInv, FirstInv
<1>6. TouchedInv' /\ R!UnfinishedWasReported'
  BY <1>1, <1>2, <1>4 DEF RenameIInv, TouchedInv, R!UnfinishedWasReported
<1> QED BY <1>3, <1>5, <1>6 DEF RenameIInv

\* Nothing changes for the properties when the torrents and the run stay.
LEMMA RenameStutterKeeps == ASSUME RenameIInv, UNCHANGED R!vars PROVE RenameIInv'
<1>1. R!Event' = R!Event
  BY DEF R!vars, R!Event
<1> QED BY <1>1 DEF R!vars, RenameIInv, RenameTypeOK, PlanInv, FirstInv, TouchedInv,
       R!UnfinishedWasReported

\* A step of the run.
LEMMA ContinueKeeps == ASSUME RenameIInv, R!Continue PROVE RenameIInv'
<1> USE DEF R!At
<1>1. CASE R!Fetch
  BY <1>1, FetchKeeps
<1>2. CASE R!FetchFails
  BY <1>2, EndKeeps DEF R!FetchFails
<1>3. CASE R!Skip
  BY <1>3, SkipKeeps
<1>4. CASE R!Stop
  BY <1>4, EndKeeps DEF R!Stop
<1>5. CASE R!Done
  <2>1. task.failed \in BOOLEAN
    BY DEF RenameIInv, RenameTypeOK
  <2> QED BY <1>5, <2>1, EndKeeps DEF R!Done
<1>6. ASSUME NEW h \in Torrents, R!Take(h) PROVE RenameIInv'
  BY <1>6, TakeKeeps
<1>7. ASSUME NEW h \in Torrents, R!Files(h) PROVE RenameIInv'
  <2> DEFINE plan == R!planFiles(task.kind, R!Event.title, files[h])
  <2>1. CASE ~plan.valid
    <3>1. R!EventFails /\ task.at \in Handling
      BY <1>7, <2>1 DEF R!Files, Handling
    <3>2. files' = [g \in Torrents |-> files'[g]] /\ \A g \in Torrents : R!Listed(files'[g])
      BY <1>7 DEF R!Files, RenameIInv, RenameTypeOK
    <3> QED BY <1>7, <3>1, <3>2, EventFailsKeeps DEF R!Files
  <2>2. CASE plan.valid
    BY <1>7, <2>2, FilesKeeps DEF R!Files
  <2> QED BY <2>1, <2>2
<1>8. ASSUME NEW h \in Torrents, R!Rename(h) PROVE RenameIInv'
  BY <1>8, RenameKeeps
<1>9. ASSUME NEW h \in Torrents, R!RenameFile(h) PROVE RenameIInv'
  BY <1>9, RenameFileKeeps
<1>10. CASE R!FilesFails \/ R!RenameFails
  <2>1. files' = [g \in Torrents |-> files'[g]] /\ \A g \in Torrents : R!Listed(files'[g])
    BY <1>10 DEF R!FilesFails, R!RenameFails, RenameIInv, RenameTypeOK
  <2>2. R!EventFails /\ task.at \in Handling /\ files' = files
    BY <1>10 DEF R!FilesFails, R!RenameFails, Handling
  <2> QED BY <2>1, <2>2, EventFailsKeeps
<1>11. CASE R!RenameFileFails
  BY <1>11, RenameFileFailsKeeps
<1>12. CASE R!Restart
  BY <1>12, RestartKeeps
<1> QED BY <1>1, <1>2, <1>3, <1>4, <1>5, <1>6, <1>7, <1>8, <1>9, <1>10, <1>11, <1>12
        DEF R!Continue

\* Every step keeps the invariant.
LEMMA RenameInvStep == RenameIInv /\ [R!Next]_R!vars => RenameIInv'
<1> SUFFICES ASSUME RenameIInv, [R!Next]_R!vars PROVE RenameIInv'
  OBVIOUS
<1>1. ASSUME NEW kind \in R!Kinds, R!Start(kind) PROVE RenameIInv'
  BY <1>1, RenameStartKeeps
<1>2. CASE R!Continue
  BY <1>2, ContinueKeeps
<1>3. CASE R!Cancel
  BY <1>3, RenameCancelKeeps
<1>4. CASE R!Die
  BY <1>4, DieKeeps
<1>5. CASE UNCHANGED R!vars
  BY <1>5, RenameStutterKeeps
<1> QED BY <1>1, <1>2, <1>3, <1>4, <1>5 DEF R!Next

\* So it holds in every behaviour.
LEMMA RenameInvariant == ASSUME R!LayoutsAreListed PROVE R!Spec => []RenameIInv
BY RenameInvInit, RenameInvStep, PTL DEF R!Spec

\* No run says that all went well after it renamed a part of a torrent's files, for any
\* torrents, listings, histories and formats.
THEOREM NoSilentRemainder ==
    ASSUME R!LayoutsAreListed
    PROVE R!Spec => []UnfinishedWasReported
<1>1. RenameIInv => UnfinishedWasReported
  BY DEF RenameIInv, R!UnfinishedWasReported, UnfinishedWasReported, R!HalfRenamed, HalfRenamed
<1> QED BY <1>1, RenameInvariant, PTL

\* The only step that changes files moves one that is not in its place under the first
\* title of its torrent.
LEMMA SettledStep ==
    ASSUME RenameIInv, R!Next, NEW h \in Torrents, NEW i \in DOMAIN files[h],
           task.kind = "sonarr", R!InPlace(task.first[h], files[h][i])
    PROVE  files'[h][i] = files[h][i]
<1>1. CASE files' = files
  BY <1>1
<1>2. ASSUME NEW g \in Torrents, task.at = "renameFile", R!Event.hash = g, R!Move(g)
      PROVE  files'[h][i] = files[h][i]
  <2>1. CASE h # g
    BY <1>2, <2>1, MovesFirst
  <2>2. CASE h = g
    <3>1. task.first[h] = R!Event.title
      BY <1>2, <2>2 DEF RenameIInv, FirstInv, Handling
    <3>2. task.plan # <<>> /\ task.plan \in Seq(R!ToSet(task.plan))
      BY <1>2, MovesFirst
    <3>3. ~R!InPlace(R!Event.title, task.plan[1].old)
      BY <3>2 DEF RenameIInv, PlanInv
    <3> QED BY <1>2, <2>2, <3>1, <3>3, MovesFirst
  <2> QED BY <2>1, <2>2
<1>3. \/ files' = files
      \/ \E g \in Torrents : task.at = "renameFile" /\ R!Event.hash = g /\ R!Move(g)
  <2>1. CASE R!RenameFileFails
    <3>1. R!Event.hash \in Torrents
      BY <2>1 DEF R!RenameFileFails, R!At, RenameIInv, PlanInv, Handling
    <3> QED BY <2>1, <3>1 DEF R!RenameFileFails, R!At
  <2>2. CASE \E g \in Torrents : R!RenameFile(g)
    BY <2>2 DEF R!RenameFile, R!At
  <2>3. CASE R!Next /\ ~R!RenameFileFails /\ ~\E g \in Torrents : R!RenameFile(g)
    BY <2>3 DEF R!Next, R!Continue, R!Start, R!Fetch, R!FetchFails, R!Skip, R!Stop, R!Done,
                R!Take, R!Files, R!Rename,
                R!FilesFails, R!RenameFails, R!Restart, R!Cancel, R!Die
  <2> QED BY <2>1, <2>2, <2>3
<1> QED BY <1>1, <1>2, <1>3

\* A run for Sonarr does not move a file that is in its place under the first title.
THEOREM SettledFilesAreLeft ==
    ASSUME R!LayoutsAreListed
    PROVE R!Spec => SettledFilesStay
<1>1. RenameIInv /\ [R!Next]_R!vars =>
        [\A h \in Torrents : \A i \in DOMAIN files[h] :
          task.kind = "sonarr" /\ InPlace(task.first[h], files[h][i]) =>
              files'[h][i] = files[h][i]]_files
  BY SettledStep DEF R!vars, R!InPlace, InPlace
<1> QED BY <1>1, RenameInvariant, PTL DEF R!Spec, SettledFilesStay
=============================================================================
