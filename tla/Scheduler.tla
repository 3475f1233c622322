------------------------------ MODULE Scheduler ------------------------------
(***************************************************************************)
(* The task scheduler (internal/tasks/scheduler.go): one wait loop per job,  *)
(* one goroutine per run, a semaphore shared by all runs, and the shutdown   *)
(* that cancels the context and waits (internal/app/cleanup.go).            *)
(*                                                                         *)
(* Time is abstracted: a timer may fire whenever its loop waits for it, and  *)
(* the deadline of a run may pass whenever its callback is running.          *)
(***************************************************************************)
EXTENDS Naturals, FiniteSets

CONSTANTS
    Jobs,        \* the jobs that may be registered
    Immediate,   \* the jobs that have an ImmediateRun
    Limit,       \* MaxConcurrency, the capacity of the semaphore
    Runs,        \* bound: the run goroutines that may exist at once
    None         \* the job of a goroutine that does not exist

ASSUME JobsAssumption == Immediate \subseteq Jobs /\ None \notin Jobs
ASSUME LimitAssumption == Limit \in Nat \ {0}
ASSUME RunsAssumption == IsFiniteSet(Runs)

VARIABLES
    jobs,        \* the registered jobs
    cancelled,   \* the context of the process has ended
    main,        \* the goroutine that starts the scheduler and waits for it
    loop,        \* the wait loop of each job
    waiting,     \* jobState.waiting
    running,     \* jobState.running
    episode,     \* jobState.failureEpisode
    tokens,      \* the number of values in the semaphore channel
    run,         \* what each run goroutine is doing
    job,         \* the job each run goroutine was started for
    ended,       \* the run's own context has ended
    verdict,     \* how the run ended: failed, succeeded or neither
    report,      \* the goroutine is going to log a failure
    late,        \* history: the goroutine got the semaphore after the cancellation
    logged       \* history: a failure was logged since the job last succeeded

stateVars == <<waiting, running, episode>>
runVars == <<run, job, ended, verdict, report, late>>
vars == <<jobs, cancelled, main, loop, stateVars, tokens, runVars, logged>>

Init ==
    /\ jobs = {}
    /\ cancelled = FALSE
    /\ main = "composing"
    /\ loop = [j \in Jobs |-> "off"]
    /\ waiting = [j \in Jobs |-> FALSE]
    /\ running = [j \in Jobs |-> FALSE]
    /\ episode = [j \in Jobs |-> FALSE]
    /\ tokens = 0
    /\ run = [g \in Runs |-> "none"]
    /\ job = [g \in Runs |-> None]
    /\ ended = [g \in Runs |-> FALSE]
    /\ verdict = [g \in Runs |-> "neither"]
    /\ report = [g \in Runs |-> FALSE]
    /\ late = [g \in Runs |-> FALSE]
    /\ logged = [j \in Jobs |-> FALSE]

-----------------------------------------------------------------------------
(* The process: registration, start, cancellation and Wait.                 *)

Add(j) ==
    /\ main = "composing"
    /\ jobs' = jobs \cup {j}
    /\ UNCHANGED <<cancelled, main, loop, stateVars, tokens, runVars, logged>>

\* A loop is started for each registered job. A second Start has no effect.
Start ==
    /\ main = "composing"
    /\ main' = "started"
    /\ loop' = [j \in Jobs |-> IF j \in jobs THEN "begin" ELSE loop[j]]
    /\ UNCHANGED <<jobs, cancelled, stateVars, tokens, runVars, logged>>

\* A signal, a failure of the server, or cleanup ends the context.
Cancel ==
    /\ ~cancelled
    /\ cancelled' = TRUE
    /\ UNCHANGED <<jobs, main, loop, stateVars, tokens, runVars, logged>>

\* Cleanup cancels before it calls Wait, whether or not Start was reached.
CallWait ==
    /\ main \in {"composing", "started"}
    /\ cancelled
    /\ main' = "loops"
    /\ UNCHANGED <<jobs, cancelled, loop, stateVars, tokens, runVars, logged>>

\* Mutant: the runs are waited for before the loops that start them.
LoopsWaitSkipped ==
    /\ main = "loops"
    /\ main' = "runs"
    /\ UNCHANGED <<jobs, cancelled, loop, stateVars, tokens, runVars, logged>>

\* loops.Wait()
LoopsWait ==
    /\ main = "loops"
    /\ \A j \in Jobs : loop[j] \in {"off", "exited"}
    /\ main' = "runs"
    /\ UNCHANGED <<jobs, cancelled, loop, stateVars, tokens, runVars, logged>>

\* runs.Wait()
RunsWait ==
    /\ main = "runs"
    /\ \A g \in Runs : run[g] = "none"
    /\ main' = "done"
    /\ UNCHANGED <<jobs, cancelled, loop, stateVars, tokens, runVars, logged>>

-----------------------------------------------------------------------------
(* waitLoop and the locked part of startRun.                                *)

\* A loop calls startRun: at once if the job has an ImmediateRun, then whenever
\* its timer fires. A ready timer may be taken even though the context has ended.
CallsStartRun(j) ==
    \/ loop[j] = "begin" /\ j \in Immediate
    \/ loop[j] = "waiting"

LoopBegins(j) ==
    /\ loop[j] = "begin"
    /\ j \notin Immediate
    /\ loop' = [loop EXCEPT ![j] = "waiting"]
    /\ UNCHANGED <<jobs, cancelled, main, stateVars, tokens, runVars, logged>>

\* Mutant: only a running callback makes the loop skip, not one that waits.
ClaimWhileWaiting(j) ==
    /\ CallsStartRun(j)
    /\ ~running[j]
    /\ waiting' = [waiting EXCEPT ![j] = TRUE]
    /\ loop' = [loop EXCEPT ![j] = "claimed"]
    /\ UNCHANGED <<jobs, cancelled, main, running, episode, tokens, runVars, logged>>

Claim(j) ==
    /\ CallsStartRun(j)
    /\ ~running[j] /\ ~waiting[j]
    /\ waiting' = [waiting EXCEPT ![j] = TRUE]
    /\ loop' = [loop EXCEPT ![j] = "claimed"]
    /\ UNCHANGED <<jobs, cancelled, main, running, episode, tokens, runVars, logged>>

\* The previous run is still in flight: this one is skipped.
Skip(j) ==
    /\ CallsStartRun(j)
    /\ running[j] \/ waiting[j]
    /\ loop' = [loop EXCEPT ![j] = "waiting"]
    /\ UNCHANGED <<jobs, cancelled, main, stateVars, tokens, runVars, logged>>

\* runs.Add(1), and the goroutine is started.
Spawn(j, g) ==
    /\ loop[j] = "claimed"
    /\ run[g] = "none"
    /\ loop' = [loop EXCEPT ![j] = "waiting"]
    /\ run' = [run EXCEPT ![g] = "pending"]
    /\ job' = [job EXCEPT ![g] = j]
    /\ UNCHANGED <<jobs, cancelled, main, stateVars, tokens, ended, verdict,
                   report, late, logged>>

LoopExits(j) ==
    /\ loop[j] = "waiting"
    /\ cancelled
    /\ loop' = [loop EXCEPT ![j] = "exited"]
    /\ UNCHANGED <<jobs, cancelled, main, stateVars, tokens, runVars, logged>>

-----------------------------------------------------------------------------
(* The goroutine of a run.                                                  *)

Goto(g, state) == run' = [run EXCEPT ![g] = state]

\* runs.Done(): the goroutine and its locals are gone.
Exit(g) ==
    /\ Goto(g, "none")
    /\ job' = [job EXCEPT ![g] = None]
    /\ ended' = [ended EXCEPT ![g] = FALSE]
    /\ verdict' = [verdict EXCEPT ![g] = "neither"]
    /\ report' = [report EXCEPT ![g] = FALSE]
    /\ late' = [late EXCEPT ![g] = FALSE]

\* The select takes the semaphore, even if the context has ended as well.
Acquire(g) ==
    /\ run[g] = "pending"
    /\ tokens < Limit
    /\ tokens' = tokens + 1
    /\ late' = [late EXCEPT ![g] = cancelled]
    /\ Goto(g, "acquired")
    /\ UNCHANGED <<jobs, cancelled, main, loop, stateVars, job, ended, verdict,
                   report, logged>>

\* A receive from the semaphore channel waits until there is a value in it.
GivePlaceBack ==
    /\ tokens > 0
    /\ tokens' = tokens - 1

\* Mutant: a run that gives up gives back a place it has not taken.
AbandonGivingBack(g) ==
    /\ run[g] = "pending"
    /\ cancelled
    /\ GivePlaceBack
    /\ waiting' = [waiting EXCEPT ![job[g]] = FALSE]
    /\ Exit(g)
    /\ UNCHANGED <<jobs, cancelled, main, loop, running, episode, logged>>

\* The context ends while the run waits for the semaphore.
Abandon(g) ==
    /\ run[g] = "pending"
    /\ cancelled
    /\ waiting' = [waiting EXCEPT ![job[g]] = FALSE]
    /\ Exit(g)
    /\ UNCHANGED <<jobs, cancelled, main, loop, running, episode, tokens, logged>>

\* The context has ended: the semaphore is given back, then waiting is cleared.
GiveBack(g) ==
    /\ run[g] = "acquired"
    /\ cancelled
    /\ GivePlaceBack
    /\ Goto(g, "dropping")
    /\ UNCHANGED <<jobs, cancelled, main, loop, stateVars, job, ended, verdict,
                   report, late, logged>>

Drop(g) ==
    /\ run[g] = "dropping"
    /\ waiting' = [waiting EXCEPT ![job[g]] = FALSE]
    /\ Exit(g)
    /\ UNCHANGED <<jobs, cancelled, main, loop, running, episode, tokens, logged>>

\* ctx.Err() was nil; the context may still end before the callback is called.
Pass(g) ==
    /\ run[g] = "acquired"
    /\ ~cancelled
    /\ Goto(g, "checked")
    /\ UNCHANGED <<jobs, cancelled, main, loop, stateVars, tokens, job, ended,
                   verdict, report, late, logged>>

Begin(g) ==
    /\ run[g] = "checked"
    /\ waiting' = [waiting EXCEPT ![job[g]] = FALSE]
    /\ running' = [running EXCEPT ![job[g]] = TRUE]
    /\ Goto(g, "running")
    /\ UNCHANGED <<jobs, cancelled, main, loop, episode, tokens, job, ended,
                   verdict, report, late, logged>>

\* The deadline passes, or the watcher hands on the cancellation.
ContextEnds(g) ==
    /\ run[g] = "running"
    /\ ~ended[g]
    /\ ended' = [ended EXCEPT ![g] = TRUE]
    /\ UNCHANGED <<jobs, cancelled, main, loop, stateVars, tokens, run, job,
                   verdict, report, late, logged>>

\* An error after the process was told to stop is not a failure, and an expired
\* context is not a success.
Verdict(g, err) ==
    IF cancelled \/ (ended[g] /\ ~err) THEN "neither"
    ELSE IF err THEN "failed" ELSE "succeeded"

\* The callback may return at any time, with or without an error. The contexts
\* are read right after it: had they ended in between, the callback might as well
\* have returned later.
CallbackReturns(g, err) ==
    /\ run[g] = "running"
    /\ verdict' = [verdict EXCEPT ![g] = Verdict(g, err)]
    /\ Goto(g, "judged")
    /\ UNCHANGED <<jobs, cancelled, main, loop, stateVars, tokens, job, ended,
                   report, late, logged>>

\* Mutant: the episode is opened before it is decided whether to log.
SettleAfterOpening(g) ==
    /\ run[g] = "judged"
    /\ running' = [running EXCEPT ![job[g]] = FALSE]
    /\ report' = [report EXCEPT ![g] = FALSE]
    /\ episode' = [episode EXCEPT ![job[g]] =
                     verdict[g] = "failed" \/ (@ /\ verdict[g] # "succeeded")]
    /\ logged' = [logged EXCEPT ![job[g]] = @ /\ verdict[g] # "succeeded"]
    /\ Goto(g, "settled")
    /\ ended' = [ended EXCEPT ![g] = FALSE]
    /\ verdict' = [verdict EXCEPT ![g] = "neither"]
    /\ UNCHANGED <<jobs, cancelled, main, loop, waiting, tokens, job, late>>

\* The first failure of an episode is going to be logged; a success ends it.
\* The run's context and verdict matter no more.
Settle(g) ==
    /\ run[g] = "judged"
    /\ running' = [running EXCEPT ![job[g]] = FALSE]
    /\ report' = [report EXCEPT ![g] = verdict[g] = "failed" /\ ~episode[job[g]]]
    /\ episode' = [episode EXCEPT ![job[g]] =
                     verdict[g] = "failed" \/ (@ /\ verdict[g] # "succeeded")]
    /\ logged' = [logged EXCEPT ![job[g]] = @ /\ verdict[g] # "succeeded"]
    /\ Goto(g, "settled")
    /\ ended' = [ended EXCEPT ![g] = FALSE]
    /\ verdict' = [verdict EXCEPT ![g] = "neither"]
    /\ UNCHANGED <<jobs, cancelled, main, loop, waiting, tokens, job, late>>

\* Mutant: the semaphore is not given back.
ReleaseForgotten(g) ==
    /\ run[g] = "settled"
    /\ Goto(g, "released")
    /\ UNCHANGED <<jobs, cancelled, main, loop, stateVars, tokens, job, ended, verdict,
                   report, late, logged>>

Release(g) ==
    /\ run[g] = "settled"
    /\ GivePlaceBack
    /\ Goto(g, "released")
    /\ UNCHANGED <<jobs, cancelled, main, loop, stateVars, job, ended, verdict,
                   report, late, logged>>

\* The outcome is logged, after another run of the job may have begun.
Log(g) ==
    /\ run[g] = "released"
    /\ logged' = [logged EXCEPT ![job[g]] = @ \/ report[g]]
    /\ Exit(g)
    /\ UNCHANGED <<jobs, cancelled, main, loop, stateVars, tokens>>

-----------------------------------------------------------------------------
LoopStep(j) ==
    LoopBegins(j) \/ Claim(j) \/ Skip(j) \/ \E g \in Runs : Spawn(j, g)

\* The steps of a run that depend on nobody but the goroutine itself.
RunStep(g) ==
    \/ Abandon(g)
    \/ GiveBack(g)
    \/ Drop(g)
    \/ Pass(g)
    \/ Begin(g)
    \/ Settle(g)
    \/ Release(g)
    \/ Log(g)

Returns(g) == \E err \in BOOLEAN : CallbackReturns(g, err)

MainStep == CallWait \/ LoopsWait \/ RunsWait

Next ==
    \/ \E j \in Jobs : Add(j) \/ LoopStep(j) \/ LoopExits(j)
    \/ Start
    \/ Cancel
    \/ MainStep
    \/ \E g \in Runs : RunStep(g) \/ Acquire(g) \/ ContextEnds(g) \/ Returns(g)

Spec == Init /\ [][Next]_vars

\* A callback honors its context and returns once that has ended, and a deadline
\* passes (Job's contract, HTTPTimeout > 0). Goroutines blocked on the semaphore
\* channel are served in order, and a select with two ready cases picks either at
\* random: both are strong fairness. The timers of the loops need not fire.
Fairness ==
    /\ \A g \in Runs : /\ WF_vars(RunStep(g))
                       /\ SF_vars(Acquire(g))
                       /\ WF_vars(ContextEnds(g))
                       /\ WF_vars(ended[g] /\ Returns(g))
    /\ \A j \in Jobs : /\ WF_vars(loop[j] \in {"begin", "claimed"} /\ LoopStep(j))
                       /\ SF_vars(LoopExits(j))
    /\ WF_vars(MainStep)

FairSpec == Spec /\ Fairness

-----------------------------------------------------------------------------
LoopStates == {"off", "begin", "waiting", "claimed", "exited"}
RunStates == {"none", "pending", "acquired", "checked", "dropping", "running", "judged",
              "settled", "released"}

\* Every variable has its type, and the channel holds no more than its capacity.
TypeOK ==
    /\ jobs \subseteq Jobs
    /\ cancelled \in BOOLEAN
    /\ main \in {"composing", "started", "loops", "runs", "done"}
    /\ loop \in [Jobs -> LoopStates]
    /\ waiting \in [Jobs -> BOOLEAN]
    /\ running \in [Jobs -> BOOLEAN]
    /\ episode \in [Jobs -> BOOLEAN]
    /\ tokens \in 0..Limit
    /\ run \in [Runs -> RunStates]
    /\ job \in [Runs -> Jobs \cup {None}]
    /\ ended \in [Runs -> BOOLEAN]
    /\ verdict \in [Runs -> {"failed", "succeeded", "neither"}]
    /\ report \in [Runs -> BOOLEAN]
    /\ late \in [Runs -> BOOLEAN]
    /\ logged \in [Jobs -> BOOLEAN]

\* The callback of g has been called and g has not yet marked the job idle.
InCallback(g) == run[g] \in {"running", "judged"}

Holding(g) ==
    run[g] \in {"acquired", "checked", "running", "judged", "settled"}

\* The run has been claimed and its callback has not been called yet.
InQueue(g) == run[g] \in {"pending", "acquired", "checked", "dropping"}

InFlight(g) == InQueue(g) \/ InCallback(g)

\* A job has at most one run in flight, waiting or in its callback, even while other
\* jobs hold the semaphore: its callbacks never overlap, although the goroutine of
\* one run may outlive the start of the next.
NoOverlap ==
    \A g, h \in Runs : InFlight(g) /\ InFlight(h) /\ job[g] = job[h] => g = h

\* No more than Limit callbacks run at a time, whatever jobs they belong to, and
\* no path of a run leaks the semaphore or gives it back twice.
ConcurrencyLimited ==
    /\ Cardinality({g \in Runs : InCallback(g)}) <= Limit
    /\ tokens = Cardinality({g \in Runs : Holding(g)})

\* "Wait returns only after every wait loop and active callback has exited."
WaitIsFinal ==
    main = "done" =>
        /\ \A j \in Jobs : loop[j] \in {"off", "exited"}
        /\ \A g \in Runs : run[g] = "none"

\* A run that was still waiting for the semaphore when the context ended never
\* calls its callback, even if the select gave it the semaphore.
LateRunNeverCalls == \A g \in Runs : InCallback(g) => ~late[g]

\* A job that is failing has been reported since it last succeeded, or the
\* goroutine that is going to report it exists: suppressing repeated failures
\* never hides the first one.
FailureIsReported ==
    \A j \in Jobs : episode[j] =>
        logged[j] \/ \E g \in Runs : job[g] = j /\ report[g]

\* Once the context has ended, Wait returns: nothing is left waiting for a timer,
\* for the semaphore or for a callback.
ShutdownCompletes == cancelled ~> main = "done"

\* A run that waits for the semaphore gets it or gives up: no job starves.
NoStarvation == \A g \in Runs : run[g] = "pending" ~> run[g] # "pending"

=============================================================================
