----------------------------- MODULE AppLifecycle -----------------------------
(***************************************************************************)
(* The life of the process (internal/app/app.go, serve_listener.go and      *)
(* cleanup.go): open the store, listen, hold the first connection back until *)
(* the start is committed or aborted, and take everything down in reverse.  *)
(*                                                                         *)
(* net/http is modelled by what the code relies on: Serve returns the error  *)
(* of Accept, or ErrServerClosed once Shutdown has begun, and closes the     *)
(* listener; Shutdown closes the listener and waits for active requests      *)
(* until its deadline.                                                      *)
(***************************************************************************)
EXTENDS AppState

CONSTANT Modes   \* the values of JPROXY_DB_ENABLED to consider

ASSUME ModesAssumption == Modes \subseteq BOOLEAN

mainVars == <<database, main, store, committed, serveDone, failures, cancelled>>
gateVars == <<ready, released, aborted>>
serverVars == <<socket, serve, served, stopping, handed, active, broken>>
probeVars == <<probe, probeFailed>>
vars == <<signalled, mainVars, tasks, gateVars, serverVars, probeVars>>

Init ==
    /\ database \in Modes
    /\ signalled = FALSE
    /\ cancelled = FALSE
    /\ main = "opening"
    /\ store = "none"
    /\ socket = "none"
    /\ tasks = "none"
    /\ committed = FALSE
    /\ serveDone = FALSE
    /\ failures = {}
    /\ serve = "none"
    /\ served = "empty"
    /\ ready = FALSE
    /\ released = FALSE
    /\ aborted = FALSE
    /\ probe = "none"
    /\ probeFailed = FALSE
    /\ stopping = FALSE
    /\ handed = FALSE
    /\ active = FALSE
    /\ broken = FALSE

\* appCtx, which the tasks and the probe watch.
AppContextEnded == signalled \/ cancelled

Signal ==
    /\ ~signalled
    /\ signalled' = TRUE
    /\ UNCHANGED <<mainVars, tasks, gateVars, serverVars, probeVars>>

-----------------------------------------------------------------------------
(* run up to startServe                                                     *)

\* The store is opened, if there is one.
OpenStore ==
    /\ main = "opening"
    /\ store' = IF database THEN "open" ELSE store
    /\ main' = "opened"
    /\ UNCHANGED <<signalled, database, committed, serveDone, failures, cancelled,
                   tasks, gateVars, serverVars, probeVars>>

\* There is nothing to clean up yet but the context.
OpenFails ==
    /\ main = "opening"
    /\ database
    /\ cancelled' = TRUE
    /\ failures' = {"store"}
    /\ main' = "exited"
    /\ UNCHANGED <<signalled, database, store, committed, serveDone, tasks,
                   gateVars, serverVars, probeVars>>

\* The context is looked at once before the handlers are composed.
Compose ==
    /\ main = "opened"
    /\ ~signalled
    /\ main' = "composed"
    /\ UNCHANGED <<signalled, database, store, committed, serveDone, failures,
                   cancelled, tasks, gateVars, serverVars, probeVars>>

\* Mutant: the store that was opened is forgotten.
GiveUpLeaking(kind) ==
    /\ failures' = {kind}
    /\ main' = "exited"
    /\ UNCHANGED <<signalled, database, store, committed, serveDone, cancelled,
                   tasks, gateVars, serverVars, probeVars>>

\* Everything opened so far is cleaned up.
GiveUp(kind) ==
    /\ failures' = {kind}
    /\ main' = "cleanup"
    /\ UNCHANGED <<signalled, database, store, committed, serveDone, cancelled,
                   tasks, gateVars, serverVars, probeVars>>

\* The snapshot cannot be read, the context has ended, the composition fails, or
\* the address cannot be listened on.
StartupFails ==
    \/ main = "opened" /\ database /\ GiveUp("snapshot")
    \/ main = "opened" /\ signalled /\ GiveUp("cleanup")
    \/ main = "composed" /\ database /\ GiveUp("store")
    \/ main = "composed" /\ GiveUp("listen")

\* deps.listen and startServe: Serve and the probe run from here on.
Listen ==
    /\ main = "composed"
    /\ socket' = "open"
    /\ serve' = "accepting"
    /\ probe' = "dialing"
    /\ main' = "deciding"
    /\ UNCHANGED <<signalled, database, store, committed, serveDone, failures,
                   cancelled, tasks, gateVars, served, stopping, handed, active, broken,
                   probeFailed>>

-----------------------------------------------------------------------------
(* The decision to commit or to abort the start                             *)

\* Mutant: the probe is stopped, the held connection is not.
AbortProbeOnly == UNCHANGED gateVars

\* serveRuntime.abort
Abort ==
    /\ aborted' = TRUE
    /\ UNCHANGED <<ready, released>>

\* The result of Serve is received: anything but ErrServerClosed is a failure.
ReceiveServed ==
    /\ served # "empty"
    /\ served' = "empty"
    /\ failures' = IF served = "failed" THEN failures \cup {"serve"} ELSE failures

\* Serve has returned before the start was committed. The gate is aborted too if
\* the result was found after ready.
TakeServed ==
    /\ main \in {"deciding", "ready"}
    /\ ReceiveServed
    /\ serveDone' = TRUE
    /\ IF main = "ready" THEN Abort ELSE UNCHANGED gateVars
    /\ main' = "decided"
    /\ UNCHANGED <<signalled, database, store, committed, cancelled, tasks, socket,
                   serve, stopping, handed, active, broken, probeVars>>

\* The probe could not connect, or nobody accepted it in time.
TakeProbeFailure ==
    /\ main \in {"deciding", "ready"}
    /\ probeFailed
    /\ probeFailed' = FALSE
    /\ failures' = failures \cup {"serve"}
    /\ Abort
    /\ main' = "decided"
    /\ UNCHANGED <<signalled, database, store, committed, serveDone, cancelled,
                   tasks, serverVars, probe>>

\* Mutant: the tasks start as soon as ready is seen.
TakeReadyStartingTasks ==
    /\ main = "deciding"
    /\ ready
    /\ ~signalled
    /\ ready' = FALSE
    /\ tasks' = IF database THEN "running" ELSE tasks
    /\ main' = "ready"
    /\ UNCHANGED <<signalled, database, store, committed, serveDone, failures,
                   cancelled, released, aborted, serverVars, probeVars>>

\* The first connection has been accepted and is held at the gate.
TakeReady ==
    /\ main = "deciding"
    /\ ready
    /\ ~signalled
    /\ ready' = FALSE
    /\ main' = "ready"
    /\ UNCHANGED <<signalled, database, store, committed, serveDone, failures,
                   cancelled, tasks, released, aborted, serverVars, probeVars>>

\* The select sees the end of the context, or sees it after ready.
TakeSignal ==
    /\ main \in {"deciding", "checked"}
    /\ signalled
    /\ Abort
    /\ main' = "decided"
    /\ UNCHANGED <<signalled, database, store, committed, serveDone, failures,
                   cancelled, tasks, serverVars, probeVars>>

\* The context had ended when ready was taken.
TakeReadyLate ==
    /\ main = "deciding"
    /\ ready
    /\ signalled
    /\ ready' = FALSE
    /\ aborted' = TRUE
    /\ main' = "decided"
    /\ UNCHANGED <<signalled, database, store, committed, serveDone, failures,
                   cancelled, tasks, released, serverVars, probeVars>>

\* After ready, neither Serve nor the probe has anything to say.
NothingAgainst ==
    /\ main = "ready"
    /\ served = "empty" /\ ~probeFailed
    /\ main' = "checked"
    /\ UNCHANGED <<signalled, database, store, committed, serveDone, failures,
                   cancelled, tasks, gateVars, serverVars, probeVars>>

\* The context is looked at once more, and the tasks start.
StartTasks ==
    /\ main = "checked"
    /\ ~signalled
    /\ tasks' = IF database THEN "running" ELSE tasks
    /\ main' = "starting"
    /\ UNCHANGED <<signalled, database, store, committed, serveDone, failures,
                   cancelled, gateVars, serverVars, probeVars>>

\* serveRuntime.commit
Commit ==
    /\ main = "starting"
    /\ released' = TRUE
    /\ committed' = TRUE
    /\ main' = "decided"
    /\ UNCHANGED <<signalled, database, store, serveDone, failures, cancelled,
                   tasks, ready, aborted, serverVars, probeVars>>

-----------------------------------------------------------------------------
(* After the decision                                                       *)

\* The gate is aborted once more unless tasks were started.
MustAbort == tasks = "none" /\ ~serveDone

LeaveDecision ==
    /\ main = "decided"
    /\ IF MustAbort THEN Abort ELSE UNCHANGED gateVars
    /\ main' = IF committed /\ ~serveDone THEN "awaiting" ELSE "cleanup"
    /\ UNCHANGED <<signalled, database, store, committed, serveDone, failures,
                   cancelled, tasks, serverVars, probeVars>>

\* The server has stopped on its own.
AwaitServed ==
    /\ main = "awaiting"
    /\ ReceiveServed
    /\ serveDone' = TRUE
    /\ main' = "cleanup"
    /\ UNCHANGED <<signalled, database, store, committed, cancelled, tasks,
                   gateVars, socket, serve, stopping, handed, active, broken, probeVars>>

AwaitSignal ==
    /\ main = "awaiting"
    /\ signalled
    /\ main' = "cleanup"
    /\ UNCHANGED <<signalled, database, store, committed, serveDone, failures,
                   cancelled, tasks, gateVars, serverVars, probeVars>>

-----------------------------------------------------------------------------
(* cleanup                                                                  *)

CancelContext ==
    /\ main = "cleanup"
    /\ cancelled' = TRUE
    /\ main' = "tasks"
    /\ UNCHANGED <<signalled, database, store, committed, serveDone, failures,
                   tasks, gateVars, serverVars, probeVars>>

\* A server that is still up is shut down; otherwise the listener is closed.
AfterTasks == IF serve # "none" /\ ~serveDone THEN "shutdown" ELSE "listener"

WaitForTasks ==
    /\ main = "tasks"
    /\ tasks # "running"
    /\ main' = AfterTasks
    /\ UNCHANGED <<signalled, database, store, committed, serveDone, failures,
                   cancelled, tasks, gateVars, serverVars, probeVars>>

Shutdown ==
    /\ main = "shutdown"
    /\ stopping' = TRUE
    /\ socket' = "closed"
    /\ main' = "draining"
    /\ UNCHANGED <<signalled, database, store, committed, serveDone, failures,
                   cancelled, tasks, gateVars, serve, served, handed, active, broken,
                   probeVars>>

ShutdownReturns ==
    /\ main = "draining"
    /\ ~active
    /\ main' = "joining"
    /\ UNCHANGED <<signalled, database, store, committed, serveDone, failures,
                   cancelled, tasks, gateVars, serverVars, probeVars>>

\* Mutant: the deadline of Shutdown is taken for its success.
ShutdownTimesOutSilently ==
    /\ main = "draining"
    /\ active
    /\ main' = "joining"
    /\ UNCHANGED <<signalled, database, store, committed, serveDone, failures,
                   cancelled, tasks, gateVars, serverVars, probeVars>>

\* Requests are still active at the deadline: their connections are closed, which
\* does not end the goroutines that handle them.
ShutdownTimesOut ==
    /\ main = "draining"
    /\ active
    /\ failures' = failures \cup {"shutdown_timeout"}
    /\ main' = "joining"
    /\ UNCHANGED <<signalled, database, store, committed, serveDone, cancelled,
                   tasks, gateVars, serverVars, probeVars>>

\* <-served
JoinServe ==
    /\ main = "joining"
    /\ ReceiveServed
    /\ main' = "closing"
    /\ UNCHANGED <<signalled, database, store, committed, serveDone, cancelled, tasks,
                   gateVars, socket, serve, stopping, handed, active, broken, probeVars>>

CloseListener ==
    /\ main = "listener"
    /\ socket' = IF socket = "open" THEN "closed" ELSE socket
    /\ main' = "closing"
    /\ UNCHANGED <<signalled, database, store, committed, serveDone, failures,
                   cancelled, tasks, gateVars, serve, served, stopping, handed, active,
                   broken, probeVars>>

CloseStore ==
    /\ main = "closing"
    /\ store' = IF store = "open" THEN "closed" ELSE store
    /\ main' = "exited"
    /\ UNCHANGED <<signalled, database, committed, serveDone, failures, cancelled,
                   tasks, gateVars, serverVars, probeVars>>

-----------------------------------------------------------------------------
(* The goroutine in Serve, its requests, the probe and the tasks            *)

\* The first connection, the probe's or a client's, is held at the gate.
Accept ==
    /\ serve = "accepting"
    /\ socket = "open"
    /\ ready' = TRUE
    /\ serve' = "held"
    /\ UNCHANGED <<signalled, mainVars, tasks, released, aborted, socket, served,
                   stopping, handed, active, broken, probeVars>>

\* The connection is handed to the server, which goes on accepting.
PassGate ==
    /\ serve = "held"
    /\ released
    /\ serve' = "serving"
    /\ handed' = TRUE
    /\ UNCHANGED <<signalled, mainVars, tasks, gateVars, socket, served, stopping,
                   active, broken, probeVars>>

\* Serve returns: the listener is closed and the error sent.
ServeReturns ==
    /\ serve' = "ended"
    /\ served' = IF stopping THEN "closed" ELSE "failed"
    /\ socket' = "closed"

\* The held connection is closed and Accept returns net.ErrClosed. A goroutine that
\* reaches its select after both channels have been closed may take either case.
DropAtGate ==
    /\ serve = "held"
    /\ aborted
    /\ ServeReturns
    /\ UNCHANGED <<signalled, mainVars, tasks, gateVars, stopping, handed, active, broken,
                   probeVars>>

\* Accept fails because Shutdown has closed the listener.
AcceptClosed ==
    /\ serve \in {"accepting", "serving"}
    /\ socket = "closed"
    /\ ServeReturns
    /\ UNCHANGED <<signalled, mainVars, tasks, gateVars, stopping, handed, active, broken,
                   probeVars>>

\* Accept fails with an error that is not temporary.
AcceptFails ==
    /\ serve \in {"accepting", "serving"}
    /\ socket = "open"
    /\ ServeReturns
    /\ broken' = TRUE
    /\ UNCHANGED <<signalled, mainVars, tasks, gateVars, stopping, handed, active, probeVars>>

\* A connection that was handed over may bring a request, also after Serve has
\* returned. Shutdown waits for one that comes on a new connection while it drains,
\* and has closed every connection when it returns.
RequestBegins ==
    /\ handed
    /\ stopping => main = "draining"
    /\ active' = TRUE
    /\ UNCHANGED <<signalled, mainVars, tasks, gateVars, socket, serve, served,
                   stopping, handed, broken, probeVars>>

RequestEnds ==
    /\ active
    /\ active' = FALSE
    /\ UNCHANGED <<signalled, mainVars, tasks, gateVars, socket, serve, served,
                   stopping, handed, broken, probeVars>>

\* stopProbe was called, or the context it derives from has ended.
ProbeStopped == released \/ aborted \/ AppContextEnded

ProbeConnects ==
    /\ probe = "dialing"
    /\ socket = "open"
    /\ probe' = "connected"
    /\ UNCHANGED <<signalled, mainVars, tasks, gateVars, serverVars, probeFailed>>

\* Mutant: the error of the dial is dropped.
ProbeFailsSilently ==
    /\ \/ probe = "dialing"
       \/ probe = "connected" /\ ~ProbeStopped
    /\ probe' = "done"
    /\ UNCHANGED <<signalled, mainVars, tasks, gateVars, serverVars, probeFailed>>

\* The dial fails, for whatever reason, or the deadline passes once connected.
ProbeFails ==
    /\ \/ probe = "dialing"
       \/ probe = "connected" /\ ~ProbeStopped
    /\ probe' = "done"
    /\ probeFailed' = TRUE
    /\ UNCHANGED <<signalled, mainVars, tasks, gateVars, serverVars>>

ProbeEnds ==
    /\ probe = "connected"
    /\ ProbeStopped
    /\ probe' = "done"
    /\ UNCHANGED <<signalled, mainVars, tasks, gateVars, serverVars, probeFailed>>

\* What Scheduler shows: once the context has ended, Wait returns.
TasksEnd ==
    /\ tasks = "running"
    /\ AppContextEnded
    /\ tasks' = "ended"
    /\ UNCHANGED <<signalled, mainVars, gateVars, serverVars, probeVars>>

-----------------------------------------------------------------------------
StartupStep ==
    \/ OpenStore
    \/ OpenFails
    \/ Compose
    \/ StartupFails
    \/ Listen

DecisionStep ==
    \/ TakeServed
    \/ TakeProbeFailure
    \/ TakeReady
    \/ TakeReadyLate
    \/ TakeSignal
    \/ NothingAgainst
    \/ StartTasks
    \/ Commit
    \/ LeaveDecision
    \/ AwaitServed
    \/ AwaitSignal

CleanupStep ==
    \/ CancelContext
    \/ WaitForTasks
    \/ Shutdown
    \/ ShutdownReturns
    \/ ShutdownTimesOut
    \/ JoinServe
    \/ CloseListener
    \/ CloseStore

MainStep == StartupStep \/ DecisionStep \/ CleanupStep

ServeStep == PassGate \/ DropAtGate \/ AcceptClosed

ProbeStep == ProbeConnects \/ ProbeFails \/ ProbeEnds

Next ==
    \/ Signal
    \/ MainStep
    \/ Accept
    \/ ServeStep
    \/ AcceptFails
    \/ RequestBegins
    \/ RequestEnds
    \/ ProbeStep
    \/ TasksEnd

Spec == Init /\ [][Next]_vars

\* Goroutines run. The probe has a deadline, Accept returns the probe's connection
\* if no other comes first, and a shutdown has a deadline, so that it returns even
\* if a request never ends. Neither signals nor clients are assumed to come.
Fairness ==
    /\ WF_vars(MainStep)
    /\ WF_vars(ServeStep)
    /\ WF_vars(ProbeStep)
    /\ WF_vars(probe = "connected" /\ Accept)
    /\ WF_vars(TasksEnd)

FairSpec == Spec /\ Fairness

-----------------------------------------------------------------------------
MainStates == {"opening", "opened", "composed", "deciding", "ready", "checked",
               "starting", "decided", "awaiting", "cleanup", "tasks", "shutdown",
               "draining", "joining", "listener", "closing", "exited"}

FailureKinds == {"store", "snapshot", "cleanup", "listen", "serve", "shutdown_timeout"}

\* Every variable has its type, and what belongs to the database mode (the store,
\* the tasks) never appears without it.
TypeOK ==
    /\ database \in BOOLEAN
    /\ signalled \in BOOLEAN
    /\ cancelled \in BOOLEAN
    /\ main \in MainStates
    /\ store \in {"none", "open", "closed"}
    /\ socket \in {"none", "open", "closed"}
    /\ tasks \in {"none", "running", "ended"}
    /\ committed \in BOOLEAN
    /\ serveDone \in BOOLEAN
    /\ failures \subseteq FailureKinds
    /\ serve \in {"none", "accepting", "held", "serving", "ended"}
    /\ served \in {"empty", "closed", "failed"}
    /\ ready \in BOOLEAN
    /\ released \in BOOLEAN
    /\ aborted \in BOOLEAN
    /\ probe \in {"none", "dialing", "connected", "done"}
    /\ probeFailed \in BOOLEAN
    /\ stopping \in BOOLEAN
    /\ handed \in BOOLEAN
    /\ active \in BOOLEAN
    /\ broken \in BOOLEAN
    /\ ~database => store = "none" /\ tasks = "none"

\* A process with a database that has committed serves until it is told to stop
\* or the network fails.
DatabaseStaysUp ==
    database /\ committed /\ serve = "ended" => signalled \/ broken

\* "Run opens all required resources before listening and closes them in reverse
\* dependency order after ctx is cancelled" (app.go), for a process without a
\* database: it serves until it is told to stop or the network fails.
EnvironmentStaysUp ==
    ~database /\ committed /\ serve = "ended" => signalled \/ broken

\* A start is decided: run does not wait forever for a connection.
StartupDecides == main = "deciding" ~> main # "deciding"

\* Once told to stop, run returns: nothing is left waiting at the gate, for the
\* tasks, for a request or for Serve.
SignalEndsRun == signalled ~> main = "exited"

=============================================================================
