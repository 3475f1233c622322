------------------------------ MODULE AppState ------------------------------
(* The state of the process (see AppLifecycle), and what must be true of it. *)

VARIABLES
    database,      \* the process runs with a database, and so with tasks
    signalled,     \* the context given to run has ended
    cancelled,     \* cleanup has cancelled the context of the application
    main,          \* what run, and cleanup at its end, is doing
    store,         \* none, open or closed
    socket,        \* none, open or closed: the listener
    tasks,         \* none, running or ended
    committed,     \* run's local variable
    serveDone,     \* run's local variable: the result of Serve has been received
    failures,      \* the kinds of failure that run is going to return
    serve,         \* the goroutine in server.Serve
    served,        \* the channel it answers on: empty, closed or failed
    ready,         \* serveListener.ready holds a value
    released,      \* serveListener.release is closed
    aborted,       \* serveListener.abort is closed
    probe,         \* the goroutine that probes readiness
    probeFailed,   \* probeResults holds an error
    stopping,      \* the server is in shutdown
    handed,        \* the server has been handed a connection
    active,        \* some request is being handled
    broken         \* Accept has failed with an error that is not temporary

-----------------------------------------------------------------------------
\* No request is handled before the start is committed, whichever of ready, a
\* failed probe, the end of Serve and a signal come together
\* (serve_listener.go Accept).
HeldUntilCommitted == serve = "serving" \/ active => committed

\* Tasks never run beside a start that is aborted, and a start that is committed with a
\* database has its tasks, whichever of ready, a failed probe, the end of Serve and a
\* signal come together in the selects of run (app.go run).
TasksMeanCommitted ==
    /\ tasks # "none" => ~aborted /\ (committed \/ main = "starting")
    /\ committed /\ database => tasks # "none"

\* The store is closed after everything that uses it: no task runs, Serve has
\* returned, and a request that is still being handled is part of a failure that
\* run returns (cleanup.go cleanup).
StoreOutlivesUsers ==
    store = "closed" =>
        /\ serve \in {"none", "ended"}
        /\ tasks # "running"
        /\ active => failures # {}

\* run leaves nothing behind on any of its paths, the early returns included.
NothingLeaks ==
    main = "exited" =>
        /\ store # "open"
        /\ socket # "open"
        /\ serve \in {"none", "ended"}
        /\ tasks # "running"
        /\ cancelled
=============================================================================
