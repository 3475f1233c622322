\* Two jobs, one of them with a startup run, share the semaphore; every interleaving
\* of their loops, runs and the shutdown.
SPECIFICATION FairSpec
CONSTANTS
    Jobs = {j1, j2}
    Immediate = {j1}
    Limit = 1
    Runs = {g1, g2}
    None = None
INVARIANTS
    NoOverlap
    WaitIsFinal
    FailureIsReported
PROPERTIES
    ShutdownCompletes
    NoStarvation
\* The process ends: after shutdown no step is left.
CHECK_DEADLOCK FALSE
