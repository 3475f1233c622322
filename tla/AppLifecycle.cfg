\* Both modes, every order of the start, the signal, failures and the cleanup.
SPECIFICATION FairSpec
CONSTANTS
    Modes = {TRUE, FALSE}
INVARIANTS
    TasksMeanCommitted
    StoreOutlivesUsers
    NothingLeaks
PROPERTIES
    StartupDecides
    SignalEndsRun
\* The process ends: after it no step is left.
CHECK_DEADLOCK FALSE
