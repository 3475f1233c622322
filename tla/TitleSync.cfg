\* Two requests and the scheduled job share the gate while configurations are
\* updated and markers cleared; the job goes on from Sonarr to TMDB.
SPECIFICATION FairSpec
CONSTANTS
    Requests = {r1, r2}
    Task = Task
    Active = {"sonarr"}
    MaxAttempts = 3
    MaxConfig = 2
    MaxGeneration = 1
INVARIANTS
    OneSyncPerMarker
    RetainedTitlesAreCurrent
PROPERTIES
    AttemptsEnd
