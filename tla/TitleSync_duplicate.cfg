\* Three requests of one marker, no operator: can a replace be repeated after a
\* success whose refresh failed?
SPECIFICATION Spec
CONSTANTS
    Requests = {r1, r2, r3}
    Task = Task
    Active = {"radarr"}
    MaxAttempts = 3
    MaxConfig = 1
    MaxGeneration = 0
PROPERTIES
    NoDuplicateReplace
