\* A process of an older build, one of today and one of a later build open the same
\* file, whatever it is.
SPECIFICATION Spec
CONSTANTS
    Old = Old
    New = New
    Newer = Newer
    Processes = {Old, New, Newer}
    Build <- MCBuild
    Nobody = Nobody
    Initial <- MCInitial
    MaxRows = 1
INVARIANTS
    OneWriter
    BackupBeforeTakeover
    MigratedOnce
PROPERTIES
    FailsClosed
