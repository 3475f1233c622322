\* Without a database: does a committed server stay up?
SPECIFICATION Spec
CONSTANTS
    Modes = {FALSE}
INVARIANTS
    EnvironmentStaysUp
CHECK_DEADLOCK FALSE
