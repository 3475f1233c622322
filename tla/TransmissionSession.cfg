\* Two calls at a time, two configurations, and servers that renew their identifiers
\* twice altogether.
SPECIFICATION Spec
CONSTANTS
    Callers = {c1, c2}
    MaxRevision = 2
    MaxIds = 4
INVARIANTS
    IdStaysHome
    AppliedAtMostOnce
PROPERTY
    SessionMovesForward
