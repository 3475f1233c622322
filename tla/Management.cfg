\* Two operators and the rule task; two sessions at a time with three tokens and a list
\* of revocations that has room for one.
SPECIFICATION Spec
CONSTANTS
    Requests = {r1, r2}
    Job = Job
    Ids = {"p", "a"}
    primaryID = "p"
    Contents = {"new"}
    ALL = ALL
    Ann = Ann
    Bob = Bob
    Configured <- MCConfigured
    AuthorLists <- MCAuthorLists
    Remote <- MCRemote
    Clients = {c1, c2}
    Tokens = {t1, t2, t3}
    Lifetime = 2
    Limit = 1
    MaxTime = 4
    Names = {"n1", "n2"}
    Passwords = {"p1"}
    Nothing = Nothing
SYMMETRY Symmetric
INVARIANTS
    DisabledStaysOff
    CommittedRulesAreServed
    LoggedOutStaysOut
\* The bounded clock and tokens run out.
CHECK_DEADLOCK FALSE
