\* Two callers at a time, two configurations, three cookies.
SPECIFICATION FairSpec
CONSTANTS
    Callers = {c1, c2}
    None = None
    MaxRevision = 2
    MaxCookies = 3
INVARIANTS
    CookieStaysHome
    AppliedAtMostOnce
PROPERTIES
    LoginIsShared
    CallsReturn
