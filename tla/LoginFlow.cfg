\* One browser, three concurrent requests, two login states (or sessions); two threads that
\* verify tokens while auth-mini rotates its keys.
SPECIFICATION MCSpec
CONSTANTS
    Requests = {q1, q2, q3}
    LoginStates = {s1, s2}
    None = None
    LoginStateTTL = 1
    MaxTime = 2
    Tabs = {q1, q2, q3}
    Sessions = {s1, s2}
    IdleTTL = 2
    AbsoluteTTL = 4
    NULL = NULL
    LastSecond = 3
    Calls = {1, 2}
    Keys = {"key 1", "key 2"}
    FirstKey = "key 1"
    Tokens <- MCTokens
    Issuer = "issuer"
    Audience = "gateway"
    CACHE_TTL = 2
    TIMEOUT = 1
    NoJwks = NoJwks
    LastInstant = 3
SYMMETRY LoginSymmetry
INVARIANTS
    OneSessionPerState
    CookieNeverOutlivesRow
    VerdictsFollowRotation
PROPERTIES
    StatesOnlyEnd
    GoodCookieStays
