\* Two gateway processes and the old binary on one database; or the accept loop in proxy
\* mode with two connection permits, one upstream permit and outages of up to five failures.
SPECIFICATION MCSpec
CONSTANTS
    NULL = NULL
    NoProc = NoProc
    NoConnection = NoConnection
    Procs = {p1, p2}
    Ids = {session}
    Environments <- MCEnvironments
    IdleTTL = 2
    AbsoluteTTL = 3
    LEGACY_ABSOLUTE_TTL = 3
    OldTTLs = {1, 4}
    MaxTime = 5
    Connections = {k1, k2}
    Streams = {s1, s2}
    MaxDownstream = 2
    MaxActive = 1
    ProxyMode = TRUE
    LastPower = 4
    StepsOf <- ShortTables
    MaxFailures = 5
INVARIANTS
    PermitsAddUp
    RowsReadable
    NeverOutlivesPromise
    ServingWithinBudget
PROPERTIES
    OutagePaced
    LoopGoesOn
CHECK_DEADLOCK FALSE
