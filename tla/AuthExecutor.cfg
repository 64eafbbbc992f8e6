\* Four calls, three admitted, two workers: permits, threads and every call's end.
SPECIFICATION ExecutorLiveSpec
CONSTANTS
    Threads = {c1, c2, c3, c4}
    Versions = {v1, v2}
    Outcomes = {ready}
    AUTH_BLOCKING_WORKERS = 2
    AUTH_BLOCKING_ADMISSION = 3
    BLOCKING_RUNTIME_MARGIN = 0
    ResolverLimit = 1
    MaxTries = 2
INVARIANTS
    PermitsAddUp
    WorkersGoOn
PROPERTIES
    EveryCallEnds
