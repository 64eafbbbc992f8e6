\* Every auth check decides; one process, two auth checks.
SPECIFICATION LiveSpec
CONSTANTS
    r1 = r1
    r2 = r2
    p1 = p1
    p2 = p2
    alice = alice
    bob = bob
    home_aud = home_aud
    other_aud = other_aud
    NoRequest = NoRequest
    Requests = {r1, r2}
    Procs = {p1}
    Home <- OneProcess
    Configs <- OneConfig
    Users = {alice}
    Audiences = {home_aud}
    Owner = alice
    OwnAudience = home_aud
    IdleTTL = 2
    AbsoluteTTL = 3
    TouchInterval = 1
    RefreshSkew = 1
    AccessTTL = 2
    MaxTries = 2
    StartTime = 1
    MaxTime = 2
    MaxRotations = 1
PROPERTIES
    EveryCheckDecides
