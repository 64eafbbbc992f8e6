\* Two gateway processes on one database, an auth check in each; short access tokens.
SPECIFICATION Spec
CONSTANTS
    r1 = r1
    r2 = r2
    p1 = p1
    p2 = p2
    alice = alice
    bob = bob
    home_aud = home_aud
    other_aud = other_aud
    NoRequest = NoRequest
    Requests = {r1, r2}
    Procs = {p1, p2}
    Home <- OneEach
    Configs <- OneConfig
    Users = {alice}
    Audiences = {home_aud}
    Owner = alice
    OwnAudience = home_aud
    IdleTTL = 2
    AbsoluteTTL = 3
    TouchInterval = 1
    RefreshSkew = 1
    AccessTTL = 1
    MaxTries = 1
    StartTime = 1
    MaxTime = 1
    MaxRotations = 2
SYMMETRY TwoGateways
INVARIANTS
    RemoteRevokeJustified
    ReadyOnlyVerified
PROPERTIES
    RevokedIsTerminal
