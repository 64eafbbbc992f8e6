\* One auth check, other users and audiences, restarts with another configuration.
SPECIFICATION Spec
CONSTANTS
    r1 = r1
    r2 = r2
    p1 = p1
    p2 = p2
    alice = alice
    bob = bob
    home_aud = home_aud
    other_aud = other_aud
    NoRequest = NoRequest
    Requests = {r1}
    Procs = {p1}
    Home <- Alone
    Configs <- TwoConfigs
    Users = {alice, bob}
    Audiences = {home_aud, other_aud}
    Owner = alice
    OwnAudience = home_aud
    IdleTTL = 3
    AbsoluteTTL = 4
    TouchInterval = 1
    RefreshSkew = 1
    AccessTTL = 2
    MaxTries = 2
    StartTime = 1
    MaxTime = 4
    MaxRotations = 2

    
PROPERTIES
    DeadlinesAndGenerations
    FinalizedForConfiguredAudience
