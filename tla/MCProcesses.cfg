CONSTANTS
    w1 = w1
    w2 = w2
    j1 = j1
    c1 = c1
    k1 = k1
    r1 = r1
    r2 = r2
    r3 = r3
    s1 = s1
    s2 = s2
    Client = {c1}
    Worker = {w1, w2}
    Job = {j1}
    Key = {k1}
    NoJob = NoJob
    NoKey = NoKey
    NoToken = NoToken
    NoOne = NoOne
    Free = Free
    Orphan = Orphan
    MaxJobAttempts = 2
    MaxTries = 2
    CrashPoints <- Anywhere
    MaxCrashes = 1
    MaxOutages = 1
    MaxTimeouts = 1
    MaxStalls = 2
    MaxOverruns = 1
    MaxFaults = 1
    MaxTroubles = 2
    Request = {r1, r2, r3}
    Server = {s1, s2}
    Home <- MCHome
    MaxToken = 3
    MaxLostCalls = 1
    MaxWaits = 1
    MaxRequests = 3
    MaxServerDeaths = 1
    MaxRefreshTroubles = 1
    Thread = {r1, r2, r3}
    Lifespan = s1
    None = NoOne
    MaxPools = 2
    MaxPoolTroubles = 2
SPECIFICATION MCSpec
SYMMETRY Perms
INVARIANTS
    TypeOK
    WorkIsDoneOnce
    DispatchedIsQueued
    RefreshedOnce
    VaultIsNewest
    PoolIsOurs
PROPERTIES
    WorkersKeepTheEnd
    LeaseRows
CHECK_DEADLOCK FALSE
