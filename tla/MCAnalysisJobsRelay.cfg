CONSTANTS
    w1 = w1
    w2 = w2
    j1 = j1
    j2 = j2
    c1 = c1
    c2 = c2
    k1 = k1
    Client = {c1}
    Worker = {w1, w2}
    Job = {j1}
    Key = {k1}
    NoJob = NoJob
    NoKey = NoKey
    Free = Free
    Orphan = Orphan
    MaxJobAttempts = 3
    MaxTries = 5
    CrashPoints <- Anywhere
    MaxCrashes = 0
    MaxOutages = 0
    MaxTimeouts = 0
    MaxStalls = 0
    MaxOverruns = 0
    MaxFaults = 0
    MaxTroubles = 10
SPECIFICATION Spec
PROPERTIES
    EndPersists
CHECK_DEADLOCK FALSE
