CONSTANTS
    p1 = p1
    p2 = p2
    r1 = r1
    r2 = r2
    s1 = s1
    s2 = s2
    z0 = z0
    z2 = z2
    j1 = j1
    j2 = j2
    j3 = j3
    c1 = c1
    c2 = c2
    w1 = w1
    k1 = k1
    NoJob = NoJob
    NoKey = NoKey
    NoToken = NoToken
    NoOne = NoOne
    Pass = {p1, p2}
    Run = {r1}
    Session = {s1}
    Zone = {z0, z2}
    Offset <- MCOffset
    TicksPerDay = 4
    DispatchTick = 1
    Job = {j1, j2, j3}
    NoSchedule = NoSchedule
    NoDate = NoDate
    Free = Free
    Orphan = Orphan
    MaxClock = 4
    MaxCrashes = 1
    MaxSettings = 1
SPECIFICATION MCSpec
INVARIANTS
    OnceADate
    MarkedDatesHaveJobs
PROPERTIES
    NothingIsLeft
CHECK_DEADLOCK FALSE
