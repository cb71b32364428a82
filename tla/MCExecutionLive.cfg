CONSTANTS
    h1 = h1
    h2 = h2
    k1 = k1
    k2 = k2
    a1 = a1
    a2 = a2
    t1 = t1
    t2 = t2
    w1 = w1
    d0 = d0
    d1 = d1
    d2 = d2
    Handler = {h1, h2}
    Key = {k1}
    Analysis = {a1}
    Task = {t1}
    Worker = {w1}
    Date = {d0, d1, d2}
    FirstDate = d0
    Plan <- MCPlanOne
    Free = Free
    Orphan = Orphan
    NoRecord = NoRecord
    Unpublished = Unpublished
    Nobody = Nobody
    MaxEdits = 0
    MaxContext = 1
    MaxCrashes = 1
    MaxLapses = 1
    MaxGivenUp = 0
    MaxTroubles = 1
SPECIFICATION FairSpec
PROPERTIES
    RequestsEnd
    StaleApprovalsDoNotWrite
