CONSTANTS
    h1 = h1
    h2 = h2
    k1 = k1
    k2 = k2
    a1 = a1
    a2 = a2
    t1 = t1
    t2 = t2
    w1 = w1
    d0 = d0
    d1 = d1
    d2 = d2
    Handler = {h1, h2}
    Key = {k1, k2}
    Analysis = {a1, a2}
    Task = {t1, t2}
    Worker = {w1}
    Date = {d0, d1, d2}
    FirstDate = d0
    Plan <- MCPlan
    Free = Free
    Orphan = Orphan
    NoRecord = NoRecord
    Unpublished = Unpublished
    Nobody = Nobody
    MaxEdits = 1
    MaxContext = 0
    MaxCrashes = 1
    MaxLapses = 0
    MaxGivenUp = 1
    MaxTroubles = 2
SPECIFICATION Spec
SYMMETRY Perms
INVARIANTS
    TypeOK
    Serialized
    WritesAreRecorded
    OneLiveExecutionPerTarget
    PrerequisitesFirst
PROPERTIES
    NoBlindRetry
    StepsStaySettled
