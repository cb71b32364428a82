CONSTANTS
    r1 = r1
    r2 = r2
    s1 = s1
    s2 = s2
    Request = {r1, r2}
    Server = {s1, s2}
    Home <- MCHome
    NoToken = NoToken
    NoOne = NoOne
    Free = Free
    Orphan = Orphan
    MaxToken = 2
    MaxLostCalls = 1
    MaxRequests = 2
    MaxWaits = 0
    MaxServerDeaths = 0
    MaxRefreshTroubles = 1
SPECIFICATION SessionSpec
CHECK_DEADLOCK FALSE
INVARIANTS
    LocalStateCleared
