CONSTANTS
    s1 = s1
    s2 = s2
    s3 = s3
    a1 = a1
    a2 = a2
    c1 = c1
    c2 = c2
    Free = Free
    Orphan = Orphan
    Process = {s1, s2, s3}
    NoRow = NoRow
    NoToken = NoToken
    Seconds = 2
    MaxToken = 2
    MaxClock = 3
    Batch = {a1, a2}
    Committer = {c1, c2}
    Manager = {s1, s2, s3}
    Order <- MCOrder
    Entity <- MCEntity
    Parent <- MCParent
    Edit = {11, 12}
    NoBatch = NoBatch
    NoEntity = NoEntity
    Blank = ""
    MaxRows = 3
    EntityName <- MCEntityName
    Name = {"k", "n", ""}
    Text = {"v", "w", "1", "", "=", "vv", "  ="}
    FormulaText = {"=", "  ="}
    FirstChars <- MCFirstChars
    Uploads <- MCUploads
    Nothing = Nothing
    Sheets <- MCSheets
    Members <- MCMembers
    Snapshot <- MCSnapshot
    PreviousMappings <- MCEarlier
    KeyPart <- MCKeyPart
    Profiled = {TRUE, FALSE}
    MaxRecords = 5
    MaxFaults = 2
    MaxCommits = 3
    Upload = {a1, a2}
    Doc = {s1, s2, s3}
    Request = {c1, c2}
    Change = {1, 2}
    ProjectionKey = {"key"}
    Missing = Missing
    MaxCrashes = 1
    Refresher = {a1, a2}
    Reviewer = {c1, c2}
    Source = {"route", "job"}
    None = None
    MaxRevision = 2
    MaxDeaths = 1
    Caller = {c1, c2}
    NoValue = NoValue
    IdempotencyKey = {1}
    Analysis = {1, 2}
    Hours = {1, 3}
    AssumedHours = 1
    ActionHours = 2
    PriorStrength = 2
    MaxObservations = 3
    MaxEvaluations = 1
    MaxSourceRevision = 2
    Parts = {"knowledge"}
SPECIFICATION MCSpec
CHECK_DEADLOCK FALSE
SYMMETRY Perms
INVARIANTS
    NewestSupersedes
