CONSTANTS None = None
    Project <- MCProject
    Task <- MCTask
    Worker <- MCWorker
    TicksPerSlot = 2
    TicksPerDay = 6
    Horizon = 12
    Full = 2
    Inputs <- MCInputs
    MaxParts = 2
    MaxWindows = 2
    Absent = None
    Unset = None
    Cases <- MCCases
    Conflicts <- MCConflicts
    MaxElementary = 3
    MaxBundle = 2
    MaxCandidates = 5
    MaxProposals = 1
    Requests <- MCRequests
    MaxDays = 365
    MaxCrew = 100
    DayLength = 2
    Thread = {"a", "b", "w"}
    Process = {"api", "worker"}
    Home <- MCHome
    Metrics = {"wind", "rain"}
    Days = 2
    Ttl <- MCTtl
    MaxAttempts = 2
    Nothing = None
    Plans <- MCPlans
    Forecasts <- MCForecasts
    Matrices <- MCMatrices
    MaxTime = 1
    Nil = None
    Projects <- MCProject
    Samples = 2
    HorizonEnd = 4
    Candidates = 2
    Settings <- MCSettings
    BaseFinishes <- MCBaseFinishes
    Finishes <- MCFinishes
    Costs <- MCCosts
SPECIFICATION MCSpec
INVARIANTS OneCrewAtATime HoursAreReal GatesKept ChoiceIsSound CandidatesAreSound DecisionIsRight ContextIsHonest
CHECK_DEADLOCK FALSE
