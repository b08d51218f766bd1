CONSTANTS
    Conns <- MCConns
    Requests <- MCRequests
    MaxJobs = 3
    MaxFaults = 1
    GlobalWorkers = 2
    MaxFiles = 2
    FilteredRange = 2
    UnfilteredRange = 1
    Reports = {1, 2}
    Inputs <- MCInputs
    Limits <- MCLimits
    Calendar <- MCCalendar
    Day = 4
    Year = 8
    MaxRuns = 3
    MaxLoops = 1
    MaxPreviews = 2
    Users = {"ann"}
    Keys = {"node"}
    MaxKills = 2
    MaxMatches = 2
    MaxErrors = 2
    MaxDoubts = 1
    MaxStops = 1
    MaxCrashes = 1
SPECIFICATION MCSpec
INVARIANTS
    SlotsMatchWork
    ArtifactsOfSucceeded
    ArtifactsAgree
    DueTimesOnce
    KillLimit
PROPERTIES
    ClaimedAsSaved
    RunningEnds
    LoopEnds
CHECK_DEADLOCK FALSE
