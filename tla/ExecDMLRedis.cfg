CONSTANTS
    p1 = p1
    p2 = p2
    N = 2
    Procs <- TwoProcs
    TicketTypes = {"dml", "redis_command"}
    AutoStart <- Auto
    GracefulShutdown = TRUE
    MaxCrashes = 1
    MaxStops = 1
SPECIFICATION Spec
CHECK_DEADLOCK FALSE
INVARIANTS
    NotSentIsTrue
    AllOrNothing
PROPERTIES
    SendOnlyWhileRunning
    StopOnFirstFailure
