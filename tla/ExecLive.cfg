CONSTANTS
    p1 = p1
    p2 = p2
    N = 2
    Procs <- TwoProcs
    TicketTypes = {"dml"}
    AutoStart <- NoAuto
    GracefulShutdown = FALSE
    MaxCrashes = 1
    MaxStops = 0
SPECIFICATION LiveSpec
CHECK_DEADLOCK FALSE
PROPERTY
    RunningRowSettles
