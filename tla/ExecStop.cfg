CONSTANTS
    p1 = p1
    p2 = p2
    N = 2
    Procs <- TwoProcs
    TicketTypes = {"ddl"}
    AutoStart <- NoAuto
    GracefulShutdown = FALSE
    MaxCrashes = 0
    MaxStops = 1
SPECIFICATION Spec
CHECK_DEADLOCK FALSE
PROPERTY
    StopHaltsRun
