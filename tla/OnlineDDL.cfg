CONSTANTS
    Runs <- TwoRuns
    Conn <- OwnConn
    Host <- SharedHost
    About <- AllR1
    Hidden = {"r2"}
    Reqs <- OneReq
    MaxConcurrent = 2
    MaxTrouble = 1
SPECIFICATION Spec
CHECK_DEADLOCK FALSE
INVARIANTS
    LockHeldWhileWorking
    StatusHonest
