SPECIFICATION MCSpec
CONSTANTS
    Executions = {1, 2, 3, 4}
    Tables <- MCTables
    HasPrimaryKey <- MCHasPrimaryKey
    Stamped <- MCStamped
    Engines = {"hybrid", "prior_backup", "my2sql"}
    OtherValue = 9
    MaxDisturbances = 2
INVARIANTS
    AtMostTwoJobs
    RollbackUndoes
CHECK_DEADLOCK FALSE
