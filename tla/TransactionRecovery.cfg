CONSTANTS
    t1 = t1
    t2 = t2
    NULL = NULL
    Threads <- OneThread
    MAX_NMODULES = 1
    TX_NRETRIES_LIMIT = 2
    FailureScenarios <- RecoveryScenarios
    MAX_TX = 1
    MAX_EVENTS = 1
    MAX_RESTARTS = 3
SPECIFICATION TxSpec
INVARIANTS
    LogIsEmptyAtBegin
CHECK_DEADLOCK FALSE
