CONSTANTS
    t1 = t1
    t2 = t2
    NULL = NULL
    Threads <- MCThreads
    MAX_NMODULES = 1
    TX_NRETRIES_LIMIT = 2
    FailureScenarios <- LiveScenarios
    MAX_TX = 2
    MAX_EVENTS = 1
    MAX_RESTARTS = 3
SPECIFICATION TxSpec
PROPERTIES
    EveryTransactionEnds
CHECK_DEADLOCK FALSE
