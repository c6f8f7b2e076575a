CONSTANTS
    t1 = t1
    t2 = t2
    NULL = NULL
    Threads <- MCThreads
    MAX_NMODULES = 2
    TX_NRETRIES_LIMIT = 1
    FailureScenarios <- MCScenarios
    MAX_TX = 2
    MAX_EVENTS = 2
    MAX_RESTARTS = 2
SPECIFICATION TxSpec
SYMMETRY ThreadSymmetry
INVARIANTS
    TxTypeOK
    IrrevocableRunsAlone
    ExclusiveLockBalanced
    AllOrNothing
    CleanSlate
PROPERTIES
    ModuleProtocol
CHECK_DEADLOCK FALSE
