CONSTANTS
    t1 = t1
    t2 = t2
    t3 = t3
    NULL = NULL
    Threads <- ThreeThreads
    OnlyRead <- OneReader
    OnlyWrite <- TwoWriters
    WRITER_COUNTER = 3
    MAX_INDEX = 3
    MAX_CALLS = 1
SPECIFICATION SysSpec
INVARIANTS
    QuiescentLockIsFree
    WaiterListIsIntact
PROPERTIES
    ImplementsRWLockWord
    EveryOperationReturns
CHECK_DEADLOCK FALSE
