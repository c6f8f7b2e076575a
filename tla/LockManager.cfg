CONSTANTS
    t1 = t1
    t2 = t2
    t3 = t3
    NULL = NULL
    Threads <- ThreeThreads
    Writers <- OneWriter
    MAX_INDEX = 3
    WriterPreferring = FALSE
    MAX_CALLS = 1
SPECIFICATION LMSpec
INVARIANTS
    ListIsIntact
    NoAssertionFails
    PrecedingWaiterIsCurrent
    LocksAreReturned
    OnlySleepersAreWoken
PROPERTIES
    EveryCallReturns
CHECK_DEADLOCK FALSE
