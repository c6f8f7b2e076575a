CONSTANTS
    t1 = t1
    t2 = t2
    t3 = t3
    Threads <- MCThreads
    WRITER_COUNTER = 3
    MAX_INDEX = 1
SPECIFICATION Spec
SYMMETRY ThreadSymmetry
INVARIANTS
    TypeOK
    CounterCountsHolders
    UnlockKnowsItsMode
PROPERTIES
    NoOvertaking
    ImplementsRWLock
