CONSTANTS
    t1 = t1
    t2 = t2
    Threads <- MCThreads
    BLOCK_SIZE = 2
    NBLOCKS = 2
    Values = {0, 1}
    Initially <- MCInitially
    Ranges <- MCRanges
    Terminator = 0
    Starts = {0, 1}
    FlagSets <- MCFlags
    MAX_TX = 1
    MAX_CALLS = 2
    Risks = {}
SPECIFICATION VMSpec
SYMMETRY ThreadSymmetry
INVARIANTS
    AccessesAreLocked
    UndoCanRestore
PROPERTIES
    ImplementsTransactionalMemory
CHECK_DEADLOCK FALSE
