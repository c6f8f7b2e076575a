CONSTANTS
    t1 = t1
    t2 = t2
    f1 = f1
    f2 = f2
    b1 = b1
    b2 = b2
    NULL = NULL
    Threads <- TwoThreads
    Files <- OneFile
    Buffers <- OneBuffer
    BufferOf <- OneOf
    RECSIZE = 2
    MAX_SIZE = 3
    Initially <- TwoBytes
    Modes = {0, 1}
    Menus <- FstatMenus
    MAX_CALLS = 3
    MAX_TX = 1
    Risks = {"first fstat"}
SPECIFICATION RFSpec
INVARIANTS
    SizeHasBeenRead
CHECK_DEADLOCK FALSE
