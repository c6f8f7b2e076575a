CONSTANTS
    t1 = t1
    t2 = t2
    pr = pr
    b1 = b1
    b2 = b2
    l1 = l1
    l2 = l2
    Blocks = {b1, b2}
    LocaleObjects = {l1, l2}
    pw = pw
    qr = qr
    qw = qw
    d0 = d0
    d1 = d1
    s1 = s1
    s2 = s2
    pb = pb
    qb = qb
    db = db
    sb = sb
    sb2 = sb2
    eb = eb
    NULL = NULL
    Threads <- TwoThreads
    Nums <- MCNums
    Ofds <- MCOfds
    Buffers <- MCBuffers
    TypeOf <- MCTypeOf
    BufferOf <- MCBufferOf
    CAPACITY = 2
    MAX_IN = 2
    Initially <- MCInitially
    Menus <- MCMenus
    MAX_CALLS = 2
    MAX_TX = 1
    Risks = {}
SPECIFICATION FDSpec
SYMMETRY ThreadSymmetry
INVARIANTS
    DescriptorTableIsConsistent
PROPERTIES
    ImplementsAtomicState
CHECK_DEADLOCK FALSE
