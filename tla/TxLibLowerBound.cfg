CONSTANTS
    t1 = t1
    t2 = t2
    list = list
    queue1 = queue1
    queue2 = queue2
    stack = stack
    tree = tree
    ea = ea
    eb = eb
    ec = ec
    ed = ed
    ee = ee
    ef = ef
    HEAD = HEAD
    NULL = NULL
    Threads <- TwoThreads
    Objects <- MCObjects
    Entries <- MCEntries
    Key <- MCKey
    Kind <- MCKind
    Initially <- MCInitially
    Menus <- BoundsMenus
    MAX_CALLS = 3
    MAX_TX = 1
    Risks = {"bounds"}
SPECIFICATION TLSpec
INVARIANT
    LowerBoundIsDocumented
CHECK_DEADLOCK FALSE
