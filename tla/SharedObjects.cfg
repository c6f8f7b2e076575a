SPECIFICATION SOSpec
CONSTANTS
    t1 = t1
    t2 = t2
    Threads = {t1, t2}
    Maps <- MCMaps
    Nodes <- MCNodes
    KeyBits = 2
    LevelBits = 1
    PointerMap = 2
    Pointers <- MCPointers
    Words <- MCWords
    Descriptors <- MCDescriptors
    Files <- MCFiles
    Inode <- MCInode
    OpenAtStart <- MCOpenAtStart
    Size <- MCSize
    Records <- MCRecords
    Risks = {}
    Menus <- MCMenus
INVARIANTS
    UsersOfAFileMeet
    DescriptorOutlivesItsUsers
    LookupsMeet
SYMMETRY ThreadSymmetry
CHECK_DEADLOCK FALSE
