SPECIFICATION Spec
CONSTANTS
    Procs = {p1, p2, p3}
    p1 = p1
    p2 = p2
    p3 = p3
    First = p1
    MaxCalls = 5
    NPages = 10
    PGSIZE = 2
    NPTENTRIES = 2
    KERNBASE = 12
    KTables = 1
    UintMod = 24
    Increments <- MCIncrements
    Buffers <- MCBuffers
    Images <- MCImages
    Stacks <- MCStacks
SYMMETRY Symmetry
INVARIANTS MemorySound 
PROPERTY LostOnlyWhenFull
CHECK_DEADLOCK FALSE
