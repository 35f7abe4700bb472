SPECIFICATION Spec
CONSTANTS
    Procs = {1, 2}
    NInodes = 3
    Files <- MCFiles
    f1 = f1
    f2 = f2
    Opens = {f1, f2}
    BSIZE = 2
    NDIRECT = 1
    NBlocks = 9
    LOGSIZE = 6
    Counts = {6}
    MaxCalls = 4
    MaxCrashes = 1
SYMMETRY Symmetry
INVARIANTS DiskSound PieceBounded
PROPERTY ImplementsByteFile
CHECK_DEADLOCK FALSE
