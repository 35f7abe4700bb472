SPECIFICATION Spec
CONSTANTS
    Procs = {p1, p2}
    Boot = p1
    Blocks = {b1, b2, b3, b4, b5, b6}
    Vals = {v1}
    None = None
    LOGSIZE = 6
    MAXOPBLOCKS = 2
    LogBlocks = 6
    OpBlocks = 3
    MaxOps = 3
    MaxCrashes = 0
SYMMETRY DataSymmetry
INVARIANT TransactionFits
CHECK_DEADLOCK FALSE
