SPECIFICATION FairSpec
CONSTANTS
    Procs = {p1, p2}
    Boot = p1
    Blocks = {b1, b2}
    Vals = {v1,v2}
    None = None
    LOGSIZE = 3
    MAXOPBLOCKS = 1
    LogBlocks = 3
    OpBlocks = 2
    MaxOps = 3
    MaxCrashes = 2
INVARIANT CommitAlone
PROPERTIES CrashAtomic WaiterAdmitted
CHECK_DEADLOCK FALSE
