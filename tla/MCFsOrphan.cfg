SPECIFICATION Spec
CONSTANTS
    Procs = {p1}
    p1 = p1
    p2 = p2
    NINODE = 5
    NInodes = 4
    NFILE = 1
    NOFILE = 1
    Calls <- MCOrphanCalls
    InitDisk <- MCOrphanDisk
    MaxOps = 6
    MaxCrashes = 0
INVARIANT OnlyExhaustionPanics
CHECK_DEADLOCK FALSE
