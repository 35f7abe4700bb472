SPECIFICATION FairSpec
CONSTANTS
    Procs = {p1, p2}
    p1 = p1
    p2 = p2
    NINODE = 4
    NInodes = 5
    NFILE = 2
    NOFILE = 2
    Calls <- MCCalls
    InitDisk <- MCDisk
    MaxOps = 3
    MaxCrashes = 1
INVARIANTS CacheSound OnlyExhaustionPanics TreeSound
PROPERTIES OnlyCrashLeaks CallReturns ImplementsNameSpace
CHECK_DEADLOCK FALSE
