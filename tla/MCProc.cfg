SPECIFICATION FairSpec
CONSTANTS
    NPROC = 4
    CPUs = {c1, c2}
    NoCPU = NoCPU
    NPages = 6
    Calls <- MCCalls
    KillPids = {2}
    Disciplined = TRUE
    MaxPid = 4
INVARIANTS RunsOnce TableSound NoMissedWakeup PagesOwnedOnce
PROPERTIES KillTakesEffect OrphanReaped
