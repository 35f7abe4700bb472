SPECIFICATION Spec
CONSTANTS
    NPROC = 3
    CPUs = {c1, c2}
    NoCPU = NoCPU
    NPages = 5
    Calls <- MCNoKill
    KillPids = {0, 2, 3}
    Disciplined = FALSE
    MaxPid = 4
SYMMETRY CPUSymmetry
INVARIANT NoDanglingPgdir
