SPECIFICATION Spec
CONSTANTS
    NBUF = 2
    Procs = {p1, p2, p3}
    Blocks = {k1, k2, k3}
    Vals = {v1, v2}
    NoOwner = NoOwner
    NoBlock = NoBlock
    MaxPins = 1
SYMMETRY Symmetry
INVARIANTS CacheSound SleeperHasWaker
PROPERTY CacheIsStore
