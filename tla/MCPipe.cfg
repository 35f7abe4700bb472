SPECIFICATION FairSpec
CONSTANTS
    Writers = {w1}
    Readers = {r1, r2}
    NoProc = NoProc
    Bytes = {0, 1}
    PIPESIZE = 2
    UintMod = 4
    MaxLen = 3
    MaxCalls = 3
INVARIANTS NoUseAfterFree NoLostWakeup
PROPERTIES FifoOrder EofIsFinal WriteReturns
CHECK_DEADLOCK FALSE
