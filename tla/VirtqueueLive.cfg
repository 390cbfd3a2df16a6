\* Liveness: no symmetry and no view, one buffer per entry.
CONSTANTS
    QueueLen = 4
    MaxInFlight = 2
    MaxChain = 1
    Bufs = {b1}
    NullBuf = NullBuf
    DrvObjs = {o1}
    DevObjs = {r1, r2}
    Eager = FALSE
SPECIFICATION FairSpec
PROPERTY EveryEntryReturns
