\* Two entries being built and two being served at a time.
CONSTANTS
    QueueLen = 4
    MaxInFlight = 3
    MaxChain = 2
    Bufs = {b1}
    NullBuf = NullBuf
    DrvObjs = {o1, o2}
    DevObjs = {r1, r2}
    Eager = FALSE
SYMMETRY Symmetry
VIEW LiveState
SPECIFICATION Spec
INVARIANTS
    TypeOK
    AcceptedVisible
    Conservation
    ServedWhole
PROPERTY RefinesQueue
