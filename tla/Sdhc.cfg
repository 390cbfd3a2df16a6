CONSTANTS
    Cmds = {a, b, s, t}
    Null = Null
    Blocking = {s, t}
    Pio = {a, t}
    Dma = {b}
    Long = {a, b}
    Blocks = 2
    MaxErrors = 1
    MaxRemovals = 1
SPECIFICATION FairSpec
INVARIANTS
    ListSound
    InStep
    ToldTheTruth
PROPERTY EveryCommandEnds
\* A failed assertion stops the program.
CHECK_DEADLOCK FALSE
