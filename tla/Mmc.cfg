CONSTANTS
    Cards <- MCCards
    MaxBusy = 2
    MaxFaults = 2
    Transfers = {1, 2}
    Starts = {7, 9}
    BlockSize = 2
    ArgSpan = 16
SPECIFICATION Spec
INVARIANTS
    InitSound
    TransfersSound
PROPERTY InitEnds
\* mmc_init may fail, and the program then stops.
CHECK_DEADLOCK FALSE
