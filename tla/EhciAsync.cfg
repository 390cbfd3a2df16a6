CONSTANTS
    NHeads = 3
    MaxTds = 2
    MaxErrors = 1
    MaxTimeouts = 1
    Instances <- MCInstances
SPECIFICATION Spec
INVARIANTS
    ScheduleSafe
    MemorySafe
    TransfersRight
PROPERTIES
    Heard
    Finishes
CHECK_DEADLOCK FALSE
