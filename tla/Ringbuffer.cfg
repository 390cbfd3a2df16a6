CONSTANTS
    Size = 4
    Bytes = {1, 2}
    MaxUnread = 3
    MaxLen = 2
SPECIFICATION RbFairSpec
INVARIANT RegionSpellsQueue
PROPERTIES
    ReceivesInOrder
    EveryByteReceived
