CONSTANTS
    Handles = {h1, h2, h3}
    RefMod = 65536
    MaxEarly = 2
    MaxFails = 1
    Reopen = TRUE
    Ids = 5
    MaxTimeouts = 4
    MaxResets = 1
SPECIFICATION BpmpSpec
INVARIANTS
    CountTracks
    LiveWhileOrderly
    LifecycleSound
    CallsSound
PROPERTY EveryCallReturns
