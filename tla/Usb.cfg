CONSTANTS
    h = h
    a = a
    b = b
    Things <- MCThings
    RootSockets = {1, 2}
    HubSockets <- MCHubSockets
    Fits <- MCFits
    Interval <- MCInterval
    Empty = Empty
    MaxDevs = 5
    NumDevices = 5
    MaxPlugs = 4
    MaxFaults = 1
    Frames = 4
    NoQh = NoQh
SPECIFICATION Spec
INVARIANTS
    DevicesSound
    ScheduleSound
    DisconnectSafe
PROPERTY ComesToAgree
\* The handler may wait forever for a transaction that has failed.
CHECK_DEADLOCK FALSE
