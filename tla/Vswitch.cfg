CONSTANTS
    NumNodes = 4
    Macs = {m1, m2, null}
    Lookups = {m1, m2, m3, null}
    NullMac = null
    Queues = {q1, q2}
    NoQueue = nullptr
SPECIFICATION SwitchSpec
INVARIANT RoutesSound
