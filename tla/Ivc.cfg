CONSTANTS
    NFrames = 2
    CountMod = 4
    Data = {1, 2}
    Writers = {"cpu"}
    Pollers = {"cpu"}
    MaxResets = 1
    CanCrash = {"cpu", "peer"}
SPECIFICATION FairSpec
INVARIANT
    ChannelSound
PROPERTIES
    RefinesLink
    EventuallyEstablished
    FramesMove
