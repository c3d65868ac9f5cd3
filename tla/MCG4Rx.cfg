SPECIFICATION FairSpec
CONSTANTS
    NumBufs = 3
    BufSize = 2
    MbCap = 5
    Window = 3
    MaxFrames = 5
INVARIANTS
    TypeOK
    NoOverwrite
PROPERTIES
    ChannelRefinement
    EventuallyDecoded
CHECK_DEADLOCK FALSE
