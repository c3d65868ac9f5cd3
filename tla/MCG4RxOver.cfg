SPECIFICATION Spec
CONSTANTS
    NumBufs = 3
    BufSize = 2
    MbCap = 5
    Window = 7
    MaxFrames = 8
INVARIANTS
    NeverOlder
CHECK_DEADLOCK FALSE
