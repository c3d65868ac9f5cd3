SPECIFICATION FairSpec
CONSTANTS
    Polls = 2
    MbCap = 2
    MqCap = 2
    Latch = {FALSE}
    LateAnswers = FALSE
    DropAnytime = FALSE
    MaxDrops = 2
INVARIANTS
    KeyFresh
    FlagMeansLinked
    CommandBranchSeesCommands
PROPERTIES
    StaysOnline
