SPECIFICATION Spec
CONSTANTS
    Polls = 2
    MbCap = 2
    MqCap = 2
    Latch = {FALSE}
    LateAnswers = TRUE
    DropAnytime = FALSE
    MaxDrops = 2
INVARIANTS
    CommandBranchSeesCommands
