SPECIFICATION Spec
CONSTANTS
    Polls = 2
    MbCap = 3
    MqCap = 2
    Latch = {TRUE, FALSE}
    LateAnswers = TRUE
    DropAnytime = TRUE
    MaxDrops = 2
INVARIANTS
    ArmedWhileConnected
    DropWakesThread
