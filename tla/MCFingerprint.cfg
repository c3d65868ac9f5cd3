SPECIFICATION Spec
CONSTANTS
    Timely = TRUE
    Max = 3
    Fingers = {f1, f2}
    NoFinger = NoFinger
    PS_max = 2
INVARIANTS TypeOK AnswersMatch OpensForEnrolled
PROPERTIES HandShakeEnds StoresMatched
