SPECIFICATION RunSpec
CONSTANTS
    N = 2
    Faulty = FALSE
    Pause = TRUE
INVARIANTS
    JudgedStageIsPending
    OneStoppedStage
PROPERTIES
    AbortIsFinal
CHECK_DEADLOCK FALSE
