SPECIFICATION FairRunSpec
CONSTANTS
    N = 1
    Faulty = TRUE
    Pause = FALSE
INVARIANTS
    CommitsKeptWithoutSignal
PROPERTIES
    RunEnds
CHECK_DEADLOCK FALSE
