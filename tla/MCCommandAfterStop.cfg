SPECIFICATION RunSpec
CONSTANTS
    N = 1
    Faulty = FALSE
    Pause = FALSE
INVARIANTS
    NoCommandOutlivesStop
CHECK_DEADLOCK FALSE
