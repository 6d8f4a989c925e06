SPECIFICATION SpendSpec
CONSTANTS
    Reps = {r1, r2, r3}
    Ceiling = 2
    SessionBudget = 2
    Overrun = 1
    Stages = 1
    MaxTurns = 2
    MaxAttempts = 2
    MaxOmitted = 1
SYMMETRY RepSymmetry
INVARIANTS
    RunOverrun
    HaltedReadsCeiling
CHECK_DEADLOCK FALSE
PROPERTIES
    NoStartPastGroup
