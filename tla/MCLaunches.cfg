SPECIFICATION LaunchSpec
CONSTANTS
    Launches = {a1, a2, c1}
    Analyses = {a1, a2}
    Pids = {p1, p2}
    Foreign = Foreign
    Nobody = Nobody
    MaxRestarts = 1
SYMMETRY Symmetry
INVARIANTS
    LaunchTypeOK
    GateCountsStarts
    SoleAnalysis
    StopWins
PROPERTIES
    ImplementsGate
CHECK_DEADLOCK FALSE
