SPECIFICATION FairStoreSpec
CONSTANTS
    Measurements = {m1, m2, m3}
    Paths = {p1}
    Bodies = {b1}
    Absent = Absent
    Pending = Pending
    Gone = Gone
    MaxEdits = 2
    MaxRemovals = 1
INVARIANTS
    LoggedIsKept
PROPERTIES
    MeasuredAtOnce
    MeasurementEnds
CHECK_DEADLOCK FALSE
