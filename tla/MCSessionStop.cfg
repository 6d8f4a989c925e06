SPECIFICATION FairSessionSpec
CONSTANTS
    Reps = {r1, r2}
    Single = s1
    MaxJudge = 2
INVARIANTS
    SessionTypeOK
    StopNotRecorded
    NothingOutlivesExit
    StopOrRecord
PROPERTIES
    StopEnds
CHECK_DEADLOCK FALSE
