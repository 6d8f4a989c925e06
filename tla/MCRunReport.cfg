SPECIFICATION ReportSpec
CONSTANTS
    N = 2
    Faulty = FALSE
    Pause = FALSE
INVARIANTS
    ReportTypeOK
    AbortRecordsPending
    LiveRunNotInterrupted
    StopReadsAsStop
    StopRewritesNothing
PROPERTIES
    PassKeepsReading
CHECK_DEADLOCK FALSE
