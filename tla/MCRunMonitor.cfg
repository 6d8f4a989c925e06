SPECIFICATION FairMonitorSpec
CONSTANTS
    Ended = 2
    Moves = {1, 2}
    MaxAttempts = 1
    MaxFaults = 2
INVARIANTS
    MonitorTypeOK
    EventsInOrder
    RecordNotBehindRow
PROPERTIES
    RecordCatchesUp
    StreamCloses
