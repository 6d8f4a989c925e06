SPECIFICATION FairEditSpec
CONSTANTS
    Editors = {e1}
    Texts = {t1, t2}
    None = None
    MaxOutside = 2
    MaxRestarts = 1
INVARIANTS
    EditTypeOK
    WrittenUnderGate
    AppliedIsReviewed
PROPERTIES
    OldVersionKept
    GateIsReleased
CHECK_DEADLOCK FALSE
