SPECIFICATION EditSpec
CONSTANTS
    Editors = {e1}
    Texts = {t1, t2, t3}
    None = None
    MaxOutside = 0
    MaxRestarts = 0
PROPERTIES
    DraftKept
CHECK_DEADLOCK FALSE
