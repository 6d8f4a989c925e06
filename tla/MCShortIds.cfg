SPECIFICATION FairIdSpec
CONSTANTS
    Runs = {r1}
    Groups = {g1}
    Replays = {p1, p2}
    Torn = Torn
    Nothing = Nothing
INVARIANTS
    ToldNamesOwn
PROPERTIES
    NameIsKept
    ClaimEnds
CHECK_DEADLOCK FALSE
