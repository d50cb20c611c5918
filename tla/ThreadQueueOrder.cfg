SPECIFICATION FairSpec
CONSTANTS
    p1 = p1
    p2 = p2
    p3 = p3
    i1 = i1
    Public = {p1, p2, p3}
    Internal = {i1}
    None = None
    MaxDrains = 1
    MaxEdits = 1
    Steers = FALSE
INVARIANTS
    TypeOK
    NoMessageLost
    RowHoldsTurn
PROPERTIES
    KeepsOrder
    FreeThreadMoves
CHECK_DEADLOCK FALSE
