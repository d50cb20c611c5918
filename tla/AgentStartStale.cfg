SPECIFICATION StartSpec
CONSTANTS
    p1 = p1
    p2 = p2
    i1 = i1
    Public = {p1, p2}
    Internal = {i1}
    None = None
    MaxDrains = 1
    MaxEdits = 0
    Steers = FALSE
INVARIANT NoMessageLost
CHECK_DEADLOCK FALSE
