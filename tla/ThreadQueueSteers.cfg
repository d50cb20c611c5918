SPECIFICATION Spec
CONSTANTS
    p1 = p1
    p2 = p2
    p3 = p3
    i1 = i1
    Public = {p1, p2, p3}
    Internal = {}
    None = None
    MaxDrains = 1
    MaxEdits = 1
    Steers = TRUE
SYMMETRY MCSymmetry
INVARIANTS
    NoMessageLost
    PendingSteerCarried
CHECK_DEADLOCK FALSE
