SPECIFICATION Spec
CONSTANTS
    p1 = p1
    p2 = p2
    Prompts = {p1, p2}
    Continue = Continue
    Compact = Compact
    None = None
    MaxRetries = 1
    Tries = 1
    MaxRestarts = 2
    Preempt = TRUE
    AgentRuns = TRUE
    StoreFails = FALSE
SYMMETRY MCSymmetry
INVARIANTS AtMostOnceDelivery
CHECK_DEADLOCK FALSE
