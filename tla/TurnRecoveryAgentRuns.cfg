SPECIFICATION Spec
CONSTANTS
    p1 = p1
    p2 = p2
    Prompts = {p1, p2}
    Continue = Continue
    Compact = Compact
    None = None
    MaxRetries = 1
    Tries = 1
    MaxRestarts = 2
    Preempt = FALSE
    AgentRuns = TRUE
    StoreFails = FALSE
SYMMETRY MCSymmetry
INVARIANT ContinuesOnlyHeldTask
CHECK_DEADLOCK FALSE
