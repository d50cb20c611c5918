SPECIFICATION Spec
CONSTANTS
    p1 = p1
    p2 = p2
    Prompts = {p1, p2}
    Continue = Continue
    Compact = Compact
    None = None
    MaxRetries = 1
    Tries = 2
    MaxRestarts = 2
    Preempt = FALSE
    AgentRuns = FALSE
    StoreFails = TRUE
SYMMETRY MCSymmetry
INVARIANTS
    TypeOK
    AtMostOnceDelivery
    PreparedNeverWritten
    ContinuesOnlyHeldTask
    TaskConservation
    RowFollowsJob
    NoResultWhileRunning
PROPERTIES
    KeepsPromise
    ResumesOnlyDecidedTasks
    RetriesSurvive
    BeginsWhatRowHolds
CHECK_DEADLOCK FALSE
