SPECIFICATION Spec
CONSTANTS
    r1 = r1
    r2 = r2
    None = None
    Requests <- OneRequest
    Threshold = 0
    SlowSamples = 2
    InitialKey = 0
    Budgets <- LifecycleBudgets
    Stopping = TRUE
    Unasked = {}
    Codes = {}
INVARIANTS
    ReadyHasKey
PROPERTIES
    StoppedIsFinal
    PausedSendsNothing
    ImplementsCallContract
CHECK_DEADLOCK FALSE
