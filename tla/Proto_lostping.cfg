SPECIFICATION FairSpec
CONSTANTS
    r1 = r1
    r2 = r2
    None = None
    Requests <- OneRequest
    Threshold = 0
    SlowSamples = 2
    InitialKey = 1
    Budgets <- LostPingBudgets
    Stopping = FALSE
    Unasked = {}
    Codes = {}
PROPERTIES
    PingIsAnswered
CHECK_DEADLOCK FALSE
