SPECIFICATION FairSpec
CONSTANTS
    r1 = r1
    r2 = r2
    None = None
    Requests <- OneRequest
    Threshold = 0
    SlowSamples = 1
    InitialKey = 1
    Budgets <- FaultBudgets
    Stopping = FALSE
    Unasked = {"badSalt", "badMsg"}
    Codes = {"time", "seqNo", "salt", "other"}
INVARIANTS
    KeptIdsAreUnused
    AuthInfoSettles
    ConnectionReportSettles
PROPERTIES
    TimeIsFixed
    ImplementsFairCallContract
CHECK_DEADLOCK FALSE
