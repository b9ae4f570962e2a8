SPECIFICATION Spec
CONSTANTS
    r1 = r1
    r2 = r2
    None = None
    Requests <- TwoRequests
    Threshold = 0
    SlowSamples = 2
    InitialKey = 1
    Budgets <- PacketBudgets
    Stopping = FALSE
    Unasked = {"update", "acks", "rpcSilent", "unparsable", "undecryptable", "truncated", "duplicate"}
    Codes = {}
INVARIANTS
    NoRequestStranded
    NoRequestIgnored
CHECK_DEADLOCK FALSE
