SPECIFICATION FairSpec
CONSTANTS
    MaxPings = 2
    MaxCloses = 1
    MaxRefusals = 1
    MaxRejects = 1
    MaxAsks = 1
    MaxFaults = 2
INVARIANTS
    PongsAreOwed
PROPERTIES
    KeepAliveGoesOn
CHECK_DEADLOCK FALSE
