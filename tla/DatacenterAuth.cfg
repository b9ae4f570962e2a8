SPECIFICATION FairSpec
CONSTANTS
    MaxCloses = 1
    MaxFaults = 2
    Faults = {"rejected", "unusable", "garbled", "truncated", "unasked", "clock"}
INVARIANTS
    KeyIsShared
    StrandedOnlyByLoss
PROPERTIES
    KeyIsMade
    LastStageRecovers
CHECK_DEADLOCK FALSE
