SPECIFICATION FairSpec
CONSTANTS
    Clients = {c1, c2}
    MaxRuns = 2
    MaxFixes = 1
INVARIANTS
    StoredIsOnDisk
    KeySurvivesRestart
PROPERTIES
    KeyIsNotReplaced
    AskedIsServed
CHECK_DEADLOCK FALSE
