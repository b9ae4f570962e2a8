SPECIFICATION Spec
CONSTANTS
    r1 = r1
    r2 = r2
    Requests <- OneRequest
    Grain = 8
    Delay = 2
    Window = 2
    Grace = 1
    Given = 2
    Skews <- BackAndForth
    MaxTime = 6
    MaxBatches = 4
    MaxAnswers = 3
    MaxFaults = 1
INVARIANTS
    IdsAreDistinct
    SeqNosFollowIds
    SaltsAreKept
CHECK_DEADLOCK FALSE
