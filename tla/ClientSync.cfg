SPECIFICATION FairSpec
CONSTANTS
    t1 = t1
    t2 = t2
    NoEvent = NoEvent
    Receivers <- TwoReceivers
    MaxEvents = 2
    MaxCalls = 2
INVARIANTS
    FreedOnce
    HeldIsIntact
PROPERTIES
    EventsAreTaken
CHECK_DEADLOCK FALSE
