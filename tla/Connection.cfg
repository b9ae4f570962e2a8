SPECIFICATION ConnFairSpec
CONSTANTS
    NumConns = 2
    MaxTraffic = 1
    MaxLate = 1
INVARIANTS
    DescriptorsAreOwn
PROPERTIES
    ToldInOrder
    FailureIsTold
CHECK_DEADLOCK FALSE
