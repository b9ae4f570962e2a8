SPECIFICATION FairSpec
CONSTANTS
    c1 = c1
    c2 = c2
    j1 = j1
    j2 = j2
    j3 = j3
    NoJob = NoJob
    NoClient = NoClient
    Clients <- MCClients
    Jobs <- MCTwoJobs
INVARIANTS Fifo NoLostWakeup
PROPERTIES SyncMeansDone SyncReturns DestructorReturns ImplementsSerialQueue
CHECK_DEADLOCK FALSE
