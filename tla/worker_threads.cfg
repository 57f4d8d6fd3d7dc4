SPECIFICATION FairSpec
CONSTANTS
    c1 = c1
    c2 = c2
    Clients = {c1}
    MaxSerial = 2
    MaxRequests = 3
    MayLeave = TRUE
    MayDestroy = TRUE
    MayReconnect = TRUE
INVARIANTS
    TypeOK
    QueueExclusion
    NothingLost
    SkippedWasSuperseded
PROPERTIES
    EveryRequestHandled
    ThreadsJoin
CHECK_DEADLOCK FALSE
