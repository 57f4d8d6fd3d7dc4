SPECIFICATION FairSpec
CONSTANTS
    p1 = p1
    p2 = p2
    t1 = t1
    t2 = t2
    Topics = {t1, t2}
    Covers <- NoPrefixes
    Threads = {p1, p2}
    MayDestroy = TRUE
    MaxMessages = 3
INVARIANTS
    TypeOK
    EveryTopicHasHandler
    HandledAsPublished
PROPERTIES
    SubscribeReturns
    EveryMessageHandled
    DestructorReturns
CHECK_DEADLOCK FALSE
