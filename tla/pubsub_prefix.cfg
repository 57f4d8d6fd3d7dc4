SPECIFICATION Spec
CONSTANTS
    p1 = p1
    p2 = p2
    t1 = t1
    t2 = t2
    Topics = {t1, t2}
    Covers <- OnePrefix
    Threads = {p1, p2}
    MayDestroy = FALSE
    MaxMessages = 1
INVARIANTS
    EveryTopicHasHandler
CHECK_DEADLOCK FALSE
