SPECIFICATION FairSpec
CONSTANTS
    p1 = p1
    p2 = p2
    Loggers = {p1, p2}
    NumTopics = 2
    SizeOf <- SomeSizes
    Byte = 2
    MayDestroy = TRUE
    MaxLogs = 3
INVARIANTS
    TypeOK
    LoopIsAlone
    WrittenOnceInOrder
    ReadBack
PROPERTIES
    EveryMessageWritten
    MutexesAreReleased
CHECK_DEADLOCK FALSE
