SPECIFICATION FairSpec
CONSTANTS
    s1 = s1
    Services = {s1}
    TimeoutArgs <- SomeTimeouts
    RetryArgs <- SomeRetries
    Timeouts = {1, 4}
    Retries = {0, 1}
    Word = 8
    Debug = TRUE
    MaxCalls = 2
    MaxTime = 3
INVARIANTS
    TypeOK
    OwnAnswerOnly
    EmptyAfterEveryAttempt
PROPERTIES
    CallEnds
CHECK_DEADLOCK FALSE
