SPECIFICATION Spec
CONSTANTS
    t1 = t1
    t2 = t2
    c1 = c1
    s1 = s1
    Threads = {t1, t2}
    Me = c1
    Services = {s1}
    TimeoutArgs = {0}
    RetryArgs <- SomeRetries
    Timeouts = {1}
    Retries = {1}
    Word = 64
    Debug = FALSE
    MaxCalls = 2
    MaxTime = 2
    MaxRequests = 3
INVARIANTS
    TypeOK
    OwnResult
    NoLiveCallSkipped
PROPERTIES
    WorkerAlone
SYMMETRY SameThreads
CHECK_DEADLOCK FALSE
