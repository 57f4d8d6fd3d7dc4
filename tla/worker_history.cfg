SPECIFICATION Spec
CONSTANTS
    c1 = c1
    c2 = c2
    Clients = {c1, c2}
    MaxSerial = 2
    MaxRequests = 2
    MayLeave = FALSE
    MayDestroy = FALSE
    MayReconnect = FALSE
INVARIANTS
    SkippedWereProcessed
CHECK_DEADLOCK FALSE
