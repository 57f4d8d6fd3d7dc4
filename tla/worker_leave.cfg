SPECIFICATION Spec
CONSTANTS
    c1 = c1
    c2 = c2
    Clients = {c1}
    MaxSerial = 1
    MaxRequests = 1
    MayLeave = TRUE
    MayDestroy = FALSE
    MayReconnect = FALSE
INVARIANTS
    OnlyRequestsInReceiveLoop
CHECK_DEADLOCK FALSE
