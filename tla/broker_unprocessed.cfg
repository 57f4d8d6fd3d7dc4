SPECIFICATION Spec
CONSTANTS
    w1 = w1
    w2 = w2
    c1 = c1
    c2 = c2
    s1 = s1
    s2 = s2
    Workers = {w1, w2}
    Clients = {c1}
    Services = {s1}
    Offers <- OneService
    Interval = 1
    Expiry = 0
    MaxRequests = 1
    MaxInbox = 1
INVARIANTS
    UnprocessedMeansUnregistered

