SPECIFICATION Spec
CONSTANTS
    w1 = w1
    w2 = w2
    c1 = c1
    c2 = c2
    s1 = s1
    s2 = s2
    Workers = {w1, w2}
    Clients = {c1}
    Services = {s1, s2}
    Offers <- SharedOffers
    Interval = 1
    Expiry = 1
    MaxRequests = 2
    MaxInbox = 1
INVARIANTS
    TypeOK
    RegistryAgrees
    QueuesDrained
    InOrder

PROPERTIES
    FrontStays

