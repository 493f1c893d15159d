SPECIFICATION FairSpec
CHECK_DEADLOCK FALSE
CONSTANTS
    Hops = {A, B}
    Route <- TwoHosts
    Own = own
    Sources = {a}
    None = None
    a = a
    b = b
    x = x
    A = A
    B = B
    own = own
    MaxRequests = 5
    CacheSize = 1
    CacheTimeout = 1
    MaxTries = 2
    Ttls = {0, 1, 2}
    MaxPackets = 2
    MaxDepth = 3
INVARIANTS
    QueueSound
    GivenUpLate
    OneOutcome
PROPERTIES
    EveryPacketAnswered
