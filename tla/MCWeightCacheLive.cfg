SPECIFICATION FairSpec
CONSTANTS
    c1 = c1
    c2 = c2
    m1 = m1
    m2 = m2
    p1 = p1
    p2 = p2
    Clients = {c1, c2}
    Models = {m1}
    NoModel = NoModel
    BucketNum <- MCBucketNum
    PoolBuckets = 3
    Ports = {p1, p2}
    NoPort = NoPort
    MaxCalls = 1
INVARIANT
    SwallowedOnlyByCrash
PROPERTIES
    EveryCallEnds
    PublishedGetsServed
