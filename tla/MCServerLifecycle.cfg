SPECIFICATION LifeSpec
CONSTANTS
    Queries = {q1, q2}
    Undecodable = {q2}
    c1 = c1
    c2 = c2
    Conns <- MCConns
    MayClose <- MCMayClose
    MaxRequests <- MCMaxRequests
INVARIANTS
    LifeTypeOK
    BadRequestEndsIt
    StopReachesConnections
PROPERTIES
    FailuresAreReal
    StopReturns
\* After stop() everybody may have ended.
CHECK_DEADLOCK FALSE
