SPECIFICATION TcpFairSpec
CONSTANTS
    r1 = r1
    r2 = r2
    Readers = {r1, r2}
    Peers = {p1, p2}
    MayFail = {p1}
    Regions <- MCOneRange
    Ranges <- MCOneRange
    NoPeer = NoPeer
    NoRange = NoRange
    NoReader = NoReader
    NoConn = NoConn
    HeaderCells = 1
    MayClose = FALSE
    MaxReads = 3
    MaxConns = 2
PROPERTIES
    EveryReadEnds
\* The threads stop when they have made all their reads.
CHECK_DEADLOCK FALSE
