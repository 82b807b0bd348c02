SPECIFICATION TcpSpec
CONSTANTS
    r1 = r1
    r2 = r2
    Readers = {r1, r2}
    Peers = {p1}
    MayFail = {p1}
    Regions <- MCRegions
    Ranges <- MCRanges
    NoPeer = NoPeer
    NoRange = NoRange
    NoReader = NoReader
    NoConn = NoConn
    HeaderCells = 2
    MayClose = TRUE
    MaxReads = 3
    MaxConns = 2
SYMMETRY MCSymmetry
INVARIANTS
    TcpTypeOK
    CleanBetweenReads
    OpenIsOwned
    OneMoreAfterStop
PROPERTIES
    ImplementsTransfer
\* The threads stop when they have made all their reads.
CHECK_DEADLOCK FALSE
