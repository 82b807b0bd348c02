SPECIFICATION HostSpec
CONSTANTS
    CapacityBytes = 7
    Alignment = 3
    RawPtrs <- MCRawPtrs
    PinMemory = FALSE
    LockMemory = TRUE
    Data = {d1, d2}
    NoData = NoData
INVARIANTS
    HostTypeOK
    BucketsTile
    BucketsRegistrable
    LockStaysInOwnerBlocks
    UsedIsRightEdge
PROPERTIES
    WriteIsolation
    AllocationsAreForever
