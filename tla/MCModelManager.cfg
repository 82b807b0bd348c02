SPECIFICATION ManagerSpec
CONSTANTS
    CapacityBytes = 15
    Alignment = 2
    RawPtrs <- MCRawPtrs
    PinMemory = TRUE
    LockMemory = FALSE
    Data <- MCData
    NoData = NoData
    BucketSizeBytes = 3
    m1 = m1
    m2 = m2
    a = a
    b = b
    Models = {m1, m2}
    NoModel = NoModel
    Tensors <- MCTensors
    MaxTensors = 3
SYMMETRY MCSymmetry
INVARIANTS
    ManagerTypeOK
    BucketsOwnedOnce
    AdvertisedIsAllocated
    UsedIsRightEdge
PROPERTIES
    ImplementsCatalog
\* The server is done when every model is loaded and nothing asks for another.
CHECK_DEADLOCK FALSE
