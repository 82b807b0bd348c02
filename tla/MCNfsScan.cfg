SPECIFICATION ScanSpec
CONSTANTS
    ALIGN = 2
    Chunk = 4
    Repeats = 2
    MaxStreams = 3
    MayFail = {1, 3}
    Models <- MCModels
    Limits <- MCLimits
INVARIANTS
    PlanCoversModel
    RowIsComplete
PROPERTIES
    ScanEnds
\* The streams and run_once all come to an end.
CHECK_DEADLOCK FALSE
