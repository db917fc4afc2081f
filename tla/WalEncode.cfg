SPECIFICATION Spec
CONSTANTS
    MaxId = 8
    TornTails = {"short", "zero"}
    MaxRecords = 2
    MaxBatch = 2
    Truncates = {TRUE}
    SyncBeforeRemove = TRUE
    Faults = {"write", "sync", "encode"}
    MaxFaults = 2
    MaxActions = 3
    MaxQueue = 1
    MaxCrashes = 1
INVARIANTS
    OffsetsAgree
    ClosedReadableWhenIdle
    SupersededFileReported
    LastSegmentDefined
