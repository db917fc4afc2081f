SPECIFICATION Spec
CONSTANTS
    MaxId = 8
    TornTails = {"short", "zero"}
    MaxRecords = 2
    MaxBatch = 2
    Truncates = {TRUE}
    SyncBeforeRemove = TRUE
    Faults = {"syncdir"}
    MaxFaults = 1
    MaxActions = 2
    MaxQueue = 2
    MaxCrashes = 0
INVARIANTS
    LastSegmentDefined
