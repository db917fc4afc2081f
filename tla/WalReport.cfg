SPECIFICATION Spec
CONSTANTS
    MaxId = 8
    TornTails = {"short", "zero"}
    MaxRecords = 2
    MaxBatch = 2
    Truncates = {TRUE}
    SyncBeforeRemove = TRUE
    Faults = {}
    MaxFaults = 0
    MaxActions = 1
    MaxQueue = 2
    MaxCrashes = 1
INVARIANTS
    OpenReportsDurable
