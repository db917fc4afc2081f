SPECIFICATION FairSpec
CONSTANTS
    MaxId = 8
    TornTails = {"short", "zero"}
    MaxRecords = 2
    MaxBatch = 2
    Truncates = {TRUE}
    SyncBeforeRemove = TRUE
    Faults = {"write", "sync", "callback", "create", "remove"}
    MaxFaults = 1
    MaxActions = 2
    MaxQueue = 1
    MaxCrashes = 2
INVARIANTS
    TypeOK
    PredecessorDurable
    OffsetsAgree
    ReportedIsDurable
    ChunkMapContiguous
    PurgeAfterFlush
    OpenSucceeds
    LastSegmentDefined
PROPERTIES
    ImplementsDurableLog
    OpenReturns
    ShutdownCompletes
