SPECIFICATION Spec
CONSTANTS
    MaxId = 8
    TornTails = {"short", "zero", "mixed"}
    MaxRecords = 2
    MaxBatch = 2
    Truncates = {TRUE, FALSE}
    SyncBeforeRemove = TRUE
    Faults = {"write", "syncdir"}
    MaxFaults = 1
    MaxActions = 2
    MaxQueue = 2
    MaxCrashes = 1
INVARIANTS
    PredecessorDurable
    OffsetsAgree
    OpenRefusesOnlyDamage
PROPERTIES
    ImplementsDurableLog
