SPECIFICATION MSpec
CONSTANTS
    Limit = 2
    ChanCap = 2
    MaxItems = 2
    Sizes = {0, 1, 3}
    MaxSeq = 5
    UsizeMax = 15
    Faults = {"io", "panic"}
INVARIANTS
    TypeOK
    BytesAccounted
    ResidentBytesBounded
    DoneMeansHandled
    OkIsPrefix
    DisconnectMeansFailed
    ShutdownSettlesAll
    CallbacksCounted
    SnapshotExactWhenIdle
PROPERTIES
    OutcomeFinal
CHECK_DEADLOCK FALSE
