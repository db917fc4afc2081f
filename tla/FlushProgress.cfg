SPECIFICATION FairSpec
CONSTANTS
    Limit = 2
    ChanCap = 2
    MaxItems = 2
    Sizes = {0, 1, 3}
    MaxSeq = 4
    UsizeMax = 15
    Faults = {"io", "panic"}
PROPERTIES
    WaitIdleReturns
    RequestsResolve
    ShutdownReturnsOrFailed
    SendReturnsOrFailed
CHECK_DEADLOCK FALSE
