SPECIFICATION FairSpec
CONSTANTS
    Limit = 2
    ChanCap = 2
    MaxItems = 2
    Sizes = {2}
    MaxSeq = 3
    UsizeMax = 15
    Faults = {"io"}
PROPERTIES
    ShutdownReturns
CHECK_DEADLOCK FALSE
