SPECIFICATION Spec
CONSTANTS
    Limit = 2
    ChanCap = 2
    MaxItems = 2
    Sizes = {0, 2}
    MaxSeq = 3
    UsizeMax = 15
    Faults = {"io"}
INVARIANTS
    ErrorReleaseFits
CHECK_DEADLOCK FALSE
