SPECIFICATION Spec
CONSTANTS
    Payloads <- MCPayloads
    ActionTypes = {0, 1}
    MaxWritten = 3
    Block = 3
INVARIANTS
    ScanExact
    TornTailAccepted
PROPERTIES
    ScanEnds
