SPECIFICATION Spec
CONSTANTS
    Base = 3
    Width = 3
    Group = 2
    MaxNum = 20
    Procs = {a, b}
    Strays <- MCStrays
    MaxQueue = 2
    MaxFiles = 3
    MaxWrites = 2
    MaxDeaths = 2
INVARIANTS
    OneOwner
    ListedChunksFound
    KnowsItsChunks
    ReaderReadsItsRecords
SYMMETRY Symmetry
