SPECIFICATION Spec
CONSTANTS
    MemSize = 5
    WordBytes = 2
    ByteValues = 3
    Addresses = 8
    Memories <- MCMemories
    Pointers = {0, 1, 2, 3, 4, 6, 7}
    Counts = {0, 1, 2, 3, 4}
    Values = {1, 5}
INVARIANTS
    OnlyDestination
    CopyExact
    RegistersExact
    ScanExact
PROPERTY
    RepEnds
