SPECIFICATION Spec
CONSTANTS
    MemWords = 12
    Addresses = 16
    SigMax = 3
    ActWords = 2
    MaskWords = 2
    UtsWords = 3
    StatWords = 3
    StubSlot = 4
    Stub = 10
    ChunkSize = 7
    Noise = 13
    Text = 5
    Memories <- MCMemories
    Pointers <- MCPointers
    Lengths <- MCLengths
    Signals <- MCSignals
    Values <- MCValues
    MaxOps = 4
INVARIANTS
    ActionsInstalled
    ResultsKept
PROPERTY
    OnlyBuffers
