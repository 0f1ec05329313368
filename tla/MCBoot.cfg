CONSTANTS
    MemTop = 160
    WordBytes = 1
    Align = 4
    MaxArgs = 2
    AuxEntries = 16
    RandBytes = 4
    PageSize = 16
    ChunkLen = 3
    StubAddr = 16
    TlsSize = 8
    HdrLen = 2
    ArenaStart = 64
    ArenaGrain = 32
    Inputs <- MCInputs
SPECIFICATION BootSpec
INVARIANTS ArenaAboveBlock ImageLoaded StackBuilt TlsReady StubSurvives
PROPERTY BootEnds
