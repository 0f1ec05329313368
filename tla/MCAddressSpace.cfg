CONSTANTS
    WordMod = 64
    PageSize = 4
    MemSize = 28
    StackReserve = 4
    HdrBytes = 2
    Layouts <- MCLayouts
    BrkArgs <- MCBrkArgs
    MapLens <- MCMapLens
    FixedAddrs <- MCFixedAddrs
    StoreAddrs <- MCStoreAddrs
SPECIFICATION Spec
INVARIANTS TypeOK ArenaDisjoint
PROPERTIES StoresSurvive KeepsPromise
