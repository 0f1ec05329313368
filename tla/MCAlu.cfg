SPECIFICATION Spec
CONSTANTS
    Byte = 4
    Half = 8
    Long = 16
    ByteArgs <- MCBytes
    HalfArgs <- MCHalves
    LongArgs <- MCLongs
    MaxWords = 3
INVARIANTS
    TypeOK
    CompareBranch
    ChainExact
