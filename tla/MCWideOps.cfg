SPECIFICATION WideSpec
CONSTANTS
    Byte = 4
    Half = 16
    Long = 32
    ByteBits = 2
    LongBits = 5
    LongArgs <- MCLongs
    ByteArgs <- MCBytes
    Counts <- MCCounts
    MaxTotal = 7
    MaxWords = 3
    MaxOps = 4
INVARIANTS
    ShiftsCompose
    PairShift
    LongDivision
    ProductsUndone
    SignedDivision
