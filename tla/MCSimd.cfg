CONSTANTS
    MemSize = 20
    WordBytes = 4
    ByteValues = 32
    ByteBits = 5
    Addresses = 64
    MmxRegs = {0}
    XmmRegs = {0, 1}
    Addrs = {6, 60}
    MmxOps = 6
    XmmOps = 3
    Imm8s <- MCImm8s
    Memories <- MCMemories
    Eaxs <- MCEaxs
SPECIFICATION Spec
INVARIANTS ScanMask MovesExact
