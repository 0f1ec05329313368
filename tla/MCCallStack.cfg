SPECIFICATION Spec
CONSTANTS
    MemSize = 10
    WordBytes = 2
    ByteValues = 4
    Addresses = 16
    StackTop = 8
    Imm8s <- MCImm8s
    Imm32s <- MCImm32s
    Offsets <- MCOffsets
    Pops <- MCPops
    MaxOps = 6
INVARIANTS
    TypeOK
    StackKept
    FramesRestored
    EspRoundTrip
