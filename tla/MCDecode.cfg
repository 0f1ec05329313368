SPECIFICATION Spec
CONSTANTS
    GsBases = {20, 33}
    MaxPrefixes = 3
    Addresses = 64
    ByteValues = 8
    Regs <- MCRegs
    Operands <- MCOperands
INVARIANTS
    PrefixScoped
    FirstAccess
    InStep
