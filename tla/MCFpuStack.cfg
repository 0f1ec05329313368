CONSTANTS
    Registers = 3
    Half = 2
    MemWords = 2
    Addresses = 4
    ControlWord = 1
    MaxOps = 4
    Memories <- MCMemories
    Widen <- MCWiden
    OfInt <- MCOfInt
    Constants <- MCConstants
    Results <- MCResults
SPECIFICATION Spec
PROPERTY ImplementsManual
