CONSTANTS
    WordMod = 32
    DWordMod = 256
    Para = 4
    RamSize = 128
    LoadSegment = 2
    DefaultSize = 4
    Headers <- MCHeaders
    Environments <- MCEnvironments
    StackPointers = {0, 1, 13, 16, 31}
    Breaks = {2, 4, 7, 9, 12, 20, 31}
    Increments = {0, 1, 2, 30}
    Results = {8, 29}
SPECIFICATION Spec
INVARIANT MinStackAvailable
