CONSTANTS
    ByteMod = 3
    WordMod = 4
    Para = 1
    RamSize = 4
    Dollar = 1
    DeviceBit = 2
    Uses <- MCUses
    Garbage <- MCGarbage
    Files <- MCFiles
    Directories <- MCDirectories
    CwdSize = 3
    Offsets = {0, 3}
    Counts = {0, 3, 7, 15}
    MaxFile = 3
    MaxPosition = 17
SPECIFICATION MCSpec
INVARIANT TypeOK
INVARIANT StringsEnd
PROPERTY ImplementsDosApi
CONSTRAINT MCNear
