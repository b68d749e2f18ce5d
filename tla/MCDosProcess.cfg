CONSTANTS
    WordMod = 32
    Para = 4
    RamSize = 80
    LoadSegment = 6
    EnvParas = 2
    PspParas = 2
    TailAt = 4
    PspFields = {1, 2}
    Bios <- MCBios
    BiosFields <- MCBiosFields
    Block = 8
    ExeMin = 3
    ComMax = 24
    ComSP = 30
    Exes <- MCExes
    Coms = {0, 23, 24, 25}
    Names = {1, 4, 5}
    Tails = {0, 3, 4}
    StackPointers = {0, 1, 12, 31}
    StackSegments = {7, 19}
    Sizes = {3, 31}
    CodeOffsets = {0, 31}
SPECIFICATION Spec
INVARIANT TypeOK
INVARIANT PushSparesImage
INVARIANT WritableIsOwn
INVARIANT FileSparedButByBios
