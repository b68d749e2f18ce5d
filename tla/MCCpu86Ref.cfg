CONSTANTS
    ByteMod = 21
    WordMod = 4
    Para = 2
    RamSize = 9
    Counts = {0, 3}
    Table <- AllOpcodes
    Decode <- MCDecode
SPECIFICATION MCHSpec
INVARIANT TypeOK
INVARIANT RepeatProtocol
INVARIANT ShownIsExecuted
PROPERTY MemoryProtection
PROPERTY RepetitionEnds
PROPERTY ImplementsIsa
