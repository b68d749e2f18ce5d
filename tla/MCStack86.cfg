CONSTANTS
    ByteMod = 8
    WordMod = 64
    Para = 4
    RamSize = 68
    Kept = {0, 1, 3}
    Forced = {4, 5}
    Programs <- MCPrograms
    Loaded <- MCLoaded
    Segments = {0, 1}
    Targets = {0}
    Answers = {61}
    Drops = {2}
    MaxIP = 6
    Stacks = {0, 58, 60, 61, 62}
SPECIFICATION HSpec
INVARIANT TypeOK
PROPERTY ImplementsCallStack
