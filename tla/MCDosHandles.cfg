CONSTANTS
    Files = {a, b}
    HostLimit = 6
    Garbage <- MCGarbage
    Passed = {4, 5, 8, 12}
    MaxCount = 12
SPECIFICATION Spec
SYMMETRY MCSymmetry
INVARIANT TypeOK
INVARIANT HandleReachesItsFile
INVARIANT NothingLeaked
