CONSTANTS
    Files = {a, b}
    HostLimit = 6
    Garbage <- MCGarbage
    Passed = {4, 5, 6, 8}
    MaxCount = 12
SPECIFICATION Spec
PROPERTY InvalidHandleRefused
