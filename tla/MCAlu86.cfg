CONSTANTS
    Nibble = 4
    Radix = 3
    Codes <- MCCodes
    Starts <- MCStarts
SPECIFICATION Spec
INVARIANT ConditionsCompare
INVARIANT WideArithmetic
INVARIANT WideShifts
INVARIANT DecimalArithmetic
INVARIANT ProductsAndQuotients
INVARIANT CarryOfProducts
INVARIANT WideComparison
INVARIANT ResultFlags
