CONSTANTS
    PortA = PA
    PortB = PB
    Vals <- MCVals
    FBits = 2
    MaxTs = 4
    Reorder = TRUE
    Combine <- MCCombine
SPECIFICATION Spec
INVARIANTS PairedOnly RoundEmitsOnce
