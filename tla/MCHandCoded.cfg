CONSTANTS
    Syms <- MCSyms
    CmdLines <- MCCmdLines
    Prices <- MCPrices
    FBits = 2
    Periods = 2
    MaxTrades = 5
    MaxTicks = 3
SPECIFICATION Spec
INVARIANT ProcessSurvives
