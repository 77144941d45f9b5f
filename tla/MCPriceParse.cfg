CONSTANTS
    FBits = 2
    SymbolLen = 10
    TpPackets <- MCTpPackets
    ChixFields <- MCChixFields
    SymbolsRouting <- MCRouting
    SplitConf <- MCSplitConf
    MaxTrades = 3
    MaxTicks = 2
INIT Init
NEXT Next
INVARIANT
    TradeParsedExactly
