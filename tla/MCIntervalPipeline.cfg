CONSTANTS
    Refs <- MCRefs
    Syms <- MCSyms
    Prices <- MCPrices
    Shares <- MCShares
    IntervalLen = 2
    AlphaCfg = 2
    FBits = 2
    MaxTime = 5
    MaxTrades = 4
    Lossy = TRUE
    Reorder = FALSE
    AroonSpan = 3
SPECIFICATION Spec
INVARIANTS
    TypeOK
    BookTracksExchange
    DmMatchesBars
    TrueRangeMatchesBars
    AroonMarksExtremes
PROPERTY
    AggregatorStatsMatchPeriod
