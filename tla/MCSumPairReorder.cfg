CONSTANTS
    Ports <- MCPorts
    BufLen = 2
    Default = 0
    Vals <- MCVals
    Lossy = FALSE
    Reorder = TRUE
    MCMaxTs = 6
    InitializeElement <- MCInitializeElement
    ProcessNaive <- MCProcessNaive
    ProcessExt <- MCProcessExt
    ProcessOptExt <- MCProcessOptExt
    Primary <- MCPrimary
    EmptyCache <- MCEmptyCache
SPECIFICATION Spec
CONSTRAINT MCBound
INVARIANT
    HistoryIsDurable
