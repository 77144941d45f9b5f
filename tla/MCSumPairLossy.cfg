CONSTANTS
    Ports <- MCPorts
    BufLen = 2
    Default = 0
    Vals <- MCVals
    Lossy = TRUE
    Reorder = FALSE
    InitializeElement <- MCInitializeElement
    ProcessNaive <- MCProcessNaive
    ProcessExt <- MCProcessExt
    ProcessOptExt <- MCProcessOptExt
    Primary <- MCPrimary
    EmptyCache <- MCEmptyCache
SPECIFICATION Spec
CONSTRAINT MCBound
INVARIANT NoFabricatedValue
