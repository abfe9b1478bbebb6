\* The bounds of each component are described in MCSensing.tla.
CONSTANTS
    a = a
    b = b
    NrCpus = 1
    Window = 2
    SECOND = 1
    Ids <- MCIds
    Latencies <- MCLatencies
    Modulus = 64
    MaxTime = 2
    MaxEvents = 3
    Cpus <- MCCpus
    RawSize = 3
    TokenSize = 2
    Requests <- MCRequests
    Default = 2
    Thresholds <- MCThresholds
    MaxSkew = 1
    MaxNesting = 3
    MaxTokens = 4
    Contexts <- MCCpus
    MaxSyscall = 1
    Bounds <- MCBounds
    Calls <- MCCalls
    Starts <- MCStarts
    Completed = 10
    Width = 64
    MaxCounted = 3
SPECIFICATION SensingSpec
SYMMETRY MCSymmetry
INVARIANT RowsWhole
 
INVARIANT RingReportsInOrder
 
 
\* The bound on events ends the behaviours of tokens.
CHECK_DEADLOCK FALSE
