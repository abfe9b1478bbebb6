\* The bounds of each component are described in MCUnloading.tla.
CONSTANTS
    a = a
    b = b
    u = u
    p = p
    Tracepoints <- MCTracepoints
    CPU = {a, b}
    User = {u}
    Patrol = p
    RingSize = 2
    Counts = {2}
    MaxReads = 1
    MaxAlerts = 2
    Dim = 2
    NrFields = 8
    MaxSurprise = 20
    LearnThreshold = 16
    BaselineInterval = 2
    AdaptiveInterval = 2
    MaxEvents = 5
    ModelDim = 2
    HiddenDim = 2
    NLayers = 1
    NHeads = 1
    NKvHeads = 1
    HeadDim = 2
    VocabSize = 4
    GroupSize = 2
    MaxSeq = 2
    TokSize = 5
    Prompts <- MCPrompts
    MaxNew = 1
    MaxLoads = 2
    MaxChats = 1
SPECIFICATION FairSystem
INVARIANT AllOrNone
INVARIANT MemoryInUse
INVARIANT FreedMemoryUnused
INVARIANT QuietReportExact
INVARIANT HalvingKeepsUp
INVARIANT FreedModelUnused
 
INVARIANT HeapMatchesSlot
 
 
\* A refused or unloaded module takes no further step.
CHECK_DEADLOCK FALSE
