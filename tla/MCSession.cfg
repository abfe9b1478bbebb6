\* Two sessions, of two writers and the patrol.
CONSTANTS
    w1 = w1
    w2 = w2
    p = p
    none = none
    Writer = {w1, w2}
    Patrol = p
    Nobody = none
    Modes = {"auto", "local", "vllm"}
    VllmTurns = 2
    LocalTurns = 2
    MemoryMax = 2
    MaxSessions = 2
SPECIFICATION FairSpec
INVARIANT SingleWriter
INVARIANT MemoryIsRecent
PROPERTY SessionsEnd
\* When no more sessions begin, everything stops.
CHECK_DEADLOCK FALSE
