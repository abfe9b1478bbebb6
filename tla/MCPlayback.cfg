\* Two clients; two loops and any commands, or one loop at a time.
CONSTANTS
    l1 = l1
    l2 = l2
    c1 = c1
    c2 = c2
    Clients = {c1, c2}
    Loops = {l1, l2}
    Ts <- MCTs
    Window = 1
    Filters <- MCFilters
    Setups <- MCSetups
    NoCommand = NoCommand
SPECIFICATION FairSpec
INVARIANT EventsAccounted
INVARIANT OneLateBatch
INVARIANT InOrder
 
\* An idle server stops, and one whose loop waits with the mutex held.
CHECK_DEADLOCK FALSE
