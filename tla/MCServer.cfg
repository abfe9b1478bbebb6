\* The bounds of each model are described in MCServer.tla.
CONSTANTS
    l1 = l1
    c1 = c1
    c2 = c2
    Clients = {c1, c2}
    Loops = {l1}
    Ts <- MCTs
    Window = 1
    Filters <- MCFilters
    Setups <- MCSetups
    NoCommand = NoCommand
    Watched = {c1}
    Files <- MCFiles
    Cap = 1
    MailCap = 1
    MaxCommands = 2
    MaxConnects = 2
    NoOne = NoOne
SPECIFICATION FairServer
 
 
INVARIANT TraceFaithful
 
\* A server that nobody talks to is idle, and a loop may wait with the mutex.
CHECK_DEADLOCK FALSE
