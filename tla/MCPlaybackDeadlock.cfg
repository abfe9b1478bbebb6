\* Two loops alive and a pause: a command can wait forever.
CONSTANTS
    l1 = l1
    l2 = l2
    c1 = c1
    c2 = c2
    Clients = {c1, c2}
    Loops = {l1, l2}
    Ts <- MCTs
    Window = 1
    Filters <- MCAll
    Setups <- MCTwoLoops
    NoCommand = NoCommand
SPECIFICATION FairSpec
PROPERTY CommandsServed
\* A server whose clients send nothing more is idle, and a loop may stop it.
CHECK_DEADLOCK FALSE
