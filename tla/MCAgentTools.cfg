\* The bounds of the other components are in MCAgentTools.tla.
CONSTANTS
    u1 = u1
    u2 = u2
    r = r
    c1 = c1
    c2 = c2
    f = f
    g = g
    h = h
    User = {u1, u2}
    Rmmod = r
    CPU = {c1, c2}
    Symbol = {f, g, h}
    NoSymbol = NoSymbol
    MaxKprobes = 2
    MaxHits = 2
SPECIFICATION MCSpec
INVARIANT TableMatchesCore
INVARIANT CountsOwnHits
INVARIANT HandlersSafe
INVARIANT RequestDecodes
INVARIANT ReplyWhole
\* The module may be unloaded, and a session that has answered stops.
CHECK_DEADLOCK FALSE
