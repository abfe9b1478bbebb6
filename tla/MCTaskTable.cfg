\* Three processors, three tasks and the idle tasks, two slots.
CONSTANTS
    c1 = c1
    c2 = c2
    c3 = c3
    p1 = p1
    p2 = p2
    p3 = p3
    CPU = {c1, c2, c3}
    Pid = {p1, p2, p3}
    Zero = Zero
    NoName = NoName
    MaxTracked = 2
    ShowMax = 2
    MaxSwitches = 2
SPECIFICATION Spec
SYMMETRY MCSymmetry
INVARIANT SlotsExclusive
INVARIANT CountsExact
INVARIANT ReportsWhole
\* The bound on switches ends every behaviour.
CHECK_DEADLOCK FALSE
