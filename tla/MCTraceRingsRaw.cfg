\* The claim that a raw report shows the last events.
CONSTANTS
    c1 = c1
    c2 = c2
    CPU = {c1, c2}
    RawSize = 3
    TokenSize = 2
    Requests <- MCRequests
    Default = 2
    MaxEvents = 3
SPECIFICATION Spec
SYMMETRY MCSymmetry
INVARIANT RawReportNewest
