\* Safety, refinement and progress of the console ring.
CONSTANTS
    c1 = c1
    c2 = c2
    a = a
    b = b
    CPU = {c1, c2}
    Byte = {a, b}
    NoByte = NoByte
    Free = Free
    BufSize = 2
    Messages <- MCTexts
    MaxLens = {1, 3}
    MaxTotal = 2
SPECIFICATION FairSpec
INVARIANT RingHoldsLastBytes
INVARIANT ReadsAreSuffixes
PROPERTY ImplementsStream
PROPERTY WritesEnd
\* Nothing obliges anybody to print or to read: a console may stop.
CHECK_DEADLOCK FALSE
