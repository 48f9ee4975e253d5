SPECIFICATION MCSpec
CONSTANTS
    Written <- FewWritten
    Trailing = {}
    ReadAs <- FewReadAs
    Described = {}
    g1 = g1
    g2 = g2
    g3 = g3
    s1 = s1
    s2 = s2
    Declared = {}
    Names = {}
    Callbacks = {g1, g2, g3, s1, s2}
    Empty = Empty
    Settable = {}
    MaxItems = 0
    NsPerUs = 3
    UsPerMs = 4
    MaxInt = 1
    Deadlines = {}
    MaxClock = 0
PROPERTY VariantUnharmed
CHECK_DEADLOCK FALSE
