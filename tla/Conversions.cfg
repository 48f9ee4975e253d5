SPECIFICATION MCSpec
CONSTANTS
    Written <- MCWritten
    Trailing <- MCTrailing
    ReadAs <- MCReadAs
    Described <- MCDescribed
    g1 = g1
    g2 = g2
    g3 = g3
    s1 = s1
    s2 = s2
    Declared <- MCDeclared
    Names = {1, 2, 3}
    Callbacks = {g1, g2, g3, s1, s2}
    Empty = Empty
    Settable = {"none", "invalidation", "privileged"}
    MaxItems = 3
    NsPerUs = 3
    UsPerMs = 4
    MaxInt = 1
    Deadlines = {0, 1, 3, 4, 5, 8, 9, 14}
    MaxClock = 46
INVARIANTS ReadBack GeneratedAgree ServedByName NeverEarly NeverLate
PROPERTY VariantConst
CHECK_DEADLOCK FALSE
