SPECIFICATION Spec
CONSTANTS
    Owner = t1
    Threads = {t1, t2}
    Loop = loop
    None = none
    Floating = {f1, f2}
    Owned = {o1}
INVARIANTS NoUseAfterFree NoStuckCall NoCallbackAfterEnd NoDeadlock
PROPERTY Implements
SYMMETRY CallSymmetry
CHECK_DEADLOCK FALSE
