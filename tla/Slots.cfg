SPECIFICATION FairSpec
CONSTANTS
    Threads = {t1, t2}
    Loop = loop
    None = none
    Signals = {s1}
    VTables = {v1}
    Matches = {m1}
INVARIANTS NoUseAfterFree OneOwner ClosedClean NoDeadlock
PROPERTIES Implements OperationsReturn
CHECK_DEADLOCK FALSE
