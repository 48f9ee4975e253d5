SPECIFICATION Spec
CONSTANTS
    Owner = t1
    Threads = {t1}
    Loop = loop
    None = none
    Floating = {f1}
    Owned = {}
INVARIANT RemovedAfterCallback
CHECK_DEADLOCK FALSE
