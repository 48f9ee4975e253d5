SPECIFICATION Spec
CONSTANTS
    Owner = t1
    Threads = {t1, t2}
    Loop = loop
    None = none
    AsyncCalls = {a1, a2}
    BlockingCalls = {}
    SilentCalls = {}
    Sends = {}
    SilentSends = {}
    Signals = {}
    MaxTime = 2
INVARIANT LoopKnowsDeadlines
