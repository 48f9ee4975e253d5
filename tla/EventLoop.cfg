SPECIFICATION Spec
CONSTANTS
    Owner = t1
    Threads = {t1, t2}
    Loop = loop
    None = none
    AsyncCalls = {a1}
    BlockingCalls = {}
    SilentCalls = {c1}
    Sends = {s1}
    SilentSends = {e1}
    Signals = {}
    MaxTime = 1
INVARIANTS QueuesAnnounced DeadlinesAnnounced ExitNotLost
PROPERTY Serialized
