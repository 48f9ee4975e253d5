SPECIFICATION FairSpec
CONSTANTS
    Owner = t1
    Threads = {t1}
    Loop = loop
    None = none
    AsyncCalls = {a1}
    BlockingCalls = {b1}
    SilentCalls = {}
    Sends = {}
    SilentSends = {}
    Signals = {g1}
    MaxTime = 1
PROPERTIES MessagesDispatched CallsExpire LeaveReturns
