SPECIFICATION FairSpec
CONSTANTS
    Futures = {f1}
    Awaitables = {a1, a2}
    Coroutines = {k1, k2}
    None = none
INVARIANTS OneThread ResultsTrue
PROPERTIES Implements AwaitersResumed FuturesAnswered
CHECK_DEADLOCK FALSE
