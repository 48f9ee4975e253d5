SPECIFICATION FairSpec
CONSTANTS
    Stmts = {s1, s2}
    Initial = initial
    Nothing = nothing
INVARIANTS OneMessage OneReply Truthful ReadsLatest
PROPERTIES Implements StatementsEnd
CHECK_DEADLOCK FALSE
