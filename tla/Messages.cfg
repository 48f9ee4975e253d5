SPECIFICATION Spec
CONSTANTS
    Threads = {t1, t2}
    Handles = {h1, h2, h3}
    Msgs = {m1, m2}
    UnixFds = {u1, u2}
    Fds = {n1, n2, n3}
    None = none
INVARIANTS RefsCounted FdOwnedOnce
SYMMETRY Symmetry
