----------------------------- MODULE MCMessages -----------------------------
(***************************************************************************)
(* Messages for TLC: the objects of each kind differ in nothing but name.  *)
(***************************************************************************)
EXTENDS Messages, TLC

Symmetry ==
    Permutations(Threads) \cup Permutations(Handles) \cup Permutations(Msgs)
        \cup Permutations(UnixFds) \cup Permutations(Fds)
=============================================================================
