---------------------------- MODULE MCAsyncCalls ----------------------------
(***************************************************************************)
(* AsyncCalls for TLC: floating calls differ in nothing but their name.    *)
(***************************************************************************)
EXTENDS AsyncCalls, TLC

CallSymmetry == Permutations(Floating)
=============================================================================
