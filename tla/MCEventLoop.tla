---------------------------- MODULE MCEventLoop -----------------------------
(***************************************************************************)
(* EventLoop for TLC: async calls differ in nothing but their name, so the *)
(* runs that check safety only identify states that permute them.          *)
(***************************************************************************)
EXTENDS EventLoop, TLC

CallSymmetry == Permutations(AsyncCalls)
=============================================================================
