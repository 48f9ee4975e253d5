------------------------------- MODULE Handovers -------------------------------
(***************************************************************************)
(* What futures and awaitables promise, whatever threads and atomics they    *)
(* are made of: a result is set once and never changes, each consumer takes  *)
(* the result it asked for when it is there, and one that has gone to sleep  *)
(* is woken by the very step that sets the result - no wake-up is lost, and  *)
(* nobody is woken twice or for nothing.                                     *)
(***************************************************************************)
CONSTANTS
    Cells,     \* results that are to come
    Consumers, \* those who wait for them, one after the other
    None       \* no cell

VARIABLES
    cell,      \* each result, "unset" at first
    mode,      \* what each consumer does
    asks,      \* the cell it asks for
    got        \* the results that have been taken

Init ==
    /\ cell = [c \in Cells |-> "unset"] /\ got = [c \in Cells |-> "none"]
    /\ mode = [k \in Consumers |-> "running"] /\ asks = [k \in Consumers |-> None]

Move(k, from, to) == mode[k] = from /\ mode' = [mode EXCEPT ![k] = to]

Ask(k, c) ==
    /\ Move(k, "running", "asking")
    /\ got[c] = "none" /\ \A j \in Consumers : asks[j] # c
    /\ asks' = [asks EXCEPT ![k] = c]
    /\ UNCHANGED <<cell, got>>

Sleep(k) ==
    /\ Move(k, "asking", "asleep") /\ cell[asks[k]] = "unset"
    /\ UNCHANGED <<cell, asks, got>>

Set(c, v) ==
    /\ cell[c] = "unset" /\ cell' = [cell EXCEPT ![c] = v]
    /\ mode' = [k \in Consumers |-> IF mode[k] = "asleep" /\ asks[k] = c THEN "woken" ELSE mode[k]]
    /\ UNCHANGED <<asks, got>>

Resume(k) == Move(k, "woken", "asking") /\ UNCHANGED <<cell, asks, got>>

Take(k) ==
    /\ Move(k, "asking", "running") /\ cell[asks[k]] # "unset"
    /\ got' = [got EXCEPT ![asks[k]] = cell[asks[k]]]
    /\ asks' = [asks EXCEPT ![k] = None]
    /\ UNCHANGED cell

Finish(k) == Move(k, "running", "finished") /\ UNCHANGED <<cell, asks, got>>

Next ==
    \/ \E c \in Cells, v \in {"value", "error", "broken"} : Set(c, v)
    \/ \E k \in Consumers :
          \/ Sleep(k) \/ Resume(k) \/ Take(k) \/ Finish(k)
          \/ \E c \in Cells : Ask(k, c)

Spec == Init /\ [][Next]_<<cell, mode, asks, got>>
=============================================================================
