----------------------------- MODULE PendingCalls -----------------------------
(***************************************************************************)
(* What a proxy promises about an asynchronous call, whatever threads are  *)
(* involved: the reply handler runs at most once, at most one handler runs *)
(* at a time, a call that was cancelled before its handler started is never*)
(* delivered, and whoever ends a call gets control back only when its      *)
(* handler is not running and will not run.                                *)
(***************************************************************************)
CONSTANT Calls

VARIABLES
    state,   \* the life of each call
    closed   \* calls the application knows to have ended

CallStates == {"new", "pending", "running", "done"}

TypeOK == state \in [Calls -> CallStates] /\ closed \subseteq Calls

Init == state = [c \in Calls |-> "new"] /\ closed = {}

Move(c, from, to) == state[c] = from /\ state' = [state EXCEPT ![c] = to]

Issue(c)   == Move(c, "new", "pending")
Deliver(c) == Move(c, "pending", "running") /\ \A d \in Calls : state[d] # "running"
Return(c)  == Move(c, "running", "done")
Cancel(c)  == Move(c, "pending", "done")

\* Calls are closed when they are done, possibly by the step that ends them.
Close ==
    /\ closed \subseteq closed'
    /\ \A c \in closed' \ closed : c \in Calls /\ state'[c] = "done"

Next ==
    /\ \/ \E c \in Calls : Issue(c) \/ Deliver(c) \/ Return(c) \/ Cancel(c)
       \/ UNCHANGED state
    /\ Close

Spec == Init /\ [][Next]_<<state, closed>>
=============================================================================
