------------------------------ MODULE RemoteCalls ------------------------------
(***************************************************************************)
(* What the convenience API promises about calls to a remote object,         *)
(* whatever goes over the wire: an operation takes effect at one instant, if *)
(* at all, and at most once; whoever gets a result gets that of the instant; *)
(* the property is an atomic register.  An operation that is reported as     *)
(* failed may have taken effect, may still, or never will, but it is not     *)
(* issued any more.                                                         *)
(***************************************************************************)
CONSTANTS
    Ops,     \* operations
    Initial, \* the value of the property before any write
    Nothing  \* the result of an operation that is not a read

VARIABLES
    kind,     \* "read" or "write" of the property, or "call"
    oneWay,   \* operations that are not answered
    life,     \* "new", "issued", "performed" or "failed"
    register, \* the write that took effect last
    result,   \* of an operation that has taken effect
    outcome   \* what the caller is told: a value, "void" or "error"

Init ==
    /\ kind \in [Ops -> {"read", "write", "call"}] /\ oneWay \in [Ops -> BOOLEAN]
    /\ life = [o \in Ops |-> "new"]
    /\ register = Initial
    /\ result = [o \in Ops |-> "none"] /\ outcome = [o \in Ops |-> "none"]

Move(o, from, to) == life[o] = from /\ life' = [life EXCEPT ![o] = to]
Tell(o, what)     == outcome[o] = "none" /\ outcome' = [outcome EXCEPT ![o] = what]

\* The caller of an operation that is not answered is through with it.
Issue(o) ==
    /\ Move(o, "new", "issued") /\ outcome[o] = "none"
    /\ IF oneWay[o] THEN Tell(o, "void") ELSE UNCHANGED outcome
    /\ UNCHANGED <<register, result>>

Perform(o) ==
    /\ Move(o, "issued", "performed")
    /\ register' = IF kind[o] = "write" THEN o ELSE register
    /\ result' = IF oneWay[o] THEN result
                 ELSE [result EXCEPT ![o] = IF kind[o] = "read" THEN register ELSE Nothing]
    /\ UNCHANGED outcome

Refuse(o) == Move(o, "issued", "failed") /\ UNCHANGED <<register, result, outcome>>

Succeed(o) ==
    /\ life[o] = "performed"
    /\ Tell(o, result[o]) \/ Tell(o, "void")
    /\ UNCHANGED <<life, register, result>>

GiveUp(o) == Tell(o, "error") /\ UNCHANGED <<life, register, result>>

Next ==
    /\ \E o \in Ops : Issue(o) \/ Perform(o) \/ Refuse(o) \/ Succeed(o) \/ GiveUp(o)
    /\ UNCHANGED <<kind, oneWay>>

Spec == Init /\ [][Next]_<<kind, oneWay, life, register, result, outcome>>
=============================================================================
