---------------------------- MODULE Registrations ----------------------------
(***************************************************************************)
(* What a Slot promises, whatever it stands for - a signal handler, a match *)
(* rule, a vtable: its handler runs only while the registration is active,  *)
(* one handler at a time; a match is reported as installed at most once;    *)
(* and whoever ends a registration gets control back only when its handler  *)
(* is not running and will not run any more.                                *)
(***************************************************************************)
CONSTANT Regs

VARIABLES
    status,    \* the life of each registration
    running,   \* the registration whose handler runs
    installed, \* matches whose install callback has been invoked
    closed     \* registrations the application knows to have ended

TypeOK ==
    /\ status \in [Regs -> {"new", "active", "ended"}]
    /\ running \subseteq Regs
    /\ installed \subseteq Regs
    /\ closed \subseteq Regs

Init ==
    /\ status = [r \in Regs |-> "new"]
    /\ running = {} /\ installed = {} /\ closed = {}

Move(r, from, to) == status[r] = from /\ status' = [status EXCEPT ![r] = to]

Register(r) == Move(r, "new", "active") /\ UNCHANGED <<running, installed>>
Refuse(r)   == Move(r, "new", "ended") /\ UNCHANGED <<running, installed>>
End(r)      == Move(r, "active", "ended") /\ UNCHANGED <<running, installed>>

Starts(r) == status[r] = "active" /\ running = {} /\ running' = {r}

Run(r)     == Starts(r) /\ UNCHANGED <<status, installed>>
Install(r) == Starts(r) /\ r \notin installed /\ installed' = installed \cup {r}
                        /\ UNCHANGED status
Return     == running' = {} /\ UNCHANGED <<status, installed>>

Close ==
    /\ closed \subseteq closed'
    /\ \A r \in closed' \ closed : status'[r] = "ended" /\ r \notin running'

Next ==
    /\ \/ \E r \in Regs : Register(r) \/ Refuse(r) \/ End(r) \/ Run(r) \/ Install(r)
       \/ Return
       \/ UNCHANGED <<status, running, installed>>
    /\ Close

Spec == Init /\ [][Next]_<<status, running, installed, closed>>
=============================================================================
