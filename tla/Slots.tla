-------------------------------- MODULE Slots --------------------------------
(***************************************************************************)
(* Signal handlers of a Proxy, vtables of an Object and match rules of a    *)
(* Connection: heap objects (SignalInfo, VTable, MatchInfo) that sd-bus     *)
(* holds by a raw pointer and the application by a type-erased Slot, either *)
(* its own or one in a vector of the owning object.                         *)
(*                                                                          *)
(* Deleting such an object first releases the sd-bus slot, its last member, *)
(* under sdbusMutex_, which the event loop thread holds while a handler     *)
(* runs, and then destroys the callbacks.                                   *)
(***************************************************************************)
EXTENDS Naturals, FiniteSets

CONSTANTS
    Threads,  \* application threads
    Loop,     \* the event loop thread
    None,     \* no registration
    Signals,  \* registered on the proxy
    VTables,  \* added to the object
    Matches   \* added to the connection by addMatchAsync, with an install callback

Regs    == Signals \cup VTables \cup Matches
Callers == Threads \cup {Loop}
Owners  == {"proxy", "object", "connection"}

Owned(o) == CASE o = "proxy" -> Signals [] o = "object" -> VTables [] OTHER -> Matches

ASSUME SlotsAssumption ==
    /\ Loop \notin Threads
    /\ None \notin Regs \cup Owners
    /\ Signals \cap VTables = {} /\ Signals \cap Matches = {} /\ VTables \cap Matches = {}

VARIABLES
    registered,  \* known to sd-bus, with the raw pointer
    installing,  \* matches whose install callback is still to come
    handling,    \* the registration whose handler the loop thread runs
    loop,        \* the event loop: "running" or "left"
    memory,      \* the info object of each registration
    container,   \* floatingSignalSlots_, vtables_ and floatingMatchRules_
    held,        \* Slots the application holds
    owner,       \* the proxy, the object and the connection
    op, on, work, \* what each thread does, on which object, with which infos
    \* history
    installed,   \* matches whose install callback has run
    selfReleased \* registrations released by their own running handler

sdbus == <<registered, installing>>
lib   == <<memory, container, held, owner>>
hist  == <<installed, selfReleased>>
api   == <<op, on, work>>
vars  == <<sdbus, handling, loop, lib, api, hist>>

Ops == {"none", "push", "return", "slot", "unregister", "destroy", "leave", "release"}

TypeOK ==
    /\ registered \subseteq Regs
    /\ installing \subseteq Matches
    /\ handling \in Regs \cup {None}
    /\ loop \in {"running", "left"}
    /\ memory \in [Regs -> {"none", "alive", "dying", "freed"}]
    /\ container \in [Owners -> SUBSET Regs] /\ \A o \in Owners : container[o] \subseteq Owned(o)
    /\ held \subseteq Regs
    /\ owner \in [Owners -> {"alive", "dying", "gone"}]
    /\ op \in [Callers -> Ops]
    /\ on \in [Callers -> Owners \cup {None}]
    /\ work \in [Callers -> SUBSET Regs]
    /\ installed \subseteq Matches
    /\ selfReleased \subseteq Regs

Init ==
    /\ registered = {} /\ installing = {} /\ handling = None /\ loop = "running"
    /\ memory = [r \in Regs |-> "none"]
    /\ container = [o \in Owners |-> {}]
    /\ held = {} /\ owner = [o \in Owners |-> "alive"]
    /\ op = [t \in Callers |-> "none"]
    /\ on = [t \in Callers |-> None] /\ work = [t \in Callers |-> {}]
    /\ installed = {} /\ selfReleased = {}

-----------------------------------------------------------------------------
\* Mutant: a mutex that is not recursive.
Free_NotRecursive(t) == handling = None

\* sdbusMutex_ is recursive; a handler runs with it held.
Free(t) == handling = None \/ t = Loop

\* The loop thread calls the API from within a handler.
MayCall(t) == op[t] = "none" /\ (t = Loop => handling # None)

\* The vectors are not synchronized: one thread at a time works on an object.
\* A Slot of the application may be released at the same time.
Exclusive(t, o) ==
    owner[o] = "alive" /\ \A u \in Callers \ {t} : on[u] = o => op[u] = "slot"

\* The application destroys an object when nothing else uses it, and releases
\* its own Slots first.
MayDestroy(t, o) ==
    /\ MayCall(t) /\ owner[o] = "alive"
    /\ \A u \in Callers : on[u] # o
    /\ held \cap Owned(o) = {}

Begins(t, name, o, regs) ==
    /\ op' = [op EXCEPT ![t] = name]
    /\ on' = [on EXCEPT ![t] = o]
    /\ work' = [work EXCEPT ![t] = regs]

Ends(t) == Begins(t, "none", None, {})

-----------------------------------------------------------------------------
(* registerSignalHandler, addVTable, addMatchAsync.                         *)

\* Mutant: the info object is given away before the outcome is known.
Register_Leaks(t, o, r) ==
    /\ MayCall(t) /\ Free(t) /\ Exclusive(t, o)
    /\ r \in Owned(o) /\ memory[r] = "none"
    /\ memory' = [memory EXCEPT ![r] = "alive"]
    /\ \/ /\ registered' = registered \cup {r}
          /\ installing' = installing \cup ({r} \cap Matches)
          /\ \E overload \in {"push", "return"} : Begins(t, overload, o, {r})
       \/ UNCHANGED <<sdbus, api>>
    /\ UNCHANGED <<handling, loop, container, held, owner, hist>>

\* sd-bus has the raw pointer, and the handler may run, from here on; or it
\* refuses the registration and the info object goes with the exception.
Register(t, o, r) ==
    /\ MayCall(t) /\ Free(t) /\ Exclusive(t, o)
    /\ r \in Owned(o) /\ memory[r] = "none"
    /\ \/ /\ memory' = [memory EXCEPT ![r] = "alive"]
          /\ registered' = registered \cup {r}
          /\ installing' = installing \cup ({r} \cap Matches)
          /\ \E overload \in {"push", "return"} : Begins(t, overload, o, {r})
       \/ /\ memory' = [memory EXCEPT ![r] = "freed"]
          /\ UNCHANGED <<sdbus, api>>
    /\ UNCHANGED <<handling, loop, container, held, owner, hist>>

\* Mutant: the owner keeps the Slot that it returns.
ReturnSlot_Keeps(t) ==
    /\ op[t] = "return"
    /\ held' = held \cup work[t]
    /\ container' = [container EXCEPT ![on[t]] = @ \cup work[t]]
    /\ Ends(t)
    /\ UNCHANGED <<sdbus, handling, loop, memory, owner, hist>>

\* The overloads with return_slot.
ReturnSlot(t) ==
    /\ op[t] = "return"
    /\ held' = held \cup work[t]
    /\ Ends(t)
    /\ UNCHANGED <<sdbus, handling, loop, memory, container, owner, hist>>

\* The other ones: the owner keeps the Slot.
PushBack(t) ==
    /\ op[t] = "push"
    /\ container' = [container EXCEPT ![on[t]] = @ \cup work[t]]
    /\ Ends(t)
    /\ UNCHANGED <<sdbus, handling, loop, memory, held, owner, hist>>

-----------------------------------------------------------------------------
(* Ending registrations.                                                    *)

ReleaseSlot(t, o, r) ==
    /\ MayCall(t) /\ r \in held \cap Owned(o)
    /\ held' = held \ {r}
    /\ Begins(t, "slot", o, {r})
    /\ UNCHANGED <<sdbus, handling, loop, memory, container, owner, hist>>

\* Proxy::unregister, Object::unregister: the vector is cleared.
Unregister(t, o) ==
    /\ o # "connection"
    /\ MayCall(t) /\ Exclusive(t, o)
    /\ Begins(t, "unregister", o, container[o])
    /\ UNCHANGED <<sdbus, handling, loop, lib, hist>>

Destroy(t, o) ==
    /\ o # "connection"
    /\ MayDestroy(t, o)
    /\ owner' = [owner EXCEPT ![o] = "dying"]
    /\ Begins(t, "destroy", o, container[o])
    /\ UNCHANGED <<sdbus, handling, loop, memory, container, held, hist>>

\* Mutant: the sd-bus slot is not the first thing to go, and nobody waits.
Unref_Unlocked(t, r) ==
    /\ op[t] \in {"slot", "unregister", "destroy", "release"}
    /\ r \in work[t] /\ memory[r] = "alive" /\ \A q \in work[t] : memory[q] # "dying"
    /\ registered' = registered \ {r}
    /\ installing' = installing \ {r}
    /\ memory' = [memory EXCEPT ![r] = "dying"]
    /\ selfReleased' = selfReleased \cup (IF handling = r /\ t = Loop THEN {r} ELSE {})
    /\ UNCHANGED <<handling, loop, container, held, owner, api, installed>>

\* Mutant: the match goes, the pending AddMatch call stays.
Unref_KeepsInstall(t, r) ==
    /\ op[t] \in {"slot", "unregister", "destroy", "release"}
    /\ r \in work[t] /\ memory[r] = "alive" /\ \A q \in work[t] : memory[q] # "dying"
    /\ Free(t)
    /\ registered' = registered \ {r}
    /\ memory' = [memory EXCEPT ![r] = "dying"]
    /\ selfReleased' = selfReleased \cup (IF handling = r THEN {r} ELSE {})
    /\ UNCHANGED <<installing, handling, loop, container, held, owner, api, installed>>

\* The deleter of a Slot: the last member of the info object goes first, and
\* with it the registration: sd_bus_slot_unref, under sdbusMutex_.
Unref(t, r) ==
    /\ op[t] \in {"slot", "unregister", "destroy", "release"}
    /\ r \in work[t] /\ memory[r] = "alive" /\ \A q \in work[t] : memory[q] # "dying"
    /\ Free(t)
    /\ registered' = registered \ {r}
    /\ installing' = installing \ {r}
    /\ memory' = [memory EXCEPT ![r] = "dying"]
    /\ selfReleased' = selfReleased \cup (IF handling = r THEN {r} ELSE {})
    /\ UNCHANGED <<handling, loop, container, held, owner, api, installed>>

\* Then its callbacks and the rest of it.
DestroyInfo(t, r) ==
    /\ r \in work[t] /\ memory[r] = "dying"
    /\ memory' = [memory EXCEPT ![r] = "freed"]
    /\ container' = [o \in Owners |-> container[o] \ {r}]
    /\ work' = [work EXCEPT ![t] = @ \ {r}]
    /\ UNCHANGED <<sdbus, handling, loop, held, owner, op, on, installed, selfReleased>>

Returns(t) ==
    /\ op[t] \in {"slot", "unregister", "destroy"} /\ work[t] = {}
    /\ owner' = IF op[t] = "destroy" THEN [owner EXCEPT ![on[t]] = "gone"] ELSE owner
    /\ Ends(t)
    /\ UNCHANGED <<sdbus, handling, loop, memory, container, held, hist>>

-----------------------------------------------------------------------------
(* The destructor of the connection, after those of the proxy and object.   *)

CloseConnection(t) ==
    /\ t # Loop /\ MayDestroy(t, "connection")
    /\ owner["proxy"] = "gone" /\ owner["object"] = "gone"
    /\ owner' = [owner EXCEPT !["connection"] = "dying"]
    /\ Begins(t, "leave", "connection", {})
    /\ UNCHANGED <<sdbus, handling, loop, memory, container, held, hist>>

\* leaveEventLoop: the loop thread is joined once its handler has returned.
Leave(t) ==
    /\ op[t] = "leave" /\ handling = None
    /\ loop' = "left"
    /\ Begins(t, "release", "connection", container["connection"])
    /\ UNCHANGED <<sdbus, handling, lib, hist>>

\* Mutant: floatingMatchRules_ is declared before bus_, and so destroyed after it.
CloseBus_First(t) ==
    /\ op[t] = "release"
    /\ owner' = [owner EXCEPT !["connection"] = "gone"]
    /\ Ends(t)
    /\ UNCHANGED <<sdbus, handling, loop, memory, container, held, hist>>

\* floatingMatchRules_ is declared after bus_, and so destroyed before it.
CloseBus(t) ==
    /\ op[t] = "release" /\ work[t] = {}
    /\ owner' = [owner EXCEPT !["connection"] = "gone"]
    /\ Ends(t)
    /\ UNCHANGED <<sdbus, handling, loop, memory, container, held, hist>>

-----------------------------------------------------------------------------
(* The event loop thread: sdbus_signal_handler, sdbus_match_callback and the *)
(* method and property callbacks of Object, which treat their info alike.    *)

Dispatch(r) ==
    /\ loop = "running" /\ handling = None
    /\ r \in registered
    /\ handling' = r
    /\ UNCHANGED <<sdbus, loop, lib, api, hist>>

\* The reply to the AddMatch call.
DispatchInstall(r) ==
    /\ loop = "running" /\ handling = None
    /\ r \in installing
    /\ handling' = r
    /\ installing' = installing \ {r}
    /\ installed' = installed \cup {r}
    /\ UNCHANGED <<registered, loop, lib, api, selfReleased>>

\* The handler has returned or thrown.
HandlerReturns ==
    /\ handling # None /\ op[Loop] = "none"
    /\ handling' = None
    /\ UNCHANGED <<sdbus, loop, lib, api, hist>>

-----------------------------------------------------------------------------
Starts(t) ==
    \/ \E o \in Owners : Unregister(t, o) \/ Destroy(t, o)
    \/ \E o \in Owners, r \in Regs : Register(t, o, r) \/ ReleaseSlot(t, o, r)
    \/ CloseConnection(t)

Continues(t) ==
    \/ PushBack(t)
    \/ ReturnSlot(t)
    \/ \E r \in Regs : Unref(t, r) \/ DestroyInfo(t, r)
    \/ Returns(t)
    \/ Leave(t)
    \/ CloseBus(t)

Next ==
    \/ \E t \in Callers : Starts(t) \/ Continues(t)
    \/ \E r \in Regs : Dispatch(r) \/ DispatchInstall(r)
    \/ HandlerReturns

Spec == Init /\ [][Next]_vars

\* Threads are scheduled, a handler returns, and handlers that come one after
\* the other do not keep a thread out of sdbusMutex_ for ever.
FairSpec ==
    /\ Spec
    /\ \A t \in Callers : SF_vars(Continues(t))
    /\ SF_vars(HandlerReturns)

-----------------------------------------------------------------------------
(* Properties.                                                              *)

\* No handler runs on an info object, or on the callback in it, that is being
\* destroyed, unless the handler released its own registration; nor after the
\* proxy, object or connection it refers to is gone.
NoUseAfterFree ==
    handling # None =>
        /\ memory[handling] \in {"dying", "freed"} => handling \in selfReleased
        /\ \A o \in Owners : handling \in Owned(o) /\ owner[o] = "gone" => handling \in selfReleased

\* An info object has one owner from its registration to its end - the thread
\* that works on it, the Slot of the application or the vector of its owner,
\* which only the thread that clears it shares - and none when it is freed.
Claims(r) ==
    Cardinality({t \in Callers : r \in work[t] /\ op[t] # "unregister" /\ op[t] # "destroy"
                                   /\ op[t] # "release"})
    + Cardinality({o \in Owners : r \in container[o]})
    + Cardinality(held \cap {r})

OneOwner ==
    \A r \in Regs : Claims(r) = IF memory[r] \in {"alive", "dying"} THEN 1 ELSE 0

\* When the connection has been closed nothing is left: no info object, nothing
\* registered on a closed bus, no handler.
ClosedClean ==
    owner["connection"] = "gone" =>
        /\ registered = {} /\ installing = {} /\ handling = None
        /\ \A r \in Regs : memory[r] \in {"none", "freed"}

\* What a thread in the middle of an operation needs for its next step is there.
CanGoOn(t) ==
    \/ op[t] \in {"push", "return"}
    \/ op[t] = "leave" /\ handling = None
    \/ /\ op[t] \in {"slot", "unregister", "destroy", "release"}
       /\ \/ work[t] = {}
          \/ \E r \in work[t] : memory[r] = "dying" \/ (memory[r] = "alive" /\ Free(t))

\* A thread in the middle of an operation goes on or waits for a handler, and the
\* handler waits for nobody: it returns, or goes on with an operation of its own,
\* which takes sdbusMutex_ once more. Nothing that is to be deleted has been
\* deleted elsewhere, which would keep its deleter from ever ending.
NoDeadlock ==
    \A t \in Callers : op[t] # "none" =>
        \/ CanGoOn(t)
        \/ t # Loop /\ handling # None /\ (op[Loop] = "none" \/ CanGoOn(Loop))

\* Every registration, release and destructor returns, even while handlers run.
OperationsReturn == \A t \in Callers : (op[t] # "none") ~> (op[t] = "none")

\* Slots keep what Registrations promises.
StatusOf(r) ==
    CASE r \in registered      -> "active"
      [] memory[r] = "none"    -> "new"
      [] OTHER                 -> "ended"

Abstract == INSTANCE Registrations
    WITH status <- [r \in Regs |-> StatusOf(r)],
         running <- {handling} \ {None},
         closed <- {r \in Regs : memory[r] = "freed"} \ selfReleased

Implements == Abstract!Spec

-----------------------------------------------------------------------------
(* What makes these invariants inductive.                                   *)

\* sd-bus knows the info objects that are alive; a handler runs on one of them
\* or has released the one it runs on.
MemoryOK ==
    /\ \A r \in Regs : r \in registered <=> memory[r] = "alive"
    /\ installing \subseteq registered
    /\ \A r \in installed : memory[r] # "none" /\ r \notin installing
    /\ \A r \in selfReleased : memory[r] \in {"dying", "freed"}
    /\ handling # None => memory[handling] = "alive" \/ handling \in selfReleased
    /\ loop = "left" => handling = None

\* An info object that is not freed is in one place.
Loose(t) == op[t] \in {"push", "return", "slot"}

PlacesOK ==
    /\ \A r \in Regs : memory[r] \in {"alive", "dying"} <=>
          r \in held \/ (\E o \in Owners : r \in container[o]) \/ \E t \in Callers : r \in work[t]
    /\ \A r \in held :
          /\ memory[r] = "alive"
          /\ \A o \in Owners : r \notin container[o]
          /\ \A t \in Callers : r \notin work[t]
    /\ \A t \in Callers : op[t] \in {"push", "return"} => \A r \in work[t] : memory[r] = "alive"
    /\ \A t \in Callers : Loose(t) =>
          \A r \in work[t] : /\ \A o \in Owners : r \notin container[o]
                              /\ \A u \in Callers \ {t} : r \notin work[u]

\* Two threads work on one object only if one of them releases a Slot; a thread
\* that clears a vector has its contents in hand.
ThreadsOK ==
    \A t \in Callers :
        /\ op[t] = "none" <=> on[t] = None
        /\ on[t] = None => work[t] = {}
        /\ on[t] # None => work[t] \subseteq Owned(on[t])
        /\ op[t] \in {"unregister", "destroy", "release"} => work[t] = container[on[t]]
        /\ op[t] = "leave" => work[t] = {}
        /\ op[t] \in {"leave", "release"} => on[t] = "connection"
        /\ op[t] = "destroy" => on[t] # "connection"
        /\ op[t] \in {"destroy", "leave", "release"} <=> on[t] # None /\ owner[on[t]] = "dying"
        /\ op[t] = "release" => loop = "left"

ApartOK ==
    \A t, u \in Callers :
        t # u /\ on[t] = on[u] /\ on[t] # None => op[t] = "slot" \/ op[u] = "slot"

\* An object that is gone has left nothing; the connection goes last.
OwnersOK ==
    /\ \A o \in Owners :
          /\ owner[o] = "dying" => held \cap Owned(o) = {}
          /\ owner[o] = "gone" => \A r \in Owned(o) : memory[r] \in {"none", "freed"}
          /\ owner[o] = "gone" => \A t \in Callers : on[t] # o
    /\ owner["connection"] # "alive" => owner["proxy"] = "gone" /\ owner["object"] = "gone"
    /\ owner["connection"] = "gone" => loop = "left"

IInv == TypeOK /\ MemoryOK /\ PlacesOK /\ ThreadsOK /\ ApartOK /\ OwnersOK
=============================================================================
