----------------------------- MODULE AsyncCalls -----------------------------
(***************************************************************************)
(* The asynchronous calls of one sdbus::internal::Proxy: the life of their *)
(* AsyncCallInfo objects between the threads that issue, cancel and        *)
(* unregister them and the event loop thread that runs the reply handlers. *)
(*                                                                         *)
(* sd-bus keeps a raw pointer to the AsyncCallInfo of every call.  Two     *)
(* mutexes are involved: sdbusMutex_, recursive, which sd_bus_process      *)
(* holds around a handler, and the mutex_ of FloatingAsyncCallSlots.       *)
(***************************************************************************)
EXTENDS Naturals

CONSTANTS
    Threads,    \* application threads
    Owner,      \* the one that destroys the proxy
    Loop,       \* the event loop thread
    None,       \* no thread, no call
    Floating,   \* calls kept in floatingAsyncCallSlots_
    Owned       \* calls issued with return_slot

Callers == Threads \cup {Loop}
Calls   == Floating \cup Owned

ASSUME CallsAssumption ==
    /\ Owner \in Threads
    /\ Loop \notin Threads
    /\ None \notin Callers \cup Calls
    /\ Floating \cap Owned = {}

VARIABLES
    registered, \* calls whose reply sd-bus will hand to the handler
    mutex,      \* the thread in sdbusMutex_
    handler,    \* what the loop thread does inside sdbus_async_reply_handler
    current,    \* the call it does it for
    slots,      \* slots_ of floatingAsyncCallSlots_: strong references
    slotsMutex, \* the thread in its mutex_
    held,       \* owned calls whose Slot the application holds
    local,      \* strong references in the local variables of each thread
    memory,     \* the AsyncCallInfo of each call
    finished,   \* calls whose info has finished set
    proxy,      \* the Proxy object
    op, pc, arg,\* the operation of each thread, its stage and its call
    \* history
    ends,       \* calls whose delivery the operation in progress is to end
    ended,      \* calls for which such an operation has returned
    selfReleased, \* calls released by their own running callback
    outlived    \* the proxy was destroyed while calls were still in use

life == <<registered, memory, finished, held, proxy>>
lock == <<mutex, slotsMutex>>
run  == <<handler, current>>
api  == <<op, pc, arg>>
hist == <<ends, ended, selfReleased, outlived>>
vars == <<life, lock, run, slots, local, api, hist>>

Ops    == {"none", "call", "cancel", "unregister", "destroy", "slot", "handler"}
Stages == {"idle", "push", "return", "erase", "clear", "unlock", "drop", "release"}

TypeOK ==
    /\ registered \subseteq Calls
    /\ mutex \in Callers \cup {None}
    /\ handler \in {"none", "callback", "cleanup"}
    /\ current \in Calls \cup {None}
    /\ slots \subseteq Floating
    /\ slotsMutex \in Callers \cup {None}
    /\ held \subseteq Owned
    /\ local \in [Callers -> SUBSET Calls]
    /\ memory \in [Calls -> {"none", "alive", "dying", "freed"}]
    /\ finished \subseteq Calls
    /\ proxy \in {"alive", "dying", "gone"}
    /\ op \in [Callers -> Ops]
    /\ pc \in [Callers -> Stages]
    /\ arg \in [Callers -> Calls \cup {None}]
    /\ ends \in [Callers -> SUBSET Calls]
    /\ ended \subseteq Calls
    /\ selfReleased \subseteq Calls
    /\ outlived \in BOOLEAN

Init ==
    /\ registered = {} /\ mutex = None /\ handler = "none" /\ current = None
    /\ slots = {} /\ slotsMutex = None /\ held = {}
    /\ local = [t \in Callers |-> {}]
    /\ memory = [c \in Calls |-> "none"] /\ finished = {} /\ proxy = "alive"
    /\ op = [t \in Callers |-> "none"]
    /\ pc = [t \in Callers |-> "idle"]
    /\ arg = [t \in Callers |-> None]
    /\ ends = [t \in Callers |-> {}] /\ ended = {}
    /\ selfReleased = {} /\ outlived = FALSE

-----------------------------------------------------------------------------
Free(t) == mutex \in {None, t}

\* The loop thread calls the API from within a handler.
MayCall(t) == pc[t] = "idle" /\ (t = Loop => handler = "callback")

Begins(t, name, stage, c) ==
    /\ op' = [op EXCEPT ![t] = name]
    /\ pc' = [pc EXCEPT ![t] = stage]
    /\ arg' = [arg EXCEPT ![t] = c]

Goto(t, stage) == pc' = [pc EXCEPT ![t] = stage] /\ UNCHANGED <<op, arg>>

\* The application has got its PendingAsyncCall or Slot for c.
Issued(c) == memory[c] # "none" /\ \A t \in Callers : op[t] = "call" => arg[t] # c

\* The callback of c is on the stack of the loop thread.
Running(c) == handler = "callback" /\ current = c

\* Strong references to the info of c.
Holders(c) == {t \in Callers : c \in local[t]}
Referenced(c) == c \in slots \/ Holders(c) # {}

-----------------------------------------------------------------------------
(* Issuing a call.                                                          *)

\* sd_bus_call_async hands the raw pointer to sd-bus: from here on the reply
\* may be handled, before the issuing thread does anything else.
CallMethodAsync(t, c) ==
    /\ MayCall(t) /\ Free(t)
    /\ proxy = "alive" /\ memory[c] = "none"
    /\ memory' = [memory EXCEPT ![c] = "alive"]
    /\ registered' = registered \cup {c}
    /\ local' = [local EXCEPT ![t] = {c}]
    /\ Begins(t, "call", IF c \in Floating THEN "push" ELSE "return", c)
    /\ UNCHANGED <<lock, run, slots, held, finished, proxy, hist>>

\* Mutant: the finished flag is not looked at.
PushBack_Unconditional(t) ==
    /\ pc[t] = "push" /\ slotsMutex = None
    /\ slots' = slots \cup {arg[t]}
    /\ local' = [local EXCEPT ![t] = {}]
    /\ Begins(t, "none", "idle", None)
    /\ UNCHANGED <<life, lock, run, hist>>

\* push_back: the call may have finished in the meantime.
PushBack(t) ==
    /\ pc[t] = "push" /\ slotsMutex = None
    /\ IF arg[t] \in finished
       THEN Goto(t, "drop") /\ UNCHANGED <<slots, local>>
       ELSE /\ slots' = slots \cup {arg[t]}
            /\ local' = [local EXCEPT ![t] = {}]
            /\ Begins(t, "none", "idle", None)
    /\ UNCHANGED <<life, lock, run, hist>>

\* The return_slot overload passes the only reference to the application.
ReturnSlot(t) ==
    /\ pc[t] = "return"
    /\ held' = held \cup {arg[t]}
    /\ local' = [local EXCEPT ![t] = {}]
    /\ Begins(t, "none", "idle", None)
    /\ UNCHANGED <<registered, memory, finished, proxy, lock, run, slots, hist>>

-----------------------------------------------------------------------------
(* Ending calls: PendingAsyncCall::cancel, the deleter of a Slot,           *)
(* Proxy::unregister and the destructor.                                    *)

\* Mutant: the handle goes by a raw pointer instead of locking the weak one.
Cancel_Unlocked(t, c) ==
    /\ MayCall(t) /\ c \in Floating /\ Issued(c)
    /\ IF Referenced(c)
       THEN /\ Begins(t, "cancel", "erase", c)
            /\ ends' = [ends EXCEPT ![t] = {c}]
            /\ UNCHANGED <<local, ended>>
       ELSE ended' = ended \cup {c} /\ UNCHANGED <<local, api, ends>>
    /\ UNCHANGED <<life, lock, run, slots, selfReleased, outlived>>

Cancel(t, c) ==
    /\ MayCall(t) /\ c \in Floating /\ Issued(c)
    /\ IF Referenced(c)
       THEN /\ local' = [local EXCEPT ![t] = {c}]
            /\ Begins(t, "cancel", "erase", c)
            /\ ends' = [ends EXCEPT ![t] = {c}]
            /\ UNCHANGED ended
       ELSE ended' = ended \cup {c} /\ UNCHANGED <<local, api, ends>>
    /\ UNCHANGED <<life, lock, run, slots, selfReleased, outlived>>

ReleaseSlot(t, c) ==
    /\ MayCall(t) /\ c \in held
    /\ held' = held \ {c}
    /\ memory' = [memory EXCEPT ![c] = "dying"]
    /\ Begins(t, "slot", "release", c)
    /\ ends' = [ends EXCEPT ![t] = {c}]
    /\ UNCHANGED <<registered, finished, proxy, lock, run, slots, local, ended,
                   selfReleased, outlived>>

Unregister(t) ==
    /\ MayCall(t) /\ proxy = "alive"
    /\ Begins(t, "unregister", "clear", None)
    /\ UNCHANGED <<life, lock, run, slots, local, hist>>

\* The application stops using the proxy before it destroys it; its
\* PendingAsyncCall and Slot handles it may keep and use.
Destroy(t) ==
    /\ MayCall(t) /\ t \in {Owner, Loop} /\ proxy = "alive"
    /\ \A u \in Callers \ {t} : op[u] \notin {"call", "unregister"}
    /\ proxy' = "dying"
    /\ Begins(t, "destroy", "clear", None)
    /\ UNCHANGED <<registered, memory, finished, held, lock, run, slots, local, hist>>

\* FloatingAsyncCallSlots::erase, up to the unlock.
Erase(t) ==
    /\ pc[t] = "erase" /\ slotsMutex = None
    /\ slotsMutex' = t
    /\ finished' = finished \cup {arg[t]}
    /\ slots' = slots \ {arg[t]}
    /\ local' = IF arg[t] \in slots THEN [local EXCEPT ![t] = @ \cup {arg[t]}] ELSE local
    /\ Goto(t, "unlock")
    /\ UNCHANGED <<registered, memory, held, proxy, mutex, run, hist>>

\* FloatingAsyncCallSlots::clear, up to the unlock.
Clear(t) ==
    /\ pc[t] = "clear" /\ slotsMutex = None
    /\ slotsMutex' = t
    /\ slots' = {}
    /\ local' = [local EXCEPT ![t] = slots]
    /\ ends' = [ends EXCEPT ![t] = {c \in Floating : Issued(c)}]
    /\ Goto(t, "unlock")
    /\ UNCHANGED <<life, mutex, run, ended, selfReleased, outlived>>

\* Mutant: the references are dropped inside the critical section.
Unlock_Late(t) ==
    \/ /\ pc[t] = "unlock"
       /\ Goto(t, "drop")
       /\ UNCHANGED <<life, lock, run, slots, local, hist>>
    \/ /\ pc[t] = "drop" /\ local[t] = {} /\ slotsMutex = t
       /\ slotsMutex' = None
       /\ UNCHANGED <<life, mutex, run, slots, local, api, hist>>

Unlock(t) ==
    /\ pc[t] = "unlock"
    /\ slotsMutex' = None
    /\ Goto(t, "drop")
    /\ UNCHANGED <<life, mutex, run, slots, local, hist>>

\* A strong reference goes; the last one starts the destructor of the info.
Drop(t, c) ==
    /\ pc[t] = "drop" /\ c \in local[t]
    /\ local' = [local EXCEPT ![t] = @ \ {c}]
    /\ IF c \in slots \/ Holders(c) # {t}
       THEN UNCHANGED <<memory, api>>
       ELSE /\ memory' = [memory EXCEPT ![c] = "dying"]
            /\ Begins(t, op[t], "release", c)
    /\ UNCHANGED <<registered, finished, held, proxy, lock, run, slots, hist>>

\* Mutant: the destructor does not wait for a handler in progress.
Release_Unsynchronized(t) ==
    /\ pc[t] = "release"
    /\ registered' = registered \ {arg[t]}
    /\ memory' = [memory EXCEPT ![arg[t]] = "freed"]
    /\ selfReleased' = selfReleased \cup {c \in {arg[t]} : Running(c) /\ t = Loop}
    /\ Goto(t, "drop")
    /\ UNCHANGED <<finished, held, proxy, lock, run, slots, local, ends, ended, outlived>>

\* The destructor: first the sd-bus slot, under sdbusMutex_, then the callback.
Release(t) ==
    /\ pc[t] = "release" /\ Free(t)
    /\ registered' = registered \ {arg[t]}
    /\ memory' = [memory EXCEPT ![arg[t]] = "freed"]
    /\ selfReleased' = selfReleased \cup {c \in {arg[t]} : Running(c)}
    /\ Goto(t, "drop")
    /\ UNCHANGED <<finished, held, proxy, lock, run, slots, local, ends, ended, outlived>>

\* Something that still refers to the proxy when the proxy is gone.
Lingering(t) ==
    \/ \E u \in Callers \ {t} : op[u] = "cancel"
    \/ handler # "none" /\ t # Loop
    \/ \E c \in Owned : memory[c] \in {"alive", "dying"}

Returns(t) ==
    /\ pc[t] = "drop" /\ local[t] = {}
    /\ Begins(t, "none", "idle", None)
    /\ ended' = ended \cup ends[t]
    /\ ends' = [ends EXCEPT ![t] = {}]
    /\ IF op[t] = "destroy"
       THEN /\ proxy' = "gone"
            /\ outlived' = Lingering(t)
            /\ selfReleased' = selfReleased \cup {c \in Calls : Running(c) /\ t = Loop}
       ELSE UNCHANGED <<proxy, outlived, selfReleased>>
    /\ UNCHANGED <<registered, memory, finished, held, lock, run, slots, local>>

-----------------------------------------------------------------------------
(* The event loop thread.  A reply, an error or a timeout may come for any  *)
(* registered call at any time.                                             *)

Dispatch(c) ==
    /\ handler = "none" /\ mutex = None
    /\ c \in registered
    /\ registered' = registered \ {c}
    /\ mutex' = Loop
    /\ handler' = "callback" /\ current' = c
    /\ UNCHANGED <<memory, finished, held, proxy, slotsMutex, slots, local, api, hist>>

\* The callback has returned or thrown: SCOPE_EXIT erases the call.
CallbackReturns ==
    /\ handler = "callback" /\ pc[Loop] = "idle"
    /\ handler' = "cleanup"
    /\ Begins(Loop, "handler", "erase", current)
    /\ UNCHANGED <<life, lock, current, slots, local, hist>>

HandlerReturns ==
    /\ handler = "cleanup" /\ pc[Loop] = "idle"
    /\ handler' = "none" /\ current' = None
    /\ mutex' = None
    /\ UNCHANGED <<life, slotsMutex, slots, local, api, hist>>

-----------------------------------------------------------------------------
Starts(t) ==
    \/ \E c \in Calls : CallMethodAsync(t, c) \/ Cancel(t, c) \/ ReleaseSlot(t, c)
    \/ Unregister(t)
    \/ Destroy(t)

Continues(t) ==
    \/ PushBack(t)
    \/ ReturnSlot(t)
    \/ Erase(t)
    \/ Clear(t)
    \/ Unlock(t)
    \/ \E c \in Calls : Drop(t, c)
    \/ Release(t)
    \/ Returns(t)

Next ==
    \/ \E t \in Callers : Starts(t) \/ Continues(t)
    \/ \E c \in Calls : Dispatch(c)
    \/ CallbackReturns
    \/ HandlerReturns

Spec == Init /\ [][Next]_vars

-----------------------------------------------------------------------------
(* Properties.                                                              *)

\* Neither a reply handler nor a cancel works on an AsyncCallInfo that has been
\* destroyed, unless the callback released its own call; nor on a proxy that is
\* gone, unless the callback destroyed it or the application let a call or a
\* cancel in another thread outlive it.
UsesInfo(t, c) ==
    \/ t = Loop /\ Running(c)
    \/ pc[t] = "erase" /\ arg[t] = c

NoUseAfterFree ==
    \A t \in Callers : \A c \in Calls :
        UsesInfo(t, c) =>
            /\ memory[c] = "freed" => c \in selfReleased
            /\ (proxy = "gone" /\ pc[t] = "erase") => c \in selfReleased \/ outlived

\* sd-bus never holds a pointer to a destroyed AsyncCallInfo.
UserDataAlive == \A c \in registered : memory[c] \in {"alive", "dying"}

\* A call does not stay pending in the container once its reply has been
\* handled, even when the reply arrives before callMethodAsync has stored it.
NoStuckCall == \A c \in slots : c \in registered \/ (handler # "none" /\ current = c)

\* Calls that the application may consider closed: a cancel, an unregister, the
\* destructor or the release of the slot has returned, and no other thread is
\* still on the way to end the same call.
EndedElsewhere(c) ==
    \E t \in Callers : c \in local[t] \/ (pc[t] = "release" /\ arg[t] = c)

Closed == {c \in ended \ selfReleased : ~EndedElsewhere(c)}

\* The callback of a closed call does not run and never will: releasing the
\* sd-bus slot waits for a handler that is running.
NoCallbackAfterEnd == \A c \in Closed : c \notin registered /\ ~Running(c)

\* Whom a thread in the middle of an operation waits for: the owner of mutex_,
\* which is not recursive, or in the destructor of an info that of sdbusMutex_.
WaitsFor(t) ==
    {u \in Callers :
        \/ pc[t] \in {"push", "erase", "clear"} /\ slotsMutex = u
        \/ pc[t] = "release" /\ mutex = u /\ u # t}

\* sdbusMutex_ and mutex_ never wait for each other: in every set of threads some
\* thread waits for no other one in it, and whoever is waited for is on its way
\* through an operation or a handler, which ends without an operation that has
\* not begun yet.
NoDeadlock ==
    /\ \A W \in SUBSET Callers : W # {} => \E t \in W : WaitsFor(t) \cap W = {}
    /\ \A t \in Callers : \A u \in WaitsFor(t) :
          pc[u] # "idle" \/ (u = Loop /\ handler # "none")

\* The calls of a proxy go through the life PendingCalls allows.
StateOf(c) ==
    CASE memory[c] = "none" -> "new"
      [] Running(c)         -> "running"
      [] c \in registered /\ ~Running(c) -> "pending"
      [] OTHER              -> "done"

Abstract == INSTANCE PendingCalls
    WITH state <- [c \in Calls |-> StateOf(c)], closed <- Closed

Implements == Abstract!Spec

-----------------------------------------------------------------------------
(* What comments and documentation say; the code does not keep it.          *)

\* The CallData item is removed after the callback has been invoked, not
\* earlier: a running callback and the clean-up behind it find their info.
RemovedAfterCallback ==
    \A c \in Floating : UsesInfo(Loop, c) => memory[c] # "freed"
=============================================================================
