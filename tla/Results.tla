------------------------------- MODULE Results -------------------------------
(***************************************************************************)
(* How the result of an asynchronous call gets to the code that waits for  *)
(* it: the std::future and the sdbus::Awaitable that callMethodAsync and   *)
(* AsyncMethodInvoker build on a reply handler.                            *)
(*                                                                         *)
(* The calls themselves behave as PendingCalls promises, which AsyncCalls  *)
(* is shown to implement.  A coroutine runs on the application thread that *)
(* started it until it suspends, and on the event loop thread after it has *)
(* been resumed there: await_suspend and the reply handler settle by one   *)
(* atomic each which of the two goes on.                                   *)
(***************************************************************************)
EXTENDS Naturals

CONSTANTS
    Futures,    \* calls issued with with_future, getResultAsFuture
    Awaitables, \* calls issued with with_awaitable, getResultAsAwaitable
    Coroutines, \* coroutines that co_await one call after the other
    None        \* no call, no coroutine

Calls   == Futures \cup Awaitables
Threads == {"app", "loop"}

ASSUME CallsAssumption ==
    /\ Futures \cap Awaitables = {}
    /\ None \notin Calls \cup Coroutines

VARIABLES
    state, closed,  \* the calls, as in PendingCalls
    reply,          \* what the reply message of each call holds
    stage,          \* where its reply handler is
    result,         \* the result member of AwaitableData, the state of a promise
    status,         \* the status member of AwaitableData
    handle,         \* the handle member of AwaitableData
    at, call,       \* where each thread is in each coroutine, with which call
    got             \* what the awaiting code has received

calling == <<state, closed>>
data    == <<result, status, handle>>
code    == <<at, call>>
vars    == <<calling, reply, stage, data, code, got>>

Calling == INSTANCE PendingCalls

Stages == {"idle", "result", "exchange", "resume", "resumed", "end"}
Points == {"off", "body", "ready", "suspend", "cas", "resume"}

TypeOK ==
    /\ Calling!TypeOK
    /\ reply \in [Calls -> {"none", "value", "error", "malformed"}]
    /\ stage \in [Calls -> Stages]
    /\ result \in [Calls -> {"unset", "value", "error", "broken"}]
    /\ status \in [Awaitables -> {"NotReady", "Waiting", "Completed"}]
    /\ handle \in [Awaitables -> Coroutines \cup {None}]
    /\ at \in [Coroutines -> [Threads -> Points]]
    /\ call \in [Coroutines -> Awaitables \cup {None}]
    /\ got \in [Awaitables -> {"none", "value", "error"}]

Init ==
    /\ Calling!Init
    /\ reply = [c \in Calls |-> "none"]
    /\ stage = [c \in Calls |-> "idle"]
    /\ result = [c \in Calls |-> "unset"]
    /\ status = [c \in Awaitables |-> "NotReady"]
    /\ handle = [c \in Awaitables |-> None]
    /\ at = [k \in Coroutines |-> [t \in Threads |-> IF t = "app" THEN "body" ELSE "off"]]
    /\ call = [k \in Coroutines |-> None]
    /\ got = [c \in Awaitables |-> "none"]

Goto(k, t, point) == at' = [at EXCEPT ![k][t] = point]
Handler(c, point) == stage' = [stage EXCEPT ![c] = point]

-----------------------------------------------------------------------------
(* The call: issued, answered, or cancelled by unregister, by the           *)
(* destructor of the proxy, or by a timeout that comes as an error reply.   *)

Issue(c) ==
    /\ Calling!Issue(c) /\ UNCHANGED closed
    /\ UNCHANGED <<reply, stage, data, code, got>>

Deliver(c) ==
    /\ Calling!Deliver(c) /\ UNCHANGED closed
    /\ \E r \in {"value", "error", "malformed"} : reply' = [reply EXCEPT ![c] = r]
    /\ Handler(c, "result")
    /\ UNCHANGED <<data, code, got>>

Cancel(c) ==
    /\ Calling!Cancel(c) /\ UNCHANGED closed
    /\ UNCHANGED <<reply, stage, data, code, got>>

HandlerReturns(c) ==
    /\ stage[c] = "end"
    /\ Calling!Return(c) /\ UNCHANGED closed
    /\ Handler(c, "idle")
    /\ UNCHANGED <<reply, data, code, got>>

-----------------------------------------------------------------------------
(* The reply handler, on the event loop thread.                             *)

\* An error reply, or the exception of a reply that cannot be deserialized.
Outcome(c) == IF reply[c] = "value" THEN "value" ELSE "error"

\* Mutant: the status is published before the result is written.
StoreResult_Late(c) ==
    \/ /\ stage[c] = "result" /\ c \in Awaitables
       /\ Handler(c, "exchange")
       /\ UNCHANGED <<calling, reply, data, code, got>>
    \/ /\ stage[c] \in {"resume", "end"} /\ result[c] = "unset"
       /\ result' = [result EXCEPT ![c] = Outcome(c)]
       /\ UNCHANGED <<calling, reply, stage, status, handle, code, got>>

\* The promise of a future is satisfied, the result of an awaitable is written.
StoreResult(c) ==
    /\ stage[c] = "result"
    /\ result' = [result EXCEPT ![c] = Outcome(c)]
    /\ Handler(c, IF c \in Awaitables THEN "exchange" ELSE "end")
    /\ UNCHANGED <<calling, reply, status, handle, code, got>>

\* Mutant: load and store instead of one exchange.
Complete_Torn(c) ==
    /\ stage[c] = "exchange"
    /\ status' = [status EXCEPT ![c] = "Completed"]
    /\ \/ Handler(c, "end")
       \/ status[c] = "Waiting" /\ Handler(c, "resume")
    /\ UNCHANGED <<calling, reply, result, handle, code, got>>

\* status.exchange(Completed): the handler resumes a coroutine that waits.
Complete(c) ==
    /\ stage[c] = "exchange"
    /\ status' = [status EXCEPT ![c] = "Completed"]
    /\ Handler(c, IF status[c] = "Waiting" THEN "resume" ELSE "end")
    /\ UNCHANGED <<calling, reply, result, handle, code, got>>

\* resumeCoroutine: await_resume and what follows it, within the handler.
ResumeCoroutine(c) ==
    /\ stage[c] = "resume"
    /\ Goto(handle[c], "loop", "resume")
    /\ Handler(c, "resumed")
    /\ UNCHANGED <<calling, reply, data, call, got>>

\* handle.resume() returns when the coroutine has suspended again or finished.
CoroutineYields(c) ==
    /\ stage[c] = "resumed" /\ at[handle[c]]["loop"] = "off"
    /\ Handler(c, "end")
    /\ UNCHANGED <<calling, reply, data, code, got>>

-----------------------------------------------------------------------------
(* co_await, on whichever thread the coroutine runs.                        *)

CoAwait(k, t, c) ==
    /\ at[k][t] = "body"
    /\ c \in Awaitables /\ state[c] # "new" /\ got[c] = "none"
    /\ \A j \in Coroutines : call[j] # c
    /\ call' = [call EXCEPT ![k] = c]
    /\ Goto(k, t, "ready")
    /\ UNCHANGED <<calling, reply, stage, data, got>>

AwaitReady(k, t) ==
    /\ at[k][t] = "ready"
    /\ Goto(k, t, IF status[call[k]] = "Completed" THEN "resume" ELSE "suspend")
    /\ UNCHANGED <<calling, reply, stage, data, call, got>>

\* Mutant: the handle is stored after the status has been set.
StoreHandle_Late(k, t) ==
    /\ at[k][t] = "suspend"
    /\ Goto(k, t, "cas")
    /\ UNCHANGED <<calling, reply, stage, data, call, got>>

StoreHandle(k, t) ==
    /\ at[k][t] = "suspend"
    /\ handle' = [handle EXCEPT ![call[k]] = k]
    /\ Goto(k, t, "cas")
    /\ UNCHANGED <<calling, reply, stage, result, status, call, got>>

\* Mutant: the coroutine goes on although it has been marked as waiting.
AwaitSuspend_False(k, t) ==
    /\ at[k][t] = "cas"
    /\ status' = IF status[call[k]] = "Completed" THEN status
                 ELSE [status EXCEPT ![call[k]] = "Waiting"]
    /\ Goto(k, t, "resume")
    /\ UNCHANGED <<calling, reply, stage, result, handle, call, got>>

\* compare_exchange_strong(NotReady, Waiting): suspends, or goes on at once.
AwaitSuspend(k, t) ==
    /\ at[k][t] = "cas"
    /\ IF status[call[k]] = "NotReady"
       THEN status' = [status EXCEPT ![call[k]] = "Waiting"] /\ Goto(k, t, "off")
       ELSE Goto(k, t, "resume") /\ UNCHANGED status
    /\ UNCHANGED <<calling, reply, stage, result, handle, call, got>>

\* The result is returned or rethrown.
AwaitResume(k, t) ==
    /\ at[k][t] = "resume"
    /\ got' = [got EXCEPT ![call[k]] = result[call[k]]]
    /\ call' = [call EXCEPT ![k] = None]
    /\ Goto(k, t, "body")
    /\ UNCHANGED <<calling, reply, stage, data>>

CoReturn(k, t) ==
    /\ at[k][t] = "body"
    /\ Goto(k, t, "off")
    /\ UNCHANGED <<calling, reply, stage, data, call, got>>

-----------------------------------------------------------------------------
(* Futures: get() returns or throws what the handler has put in the promise. *)

\* Mutant: the info object of a cancelled call is never deleted.
DropPromise_Leaks(c) ==
    /\ c \in Futures /\ state[c] = "done" /\ reply[c] # "none" /\ result[c] = "unset"
    /\ result' = [result EXCEPT ![c] = "broken"]
    /\ UNCHANGED <<calling, reply, stage, status, handle, code, got>>

\* The handler, and with it the last reference to the promise, is destroyed.
DropPromise(c) ==
    /\ c \in Futures /\ state[c] = "done" /\ result[c] = "unset"
    /\ result' = [result EXCEPT ![c] = "broken"]
    /\ UNCHANGED <<calling, reply, stage, status, handle, code, got>>

-----------------------------------------------------------------------------
HandlerStep(c) ==
    \/ StoreResult(c)
    \/ Complete(c)
    \/ ResumeCoroutine(c)
    \/ CoroutineYields(c)
    \/ HandlerReturns(c)

AwaitStep(k, t) ==
    \/ AwaitReady(k, t)
    \/ StoreHandle(k, t)
    \/ AwaitSuspend(k, t)
    \/ AwaitResume(k, t)

BodyStep(k, t) == CoReturn(k, t) \/ \E c \in Awaitables : CoAwait(k, t, c)

Next ==
    \/ \E c \in Calls :
          \/ Issue(c) \/ Deliver(c) \/ Cancel(c)
          \/ HandlerStep(c)
          \/ DropPromise(c)
    \/ \E k \in Coroutines, t \in Threads : AwaitStep(k, t) \/ BodyStep(k, t)

Spec == Init /\ [][Next]_vars

\* Both threads are scheduled, a handler is not destroyed for nothing, and a
\* call does not stay pending (it has a timeout); the loop serves one handler
\* at a time, so a pending call is only enabled again and again.
FairSpec ==
    /\ Spec
    /\ \A c \in Calls :
          /\ WF_vars(HandlerStep(c))
          /\ WF_vars(DropPromise(c))
          /\ SF_vars(Deliver(c) \/ Cancel(c))
    /\ \A k \in Coroutines, t \in Threads :
          WF_vars(AwaitStep(k, t)) /\ WF_vars(BodyStep(k, t))

-----------------------------------------------------------------------------
(* Properties.                                                              *)

\* A coroutine runs on one thread at a time: it is never resumed by the reply
\* handler while the thread that called await_suspend still runs it.
OneThread == \A k \in Coroutines : at[k]["app"] = "off" \/ at[k]["loop"] = "off"

\* A coroutine never passes a co_await before the result of the call is there,
\* and neither it nor a future is given anything but that result: the value of a
\* good reply, an exception for an error reply or one that cannot be
\* deserialized, broken_promise when the handler went away without running.
ResultsTrue ==
    /\ \A k \in Coroutines, t \in Threads : at[k][t] = "resume" => result[call[k]] # "unset"
    /\ \A c \in Awaitables : got[c] # "none" =>
          got[c] = IF reply[c] = "value" THEN "value" ELSE "error"
    /\ \A c \in Futures : result[c] # "unset" =>
          result[c] = CASE reply[c] = "none"  -> "broken"
                        [] reply[c] = "value" -> "value"
                        [] OTHER              -> "error"

\* The handler resumes the coroutine that awaits this call, and nobody else.
ResumesAwaiter ==
    \A c \in Awaitables :
        stage[c] = "resume" => handle[c] \in Coroutines /\ call[handle[c]] = c

\* What a coroutine does, seen from outside, and the result that is published.
Suspended(k) == call[k] # None /\ \A t \in Threads : at[k][t] = "off"

ModeOf(k) ==
    IF Suspended(k)
    THEN IF stage[call[k]] = "resume" THEN "woken" ELSE "asleep"
    ELSE IF call[k] # None THEN "asking"
    ELSE IF \E t \in Threads : at[k][t] = "body" THEN "running"
    ELSE "finished"

CellOf(c) == IF c \in Awaitables /\ status[c] # "Completed" THEN "unset" ELSE result[c]

Abstract == INSTANCE Handovers
    WITH Cells <- Calls, Consumers <- Coroutines, asks <- call,
         cell <- [c \in Calls |-> CellOf(c)],
         mode <- [k \in Coroutines |-> ModeOf(k)],
         got <- [c \in Calls |-> IF c \in Awaitables THEN got[c] ELSE "none"]

\* The handler and await_suspend, racing for one status, hand over the result as
\* if it was one step: a coroutine that suspends is resumed by the handler that
\* completes its call, one that does not takes the result itself, and nothing is
\* set, taken or resumed twice (resumeCoroutine, await_suspend; Handovers).
Implements == Abstract!Spec

\* A coroutine that waits for a call is resumed, exactly as long as the call is
\* not cancelled; nobody has to poll the awaitable.
AwaitersResumed ==
    \A k \in Coroutines : \A c \in Awaitables :
        (Suspended(k) /\ call[k] = c) ~> (call[k] # c \/ (state[c] = "done" /\ reply[c] = "none"))

\* Whoever waits for a future gets an answer, even if the call is cancelled.
FuturesAnswered == \A c \in Futures : (state[c] = "pending") ~> (result[c] # "unset")

-----------------------------------------------------------------------------
(* What makes these invariants inductive.                                   *)

\* The result of a call is what its handler, or the end of it, has written.
HandlersOK ==
    \A c \in Calls :
        /\ stage[c] # "idle" <=> state[c] = "running"
        /\ state[c] \in {"new", "pending"} => reply[c] = "none" /\ result[c] = "unset"
        /\ state[c] = "running" => reply[c] # "none"
        /\ stage[c] = "result" => result[c] = "unset"
        /\ stage[c] \in {"exchange", "resume", "resumed"} => c \in Awaitables
        /\ reply[c] # "none" /\ stage[c] # "result" => result[c] = Outcome(c)
        /\ reply[c] = "none" /\ result[c] # "unset" => result[c] = "broken" /\ c \in Futures

\* The coroutine in the handle of a call is suspended in co_await of this call.
Parked(c) ==
    /\ handle[c] \in Coroutines /\ call[handle[c]] = c
    /\ \A t \in Threads : at[handle[c]][t] = "off"

StatusOK ==
    \A c \in Awaitables :
        /\ status[c] = "Completed" => reply[c] # "none" /\ stage[c] \notin {"result", "exchange"}
        /\ stage[c] = "resume" => status[c] = "Completed"
        /\ status[c] = "Waiting" \/ stage[c] = "resume" => Parked(c)
        /\ got[c] # "none" => reply[c] # "none" /\ got[c] = Outcome(c)

CoroutinesOK ==
    \A k \in Coroutines :
        /\ \A t \in Threads :
              /\ at[k][t] \in {"ready", "suspend", "cas", "resume"} => call[k] # None
              /\ at[k][t] = "body" => call[k] = None
              /\ at[k][t] = "cas" => handle[call[k]] = k
              /\ at[k][t] = "resume" => status[call[k]] = "Completed"
        /\ \A j \in Coroutines : call[j] = call[k] /\ call[k] # None => j = k

\* A suspended coroutine has left its handle, and its reply handler knows of it.
SuspendedOK ==
    \A k \in Coroutines : Suspended(k) =>
        /\ handle[call[k]] = k
        /\ status[call[k]] = "Waiting" \/ stage[call[k]] = "resume"

IInv == TypeOK /\ OneThread /\ HandlersOK /\ StatusOK /\ CoroutinesOK /\ SuspendedOK
=============================================================================
