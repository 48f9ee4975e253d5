------------------------------ MODULE EventLoop ------------------------------
(***************************************************************************)
(* The internal event loop of one sdbus::internal::Connection and the API  *)
(* operations that other threads issue on the same connection.             *)
(*                                                                         *)
(* The loop thread alternates sd_bus_process and poll().  It sleeps on the *)
(* poll data (timeout, events) it read last, so whoever changes the queues *)
(* or the timers of the bus afterwards has to notify eventFd_.  The module *)
(* follows that protocol step by step: one step per critical section of    *)
(* sdbusMutex_, per eventfd access and per poll().                         *)
(*                                                                         *)
(* libsystemd is not under src/: the definitions in the first section are  *)
(* what the code in src/ relies on.                                        *)
(***************************************************************************)
EXTENDS Integers

CONSTANTS
    Threads,        \* application threads
    Owner,          \* the application thread that enters and leaves the loop
    Loop,           \* the thread of asyncLoopThread_
    None,           \* no thread, no message
    AsyncCalls,     \* messages of callMethodAsync
    BlockingCalls,  \* messages of callMethod, requestName, releaseName
    SilentCalls,    \* blocking calls without a wake-up: addMatch, signal match
    Sends,          \* messages of sendMessage
    SilentSends,    \* sends without a wake-up: PropertiesChanged and the like
    Signals,        \* messages the peers send on their own
    MaxTime         \* bound of the clock

Callers  == Threads \cup {Loop}
Blocking == BlockingCalls \cup SilentCalls
Calls    == AsyncCalls \cup Blocking
Outgoing == Calls \cup Sends \cup SilentSends
Incoming == Calls \cup Signals       \* the reply to call c is written c
Messages == Outgoing \cup Signals
Forever  == MaxTime + 1              \* UINT64_MAX, poll()'s -1
Times    == 0 .. Forever

ASSUME ConstantsAssumption ==
    /\ MaxTime \in Nat
    /\ Owner \in Threads
    /\ Loop \notin Threads
    /\ None \notin Callers \cup Messages
    /\ AsyncCalls \cap (Blocking \cup Sends \cup SilentSends \cup Signals) = {}
    /\ BlockingCalls \cap (SilentCalls \cup Sends \cup SilentSends \cup Signals) = {}
    /\ SilentCalls \cap (Sends \cup SilentSends \cup Signals) = {}
    /\ Signals \cap (Sends \cup SilentSends) = {}

VARIABLES
    \* sd-bus, the kernel and the peers
    socket,       \* messages readable from the bus fd
    rqueue,       \* messages in the read queue of sd-bus
    wqueue,       \* messages in the write queue of sd-bus
    writable,     \* the kernel accepts more bytes on the bus fd
    pending,      \* async calls whose reply callback is installed in sd-bus
    deadline,     \* their absolute timeouts
    now,          \* the monotonic clock
    used,         \* messages that have been issued
    answered,     \* calls a peer has replied to
    \* Connection
    mutex,        \* the thread in sdbusMutex_
    eventFd, exitFd,      \* eventFd_ and loopExitFd_ are readable
    loop,         \* where the loop thread is
    pollTimeout, pollOut, \* sdbusPollData of the poll() it is in
    \* the threads in the API
    pc, call, before,     \* where they are, their message, timeoutBefore
    \* history
    raced,        \* threads whose timeoutBefore is older than the poll data
    lossy         \* a wake-up known to be missing since the last poll data

bus  == <<socket, rqueue, wqueue, writable, pending, deadline, now, used, answered>>
fds  == <<eventFd, exitFd>>
lp   == <<loop, pollTimeout, pollOut>>
api  == <<pc, call, before>>
hist == <<raced, lossy>>
vars == <<bus, mutex, fds, lp, api, hist>>

\* "dispatch" is a state of sd-event loops only (ExternalLoop).
LoopStates == {"none", "process", "callback", "drained", "pollData", "poll",
               "dispatch", "clearEvent", "clearExit", "exited"}
Stages     == {"idle", "blocking", "callAsync", "timeoutAfter", "check",
               "notify", "leave", "join"}

TypeOK ==
    /\ socket \subseteq Incoming
    /\ rqueue \subseteq Incoming
    /\ wqueue \subseteq Outgoing
    /\ writable \in BOOLEAN
    /\ pending \subseteq AsyncCalls
    /\ deadline \in [AsyncCalls -> Times]
    /\ now \in 0 .. MaxTime
    /\ used \subseteq Messages
    /\ answered \subseteq Calls
    /\ mutex \in Callers \cup {None}
    /\ eventFd \in BOOLEAN /\ exitFd \in BOOLEAN
    /\ loop \in LoopStates
    /\ pollTimeout \in Times
    /\ pollOut \in BOOLEAN
    /\ pc \in [Callers -> Stages]
    /\ call \in [Callers -> Messages \cup {None}]
    /\ before \in [Callers -> Times]
    /\ raced \subseteq Callers
    /\ lossy \in BOOLEAN

Init ==
    /\ socket = {} /\ rqueue = {} /\ wqueue = {} /\ writable = TRUE
    /\ pending = {} /\ deadline = [c \in AsyncCalls |-> Forever]
    /\ now = 0 /\ used = {} /\ answered = {}
    /\ mutex = None /\ eventFd = FALSE /\ exitFd = FALSE
    /\ loop = "none" /\ pollTimeout = Forever /\ pollOut = FALSE
    /\ pc = [t \in Callers |-> "idle"]
    /\ call = [t \in Callers |-> None]
    /\ before = [t \in Callers |-> Forever]
    /\ raced = {} /\ lossy = FALSE

-----------------------------------------------------------------------------
(* sd-bus, the kernel and the peers.                                        *)

\* sd_bus_get_timeout: 0 with messages to process, else the earliest deadline.
IsTimeout(v) ==
    IF rqueue # {} THEN v = 0
    ELSE /\ \A c \in pending : v <= deadline[c]
         /\ v = Forever \/ \E c \in pending : v = deadline[c]

\* Mutant: the size of the write queue is not looked at.
Queued_ReadOnly == rqueue # {}

\* sd_bus_get_n_queued_read, sd_bus_get_n_queued_write.
Queued == rqueue # {} \/ wqueue # {}

\* Writing m to the bus: at once, or (partly) into the write queue.
Transmit(m) ==
    \/ /\ wqueue = {} /\ writable
       /\ UNCHANGED <<wqueue, writable>>
    \/ /\ wqueue' = wqueue \cup {m}
       /\ writable' = (writable /\ wqueue # {})

\* dispatch_wqueue: whatever the kernel accepts leaves the write queue.
Flush == wqueue # {} /\ writable /\ wqueue' = {}

\* A peer sends a message of its own.
PeerSignals(m) ==
    /\ m \in Signals \ used
    /\ used' = used \cup {m}
    /\ socket' = socket \cup {m}
    /\ UNCHANGED <<rqueue, wqueue, writable, pending, deadline, now, answered,
                   mutex, fds, lp, api, hist>>

\* A peer replies to a call that has left the write queue.
PeerReplies(c) ==
    /\ c \in (Calls \cap used) \ (wqueue \cup answered)
    /\ answered' = answered \cup {c}
    /\ socket' = socket \cup {c}
    /\ UNCHANGED <<rqueue, wqueue, writable, pending, deadline, now, used,
                   mutex, fds, lp, api, hist>>

\* The kernel drains its socket buffer.
KernelDrains ==
    /\ ~writable
    /\ writable' = TRUE
    /\ UNCHANGED <<socket, rqueue, wqueue, pending, deadline, now, used,
                   answered, mutex, fds, lp, api, hist>>

Tick ==
    /\ now < MaxTime
    /\ now' = now + 1
    /\ UNCHANGED <<socket, rqueue, wqueue, writable, pending, deadline, used,
                   answered, mutex, fds, lp, api, hist>>

-----------------------------------------------------------------------------
(* sdbusMutex_ is recursive: the loop thread holds it through a callback    *)
(* and takes it again in every API call the callback makes.                 *)

Free(t) == mutex \in {None, t}
MayCall(t) == pc[t] = "idle" /\ (t = Loop => loop = "callback")
Fresh(t, m) == m \notin used /\ used' = used \cup {m}
Goto(t, stage) == pc' = [pc EXCEPT ![t] = stage]

\* An operation ends and its locals go out of scope.
Returns(t) ==
    /\ Goto(t, "idle")
    /\ call' = [call EXCEPT ![t] = None]
    /\ before' = [before EXCEPT ![t] = Forever]
    /\ raced' = raced \ {t}

\* An operation that ends without looking at the queues loses the wake-up
\* for whatever is in them.
ReturnsSilently(t) == Returns(t) /\ lossy' = (lossy \/ rqueue' # {} \/ wqueue' # {})

\* The reply callback of c is gone from sd-bus.
Forget(c) ==
    /\ pending' = pending \ {c}
    /\ deadline' = [a \in AsyncCalls |-> IF a = c THEN Forever ELSE deadline[a]]

-----------------------------------------------------------------------------
(* The loop thread.                                                         *)

EnterEventLoopAsync ==
    /\ pc[Owner] = "idle"
    /\ loop = "none"
    /\ loop' = "process"
    /\ UNCHANGED <<bus, mutex, fds, pollTimeout, pollOut, api, hist>>

\* sd_bus_process, with the mutex held until the callback has returned.
DispatchTimeout(c) ==
    /\ loop = "process" /\ Free(Loop)
    /\ c \in pending /\ deadline[c] <= now
    /\ Forget(c)
    /\ mutex' = Loop /\ loop' = "callback"
    /\ UNCHANGED <<socket, rqueue, wqueue, writable, now, used, answered, fds,
                   pollTimeout, pollOut, api, hist>>

NothingExpired == \A c \in pending : deadline[c] > now

DispatchWriteQueue ==
    /\ loop = "process" /\ Free(Loop)
    /\ NothingExpired
    /\ Flush
    /\ loop' = "pollData"
    /\ UNCHANGED <<socket, rqueue, writable, pending, deadline, now, used,
                   answered, mutex, fds, pollTimeout, pollOut, api, hist>>

\* One message, from the read queue first.  A reply nobody waits for any more
\* is dropped without a callback.
DispatchMessage(m) ==
    /\ loop = "process" /\ Free(Loop)
    /\ NothingExpired
    /\ ~(wqueue # {} /\ writable)
    /\ m \in (IF rqueue # {} THEN rqueue ELSE socket)
    /\ IF rqueue # {}
       THEN rqueue' = rqueue \ {m} /\ UNCHANGED socket
       ELSE socket' = socket \ {m} /\ UNCHANGED rqueue
    /\ Forget(m)
    /\ IF m \in Signals \cup pending
       THEN mutex' = Loop /\ loop' = "callback"
       ELSE mutex' = mutex /\ loop' = "pollData"
    /\ UNCHANGED <<wqueue, writable, now, used, answered, fds, pollTimeout,
                   pollOut, api, hist>>

CallbackReturns ==
    /\ loop = "callback" /\ pc[Loop] = "idle"
    /\ mutex' = None /\ loop' = "pollData"
    /\ UNCHANGED <<bus, fds, pollTimeout, pollOut, api, hist>>

NothingToProcess ==
    /\ loop = "process" /\ Free(Loop)
    /\ NothingExpired
    /\ ~(wqueue # {} /\ writable)
    /\ rqueue = {} /\ socket = {}
    /\ loop' = "drained"
    /\ UNCHANGED <<bus, mutex, fds, pollTimeout, pollOut, api, hist>>

\* Mutant: the other descriptor is cleared.
ClearEventFd_WrongFd ==
    /\ loop = "drained"
    /\ exitFd' = FALSE
    /\ loop' = "pollData"
    /\ UNCHANGED <<bus, mutex, eventFd, pollTimeout, pollOut, api, hist>>

\* processPendingEvent clears eventFd_ when sd_bus_process returned 0.
ClearEventFd ==
    /\ loop = "drained"
    /\ eventFd' = FALSE
    /\ loop' = "pollData"
    /\ UNCHANGED <<bus, mutex, exitFd, pollTimeout, pollOut, api, hist>>

ReadPollData ==
    /\ loop = "pollData" /\ Free(Loop)
    /\ pollTimeout' \in {v \in Times : IsTimeout(v)}
    /\ pollOut' = (wqueue # {})
    /\ loop' = "poll"
    /\ raced' = {t \in Callers : pc[t] = "callAsync"}
    /\ lossy' = FALSE
    /\ UNCHANGED <<bus, mutex, fds, api>>

LeavesPoll == pollTimeout' = Forever /\ pollOut' = FALSE

\* poll() returns; its result is examined event fd first, exit fd second.
Ready ==
    \/ socket # {} \/ (pollOut /\ writable) \/ now >= pollTimeout
    \/ eventFd \/ exitFd

PollReturns ==
    /\ loop = "poll" /\ Ready
    /\ loop' = IF eventFd THEN "clearEvent" ELSE IF exitFd THEN "clearExit" ELSE "process"
    /\ LeavesPoll
    /\ UNCHANGED <<bus, mutex, fds, api, hist>>

\* EINTR: only a poll() that would sleep is interrupted.
PollInterrupted ==
    /\ loop = "poll" /\ ~Ready
    /\ loop' = "process"
    /\ LeavesPoll
    /\ UNCHANGED <<bus, mutex, fds, api, hist>>

\* Mutant: poll() is entered again on the old poll data.
AcknowledgeEvent_Stale ==
    /\ loop = "clearEvent"
    /\ eventFd' = FALSE
    /\ loop' = "poll"
    /\ UNCHANGED <<bus, mutex, exitFd, pollTimeout, pollOut, api, hist>>

\* waitForNextEvent calls itself again, with fresh poll data.
AcknowledgeEvent ==
    /\ loop = "clearEvent"
    /\ eventFd' = FALSE
    /\ loop' = "pollData"
    /\ UNCHANGED <<bus, mutex, exitFd, pollTimeout, pollOut, api, hist>>

\* Mutant: waitForNextEvent returns true on an exit notification.
AcknowledgeExit_Ignored ==
    /\ loop = "clearExit"
    /\ exitFd' = FALSE
    /\ loop' = "process"
    /\ UNCHANGED <<bus, mutex, eventFd, pollTimeout, pollOut, api, hist>>

AcknowledgeExit ==
    /\ loop = "clearExit"
    /\ exitFd' = FALSE
    /\ loop' = "exited"
    /\ UNCHANGED <<bus, mutex, eventFd, pollTimeout, pollOut, api, hist>>

LoopStep ==
    \/ \E c \in AsyncCalls : DispatchTimeout(c)
    \/ DispatchWriteQueue
    \/ \E m \in Incoming : DispatchMessage(m)
    \/ CallbackReturns
    \/ NothingToProcess
    \/ ClearEventFd
    \/ ReadPollData
    \/ PollReturns
    \/ AcknowledgeEvent
    \/ AcknowledgeExit

-----------------------------------------------------------------------------
(* leaveEventLoop.                                                          *)

Leave(t) ==
    /\ MayCall(t)
    /\ t \in {Owner, Loop}
    /\ Goto(t, "leave")
    /\ UNCHANGED <<bus, mutex, fds, lp, call, before, hist>>

NotifyExit(t) ==
    /\ pc[t] = "leave"
    /\ exitFd' = TRUE
    /\ Goto(t, "join")
    /\ UNCHANGED <<bus, mutex, eventFd, lp, call, before, hist>>

\* A callback that leaves its own loop fails to join itself.
Join(t) ==
    /\ pc[t] = "join"
    /\ IF t = Loop THEN UNCHANGED loop
       ELSE loop \in {"none", "exited"} /\ loop' = "none"
    /\ Returns(t)
    /\ UNCHANGED <<bus, mutex, fds, pollTimeout, pollOut, lossy>>

-----------------------------------------------------------------------------
(* sendMessage and wakeUpEventLoopIfMessagesInQueue.                        *)

\* The check of the queues comes before the check for failure.
SendMessage(t, m) ==
    /\ MayCall(t) /\ Free(t) /\ m \in Sends
    /\ Fresh(t, m)
    /\ Transmit(m) \/ UNCHANGED <<wqueue, writable>>
    /\ call' = [call EXCEPT ![t] = m]
    /\ Goto(t, "check")
    /\ UNCHANGED <<socket, rqueue, pending, deadline, now, answered, mutex,
                   fds, lp, before, hist>>

EmitSilently(t, m) ==
    /\ MayCall(t) /\ Free(t) /\ m \in SilentSends
    /\ Fresh(t, m)
    /\ Transmit(m) \/ UNCHANGED <<wqueue, writable>>
    /\ UNCHANGED rqueue
    /\ ReturnsSilently(t)
    /\ UNCHANGED <<socket, pending, deadline, now, answered, mutex, fds, lp>>

CheckQueues(t) ==
    /\ pc[t] = "check" /\ Free(t)
    /\ IF Queued
       THEN Goto(t, "notify") /\ UNCHANGED <<call, before, hist>>
       ELSE Returns(t) /\ lossy' = (lossy \/ t \in raced)
    /\ UNCHANGED <<bus, mutex, fds, lp>>

NotifyEvent(t) ==
    /\ pc[t] = "notify"
    /\ eventFd' = TRUE
    /\ Returns(t)
    /\ UNCHANGED <<bus, mutex, exitFd, lp, lossy>>

-----------------------------------------------------------------------------
(* Blocking calls: sd_bus_call holds the mutex until the reply or a failure.*)

CallMethod(t, c) ==
    /\ MayCall(t) /\ Free(t) /\ c \in Blocking
    /\ Fresh(t, c)
    /\ Transmit(c)
    /\ mutex' = t
    /\ call' = [call EXCEPT ![t] = c]
    /\ Goto(t, "blocking")
    /\ UNCHANGED <<socket, rqueue, pending, deadline, now, answered, fds, lp,
                   before, hist>>

\* Any other message that arrives meanwhile goes to the read queue.
StashMessage(t, m) ==
    /\ pc[t] = "blocking"
    /\ m \in socket \ {call[t]}
    /\ socket' = socket \ {m}
    /\ rqueue' = rqueue \cup {m}
    /\ UNCHANGED <<wqueue, writable, pending, deadline, now, used, answered,
                   mutex, fds, lp, api, hist>>

FlushInCall(t) ==
    /\ pc[t] = "blocking"
    /\ Flush
    /\ UNCHANGED <<socket, rqueue, writable, pending, deadline, now, used,
                   answered, mutex, fds, lp, api, hist>>

\* Mutant: the mutex is not recursive, a callback loses it to its own call.
Unlock_All(t) == mutex' = None

Unlock(t) == mutex' = IF t = Loop THEN Loop ELSE None

\* The reply arrives: the wake-up follows, except in SilentCalls.
CallSucceeds(t) ==
    /\ pc[t] = "blocking"
    /\ call[t] \in socket
    /\ socket' = socket \ {call[t]}
    /\ Unlock(t)
    /\ UNCHANGED <<rqueue, wqueue>>
    /\ IF call[t] \in BlockingCalls
       THEN Goto(t, "check") /\ UNCHANGED <<call, before, hist>>
       ELSE ReturnsSilently(t)
    /\ UNCHANGED <<writable, pending, deadline, now, used, answered, fds, lp>>

\* An error reply, a timeout or a local failure: an exception, no wake-up.
CallFails(t) ==
    /\ pc[t] = "blocking"
    /\ socket' \in {socket, socket \ {call[t]}}
    /\ Unlock(t)
    /\ UNCHANGED <<rqueue, wqueue>>
    /\ ReturnsSilently(t)
    /\ UNCHANGED <<writable, pending, deadline, now, used, answered, fds, lp>>

-----------------------------------------------------------------------------
(* callMethodAsync: three critical sections, then the notification.         *)

ReadTimeoutBefore(t, c) ==
    /\ MayCall(t) /\ Free(t) /\ c \in AsyncCalls
    /\ Fresh(t, c)
    /\ \E v \in Times : IsTimeout(v) /\ before' = [before EXCEPT ![t] = v]
    /\ call' = [call EXCEPT ![t] = c]
    /\ Goto(t, "callAsync")
    /\ UNCHANGED <<socket, rqueue, wqueue, writable, pending, deadline, now,
                   answered, mutex, fds, lp, hist>>

CallAsync(t) ==
    /\ pc[t] = "callAsync" /\ Free(t)
    /\ \/ /\ Transmit(call[t])
          /\ pending' = pending \cup {call[t]}
          /\ \E d \in now + 1 .. Forever : deadline' = [deadline EXCEPT ![call[t]] = d]
          /\ Goto(t, "timeoutAfter")
          /\ UNCHANGED <<call, before, raced>>
       \/ /\ Returns(t)         \* sd_bus_call_async fails
          /\ UNCHANGED <<wqueue, writable, pending, deadline>>
    /\ UNCHANGED <<socket, rqueue, now, used, answered, mutex, fds, lp, lossy>>

\* Mutant: the comparison the wrong way round.
ReadTimeoutAfter_Reversed(t) ==
    /\ pc[t] = "timeoutAfter" /\ Free(t)
    /\ \E v \in Times : IsTimeout(v) /\ Goto(t, IF v > before[t] THEN "notify" ELSE "check")
    /\ UNCHANGED <<bus, mutex, fds, lp, call, before, hist>>

ReadTimeoutAfter(t) ==
    /\ pc[t] = "timeoutAfter" /\ Free(t)
    /\ \E v \in Times : IsTimeout(v) /\ Goto(t, IF v < before[t] THEN "notify" ELSE "check")
    /\ UNCHANGED <<bus, mutex, fds, lp, call, before, hist>>

\* The slot of an async call is released by whoever owns it.
InUse(c) == \E t \in Callers : call[t] = c

ReleaseSlot(t, c) ==
    /\ MayCall(t) /\ Free(t)
    /\ c \in pending /\ ~InUse(c)
    /\ Forget(c)
    /\ UNCHANGED <<socket, rqueue, wqueue, writable, now, used, answered,
                   mutex, fds, lp, api, hist>>

-----------------------------------------------------------------------------
Starts(t) ==
    \/ Leave(t)
    \/ \E m \in Sends : SendMessage(t, m)
    \/ \E m \in SilentSends : EmitSilently(t, m)
    \/ \E c \in Blocking : CallMethod(t, c)
    \/ \E c \in AsyncCalls : ReadTimeoutBefore(t, c) \/ ReleaseSlot(t, c)

Continues(t) ==
    \/ NotifyExit(t)
    \/ Join(t)
    \/ CheckQueues(t)
    \/ NotifyEvent(t)
    \/ \E m \in Incoming : StashMessage(t, m)
    \/ FlushInCall(t)
    \/ CallSucceeds(t)
    \/ CallFails(t)
    \/ CallAsync(t)
    \/ ReadTimeoutAfter(t)

Environment ==
    \/ \E m \in Signals : PeerSignals(m)
    \/ \E c \in Calls : PeerReplies(c)
    \/ KernelDrains
    \/ Tick
    \/ PollInterrupted

Next ==
    \/ EnterEventLoopAsync
    \/ LoopStep
    \/ \E t \in Callers : Starts(t) \/ Continues(t)
    \/ Environment

Spec == Init /\ [][Next]_vars

\* Threads are scheduled, time passes, the kernel drains its buffers, a
\* blocking call ends (it has a timeout) and so does a callback, however many
\* calls it makes (hence strong fairness); nobody has to start an operation and
\* no peer has to reply.
FairSpec ==
    /\ Spec
    /\ WF_vars(LoopStep)
    /\ SF_vars(CallbackReturns)
    /\ \A t \in Callers : WF_vars(Continues(t))
    /\ \A t \in Callers : WF_vars(CallSucceeds(t) \/ CallFails(t))
    /\ WF_vars(KernelDrains)
    /\ WF_vars(Tick)

-----------------------------------------------------------------------------
(* Properties.                                                              *)

Running == loop \notin {"none", "exited"}

\* The poll data the loop sleeps on miss something in the queues of sd-bus.
QueuesUnseen ==
    \/ rqueue # {} /\ pollTimeout > 0
    \/ wqueue # {} /\ ~pollOut

\* ... or a timer that fires before the loop wakes up by itself.
DeadlineUnseen == \E c \in pending : deadline[c] < pollTimeout

\* Queued messages are announced: while the loop sleeps in poll() on data that
\* do not account for the queues, eventFd_ is set, or some thread is still on
\* its way through wakeUpEventLoopIfMessagesInQueue, or an operation ended on
\* one of the paths that skip it (an exception in callMethod, requestName or
\* releaseName; addMatch; registerSignalHandler; the emit* calls).
QueuesAnnounced ==
    (loop = "poll" /\ QueuesUnseen) =>
        \/ eventFd \/ lossy
        \/ \E t \in Callers : pc[t] \in {"blocking", "timeoutAfter", "check", "notify"}

\* Timers are announced: while the loop sleeps beyond the deadline of a pending
\* call, eventFd_ is set, or some thread will still find that it has to notify,
\* or the loop read its poll data between the timeoutBefore of a callMethodAsync
\* and the call itself.
WillNotify(t) ==
    \/ pc[t] = "notify"
    \/ pc[t] = "timeoutAfter" /\ deadline[call[t]] < before[t]
    \/ pc[t] \in {"blocking", "timeoutAfter", "check"} /\ rqueue # {}
    \/ pc[t] \in {"timeoutAfter", "check"} /\ t \in raced

Covered == eventFd \/ lossy \/ \E t \in Callers : WillNotify(t)

DeadlinesAnnounced == (loop = "poll" /\ DeadlineUnseen) => Covered

\* A leave is not lost: as long as leaveEventLoop waits to join a running loop,
\* loopExitFd_ is readable or the loop is past it, whatever other events and
\* notifications the loop has handled since.
ExitNotLost ==
    (pc[Owner] = "join" /\ Running) => (exitFd \/ loop = "clearExit")

\* Access to sd-bus is serialized (sdbusMutex_): while a thread waits in it for a
\* reply, or the loop thread runs a callback, no other thread gets into it - it
\* goes nowhere but to notify the loop or to leave it - the loop neither processes
\* nor reads its poll data, nothing is issued by anybody who is not in an operation
\* already, and a thread that waits is not robbed of its reply.
InBus(t) == pc[t] = "blocking" \/ (t = Loop /\ loop = "callback")

NotInBus(u) == pc'[u] # pc[u] => pc[u] \in {"notify", "leave", "join"} \/ pc'[u] = "leave"

LoopUsesBus == (loop = "process" /\ loop' # "process") \/ (loop = "pollData" /\ loop' = "poll")

Undisturbed(t) ==
    /\ \A u \in Callers \ {t} : NotInBus(u)
    /\ ~LoopUsesBus
    /\ pc[t] # "idle" => used' \ used \subseteq Signals
    /\ pc[t] = "blocking" /\ pc'[t] = "blocking" =>
          pending' = pending /\ (call[t] \in socket => call[t] \in socket')

Serialized ==
    [][\A t \in Callers : InBus(t) =>
          (\A u \in Callers \ {t} : ~InBus(u)') /\ Undisturbed(t)]_vars

\* A message in the read queue is dispatched while a loop runs, unless a known
\* gap in the wake-ups was hit: waitForNextEvent never sleeps over it.
MessagesDispatched ==
    \A m \in Incoming : (m \in rqueue) ~> (m \notin rqueue \/ lossy \/ ~Running)

\* A call with a timeout does not stay pending for ever while a loop runs,
\* unless a known gap in the wake-ups was hit.
CallsExpire ==
    \A c \in AsyncCalls :
        (c \in pending /\ deadline[c] <= MaxTime) ~> (c \notin pending \/ lossy \/ ~Running)

\* leaveEventLoop returns, whatever the loop is doing when it is called and
\* from wherever it is called, its own callbacks included.
LeaveReturns == \A t \in Callers : (pc[t] = "join") ~> (pc[t] = "idle")

-----------------------------------------------------------------------------
(* The inductive invariant behind QueuesAnnounced and DeadlinesAnnounced.   *)

\* A caller works on a message of its own, and only pending calls have timers.
CallsOK ==
    /\ \A t \in Callers :
          /\ pc[t] \in {"callAsync", "timeoutAfter"} => call[t] \in AsyncCalls
          /\ call[t] \in used \cup {None}
          /\ \A u \in Callers : call[t] = call[u] => t = u \/ call[t] = None
    /\ \A c \in AsyncCalls \ pending : deadline[c] = Forever

\* The comparison base of a callMethodAsync is no earlier than what the loop
\* sleeps on, unless the loop will be woken anyway or has overtaken it.
BaseFresh ==
    \A t \in Callers :
        (loop = "poll" /\ pc[t] = "callAsync" /\ t \notin raced /\ before[t] < pollTimeout)
            => Covered

\* The mutex says who is in sd-bus; the loop thread calls it from callbacks only.
MutexOK ==
    /\ \A t \in Callers : mutex = t <=> InBus(t)
    /\ pc[Loop] # "idle" => loop = "callback"

WakeInv == CallsOK /\ QueuesAnnounced /\ DeadlinesAnnounced /\ BaseFresh

-----------------------------------------------------------------------------
(* What comments and documentation say; the code does not keep it.          *)

Quiet == ~eventFd /\ \A t \in Callers : pc[t] = "idle"

\* "If t2 < t1, then we have to wake up the event loop thread to update its
\* poll timeout": with all calls issued the loop never sleeps past a deadline.
LoopKnowsDeadlines == (loop = "poll" /\ Quiet) => ~DeadlineUnseen
=============================================================================
