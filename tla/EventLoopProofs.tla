--------------------------- MODULE EventLoopProofs ---------------------------
(***************************************************************************)
(* Proofs about the event loop of a connection, for every set of threads   *)
(* and of messages and every bound of the clock; and, in the last section,  *)
(* the same promises of a loop of the application: a step of ExternalLoop    *)
(* is a step of EventLoop, or moves the loop to a state other than poll and  *)
(* nothing else.                                                           *)
(***************************************************************************)
EXTENDS ExternalLoop, TLAPS

USE DEF Callers, Blocking, Calls, Outgoing, Incoming, Messages, LoopStates, Stages

\* The arithmetic of absolute times that the proofs use.
LEMMA TimesFacts ==
    /\ Forever \in Times /\ 0 \in Times
    /\ \A v \in Times : v \in Int /\ 0 <= v /\ v <= Forever
    /\ 0 \in 0 .. MaxTime
    /\ \A i \in 0 .. MaxTime : \A d \in i + 1 .. Forever : d \in Times
BY ConstantsAssumption DEF Times, Forever

\* An operation that returns keeps the types of what it touches.
LEMMA ReturnsTyped ==
    ASSUME TypeOK, NEW t \in Callers, Returns(t)
    PROVE  /\ pc' \in [Callers -> Stages]
           /\ call' \in [Callers -> Messages \cup {None}]
           /\ before' \in [Callers -> Times]
           /\ raced' \subseteq Callers
BY TimesFacts DEF Returns, Goto, TypeOK

\* Removing a call from the timers keeps their type.
LEMMA ForgetTyped ==
    ASSUME TypeOK, NEW c, Forget(c)
    PROVE  /\ pending' \subseteq AsyncCalls
           /\ deadline' \in [AsyncCalls -> Times]
BY TimesFacts DEF Forget, TypeOK

-----------------------------------------------------------------------------
(* Type correctness.                                                        *)

\* No step leaves the types.
LEMMA TypingStep == TypeOK /\ CallsOK /\ [Next]_vars => TypeOK'
<1> SUFFICES ASSUME TypeOK, CallsOK, [Next]_vars PROVE TypeOK'
  OBVIOUS
<1> USE TimesFacts DEF TypeOK, bus, fds, lp, api, hist
<1>1. CASE EnterEventLoopAsync
  BY <1>1 DEF EnterEventLoopAsync
<1>2. CASE LoopStep
  <2>1. CASE \E c \in AsyncCalls : DispatchTimeout(c)
    BY <2>1, ForgetTyped DEF DispatchTimeout
  <2>2. CASE DispatchWriteQueue
    BY <2>2 DEF DispatchWriteQueue, Flush
  <2>3. CASE \E m \in Incoming : DispatchMessage(m)
    BY <2>3, ForgetTyped DEF DispatchMessage
  <2>4. CASE CallbackReturns
    BY <2>4 DEF CallbackReturns
  <2>5. CASE NothingToProcess
    BY <2>5 DEF NothingToProcess
  <2>6. CASE ClearEventFd
    BY <2>6 DEF ClearEventFd
  <2>7. CASE ReadPollData
    BY <2>7 DEF ReadPollData
  <2>8. CASE PollReturns
    BY <2>8 DEF PollReturns, LeavesPoll
  <2>9. CASE AcknowledgeEvent
    BY <2>9 DEF AcknowledgeEvent
  <2>10. CASE AcknowledgeExit
    BY <2>10 DEF AcknowledgeExit
  <2> QED
    BY <1>2, <2>1, <2>2, <2>3, <2>4, <2>5, <2>6, <2>7, <2>8, <2>9, <2>10 DEF LoopStep
<1>3. ASSUME NEW t \in Callers, Starts(t) PROVE TypeOK'
  <2>1. CASE Leave(t)
    BY <2>1 DEF Leave, Goto
  <2>2. ASSUME NEW m \in Sends, SendMessage(t, m) PROVE TypeOK'
    BY <2>2 DEF SendMessage, Fresh, Transmit, Goto
  <2>3. ASSUME NEW m \in SilentSends, EmitSilently(t, m) PROVE TypeOK'
    BY <2>3, ReturnsTyped DEF EmitSilently, Fresh, Transmit, ReturnsSilently, Goto
  <2>4. ASSUME NEW c \in Blocking, CallMethod(t, c) PROVE TypeOK'
    BY <2>4 DEF CallMethod, Fresh, Transmit, Goto
  <2>5. ASSUME NEW c \in AsyncCalls, ReadTimeoutBefore(t, c) PROVE TypeOK'
    BY <2>5 DEF ReadTimeoutBefore, Fresh, Goto
  <2>6. ASSUME NEW c \in AsyncCalls, ReleaseSlot(t, c) PROVE TypeOK'
    BY <2>6, ForgetTyped DEF ReleaseSlot
  <2> QED
    BY <1>3, <2>1, <2>2, <2>3, <2>4, <2>5, <2>6 DEF Starts
<1>4. ASSUME NEW t \in Callers, Continues(t) PROVE TypeOK'
  <2>1. CASE NotifyExit(t)
    BY <2>1 DEF NotifyExit, Goto
  <2>2. CASE Join(t)
    BY <2>2, ReturnsTyped DEF Join
  <2>3. CASE CheckQueues(t)
    BY <2>3, ReturnsTyped DEF CheckQueues, Goto
  <2>4. CASE NotifyEvent(t)
    BY <2>4, ReturnsTyped DEF NotifyEvent
  <2>5. CASE \E m \in Incoming : StashMessage(t, m)
    BY <2>5 DEF StashMessage
  <2>6. CASE FlushInCall(t)
    BY <2>6 DEF FlushInCall, Flush
  <2>7. CASE CallSucceeds(t)
    BY <2>7, ReturnsTyped DEF CallSucceeds, Unlock, ReturnsSilently, Goto
  <2>8. CASE CallFails(t)
    BY <2>8, ReturnsTyped DEF CallFails, Unlock, ReturnsSilently, Goto
  <2>9. CASE CallAsync(t)
    <3>1. call[t] \in AsyncCalls
      BY <2>9 DEF CallAsync, CallsOK
    <3>2. CASE Returns(t) /\ UNCHANGED <<wqueue, writable, pending, deadline>>
      BY <2>9, <3>2, ReturnsTyped DEF CallAsync
    <3>3. CASE /\ Transmit(call[t])
               /\ pending' = pending \cup {call[t]}
               /\ \E d \in now + 1 .. Forever : deadline' = [deadline EXCEPT ![call[t]] = d]
               /\ Goto(t, "timeoutAfter")
               /\ UNCHANGED <<call, before, raced>>
      <4>1. PICK d \in now + 1 .. Forever : deadline' = [deadline EXCEPT ![call[t]] = d]
        BY <3>3
      <4>2. d \in Times
        OBVIOUS
      <4>3. deadline' \in [AsyncCalls -> Times]
        BY <4>1, <4>2
      <4>4. wqueue' \subseteq Outgoing /\ writable' \in BOOLEAN
        BY <3>1, <3>3 DEF Transmit
      <4>5. pending' \subseteq AsyncCalls /\ pc' \in [Callers -> Stages]
        BY <3>1, <3>3 DEF Goto
      <4> QED
        BY <2>9, <3>3, <4>3, <4>4, <4>5 DEF CallAsync
    <3> QED
      BY <2>9, <3>2, <3>3 DEF CallAsync
  <2>10. CASE ReadTimeoutAfter(t)
    BY <2>10 DEF ReadTimeoutAfter, Goto
  <2> QED
    BY <1>4, <2>1, <2>2, <2>3, <2>4, <2>5, <2>6, <2>7, <2>8, <2>9, <2>10 DEF Continues
<1>5. CASE Environment
  <2>1. ASSUME NEW m \in Signals, PeerSignals(m) PROVE TypeOK'
    BY <2>1 DEF PeerSignals
  <2>2. ASSUME NEW c \in Calls, PeerReplies(c) PROVE TypeOK'
    BY <2>2 DEF PeerReplies
  <2>3. CASE KernelDrains
    BY <2>3 DEF KernelDrains
  <2>4. CASE Tick
    BY <2>4, ConstantsAssumption DEF Tick
  <2>5. CASE PollInterrupted
    BY <2>5 DEF PollInterrupted, LeavesPoll
  <2> QED
    BY <1>5, <2>1, <2>2, <2>3, <2>4, <2>5 DEF Environment
<1>6. CASE UNCHANGED vars
  BY <1>6 DEF vars
<1> QED
  BY <1>1, <1>2, <1>3, <1>4, <1>5, <1>6 DEF Next

-----------------------------------------------------------------------------
(* Callers work on messages of their own.                                   *)

\* An operation only starts on a message that nobody has used.
LEMMA CallsStep == TypeOK /\ CallsOK /\ [Next]_vars => CallsOK'
<1> SUFFICES ASSUME TypeOK, CallsOK, [Next]_vars PROVE CallsOK'
  OBVIOUS
<1> USE DEF TypeOK, CallsOK, bus, fds, lp, api, hist
<1> DEFINE Still == UNCHANGED <<pc, call, used, pending, deadline>>
<1>0. ASSUME Still PROVE CallsOK'
  BY <1>0
<1>1. CASE EnterEventLoopAsync
  BY <1>0, <1>1 DEF EnterEventLoopAsync
<1>2. CASE LoopStep
  <2>1. ASSUME NEW c \in Messages, Forget(c), UNCHANGED <<pc, call, used>> PROVE CallsOK'
    BY <2>1 DEF Forget
  <2>2. CASE \E c \in AsyncCalls : DispatchTimeout(c)
    BY <2>1, <2>2 DEF DispatchTimeout
  <2>3. CASE \E m \in Incoming : DispatchMessage(m)
    BY <2>1, <2>3 DEF DispatchMessage
  <2> QED
    BY <1>0, <1>2, <2>2, <2>3 DEF LoopStep, DispatchWriteQueue, CallbackReturns,
       NothingToProcess, ClearEventFd, ReadPollData, PollReturns, AcknowledgeEvent,
       AcknowledgeExit
<1>3. ASSUME NEW t \in Callers, Returns(t), UNCHANGED <<used, pending, deadline>>
      PROVE  CallsOK'
  BY <1>3, ConstantsAssumption DEF Returns, Goto
<1>4. ASSUME NEW t \in Callers, NEW stage \in Stages \ {"callAsync", "timeoutAfter"},
             Goto(t, stage), UNCHANGED <<call, used, pending, deadline>>
      PROVE  CallsOK'
  BY <1>4 DEF Goto
<1>5. ASSUME NEW t \in Callers, NEW m \in Messages, Fresh(t, m),
             NEW stage \in Stages \ {"timeoutAfter"}, stage = "callAsync" => m \in AsyncCalls,
             Goto(t, stage), call' = [call EXCEPT ![t] = m], UNCHANGED <<pending, deadline>>
      PROVE  CallsOK'
  BY <1>5, ConstantsAssumption DEF Goto, Fresh
<1>6. ASSUME NEW t \in Callers, Starts(t) PROVE CallsOK'
  <2>1. CASE Leave(t)
    BY <1>4, <2>1 DEF Leave
  <2>2. ASSUME NEW m \in Sends, SendMessage(t, m) PROVE CallsOK'
    BY <1>5, <2>2 DEF SendMessage
  <2>3. ASSUME NEW m \in SilentSends, EmitSilently(t, m) PROVE CallsOK'
    BY <2>3, ConstantsAssumption DEF EmitSilently, ReturnsSilently, Returns, Goto, Fresh
  <2>4. ASSUME NEW c \in Blocking, CallMethod(t, c) PROVE CallsOK'
    BY <1>5, <2>4 DEF CallMethod
  <2>5. ASSUME NEW c \in AsyncCalls, ReadTimeoutBefore(t, c) PROVE CallsOK'
    BY <1>5, <2>5 DEF ReadTimeoutBefore
  <2>6. ASSUME NEW c \in AsyncCalls, ReleaseSlot(t, c) PROVE CallsOK'
    BY <2>6 DEF ReleaseSlot, Forget
  <2> QED
    BY <1>6, <2>1, <2>2, <2>3, <2>4, <2>5, <2>6 DEF Starts
<1>7. ASSUME NEW t \in Callers, Continues(t) PROVE CallsOK'
  <2>1. CASE NotifyExit(t)
    BY <1>4, <2>1 DEF NotifyExit
  <2>2. CASE Join(t)
    BY <1>3, <2>2 DEF Join
  <2>3. CASE CheckQueues(t)
    BY <1>3, <1>4, <2>3 DEF CheckQueues
  <2>4. CASE NotifyEvent(t)
    BY <1>3, <2>4 DEF NotifyEvent
  <2>5. CASE \E m \in Incoming : StashMessage(t, m)
    BY <1>0, <2>5 DEF StashMessage
  <2>6. CASE FlushInCall(t)
    BY <1>0, <2>6 DEF FlushInCall
  <2>7. CASE CallSucceeds(t)
    BY <1>3, <1>4, <2>7 DEF CallSucceeds, ReturnsSilently
  <2>8. CASE CallFails(t)
    BY <1>3, <2>8 DEF CallFails, ReturnsSilently
  <2>9. CASE CallAsync(t)
    <3>1. CASE Returns(t) /\ UNCHANGED <<wqueue, writable, pending, deadline>>
      BY <1>3, <2>9, <3>1 DEF CallAsync
    <3>2. CASE Goto(t, "timeoutAfter")
      BY <2>9, <3>2 DEF CallAsync, Goto, Returns
    <3> QED
      BY <2>9, <3>1, <3>2 DEF CallAsync
  <2>10. CASE ReadTimeoutAfter(t)
    BY <1>4, <2>10 DEF ReadTimeoutAfter
  <2> QED
    BY <1>7, <2>1, <2>2, <2>3, <2>4, <2>5, <2>6, <2>7, <2>8, <2>9, <2>10 DEF Continues
<1>8. CASE Environment
  <2>1. ASSUME NEW m \in Signals, PeerSignals(m) PROVE CallsOK'
    BY <2>1 DEF PeerSignals
  <2> QED
    BY <1>0, <1>8, <2>1 DEF Environment, PeerReplies, KernelDrains, Tick, PollInterrupted
<1>9. CASE UNCHANGED vars
  BY <1>0, <1>9 DEF vars
<1> QED
  BY <1>1, <1>2, <1>6, <1>7, <1>8, <1>9 DEF Next

-----------------------------------------------------------------------------
\* Every variable of the event loop keeps its type, and no two threads ever
\* work on the same message, for all sets of threads and messages.
THEOREM TypeCorrect == Spec => [](TypeOK /\ CallsOK)
<1>1. Init => TypeOK /\ CallsOK
  BY ConstantsAssumption, TimesFacts DEF Init, TypeOK, CallsOK
<1>2. TypeOK /\ CallsOK /\ [Next]_vars => (TypeOK /\ CallsOK)'
  BY TypingStep, CallsStep
<1> QED
  BY <1>1, <1>2, PTL DEF Spec
-----------------------------------------------------------------------------
(* Wake-ups.  While the loop sleeps only the other threads and the          *)
(* environment move, and nothing they do takes a wake-up back.              *)

\* What holds of a step that leaves the loop asleep.
LEMMA AsleepSteps ==
    ASSUME TypeOK, Next, loop = "poll", loop' = "poll"
    PROVE  /\ \/ \E t \in Callers : Starts(t) \/ Continues(t)
              \/ \E m \in Signals : PeerSignals(m)
              \/ \E c \in Calls : PeerReplies(c)
              \/ KernelDrains
              \/ Tick
<1>1. ~EnterEventLoopAsync
  BY DEF EnterEventLoopAsync
<1>2. ~LoopStep
  BY DEF LoopStep, DispatchTimeout, DispatchWriteQueue, DispatchMessage, CallbackReturns,
     NothingToProcess, ClearEventFd, ReadPollData, PollReturns, AcknowledgeEvent,
     AcknowledgeExit
<1>3. ~PollInterrupted
  BY DEF PollInterrupted
<1> QED
  BY <1>1, <1>2, <1>3 DEF Next, Environment

\* A promise to notify is kept as long as the thread that made it stands still.
LEMMA PromiseStays ==
    ASSUME NEW u \in Callers, WillNotify(u),
           pc'[u] = pc[u], call'[u] = call[u], before'[u] = before[u],
           u \in raced => u \in raced',
           rqueue # {} => rqueue' # {},
           pc[u] = "timeoutAfter" => deadline'[call[u]] = deadline[call[u]]
    PROVE  WillNotify(u)'
BY DEF WillNotify

\* A thread that moves notifies, still has to, or leaves a gap behind.
LEMMA CoveredStays ==
    ASSUME TypeOK, CallsOK, Next, loop = "poll", loop' = "poll", Covered
    PROVE  Covered'
<1> USE DEF TypeOK, bus, fds, lp, api, hist
<1>1. CASE \/ \E m \in Signals : PeerSignals(m)
           \/ \E c \in Calls : PeerReplies(c)
           \/ KernelDrains
           \/ Tick
  BY <1>1 DEF PeerSignals, PeerReplies, KernelDrains, Tick, Covered, WillNotify
<1>2. ASSUME NEW t \in Callers, Starts(t) \/ Continues(t)
      PROVE  Covered'
  <2>1. /\ eventFd => eventFd'
        /\ lossy => lossy'
        /\ rqueue # {} => rqueue' # {}
    <3>1. CASE Starts(t)
      BY <3>1 DEF Starts, Leave, SendMessage, EmitSilently, ReturnsSilently, CallMethod,
         ReadTimeoutBefore, ReleaseSlot
    <3>2. CASE Continues(t)
      BY <3>2 DEF Continues, NotifyExit, Join, CheckQueues, NotifyEvent, StashMessage,
         FlushInCall, CallSucceeds, CallFails, ReturnsSilently, CallAsync, ReadTimeoutAfter
    <3> QED
      BY <1>2, <3>1, <3>2
  <2>2. CASE eventFd \/ lossy
    BY <2>1, <2>2 DEF Covered
  <2>3. ASSUME NEW u \in Callers, u # t, WillNotify(u)
        PROVE  Covered'
    <3>1. /\ pc'[u] = pc[u] /\ call'[u] = call[u] /\ before'[u] = before[u]
          /\ u \in raced => u \in raced'
      <4>1. CASE Starts(t)
        BY <2>3, <4>1 DEF Starts, Leave, SendMessage, EmitSilently, ReturnsSilently,
           CallMethod, ReadTimeoutBefore, ReleaseSlot, Returns, Goto
      <4>2. CASE Continues(t)
        BY <2>3, <4>2 DEF Continues, NotifyExit, Join, CheckQueues, NotifyEvent,
           StashMessage, FlushInCall, CallSucceeds, CallFails, ReturnsSilently, CallAsync,
           ReadTimeoutAfter, Returns, Goto
      <4> QED
        BY <1>2, <4>1, <4>2
    <3>2. ASSUME pc[u] = "timeoutAfter"
          PROVE  deadline'[call[u]] = deadline[call[u]]
      <4>1. call[u] \in AsyncCalls /\ call[u] # None /\ call[t] # call[u]
        BY <2>3, <3>2, ConstantsAssumption DEF CallsOK
      <4>2. CASE Starts(t)
        BY <4>1, <4>2 DEF Starts, Leave, SendMessage, EmitSilently, CallMethod,
           ReadTimeoutBefore, ReleaseSlot, InUse, Forget
      <4>3. CASE Continues(t)
        BY <4>1, <4>3 DEF Continues, NotifyExit, Join, CheckQueues, NotifyEvent,
           StashMessage, FlushInCall, CallSucceeds, CallFails, CallAsync, ReadTimeoutAfter
      <4> QED
        BY <1>2, <4>2, <4>3
    <3>3. WillNotify(u)'
      BY <2>1, <2>3, <3>1, <3>2, PromiseStays
    <3> QED
      BY <3>3 DEF Covered
  <2>4. CASE WillNotify(t)
    <3>1. pc[t] # "idle"
      BY <2>4 DEF WillNotify
    <3>2. ~Starts(t)
      BY <3>1 DEF Starts, Leave, SendMessage, EmitSilently, CallMethod, ReadTimeoutBefore,
         ReleaseSlot, MayCall
    <3>3. CASE ~(CheckQueues(t) \/ NotifyEvent(t) \/ CallSucceeds(t) \/ CallFails(t)
                 \/ ReadTimeoutAfter(t))
      <4>1. CASE \E m \in Incoming : StashMessage(t, m)
        BY <2>1, <2>4, <4>1, PromiseStays DEF StashMessage, Covered
      <4>2. CASE FlushInCall(t)
        BY <2>1, <2>4, <4>2, PromiseStays DEF FlushInCall, Covered
      <4>3. ~NotifyExit(t) /\ ~Join(t) /\ ~CallAsync(t)
        BY <2>4 DEF WillNotify, NotifyExit, Join, CallAsync
      <4> QED
        BY <1>2, <3>2, <3>3, <4>1, <4>2, <4>3 DEF Continues
    <3>4. CASE CheckQueues(t)
      <4>1. CASE Queued
        BY <3>4, <4>1 DEF CheckQueues, Goto, Covered, WillNotify
      <4>2. CASE ~Queued
        BY <2>4, <3>4, <4>2 DEF CheckQueues, Queued, Covered, WillNotify
      <4> QED
        BY <4>1, <4>2
    <3>5. CASE NotifyEvent(t)
      BY <3>5 DEF NotifyEvent, Covered
    <3>6. CASE CallSucceeds(t) \/ CallFails(t)
      <4>1. pc[t] = "blocking" /\ rqueue # {} /\ rqueue' = rqueue
        BY <2>4, <3>6 DEF CallSucceeds, CallFails, WillNotify
      <4>2. CASE Goto(t, "check")
        BY <4>1, <4>2 DEF Goto, Covered, WillNotify
      <4>3. CASE ReturnsSilently(t)
        BY <4>1, <4>3 DEF ReturnsSilently, Covered
      <4> QED
        BY <3>6, <4>2, <4>3 DEF CallSucceeds, CallFails
    <3>7. CASE ReadTimeoutAfter(t)
      <4>1. pc[t] = "timeoutAfter"
        BY <3>7 DEF ReadTimeoutAfter
      <4>2. CASE deadline[call[t]] < before[t]
        <5>1. call[t] \in AsyncCalls
          BY <4>1 DEF CallsOK
        <5>2. before[t] \in Times /\ deadline[call[t]] \in Times
          BY <5>1
        <5>3. deadline[call[t]] # Forever
          BY <4>2, <5>2, TimesFacts
        <5>4. call[t] \in pending
          BY <5>1, <5>3 DEF CallsOK
        <5>5. ASSUME NEW v \in Times, IsTimeout(v) PROVE v < before[t]
          BY <4>2, <5>2, <5>4, <5>5, TimesFacts DEF IsTimeout
        <5>6. Goto(t, "notify")
          BY <3>7, <5>5 DEF ReadTimeoutAfter
        <5> QED
          BY <5>6 DEF Goto, Covered, WillNotify
      <4>3. CASE rqueue # {} \/ t \in raced
        BY <3>7, <4>3 DEF ReadTimeoutAfter, Goto, Covered, WillNotify
      <4> QED
        BY <2>4, <4>1, <4>2, <4>3 DEF WillNotify
    <3> QED
      BY <3>3, <3>4, <3>5, <3>6, <3>7
  <2> QED
    BY <2>2, <2>3, <2>4 DEF Covered
<1> QED
  BY <1>1, <1>2, AsleepSteps

\* Fresh poll data account for everything.
LEMMA FreshPollData ==
    ASSUME TypeOK, ReadPollData
    PROVE  QueuesAnnounced' /\ DeadlinesAnnounced' /\ BaseFresh'
<1> USE DEF TypeOK, ReadPollData, bus, fds, lp, api
<1>1. IsTimeout(pollTimeout') /\ pollTimeout' \in Times
  OBVIOUS
<1>2. ~QueuesUnseen'
  <2>1. rqueue # {} => ~(pollTimeout' > 0)
    BY <1>1, TimesFacts DEF IsTimeout
  <2>2. wqueue # {} => pollOut'
    OBVIOUS
  <2> QED
    BY <2>1, <2>2 DEF QueuesUnseen
<1>3. ~DeadlineUnseen'
  BY <1>1, TimesFacts DEF IsTimeout, DeadlineUnseen
<1>4. \A t \in Callers : pc'[t] = "callAsync" => t \in raced'
  OBVIOUS
<1> QED
  BY <1>2, <1>3, <1>4 DEF QueuesAnnounced, DeadlinesAnnounced, BaseFresh

\* The loop can only fall asleep on fresh poll data.
LEMMA FallsAsleep ==
    ASSUME TypeOK, [Next]_vars, loop' = "poll", loop # "poll"
    PROVE  ReadPollData
<1>1. Next
  BY DEF vars, lp
<1>2. ASSUME NEW t \in Callers, Starts(t) PROVE FALSE
  BY <1>2 DEF Starts, Leave, SendMessage, EmitSilently, CallMethod, ReadTimeoutBefore,
     ReleaseSlot, lp
<1>3. ASSUME NEW t \in Callers, Continues(t) PROVE FALSE
  BY <1>3 DEF Continues, NotifyExit, Join, CheckQueues, NotifyEvent, StashMessage,
     FlushInCall, CallSucceeds, CallFails, CallAsync, ReadTimeoutAfter, lp
<1>4. ~Environment
  BY DEF Environment, PeerSignals, PeerReplies, KernelDrains, Tick, PollInterrupted, lp
<1>5. ~EnterEventLoopAsync
  BY DEF EnterEventLoopAsync
<1> QED
  BY <1>1, <1>2, <1>3, <1>4, <1>5 DEF Next, LoopStep, DispatchTimeout, DispatchWriteQueue,
     DispatchMessage, CallbackReturns, NothingToProcess, ClearEventFd, PollReturns,
     AcknowledgeEvent, AcknowledgeExit

\* The poll data of a sleeping loop do not change.
LEMMA PollDataStay ==
    ASSUME TypeOK, Next, loop = "poll", loop' = "poll"
    PROVE  pollTimeout' = pollTimeout /\ pollOut' = pollOut
<1>1. ASSUME NEW t \in Callers, Starts(t) PROVE UNCHANGED <<pollTimeout, pollOut>>
  BY <1>1 DEF Starts, Leave, SendMessage, EmitSilently, CallMethod, ReadTimeoutBefore,
     ReleaseSlot, lp
<1>2. ASSUME NEW t \in Callers, Continues(t) PROVE UNCHANGED <<pollTimeout, pollOut>>
  BY <1>2 DEF Continues, NotifyExit, Join, CheckQueues, NotifyEvent, StashMessage,
     FlushInCall, CallSucceeds, CallFails, CallAsync, ReadTimeoutAfter, lp
<1> QED
  BY <1>1, <1>2, AsleepSteps DEF PeerSignals, PeerReplies, KernelDrains, Tick, lp

\* Whoever fills a queue while the loop sleeps goes on to notify it.
LEMMA QueuesStep ==
    ASSUME TypeOK, Next, loop = "poll", loop' = "poll", QueuesAnnounced
    PROVE  QueuesAnnounced'
<1> USE DEF TypeOK, bus, fds, lp, api, hist
<1> DEFINE Checks(t) == pc[t] \in {"blocking", "timeoutAfter", "check", "notify"}
<1>0. QueuesUnseen' => Queued'
  BY DEF QueuesUnseen, Queued
<1> SUFFICES ASSUME QueuesUnseen', Queued'
             PROVE  eventFd' \/ lossy' \/ \E t \in Callers : Checks(t)'
  BY <1>0 DEF QueuesAnnounced
<1>1. CASE ~(\E t \in Callers : Starts(t) \/ Continues(t))
  BY <1>1, AsleepSteps, PollDataStay
     DEF PeerSignals, PeerReplies, KernelDrains, Tick, QueuesUnseen, QueuesAnnounced
<1>2. ASSUME NEW t \in Callers, Starts(t) PROVE eventFd' \/ lossy' \/ \E u \in Callers : Checks(u)'
  <2>1. ASSUME NEW stage \in Stages, pc[t] = "idle", Goto(t, stage),
               UNCHANGED <<eventFd, lossy, rqueue, wqueue>>
        PROVE  eventFd' \/ lossy' \/ \E u \in Callers : Checks(u)'
    <3>1. QueuesUnseen
      BY <2>1, PollDataStay DEF QueuesUnseen
    <3>2. CASE eventFd \/ lossy
      BY <2>1, <3>2
    <3>3. ASSUME NEW u \in Callers, Checks(u) PROVE Checks(u)'
      BY <2>1, <3>3 DEF Goto
    <3> QED
      BY <3>1, <3>2, <3>3 DEF QueuesAnnounced
  <2>2. CASE Leave(t)
    BY <2>1, <2>2 DEF Leave, MayCall
  <2>3. ASSUME NEW m \in Sends, SendMessage(t, m)
        PROVE  Checks(t)'
    BY <2>3 DEF SendMessage, Goto
  <2>4. ASSUME NEW m \in SilentSends, EmitSilently(t, m)
        PROVE  lossy'
    BY <2>4 DEF EmitSilently, ReturnsSilently, Queued
  <2>5. ASSUME NEW c \in Blocking, CallMethod(t, c)
        PROVE  Checks(t)'
    BY <2>5 DEF CallMethod, Goto
  <2>6. CASE \E c \in AsyncCalls : ReadTimeoutBefore(t, c)
    BY <2>1, <2>6 DEF ReadTimeoutBefore, MayCall
  <2>7. CASE \E c \in AsyncCalls : ReleaseSlot(t, c)
    BY <2>7, PollDataStay DEF ReleaseSlot, QueuesUnseen, QueuesAnnounced
  <2> QED
    BY <1>2, <2>2, <2>3, <2>4, <2>5, <2>6, <2>7 DEF Starts
<1>3. ASSUME NEW t \in Callers, Continues(t) PROVE eventFd' \/ lossy' \/ \E u \in Callers : Checks(u)'
  <2>1. CASE NotifyEvent(t) \/ CallAsync(t) \/ ReadTimeoutAfter(t) \/ CheckQueues(t)
    <3>1. CASE NotifyEvent(t)
      BY <3>1 DEF NotifyEvent
    <3>2. CASE ReadTimeoutAfter(t)
      BY <3>2 DEF ReadTimeoutAfter, Goto
    <3>3. CASE CheckQueues(t)
      BY <3>3 DEF CheckQueues, Queued, Goto
    <3>4. CASE CallAsync(t)
      <4>1. CASE Goto(t, "timeoutAfter")
        BY <4>1 DEF Goto
      <4>2. CASE Returns(t) /\ UNCHANGED <<wqueue, writable, pending, deadline>>
        <5>1. QueuesUnseen
          BY <3>4, <4>2, PollDataStay DEF CallAsync, QueuesUnseen
        <5>2. ASSUME NEW u \in Callers, Checks(u) PROVE Checks(u)'
          BY <3>4, <4>2, <5>2 DEF CallAsync, Returns, Goto
        <5> QED
          BY <3>4, <5>1, <5>2 DEF QueuesAnnounced, CallAsync
      <4> QED
        BY <3>4, <4>1, <4>2 DEF CallAsync
    <3> QED
      BY <2>1, <3>1, <3>2, <3>3, <3>4
  <2>2. CASE NotifyExit(t) \/ Join(t)
    <3>1. QueuesUnseen /\ (eventFd => eventFd') /\ (lossy => lossy')
      BY <2>2, PollDataStay DEF NotifyExit, Join, QueuesUnseen
    <3>2. ASSUME NEW u \in Callers, Checks(u) PROVE Checks(u)'
      BY <2>2, <3>2 DEF NotifyExit, Join, Returns, Goto
    <3> QED
      BY <3>1, <3>2 DEF QueuesAnnounced
  <2>3. CASE \E m \in Incoming : StashMessage(t, m)
    BY <2>3 DEF StashMessage
  <2>4. CASE FlushInCall(t)
    BY <2>4 DEF FlushInCall
  <2>5. CASE CallSucceeds(t) \/ CallFails(t)
    <3>1. CASE Goto(t, "check")
      BY <3>1 DEF Goto
    <3>2. CASE ReturnsSilently(t)
      BY <3>2 DEF ReturnsSilently, Queued
    <3> QED
      BY <2>5, <3>1, <3>2 DEF CallSucceeds, CallFails
  <2> QED
    BY <1>3, <2>1, <2>2, <2>3, <2>4, <2>5 DEF Continues
<1> QED
  BY <1>1, <1>2, <1>3

\* A new timer is announced by the call that sets it, or by whatever makes the
\* comparison of that call useless.
LEMMA DeadlinesStep ==
    ASSUME TypeOK, TypeOK', CallsOK, Next, loop = "poll", loop' = "poll",
           DeadlinesAnnounced, BaseFresh
    PROVE  DeadlinesAnnounced'
<1> SUFFICES ASSUME DeadlineUnseen' PROVE Covered'
  BY DEF DeadlinesAnnounced
<1> USE DEF TypeOK, bus, fds, lp, api, hist
<1>1. CASE DeadlineUnseen
  BY <1>1, CoveredStays DEF DeadlinesAnnounced
<1>2. CASE ~DeadlineUnseen
  <2>1. PICK c \in pending' : deadline'[c] < pollTimeout
    BY PollDataStay DEF DeadlineUnseen
  <2>2. ~(c \in pending /\ deadline'[c] = deadline[c])
    BY <1>2, <2>1 DEF DeadlineUnseen
  <2>3. PICK t \in Callers : CallAsync(t)
    <3>1. ASSUME NEW t \in Callers, Starts(t) PROVE FALSE
      BY <2>1, <2>2, <3>1 DEF Starts, Leave, SendMessage, EmitSilently, CallMethod,
         ReadTimeoutBefore, ReleaseSlot, Forget
    <3>2. ASSUME NEW t \in Callers, Continues(t), ~CallAsync(t) PROVE FALSE
      BY <2>1, <2>2, <3>2 DEF Continues, NotifyExit, Join, CheckQueues, NotifyEvent,
         StashMessage, FlushInCall, CallSucceeds, CallFails, ReadTimeoutAfter
    <3> QED
      BY <2>1, <2>2, <3>1, <3>2, AsleepSteps DEF PeerSignals, PeerReplies, KernelDrains, Tick
  <2>4. /\ pc[t] = "callAsync" /\ call[t] \in AsyncCalls /\ c = call[t]
        /\ pc'[t] = "timeoutAfter"
        /\ UNCHANGED <<call, before, raced>>
    BY <2>1, <2>2, <2>3 DEF CallAsync, CallsOK, Goto, Returns
  <2>5. CASE t \in raced
    BY <2>4, <2>5 DEF Covered, WillNotify
  <2>6. CASE t \notin raced /\ before[t] < pollTimeout
    BY <2>4, <2>6, CoveredStays DEF BaseFresh
  <2>7. CASE ~(before[t] < pollTimeout)
    <3>1. before[t] \in Times /\ pollTimeout \in Times /\ deadline'[c] \in Times
      BY <2>4
    <3>2. deadline'[c] < before[t]
      BY <2>1, <2>7, <3>1, TimesFacts
    <3> QED
      BY <2>4, <3>2 DEF Covered, WillNotify
  <2> QED
    BY <2>5, <2>6, <2>7
<1> QED
  BY <1>1, <1>2

\* A call that starts reads a timeout that is no earlier than the one the loop
\* sleeps on, or someone is already on the way to wake the loop.
LEMMA BaseStep ==
    ASSUME TypeOK, TypeOK', CallsOK, Next, loop = "poll", loop' = "poll",
           QueuesAnnounced, DeadlinesAnnounced, BaseFresh
    PROVE  BaseFresh'
<1> SUFFICES ASSUME NEW t \in Callers, pc'[t] = "callAsync", t \notin raced',
                    before'[t] < pollTimeout
             PROVE  Covered'
  BY PollDataStay DEF BaseFresh
<1> USE DEF TypeOK, bus, fds, lp, api, hist
<1>1. CASE Covered
  BY <1>1, CoveredStays
<1>2. CASE ~Covered
  <2>1. ~(pc[t] = "callAsync" /\ before[t] = before'[t] /\ t \notin raced)
    BY <1>2 DEF BaseFresh
  <2>2. PICK c \in AsyncCalls : ReadTimeoutBefore(t, c)
    <3>1. ASSUME NEW u \in Callers, Starts(u), ~(\E c \in AsyncCalls : ReadTimeoutBefore(t, c))
          PROVE  FALSE
      BY <2>1, <3>1 DEF Starts, Leave, SendMessage, EmitSilently, ReturnsSilently,
         CallMethod, ReadTimeoutBefore, ReleaseSlot, Returns, Goto
    <3>2. ASSUME NEW u \in Callers, Continues(u) PROVE FALSE
      BY <2>1, <3>2 DEF Continues, NotifyExit, Join, CheckQueues, NotifyEvent,
         StashMessage, FlushInCall, CallSucceeds, CallFails, ReturnsSilently, CallAsync,
         ReadTimeoutAfter, Returns, Goto
    <3> QED
      BY <2>1, <3>1, <3>2, AsleepSteps DEF PeerSignals, PeerReplies, KernelDrains, Tick
  <2>3. IsTimeout(before'[t]) /\ before'[t] \in Times
    BY <2>2 DEF ReadTimeoutBefore
  <2>4. CASE rqueue = {}
    <3>1. before'[t] # Forever
      BY <2>3, TimesFacts
    <3>2. PICK a \in pending : before'[t] = deadline[a]
      BY <2>3, <2>4, <3>1 DEF IsTimeout
    <3>3. DeadlineUnseen
      BY <3>2 DEF DeadlineUnseen
    <3> QED
      BY <1>2, <3>3 DEF DeadlinesAnnounced
  <2>5. CASE rqueue # {}
    <3>1. QueuesUnseen
      BY <2>3, <2>5, TimesFacts DEF IsTimeout, QueuesUnseen
    <3> QED
      BY <1>2, <2>5, <3>1 DEF QueuesAnnounced, Covered, WillNotify
  <2> QED
    BY <2>4, <2>5
<1> QED
  BY <1>1, <1>2

\* The parts of the invariant are inductive together.
LEMMA WakeStep == TypeOK /\ WakeInv /\ [Next]_vars => WakeInv'
<1> SUFFICES ASSUME TypeOK, WakeInv, [Next]_vars PROVE WakeInv'
  OBVIOUS
<1> USE DEF WakeInv
<1>1. TypeOK' /\ CallsOK'
  BY TypingStep, CallsStep
<1>2. CASE UNCHANGED vars
  BY <1>2 DEF vars, bus, fds, lp, api, hist, CallsOK, QueuesAnnounced, QueuesUnseen,
     DeadlinesAnnounced, DeadlineUnseen, BaseFresh, Covered, WillNotify
<1>3. CASE loop' # "poll"
  BY <1>1, <1>3 DEF QueuesAnnounced, DeadlinesAnnounced, BaseFresh
<1>4. CASE loop' = "poll" /\ loop # "poll"
  BY <1>1, <1>4, FallsAsleep, FreshPollData
<1>5. CASE Next /\ loop' = "poll" /\ loop = "poll"
  BY <1>1, <1>5, QueuesStep, DeadlinesStep, BaseStep
<1> QED
  BY <1>2, <1>3, <1>4, <1>5

\* The wake-up protocol: what WakeInv says of the event descriptor, the published
\* deadline and the requests of the writers holds at every step.
LEMMA WakeInvariant == Spec => []WakeInv
<1>1. Init => TypeOK /\ WakeInv
  <2>1. Init => TypeOK /\ CallsOK
    BY ConstantsAssumption, TimesFacts DEF Init, TypeOK, CallsOK
  <2> QED
    BY <2>1 DEF Init, WakeInv, QueuesAnnounced, DeadlinesAnnounced, BaseFresh
<1>2. TypeOK /\ WakeInv /\ [Next]_vars => (TypeOK /\ WakeInv)'
  BY TypingStep, WakeStep DEF WakeInv
<1> QED
  BY <1>1, <1>2, PTL DEF Spec

\* No message waits in a queue of sd-bus behind a sleeping loop that nobody
\* will wake, except on the paths that skip the wake-up.
THEOREM NoSleepOverMessages == Spec => []QueuesAnnounced
<1>1. WakeInv => QueuesAnnounced
  BY DEF WakeInv
<1> QED
  BY <1>1, WakeInvariant, PTL

\* No pending call's timer runs behind a sleeping loop that nobody will wake,
\* except when callMethodAsync compared with poll data the loop had renewed.
THEOREM NoSleepOverDeadlines == Spec => []DeadlinesAnnounced
<1>1. WakeInv => DeadlinesAnnounced
  BY DEF WakeInv
<1> QED
  BY <1>1, WakeInvariant, PTL

-----------------------------------------------------------------------------
(* Leaving the loop.                                                        *)

\* The exit notification of a leaveEventLoop that waits is consumed by the loop
\* on its way out and by nothing else.
THEOREM LeaveIsSeen == Spec => []ExitNotLost
<1>1. Init => ExitNotLost
  BY ConstantsAssumption DEF Init, ExitNotLost, Running
<1>2. TypeOK /\ ExitNotLost /\ [Next]_vars => ExitNotLost'
  <2> SUFFICES ASSUME TypeOK, ExitNotLost, [Next]_vars, pc'[Owner] = "join", Running'
               PROVE  exitFd' \/ loop' = "clearExit"
    BY DEF ExitNotLost
  <2> USE ConstantsAssumption DEF TypeOK, ExitNotLost, Running, bus, fds, lp, api, hist
  <2>1. CASE EnterEventLoopAsync
    BY <2>1 DEF EnterEventLoopAsync
  <2>2. CASE LoopStep
    BY <2>2 DEF LoopStep, DispatchTimeout, DispatchWriteQueue, DispatchMessage,
       CallbackReturns, NothingToProcess, ClearEventFd, ReadPollData, PollReturns,
       AcknowledgeEvent, AcknowledgeExit
  <2>3. ASSUME NEW t \in Callers, Starts(t) PROVE exitFd' \/ loop' = "clearExit"
    BY <2>3 DEF Starts, Leave, SendMessage, EmitSilently, ReturnsSilently, CallMethod,
       ReadTimeoutBefore, ReleaseSlot, Returns, Goto
  <2>4. ASSUME NEW t \in Callers, Continues(t) PROVE exitFd' \/ loop' = "clearExit"
    BY <2>4 DEF Continues, NotifyExit, Join, CheckQueues, NotifyEvent, StashMessage,
       FlushInCall, CallSucceeds, CallFails, ReturnsSilently, CallAsync, ReadTimeoutAfter,
       Returns, Goto
  <2>5. CASE Environment
    BY <2>5 DEF Environment, PeerSignals, PeerReplies, KernelDrains, Tick, PollInterrupted
  <2>6. CASE UNCHANGED vars
    BY <2>6 DEF vars
  <2> QED
    BY <2>1, <2>2, <2>3, <2>4, <2>5, <2>6 DEF Next
<1> QED
  BY <1>1, <1>2, TypeCorrect, PTL DEF Spec

-----------------------------------------------------------------------------
(* Access to sd-bus is serialized.                                          *)

\* The mutex keeps to the threads that are in sd-bus.
LEMMA MutexStep == TypeOK /\ MutexOK /\ [Next]_vars => MutexOK'
<1> SUFFICES ASSUME TypeOK, MutexOK, [Next]_vars PROVE MutexOK'
  OBVIOUS
<1> USE ConstantsAssumption DEF TypeOK, MutexOK, InBus, bus, fds, lp, api, hist, Free, MayCall, Goto
<1>1. CASE EnterEventLoopAsync
  BY <1>1 DEF EnterEventLoopAsync
<1>2. CASE LoopStep
  <2>1. CASE \E c \in AsyncCalls : DispatchTimeout(c)
    BY <2>1 DEF DispatchTimeout
  <2>2. CASE DispatchWriteQueue
    BY <2>2 DEF DispatchWriteQueue
  <2>3. CASE \E m \in Incoming : DispatchMessage(m)
    BY <2>3 DEF DispatchMessage
  <2>4. CASE CallbackReturns
    BY <2>4 DEF CallbackReturns
  <2>5. CASE NothingToProcess \/ ClearEventFd \/ AcknowledgeEvent \/ AcknowledgeExit
    BY <2>5 DEF NothingToProcess, ClearEventFd, AcknowledgeEvent, AcknowledgeExit
  <2>6. CASE ReadPollData \/ PollReturns
    BY <2>6 DEF ReadPollData, PollReturns
  <2> QED
    BY <1>2, <2>1, <2>2, <2>3, <2>4, <2>5, <2>6 DEF LoopStep
<1>3. ASSUME NEW t \in Callers, Starts(t) PROVE MutexOK'
  <2>1. CASE Leave(t)
    BY <2>1 DEF Leave
  <2>2. ASSUME NEW m \in Sends, SendMessage(t, m) PROVE MutexOK'
    BY <2>2 DEF SendMessage
  <2>3. ASSUME NEW m \in SilentSends, EmitSilently(t, m) PROVE MutexOK'
    BY <2>3 DEF EmitSilently, ReturnsSilently, Returns
  <2>4. ASSUME NEW c \in Blocking, CallMethod(t, c) PROVE MutexOK'
    BY <2>4 DEF CallMethod
  <2>5. ASSUME NEW c \in AsyncCalls, ReadTimeoutBefore(t, c) \/ ReleaseSlot(t, c) PROVE MutexOK'
    BY <2>5 DEF ReadTimeoutBefore, ReleaseSlot
  <2> QED
    BY <1>3, <2>1, <2>2, <2>3, <2>4, <2>5 DEF Starts
<1>4. ASSUME NEW t \in Callers, Continues(t) PROVE MutexOK'
  <2>1. CASE NotifyExit(t) \/ Join(t) \/ CheckQueues(t) \/ NotifyEvent(t)
    BY <2>1 DEF NotifyExit, Join, CheckQueues, NotifyEvent, Returns
  <2>2. CASE (\E m \in Incoming : StashMessage(t, m)) \/ FlushInCall(t)
    BY <2>2 DEF StashMessage, FlushInCall
  <2>3. CASE CallSucceeds(t)
    BY <2>3 DEF CallSucceeds, Unlock, ReturnsSilently, Returns
  <2>4. CASE CallFails(t)
    BY <2>4 DEF CallFails, Unlock, ReturnsSilently, Returns
  <2>5. CASE CallAsync(t) \/ ReadTimeoutAfter(t)
    BY <2>5 DEF CallAsync, ReadTimeoutAfter, Returns
  <2> QED
    BY <1>4, <2>1, <2>2, <2>3, <2>4, <2>5 DEF Continues
<1>5. CASE Environment
  BY <1>5 DEF Environment, PeerSignals, PeerReplies, KernelDrains, Tick, PollInterrupted
<1>6. CASE UNCHANGED vars
  BY <1>6 DEF vars
<1> QED
  BY <1>1, <1>2, <1>3, <1>4, <1>5, <1>6 DEF Next

\* Every step leaves a thread in sd-bus undisturbed, but its own.
LEMMA SerialStep ==
    ASSUME TypeOK, MutexOK, Next, NEW t \in Callers, mutex = t
    PROVE  Undisturbed(t)
<1>1. t # None /\ Loop \in Callers /\ InBus(t) /\ \A u \in Callers \ {t} : ~InBus(u) /\ ~Free(u)
  BY ConstantsAssumption DEF MutexOK, Free
<1> USE DEF Undisturbed, LoopUsesBus, NotInBus, bus, fds, lp, api, hist, TypeOK
<1>2. CASE EnterEventLoopAsync
  BY <1>2 DEF EnterEventLoopAsync
<1>3. CASE LoopStep
  <2>1. pc' = pc
    BY <1>3 DEF LoopStep, DispatchTimeout, DispatchWriteQueue, DispatchMessage, CallbackReturns,
       NothingToProcess, ClearEventFd, ReadPollData, PollReturns, AcknowledgeEvent, AcknowledgeExit
  <2>2. pc[t] = "blocking" => UNCHANGED <<pending, socket>>
    <3>1. CASE t = Loop
      BY <1>3, <3>1 DEF MutexOK, LoopStep, DispatchTimeout, DispatchWriteQueue, DispatchMessage,
         CallbackReturns, NothingToProcess, ClearEventFd, ReadPollData, PollReturns, AcknowledgeEvent,
         AcknowledgeExit
    <3>2. CASE t # Loop
      BY <1>1, <1>3, <3>2 DEF LoopStep, DispatchTimeout, DispatchWriteQueue, DispatchMessage,
         CallbackReturns, NothingToProcess, ClearEventFd, ReadPollData, PollReturns, AcknowledgeEvent,
         AcknowledgeExit
    <3> QED
      BY <3>1, <3>2
  <2>3. used' = used /\ ~LoopUsesBus
    <3>1. CASE t = Loop
      <4>1. loop \notin {"process", "pollData"}
        BY <1>1, <3>1 DEF MutexOK, InBus
      <4> QED
        BY <1>3, <4>1 DEF LoopStep, DispatchTimeout, DispatchWriteQueue, DispatchMessage, CallbackReturns,
           NothingToProcess, ClearEventFd, ReadPollData, PollReturns, AcknowledgeEvent, AcknowledgeExit
    <3>2. CASE t # Loop
      BY <1>1, <1>3, <3>2 DEF LoopStep, DispatchTimeout, DispatchWriteQueue, DispatchMessage,
         CallbackReturns, NothingToProcess, ClearEventFd, ReadPollData, PollReturns, AcknowledgeEvent,
         AcknowledgeExit
    <3> QED
      BY <3>1, <3>2
  <2> QED
    BY <2>1, <2>2, <2>3
<1>4. ASSUME NEW u \in Callers, Starts(u) PROVE Undisturbed(t)
  <2>1. CASE Leave(u)
    BY <2>1 DEF Leave, Goto
  <2>2. CASE u = t
    BY <1>4, <2>2 DEF Starts, Leave, SendMessage, EmitSilently, CallMethod, ReadTimeoutBefore, ReleaseSlot,
       MayCall, Goto, ReturnsSilently, Returns
  <2> QED
    BY <1>1, <1>4, <2>1, <2>2 DEF Starts, SendMessage, EmitSilently, CallMethod, ReadTimeoutBefore,
       ReleaseSlot
<1>5. ASSUME NEW u \in Callers, Continues(u) PROVE Undisturbed(t)
  <2>1. CASE NotifyExit(u) \/ Join(u) \/ NotifyEvent(u)
    BY <2>1 DEF NotifyExit, Join, NotifyEvent, Goto, Returns
  <2>2. CASE CheckQueues(u) \/ CallAsync(u) \/ ReadTimeoutAfter(u)
    <3>1. u = t /\ pc[t] # "blocking"
      BY <1>1, <2>2 DEF CheckQueues, CallAsync, ReadTimeoutAfter
    <3> QED
      BY <2>2, <3>1 DEF CheckQueues, CallAsync, ReadTimeoutAfter, Goto, Returns
  <2>3. CASE (\E m \in Incoming : StashMessage(u, m)) \/ FlushInCall(u)
    <3>1. u = t
      BY <1>1, <2>3 DEF StashMessage, FlushInCall, InBus
    <3> QED
      BY <2>3, <3>1 DEF StashMessage, FlushInCall
  <2>4. CASE CallSucceeds(u) \/ CallFails(u)
    <3>1. u = t
      BY <1>1, <2>4 DEF CallSucceeds, CallFails, InBus
    <3>2. pc'[t] # "blocking" /\ \A v \in Callers \ {t} : pc'[v] = pc[v]
      BY <2>4, <3>1 DEF CallSucceeds, CallFails, ReturnsSilently, Returns, Goto
    <3>3. UNCHANGED <<used, loop>>
      BY <2>4 DEF CallSucceeds, CallFails
    <3> QED
      BY <3>2, <3>3
  <2> QED
    BY <1>5, <2>1, <2>2, <2>3, <2>4 DEF Continues
<1>6. CASE Environment
  BY <1>6 DEF Environment, PeerSignals, PeerReplies, KernelDrains, Tick, PollInterrupted
<1> QED
  BY <1>2, <1>3, <1>4, <1>5, <1>6 DEF Next

\* The mutex passes from one thread to another only when it has been free.
LEMMA MutexHandedOver ==
    ASSUME TypeOK, MutexOK, Next, NEW t \in Callers, mutex = t
    PROVE  mutex' \in {t, None}
<1>1. t # None /\ Loop \in Callers /\ \A u \in Callers \ {t} : pc[u] # "blocking" /\ ~Free(u)
  BY ConstantsAssumption DEF MutexOK, Free, InBus
<1> USE DEF bus, fds, lp, api, hist
<1>2. CASE LoopStep
  BY <1>1, <1>2 DEF LoopStep, DispatchTimeout, DispatchWriteQueue, DispatchMessage, CallbackReturns,
     NothingToProcess, ClearEventFd, ReadPollData, PollReturns, AcknowledgeEvent, AcknowledgeExit
<1>3. ASSUME NEW u \in Callers, Starts(u) \/ Continues(u) PROVE mutex' \in {t, None}
  BY <1>1, <1>3 DEF Starts, Leave, SendMessage, EmitSilently, CallMethod, ReadTimeoutBefore, ReleaseSlot,
     Continues, NotifyExit, Join, CheckQueues, NotifyEvent, StashMessage, FlushInCall, CallSucceeds,
     CallFails, CallAsync, ReadTimeoutAfter, Unlock
<1>4. CASE EnterEventLoopAsync \/ Environment
  BY <1>4 DEF EnterEventLoopAsync, Environment, PeerSignals, PeerReplies, KernelDrains, Tick, PollInterrupted
<1> QED
  BY <1>2, <1>3, <1>4 DEF Next

\* Who is in sd-bus is what the mutex says.
LEMMA MutexInvariant == Spec => []MutexOK
<1>1. Init => MutexOK
  BY ConstantsAssumption DEF Init, MutexOK, InBus
<1> QED
  BY <1>1, MutexStep, TypeCorrect, PTL DEF Spec

\* No thread gets into sd-bus while another is in it, and a blocking call finds
\* the reply that has come for it.
THEOREM BusIsSerialized == Spec => Serialized
<1>1. TypeOK /\ MutexOK /\ MutexOK' /\ [Next]_vars =>
          [\A t \in Callers : InBus(t) =>
              (\A u \in Callers \ {t} : ~InBus(u)') /\ Undisturbed(t)]_vars
  <2> SUFFICES ASSUME TypeOK, MutexOK, MutexOK', Next, NEW t \in Callers, InBus(t)
               PROVE  (\A u \in Callers \ {t} : ~InBus(u)') /\ Undisturbed(t)
    OBVIOUS
  <2>1. mutex = t /\ mutex' \in {t, None}
    BY MutexHandedOver DEF MutexOK
  <2>2. \A u \in Callers \ {t} : ~InBus(u)'
    BY <2>1, ConstantsAssumption DEF MutexOK
  <2> QED
    BY <2>1, <2>2, SerialStep
<1> QED
  BY <1>1, TypeCorrect, MutexInvariant, PTL DEF Spec, Serialized

-----------------------------------------------------------------------------
(* Loops of the application.                                                *)

\* What only the loop of the application does: it moves on, never into poll()
\* and neither into nor out of a callback.
Rounds ==
    /\ loop \notin {"process", "callback"} /\ loop' \in LoopStates \ {"poll", "callback"}
    /\ UNCHANGED <<bus, mutex, fds, pollTimeout, pollOut, api, hist>>

\* A step under an external loop is a step of the connection, or a round of the
\* loop that leaves the connection alone.
LEMMA XStepIsStep == [XNext]_xvars => [Next]_vars \/ Rounds
<1> SUFFICES ASSUME [XNext]_xvars PROVE [Next]_vars \/ Rounds
  OBVIOUS
<1>1. CASE Attach \/ Detach
  BY <1>1 DEF Attach, Detach, Rounds, LoopStates
<1>2. CASE Prepare
  BY <1>2 DEF Prepare, Next, LoopStep
<1>3. CASE SdEventPolls
  BY <1>3 DEF SdEventPolls, Rounds, LoopStates
<1>4. CASE \E s \in Sources : SdEventDispatches(s)
  BY <1>4 DEF SdEventDispatches, Rounds, LoopStates
<1>5. CASE CustomPolls
  BY <1>5 DEF CustomPolls, Rounds, LoopStates
<1>6. CASE Process
  BY <1>6 DEF Process, Next, LoopStep
<1>7. CASE PollEndsEarly
  BY <1>7 DEF PollEndsEarly, Rounds, LoopStates
<1>8. ASSUME NEW t \in Callers, ApiStep(t) PROVE Next
  BY <1>8 DEF ApiStep, Next, Starts
<1>9. CASE Around
  BY <1>9 DEF Around, Next, Environment
<1>10. CASE UNCHANGED xvars
  BY <1>10 DEF xvars
<1> QED
  BY <1>1, <1>2, <1>3, <1>4, <1>5, <1>6, <1>7, <1>8, <1>9, <1>10 DEF XNext, ExternalStep

\* A round of the external loop keeps what the connection's proof rests on.
LEMMA RoundsKeep == TypeOK /\ WakeInv /\ Rounds => (TypeOK /\ WakeInv)'
<1> SUFFICES ASSUME TypeOK, WakeInv, Rounds PROVE TypeOK' /\ WakeInv'
  OBVIOUS
<1> USE DEF Rounds, bus, fds, api, hist
<1>1. TypeOK'
  BY DEF TypeOK
<1>2. CallsOK'
  BY DEF WakeInv, CallsOK
<1>3. loop' # "poll"
  OBVIOUS
<1> QED
  BY <1>1, <1>2, <1>3 DEF WakeInv, QueuesAnnounced, DeadlinesAnnounced, BaseFresh

\* The invariant of the internal loop is one of the application's loops.
THEOREM ExternalWakeInvariant == XSpec => [](TypeOK /\ WakeInv)
<1>1. XInit => TypeOK /\ WakeInv
  <2>1. Init => TypeOK /\ CallsOK
    BY ConstantsAssumption, TimesFacts DEF Init, TypeOK, CallsOK
  <2> QED
    BY <2>1 DEF XInit, Init, WakeInv, QueuesAnnounced, DeadlinesAnnounced, BaseFresh
<1>2. TypeOK /\ WakeInv /\ [XNext]_xvars => (TypeOK /\ WakeInv)'
  BY XStepIsStep, RoundsKeep, TypingStep, WakeStep DEF WakeInv
<1> QED
  BY <1>1, <1>2, PTL DEF XSpec

\* No message waits in a queue of sd-bus behind a sleeping loop of the
\* application, attached or custom, that nobody will wake.
THEOREM ExternalNoSleepOverMessages == XSpec => []QueuesAnnounced
<1>1. WakeInv => QueuesAnnounced
  BY DEF WakeInv
<1> QED
  BY <1>1, ExternalWakeInvariant, PTL

\* No deadline passes behind a sleeping loop of the application that nobody
\* will wake, except for the race with fresh poll data.
THEOREM ExternalNoSleepOverDeadlines == XSpec => []DeadlinesAnnounced
<1>1. WakeInv => DeadlinesAnnounced
  BY DEF WakeInv
<1> QED
  BY <1>1, ExternalWakeInvariant, PTL

\* A loop of the application shares sd-bus with the other threads as the internal
\* loop does: nobody gets in while it runs a callback, and it dispatches nothing
\* while a blocking call waits for its reply.
THEOREM ExternalBusIsSerialized == XSpec => Serialized
<1>1. XInit => MutexOK
  BY ConstantsAssumption DEF XInit, Init, MutexOK, InBus
<1>2. TypeOK /\ MutexOK /\ [XNext]_xvars => MutexOK'
  <2>1. MutexOK /\ Rounds => MutexOK'
    BY DEF Rounds, MutexOK, InBus, api
  <2> QED
    BY <2>1, XStepIsStep, MutexStep
<1>3. TypeOK /\ MutexOK /\ MutexOK' /\ [XNext]_xvars =>
          [\A t \in Callers : InBus(t) =>
              (\A u \in Callers \ {t} : ~InBus(u)') /\ Undisturbed(t)]_vars
  <2> SUFFICES ASSUME TypeOK, MutexOK, MutexOK', Next \/ Rounds, NEW t \in Callers, InBus(t)
               PROVE  (\A u \in Callers \ {t} : ~InBus(u)') /\ Undisturbed(t)
    BY XStepIsStep
  <2>1. CASE Next
    BY <2>1, MutexHandedOver, SerialStep, ConstantsAssumption DEF MutexOK
  <2>2. CASE Rounds
    <3>1. UNCHANGED <<bus, api, mutex>> /\ mutex = t
      BY <2>2 DEF Rounds, MutexOK
    <3>2. \A u \in Callers \ {t} : ~InBus(u)'
      BY <3>1, ConstantsAssumption DEF MutexOK
    <3> QED
      BY <2>2, <3>1, <3>2 DEF Undisturbed, LoopUsesBus, NotInBus, Rounds, bus, api
  <2> QED
    BY <2>1, <2>2
<1>4. XSpec => []MutexOK
  BY <1>1, <1>2, ExternalWakeInvariant, PTL DEF XSpec
<1> QED
  BY <1>3, <1>4, ExternalWakeInvariant, PTL DEF XSpec, Serialized
=============================================================================
