---------------------------- MODULE ResultsProofs ----------------------------
(***************************************************************************)
(* Proofs about futures and awaitables, for every set of calls and of       *)
(* coroutines.                                                              *)
(***************************************************************************)
EXTENDS Results, TLAPS

\* Results keep their types.
LEMMA TypingStep == IInv /\ [Next]_vars => TypeOK'
<1> SUFFICES ASSUME IInv, [Next]_vars PROVE TypeOK'
  OBVIOUS
<1> USE DEF IInv, Calls, Threads, Goto, Handler, calling, data, code, TypeOK, Calling!TypeOK,
           Calling!CallStates, Calling!Issue, Calling!Deliver, Calling!Return, Calling!Cancel, Calling!Move,
           Outcome, Stages, Points, HandlersOK, StatusOK, CoroutinesOK, Parked
<1>1. ASSUME NEW c \in Calls, Issue(c) PROVE TypeOK'
  BY <1>1 DEF Issue
<1>2. ASSUME NEW c \in Calls, Deliver(c) PROVE TypeOK'
  BY <1>2 DEF Deliver
<1>3. ASSUME NEW c \in Calls, Cancel(c) PROVE TypeOK'
  BY <1>3 DEF Cancel
<1>4. ASSUME NEW c \in Calls, StoreResult(c) PROVE TypeOK'
  BY <1>4 DEF StoreResult
<1>5. ASSUME NEW c \in Calls, Complete(c) PROVE TypeOK'
  BY <1>5 DEF Complete
<1>6. ASSUME NEW c \in Calls, ResumeCoroutine(c) PROVE TypeOK'
  BY <1>6 DEF ResumeCoroutine
<1>7. ASSUME NEW c \in Calls, CoroutineYields(c) PROVE TypeOK'
  BY <1>7 DEF CoroutineYields
<1>8. ASSUME NEW c \in Calls, HandlerReturns(c) PROVE TypeOK'
  BY <1>8 DEF HandlerReturns
<1>9. ASSUME NEW c \in Calls, DropPromise(c) PROVE TypeOK'
  BY <1>9 DEF DropPromise
<1>10. ASSUME NEW k \in Coroutines, NEW t \in Threads, AwaitReady(k, t) PROVE TypeOK'
  BY <1>10 DEF AwaitReady
<1>11. ASSUME NEW k \in Coroutines, NEW t \in Threads, StoreHandle(k, t) PROVE TypeOK'
  BY <1>11 DEF StoreHandle
<1>12. ASSUME NEW k \in Coroutines, NEW t \in Threads, AwaitSuspend(k, t) PROVE TypeOK'
  <2>1. call[k] \in Awaitables
    BY <1>12 DEF AwaitSuspend
  <2>2. status' \in [Awaitables -> {"NotReady", "Waiting", "Completed"}]
    BY <1>12, <2>1 DEF AwaitSuspend
  <2>3. PICK p \in {"off", "resume"} : at' = [at EXCEPT ![k][t] = p]
    BY <1>12 DEF AwaitSuspend
  <2>4. at' \in [Coroutines -> [Threads -> Points]]
    BY <2>3
  <2> QED
    BY <1>12, <2>2, <2>4 DEF AwaitSuspend
<1>13. ASSUME NEW k \in Coroutines, NEW t \in Threads, AwaitResume(k, t) PROVE TypeOK'
  BY <1>13 DEF AwaitResume
<1>14. ASSUME NEW k \in Coroutines, NEW t \in Threads, CoReturn(k, t) PROVE TypeOK'
  BY <1>14 DEF CoReturn
<1>15. ASSUME NEW k \in Coroutines, NEW t \in Threads, NEW c \in Awaitables, CoAwait(k, t, c)
      PROVE  TypeOK'
  BY <1>15 DEF CoAwait
<1>16. CASE UNCHANGED vars
  BY <1>16 DEF vars, code
<1> QED
  BY <1>1, <1>2, <1>3, <1>4, <1>5, <1>6, <1>7, <1>8, <1>9, <1>10, <1>11, <1>12, <1>13, <1>14, <1>15,
     <1>16 DEF Next, HandlerStep, AwaitStep, BodyStep

\* Reply handlers go through their stages with the calls.
LEMMA HandlersStep == IInv /\ [Next]_vars => HandlersOK'
<1> SUFFICES ASSUME IInv, [Next]_vars PROVE HandlersOK'
  OBVIOUS
<1> USE DEF IInv, Calls, Threads, Goto, Handler, calling, data, code, TypeOK, Calling!TypeOK,
           Calling!CallStates, Calling!Issue, Calling!Deliver, Calling!Return, Calling!Cancel, Calling!Move,
           Outcome, HandlersOK
<1>1. ASSUME NEW c \in Calls, Issue(c) PROVE HandlersOK'
  BY <1>1 DEF Issue
<1>2. ASSUME NEW c \in Calls, Deliver(c) PROVE HandlersOK'
  BY <1>2 DEF Deliver
<1>3. ASSUME NEW c \in Calls, Cancel(c) PROVE HandlersOK'
  BY <1>3 DEF Cancel
<1>4. ASSUME NEW c \in Calls, StoreResult(c) PROVE HandlersOK'
  BY <1>4 DEF StoreResult
<1>5. ASSUME NEW c \in Calls, Complete(c) PROVE HandlersOK'
  BY <1>5 DEF Complete
<1>6. ASSUME NEW c \in Calls, ResumeCoroutine(c) PROVE HandlersOK'
  BY <1>6 DEF ResumeCoroutine
<1>7. ASSUME NEW c \in Calls, CoroutineYields(c) PROVE HandlersOK'
  BY <1>7 DEF CoroutineYields
<1>8. ASSUME NEW c \in Calls, HandlerReturns(c) PROVE HandlersOK'
  BY <1>8 DEF HandlerReturns
<1>9. ASSUME NEW c \in Calls, DropPromise(c) PROVE HandlersOK'
  BY <1>9 DEF DropPromise
<1>10. ASSUME NEW k \in Coroutines, NEW t \in Threads, AwaitReady(k, t) PROVE HandlersOK'
  BY <1>10 DEF AwaitReady
<1>11. ASSUME NEW k \in Coroutines, NEW t \in Threads, StoreHandle(k, t) PROVE HandlersOK'
  BY <1>11 DEF StoreHandle
<1>12. ASSUME NEW k \in Coroutines, NEW t \in Threads, AwaitSuspend(k, t) PROVE HandlersOK'
  BY <1>12 DEF AwaitSuspend
<1>13. ASSUME NEW k \in Coroutines, NEW t \in Threads, AwaitResume(k, t) PROVE HandlersOK'
  BY <1>13 DEF AwaitResume
<1>14. ASSUME NEW k \in Coroutines, NEW t \in Threads, CoReturn(k, t) PROVE HandlersOK'
  BY <1>14 DEF CoReturn
<1>15. ASSUME NEW k \in Coroutines, NEW t \in Threads, NEW c \in Awaitables, CoAwait(k, t, c)
      PROVE  HandlersOK'
  BY <1>15 DEF CoAwait
<1>16. CASE UNCHANGED vars
  BY <1>16 DEF vars, code
<1> QED
  BY <1>1, <1>2, <1>3, <1>4, <1>5, <1>6, <1>7, <1>8, <1>9, <1>10, <1>11, <1>12, <1>13, <1>14, <1>15,
     <1>16 DEF Next, HandlerStep, AwaitStep, BodyStep

\* The status of an awaitable follows the handler and the coroutine.
LEMMA StatusStep == IInv /\ [Next]_vars => StatusOK'
<1> SUFFICES ASSUME IInv, [Next]_vars PROVE StatusOK'
  OBVIOUS
<1> USE DEF IInv, Calls, Threads, Goto, Handler, calling, data, code, TypeOK, Calling!TypeOK,
           Calling!CallStates, Calling!Issue, Calling!Deliver, Calling!Return, Calling!Cancel, Calling!Move,
           Outcome, HandlersOK, StatusOK, CoroutinesOK, OneThread, Parked
<1>1. ASSUME NEW c \in Calls, Issue(c) PROVE StatusOK'
  BY <1>1 DEF Issue
<1>2. ASSUME NEW c \in Calls, Deliver(c) PROVE StatusOK'
  BY <1>2 DEF Deliver
<1>3. ASSUME NEW c \in Calls, Cancel(c) PROVE StatusOK'
  BY <1>3 DEF Cancel
<1>4. ASSUME NEW c \in Calls, StoreResult(c) PROVE StatusOK'
  BY <1>4 DEF StoreResult
<1>5. ASSUME NEW c \in Calls, Complete(c) PROVE StatusOK'
  BY <1>5 DEF Complete
<1>6. ASSUME NEW c \in Calls, ResumeCoroutine(c) PROVE StatusOK'
  BY <1>6 DEF ResumeCoroutine
<1>7. ASSUME NEW c \in Calls, CoroutineYields(c) PROVE StatusOK'
  BY <1>7 DEF CoroutineYields
<1>8. ASSUME NEW c \in Calls, HandlerReturns(c) PROVE StatusOK'
  BY <1>8 DEF HandlerReturns
<1>9. ASSUME NEW c \in Calls, DropPromise(c) PROVE StatusOK'
  BY <1>9 DEF DropPromise
<1>10. ASSUME NEW k \in Coroutines, NEW t \in Threads, AwaitReady(k, t) PROVE StatusOK'
  BY <1>10 DEF AwaitReady
<1>11. ASSUME NEW k \in Coroutines, NEW t \in Threads, StoreHandle(k, t) PROVE StatusOK'
  BY <1>11 DEF StoreHandle
<1>12. ASSUME NEW k \in Coroutines, NEW t \in Threads, AwaitSuspend(k, t) PROVE StatusOK'
  BY <1>12 DEF AwaitSuspend
<1>13. ASSUME NEW k \in Coroutines, NEW t \in Threads, AwaitResume(k, t) PROVE StatusOK'
  BY <1>13 DEF AwaitResume
<1>14. ASSUME NEW k \in Coroutines, NEW t \in Threads, CoReturn(k, t) PROVE StatusOK'
  BY <1>14 DEF CoReturn
<1>15. ASSUME NEW k \in Coroutines, NEW t \in Threads, NEW c \in Awaitables, CoAwait(k, t, c)
      PROVE  StatusOK'
  BY <1>15 DEF CoAwait
<1>16. CASE UNCHANGED vars
  BY <1>16 DEF vars, code
<1> QED
  BY <1>1, <1>2, <1>3, <1>4, <1>5, <1>6, <1>7, <1>8, <1>9, <1>10, <1>11, <1>12, <1>13, <1>14, <1>15,
     <1>16 DEF Next, HandlerStep, AwaitStep, BodyStep

\* Coroutines.
LEMMA CoroutinesStep == IInv /\ [Next]_vars => (OneThread /\ CoroutinesOK)'
<1> SUFFICES ASSUME IInv, [Next]_vars PROVE (OneThread /\ CoroutinesOK)'
  OBVIOUS
<1> USE DEF IInv, Calls, Threads, Goto, Handler, calling, data, code, TypeOK, Calling!TypeOK,
           Calling!CallStates, Calling!Issue, Calling!Deliver, Calling!Return, Calling!Cancel, Calling!Move,
           Outcome, HandlersOK, StatusOK, CoroutinesOK, OneThread, Parked
<1>1. ASSUME NEW c \in Calls, Issue(c) PROVE (OneThread /\ CoroutinesOK)'
  BY <1>1 DEF Issue
<1>2. ASSUME NEW c \in Calls, Deliver(c) PROVE (OneThread /\ CoroutinesOK)'
  BY <1>2 DEF Deliver
<1>3. ASSUME NEW c \in Calls, Cancel(c) PROVE (OneThread /\ CoroutinesOK)'
  BY <1>3 DEF Cancel
<1>4. ASSUME NEW c \in Calls, StoreResult(c) PROVE (OneThread /\ CoroutinesOK)'
  BY <1>4 DEF StoreResult
<1>5. ASSUME NEW c \in Calls, Complete(c) PROVE (OneThread /\ CoroutinesOK)'
  BY <1>5 DEF Complete
<1>6. ASSUME NEW c \in Calls, ResumeCoroutine(c) PROVE (OneThread /\ CoroutinesOK)'
  <2>1. c \in Awaitables /\ Parked(c) /\ status[c] = "Completed" /\ c # None
    BY <1>6, CallsAssumption DEF ResumeCoroutine
  <2>2. \A k \in Coroutines, t \in Threads :
            at'[k][t] = IF k = handle[c] /\ t = "loop" THEN "resume" ELSE at[k][t]
    BY <1>6, <2>1 DEF ResumeCoroutine
  <2>3. UNCHANGED <<call, status, handle>>
    BY <1>6 DEF ResumeCoroutine
  <2>4. OneThread'
    BY <2>1, <2>2
  <2>5. CoroutinesOK'
    BY <2>1, <2>2, <2>3
  <2> QED
    BY <2>4, <2>5
<1>7. ASSUME NEW c \in Calls, CoroutineYields(c) PROVE (OneThread /\ CoroutinesOK)'
  BY <1>7 DEF CoroutineYields
<1>8. ASSUME NEW c \in Calls, HandlerReturns(c) PROVE (OneThread /\ CoroutinesOK)'
  BY <1>8 DEF HandlerReturns
<1>9. ASSUME NEW c \in Calls, DropPromise(c) PROVE (OneThread /\ CoroutinesOK)'
  BY <1>9 DEF DropPromise
<1>10. ASSUME NEW k \in Coroutines, NEW t \in Threads, AwaitReady(k, t) PROVE (OneThread /\ CoroutinesOK)'
  BY <1>10 DEF AwaitReady
<1>11. ASSUME NEW k \in Coroutines, NEW t \in Threads, StoreHandle(k, t) PROVE (OneThread /\ CoroutinesOK)'
  BY <1>11 DEF StoreHandle
<1>12. ASSUME NEW k \in Coroutines, NEW t \in Threads, AwaitSuspend(k, t) PROVE (OneThread /\ CoroutinesOK)'
  <2>1. call[k] \in Awaitables /\ handle[call[k]] = k
    BY <1>12 DEF AwaitSuspend
  <2>2. status[call[k]] # "Waiting"
    BY <1>12, <2>1 DEF AwaitSuspend
  <2>3. CASE status[call[k]] = "NotReady"
    <3>1. \A j \in Coroutines, u \in Threads :
              at'[j][u] = IF j = k /\ u = t THEN "off" ELSE at[j][u]
      BY <1>12, <2>3 DEF AwaitSuspend
    <3>2. \A a \in Awaitables : status[a] = "Completed" => status'[a] = "Completed"
      BY <1>12, <2>1, <2>3 DEF AwaitSuspend
    <3>3. UNCHANGED <<call, handle>>
      BY <1>12 DEF AwaitSuspend
    <3>4. OneThread'
      BY <3>1
    <3>5. CoroutinesOK'
      BY <3>1, <3>2, <3>3
    <3> QED
      BY <3>4, <3>5
  <2>4. CASE status[call[k]] = "Completed"
    <3>1. \A j \in Coroutines, u \in Threads :
              at'[j][u] = IF j = k /\ u = t THEN "resume" ELSE at[j][u]
      BY <1>12, <2>4 DEF AwaitSuspend
    <3>2. UNCHANGED <<call, status, handle>>
      BY <1>12, <2>4 DEF AwaitSuspend
    <3>3. OneThread'
      BY <1>12, <3>1 DEF AwaitSuspend
    <3>4. CoroutinesOK'
      BY <1>12, <3>1, <3>2, <2>1, <2>4 DEF AwaitSuspend
    <3> QED
      BY <3>3, <3>4
  <2> QED
    BY <2>1, <2>2, <2>3, <2>4
<1>13. ASSUME NEW k \in Coroutines, NEW t \in Threads, AwaitResume(k, t) PROVE (OneThread /\ CoroutinesOK)'
  BY <1>13 DEF AwaitResume
<1>14. ASSUME NEW k \in Coroutines, NEW t \in Threads, CoReturn(k, t) PROVE (OneThread /\ CoroutinesOK)'
  BY <1>14 DEF CoReturn
<1>15. ASSUME NEW k \in Coroutines, NEW t \in Threads, NEW c \in Awaitables, CoAwait(k, t, c)
      PROVE  (OneThread /\ CoroutinesOK)'
  BY <1>15 DEF CoAwait
<1>16. CASE UNCHANGED vars
  BY <1>16 DEF vars, code
<1> QED
  BY <1>1, <1>2, <1>3, <1>4, <1>5, <1>6, <1>7, <1>8, <1>9, <1>10, <1>11, <1>12, <1>13, <1>14, <1>15,
     <1>16 DEF Next, HandlerStep, AwaitStep, BodyStep

\* A coroutine that sleeps is known to the handler that is to wake it.
LEMMA SuspendedStep == IInv /\ [Next]_vars => SuspendedOK'
<1> SUFFICES ASSUME IInv, [Next]_vars PROVE SuspendedOK'
  OBVIOUS
<1> USE DEF IInv, Calls, Threads, Goto, Handler, calling, data, code, TypeOK, Calling!TypeOK,
           Calling!CallStates, Calling!Issue, Calling!Deliver, Calling!Return, Calling!Cancel, Calling!Move,
           HandlersOK, StatusOK, CoroutinesOK, OneThread, Parked, Suspended, SuspendedOK
<1>1. ASSUME NEW c \in Calls, Issue(c) PROVE SuspendedOK'
  BY <1>1 DEF Issue
<1>2. ASSUME NEW c \in Calls, Deliver(c) PROVE SuspendedOK'
  BY <1>2 DEF Deliver
<1>3. ASSUME NEW c \in Calls, Cancel(c) PROVE SuspendedOK'
  BY <1>3 DEF Cancel
<1>4. ASSUME NEW c \in Calls, StoreResult(c) PROVE SuspendedOK'
  BY <1>4 DEF StoreResult
<1>5. ASSUME NEW c \in Calls, Complete(c) PROVE SuspendedOK'
  BY <1>5 DEF Complete
<1>6. ASSUME NEW c \in Calls, ResumeCoroutine(c) PROVE SuspendedOK'
  BY <1>6 DEF ResumeCoroutine
<1>7. ASSUME NEW c \in Calls, CoroutineYields(c) PROVE SuspendedOK'
  BY <1>7 DEF CoroutineYields
<1>8. ASSUME NEW c \in Calls, HandlerReturns(c) PROVE SuspendedOK'
  BY <1>8 DEF HandlerReturns
<1>9. ASSUME NEW c \in Calls, DropPromise(c) PROVE SuspendedOK'
  BY <1>9 DEF DropPromise
<1>10. ASSUME NEW k \in Coroutines, NEW t \in Threads, AwaitReady(k, t) PROVE SuspendedOK'
  BY <1>10 DEF AwaitReady
<1>11. ASSUME NEW k \in Coroutines, NEW t \in Threads, StoreHandle(k, t) PROVE SuspendedOK'
  BY <1>11 DEF StoreHandle
<1>12. ASSUME NEW k \in Coroutines, NEW t \in Threads, AwaitSuspend(k, t) PROVE SuspendedOK'
  BY <1>12 DEF AwaitSuspend
<1>13. ASSUME NEW k \in Coroutines, NEW t \in Threads, AwaitResume(k, t) PROVE SuspendedOK'
  BY <1>13 DEF AwaitResume
<1>14. ASSUME NEW k \in Coroutines, NEW t \in Threads, CoReturn(k, t) PROVE SuspendedOK'
  BY <1>14 DEF CoReturn
<1>15. ASSUME NEW k \in Coroutines, NEW t \in Threads, NEW c \in Awaitables, CoAwait(k, t, c)
      PROVE  SuspendedOK'
  BY <1>15 DEF CoAwait
<1>16. CASE UNCHANGED vars
  BY <1>16 DEF vars, code
<1> QED
  BY <1>1, <1>2, <1>3, <1>4, <1>5, <1>6, <1>7, <1>8, <1>9, <1>10, <1>11, <1>12, <1>13, <1>14, <1>15,
     <1>16 DEF Next, HandlerStep, AwaitStep, BodyStep

\* The invariant of the results: what a status of an Awaitable says of its
\* coroutine and its handler, at every step.
THEOREM ResultsInvariant == Spec => []IInv
<1>1. Init => IInv
  BY CallsAssumption DEF Init, Calling!Init, IInv, Calls, Threads, TypeOK, Calling!TypeOK, Calling!CallStates,
     Stages, Points, OneThread, HandlersOK, StatusOK, CoroutinesOK, Suspended, SuspendedOK
<1>2. IInv /\ [Next]_vars => IInv'
  BY TypingStep, HandlersStep, StatusStep, CoroutinesStep, SuspendedStep DEF IInv
<1> QED
  BY <1>1, <1>2, PTL DEF Spec

\* A coroutine runs on one thread at a time, whenever the reply comes.
THEOREM CoroutineOnOneThread == Spec => []OneThread
<1>1. IInv => OneThread
  BY DEF IInv
<1> QED
  BY <1>1, ResultsInvariant, PTL

\* Coroutines and futures get the result of their call and no other.
THEOREM ResultsAreTrue == Spec => []ResultsTrue
<1>1. IInv => ResultsTrue
  BY DEF IInv, TypeOK, HandlersOK, StatusOK, CoroutinesOK, ResultsTrue, Outcome, Calls
<1> QED
  BY <1>1, ResultsInvariant, PTL

\* The reply handler resumes the coroutine that awaits its call.
THEOREM HandlersResumeAwaiters == Spec => []ResumesAwaiter
<1>1. IInv => ResumesAwaiter
  BY DEF IInv, StatusOK, Parked, ResumesAwaiter
<1> QED
  BY <1>1, ResultsInvariant, PTL

-----------------------------------------------------------------------------
(* Futures and awaitables implement Handovers.                              *)

Cell  == [c \in Calls |-> CellOf(c)]
Mode  == [k \in Coroutines |-> ModeOf(k)]
Taken == [c \in Calls |-> IF c \in Awaitables THEN got[c] ELSE "none"]
seen  == <<Cell, Mode, call, Taken>>

\* A coroutine between two points of co_await asks for its call.
LEMMA ModeRead ==
    ASSUME IInv, NEW k \in Coroutines, NEW t \in Threads
    PROVE  /\ at[k][t] \in {"ready", "suspend", "cas", "resume"} => ModeOf(k) = "asking"
           /\ at[k][t] = "body" => ModeOf(k) = "running"
BY CallsAssumption DEF IInv, TypeOK, Threads, CoroutinesOK, ModeOf, Suspended

\* A step within co_await concerns no coroutine but the one that takes it.
LEMMA OneCoroutine ==
    ASSUME NEW k \in Coroutines, UNCHANGED stage,
           \A j \in Coroutines \ {k} : at'[j] = at[j] /\ call'[j] = call[j]
    PROVE  Mode' = [Mode EXCEPT ![k] = ModeOf(k)']
<1>1. ASSUME NEW j \in Coroutines \ {k} PROVE ModeOf(j)' = ModeOf(j)
  BY <1>1 DEF ModeOf, Suspended
<1> QED
  BY <1>1 DEF Mode

\* Where a coroutine is after a step of one of its threads, and how that is seen.
LEMMA ModeAfter ==
    ASSUME IInv, IInv', NEW k \in Coroutines, NEW t \in Threads, at[k][t] # "off",
           NEW p, at' = [at EXCEPT ![k][t] = p]
    PROVE  /\ p \in {"ready", "suspend", "cas", "resume"} => ModeOf(k)' = "asking"
           /\ p = "body" => ModeOf(k)' = "running"
           /\ p = "off" /\ call'[k] = None => ModeOf(k)' = "finished"
           /\ p = "off" /\ call'[k] # None /\ stage'[call'[k]] # "resume" => ModeOf(k)' = "asleep"
           /\ \A j \in Coroutines \ {k} : at'[j] = at[j]
<1>1. /\ at'[k][t] = p /\ \A u \in Threads \ {t} : at'[k][u] = at[k][u]
      /\ \A j \in Coroutines \ {k} : at'[j] = at[j]
  BY DEF IInv, TypeOK
<1>2. \A u \in Threads \ {t} : at'[k][u] = "off"
  BY <1>1 DEF IInv, OneThread, Threads
<1>3. p \in {"ready", "suspend", "cas", "resume"} => ModeOf(k)' = "asking"
  BY <1>1 DEF IInv, CoroutinesOK, ModeOf, Suspended
<1>4. p = "body" => ModeOf(k)' = "running"
  BY <1>1 DEF IInv, CoroutinesOK, ModeOf, Suspended
<1>5. p = "off" /\ call'[k] = None => ModeOf(k)' = "finished"
  BY <1>1, <1>2 DEF ModeOf, Suspended
<1>6. p = "off" /\ call'[k] # None /\ stage'[call'[k]] # "resume" => ModeOf(k)' = "asleep"
  BY <1>1, <1>2 DEF ModeOf, Suspended
<1> QED
  BY <1>1, <1>3, <1>4, <1>5, <1>6

\* What is published of a call is what the awaitable holds, or the promise.
LEMMA CellsRead ==
    ASSUME IInv, NEW c \in Awaitables, status[c] = "Completed"
    PROVE  CellOf(c) = result[c] /\ result[c] \in {"value", "error"}
BY DEF IInv, HandlersOK, StatusOK, CellOf, Outcome, Calls

\* A step of a coroutine asks, sleeps, takes or finishes, or is not seen.
LEMMA CoroutineImplements ==
    ASSUME IInv, IInv', NEW k \in Coroutines, NEW t \in Threads, AwaitStep(k, t) \/ BodyStep(k, t)
    PROVE  Abstract!Next \/ UNCHANGED seen
<1> USE DEF Goto, data, Abstract!Move
<1>1. UNCHANGED <<stage, result>> /\ at[k][t] # "off"
  BY DEF AwaitStep, AwaitReady, StoreHandle, AwaitSuspend, AwaitResume, BodyStep, CoReturn, CoAwait
<1>2. ASSUME UNCHANGED status PROVE Cell' = Cell
  BY <1>1, <1>2 DEF Cell, CellOf
<1>3. ASSUME UNCHANGED got PROVE Taken' = Taken
  BY <1>3 DEF Taken
<1>4. ASSUME NEW p \in {"suspend", "cas", "resume"}, at[k][t] \in {"ready", "suspend", "cas"},
             at' = [at EXCEPT ![k][t] = p], UNCHANGED <<call, status, got>>
      PROVE  UNCHANGED seen
  <2>1. ModeOf(k) = "asking" /\ ModeOf(k)' = "asking"
    BY <1>1, <1>4, ModeRead, ModeAfter
  <2>2. Mode' = Mode
    BY <1>1, <1>4, <2>1, ModeAfter, OneCoroutine DEF Mode
  <2> QED
    BY <1>2, <1>3, <1>4, <2>2 DEF seen
<1>5. CASE AwaitReady(k, t)
  BY <1>4, <1>5 DEF AwaitReady
<1>6. CASE StoreHandle(k, t)
  BY <1>4, <1>6 DEF StoreHandle
<1>7. CASE AwaitSuspend(k, t)
  <2>1. call[k] \in Awaitables /\ call[k] # None /\ ModeOf(k) = "asking"
    BY <1>7, ModeRead, CallsAssumption DEF AwaitSuspend, IInv, TypeOK, CoroutinesOK, Calls
  <2>2. CASE status[call[k]] = "NotReady"
    <3>1. stage[call[k]] # "resume"
      BY <2>1, <2>2 DEF IInv, StatusOK
    <3>2. Mode' = [Mode EXCEPT ![k] = "asleep"]
      BY <1>1, <1>7, <2>1, <2>2, <3>1, ModeAfter, OneCoroutine DEF AwaitSuspend
    <3>3. Cell' = Cell /\ Cell[call[k]] = "unset"
      BY <1>1, <1>7, <2>1, <2>2 DEF AwaitSuspend, IInv, TypeOK, Cell, CellOf, Calls
    <3>4. Mode[k] = "asking" /\ UNCHANGED <<call, Taken>>
      BY <1>3, <1>7, <2>1 DEF AwaitSuspend, Mode
    <3>5. Abstract!Sleep(k)
      BY <3>2, <3>3, <3>4 DEF Abstract!Sleep, Cell, Mode, Taken
    <3> QED
      BY <3>5 DEF Abstract!Next
  <2>3. CASE status[call[k]] # "NotReady"
    BY <1>4, <1>7, <2>3 DEF AwaitSuspend
  <2> QED
    BY <2>2, <2>3
<1>8. CASE AwaitResume(k, t)
  <2>1. call[k] \in Awaitables /\ status[call[k]] = "Completed" /\ ModeOf(k) = "asking"
    BY <1>8, ModeRead DEF AwaitResume, IInv, TypeOK, CoroutinesOK
  <2>2. call' = [call EXCEPT ![k] = None] /\ \A j \in Coroutines \ {k} : call'[j] = call[j]
    BY <1>8 DEF AwaitResume, IInv, TypeOK
  <2>3. Mode[k] = "asking" /\ Mode' = [Mode EXCEPT ![k] = "running"]
    BY <1>1, <1>8, <2>1, <2>2, ModeAfter, OneCoroutine DEF AwaitResume, Mode
  <2>4. Cell[call[k]] = result[call[k]] /\ Cell[call[k]] # "unset" /\ Cell' = Cell
    BY <1>2, <1>8, <2>1, CellsRead DEF AwaitResume, Cell, Calls
  <2>5. Taken' = [Taken EXCEPT ![call[k]] = Cell[call[k]]]
    <3>1. got' = [got EXCEPT ![call[k]] = Cell[call[k]]] /\ got \in [Awaitables -> {"none", "value", "error"}]
      BY <1>8, <2>4 DEF AwaitResume, IInv, TypeOK
    <3> QED
      BY <2>1, <3>1 DEF Taken, Calls
  <2>6. Abstract!Take(k)
    BY <2>2, <2>3, <2>4, <2>5 DEF Abstract!Take, Cell, Mode, Taken
  <2> QED
    BY <2>6 DEF Abstract!Next
<1>9. CASE CoReturn(k, t)
  <2>1. ModeOf(k) = "running" /\ call[k] = None
    BY <1>9, ModeRead DEF CoReturn, IInv, CoroutinesOK
  <2>2. Mode[k] = "running" /\ Mode' = [Mode EXCEPT ![k] = "finished"]
    BY <1>1, <1>9, <2>1, ModeAfter, OneCoroutine DEF CoReturn, Mode
  <2>3. UNCHANGED <<Cell, call, Taken>>
    BY <1>2, <1>3, <1>9 DEF CoReturn
  <2>4. Abstract!Finish(k)
    BY <2>2, <2>3 DEF Abstract!Finish, Cell, Mode, Taken
  <2> QED
    BY <2>4 DEF Abstract!Next
<1>10. ASSUME NEW c \in Awaitables, CoAwait(k, t, c) PROVE Abstract!Next
  <2>1. ModeOf(k) = "running"
    BY <1>10, ModeRead DEF CoAwait
  <2>2. call' = [call EXCEPT ![k] = c] /\ \A j \in Coroutines \ {k} : call'[j] = call[j]
    BY <1>10 DEF CoAwait, IInv, TypeOK
  <2>3. Mode[k] = "running" /\ Mode' = [Mode EXCEPT ![k] = "asking"]
    BY <1>1, <1>10, <2>1, <2>2, ModeAfter, OneCoroutine DEF CoAwait, Mode
  <2>4. c \in Calls /\ Taken[c] = "none" /\ \A j \in Coroutines : call[j] # c
    BY <1>10 DEF CoAwait, Taken, Calls
  <2>5. UNCHANGED <<Cell, Taken>>
    BY <1>2, <1>3, <1>10 DEF CoAwait
  <2>6. Abstract!Ask(k, c)
    BY <2>2, <2>3, <2>4, <2>5 DEF Abstract!Ask, Cell, Mode, Taken
  <2> QED
    BY <2>4, <2>6 DEF Abstract!Next
<1> QED
  BY <1>5, <1>6, <1>7, <1>8, <1>9, <1>10 DEF AwaitStep, BodyStep

\* A handler that is not about to wake a coroutine is not seen in it.
LEMMA HandlerUnseen ==
    ASSUME NEW c \in Calls, NEW s, stage[c] # "resume", s # "resume",
           stage' = [stage EXCEPT ![c] = s], stage \in [Calls -> Stages], UNCHANGED <<at, call>>
    PROVE  Mode' = Mode
<1>1. \A k \in Coroutines : (stage'[call[k]] = "resume") = (stage[call[k]] = "resume")
  OBVIOUS
<1> QED
  BY <1>1 DEF Mode, ModeOf, Suspended

\* A step of a call sets its result, resumes who awaits it, or is not seen.
LEMMA CallImplements ==
    ASSUME IInv, IInv', NEW c \in Calls,
           \/ Issue(c) \/ Deliver(c) \/ Cancel(c)
           \/ HandlerStep(c)
           \/ DropPromise(c)
    PROVE  Abstract!Next \/ UNCHANGED seen
<1> USE DEF Goto, Handler, data, code
<1>1. UNCHANGED <<call, got>>
  BY DEF Issue, Deliver, Cancel, HandlerStep, StoreResult, Complete, ResumeCoroutine, CoroutineYields,
         HandlerReturns, DropPromise
<1>2. Taken' = Taken
  BY <1>1 DEF Taken
<1>3. ASSUME UNCHANGED <<result, status>> PROVE Cell' = Cell
  BY <1>3 DEF Cell, CellOf
<1>4. stage \in [Calls -> Stages]
  BY DEF IInv, TypeOK
<1>5. CASE Issue(c) \/ Cancel(c)
  <2>1. Mode' = Mode
    BY <1>5 DEF Issue, Cancel, Mode, ModeOf, Suspended
  <2> QED
    BY <1>1, <1>2, <1>3, <1>5, <2>1 DEF Issue, Cancel, seen
<1>6. CASE Deliver(c) \/ HandlerReturns(c) \/ CoroutineYields(c)
  <2>1. stage[c] # "resume" /\ UNCHANGED <<at, result, status>>
    BY <1>6 DEF Deliver, HandlerReturns, CoroutineYields, IInv, HandlersOK, Calling!Deliver, Calling!Move
  <2>2. \E s \in {"result", "end", "idle"} : stage' = [stage EXCEPT ![c] = s]
    BY <1>6 DEF Deliver, HandlerReturns, CoroutineYields
  <2>3. Mode' = Mode
    BY <1>1, <1>4, <2>1, <2>2, HandlerUnseen
  <2> QED
    BY <1>1, <1>2, <1>3, <2>1, <2>3 DEF seen
<1>7. ASSUME c \in Futures, result[c] = "unset", NEW v \in {"value", "error", "broken"},
             result' = [result EXCEPT ![c] = v], UNCHANGED status, Mode' = Mode
      PROVE  Abstract!Next
  <2>1. c \notin Awaitables /\ \A k \in Coroutines : call[k] # c
    BY <1>7, CallsAssumption DEF IInv, TypeOK, Calls
  <2>2. CellOf(c) = "unset" /\ CellOf(c)' = v /\ \A d \in Calls \ {c} : CellOf(d)' = CellOf(d)
    BY <1>7, <2>1 DEF CellOf, IInv, TypeOK
  <2>3. Cell[c] = "unset" /\ Cell' = [Cell EXCEPT ![c] = v]
    BY <2>2 DEF Cell
  <2>4. Mode' = [k \in Coroutines |-> IF Mode[k] = "asleep" /\ call[k] = c THEN "woken" ELSE Mode[k]]
    BY <1>7, <2>1 DEF Mode
  <2>5. Abstract!Set(c, v)
    BY <1>1, <1>2, <2>3, <2>4 DEF Abstract!Set, Cell, Mode, Taken
  <2> QED
    BY <2>5 DEF Abstract!Next
<1>8. CASE StoreResult(c)
  <2>1. Mode' = Mode
    BY <1>1, <1>4, <1>8, HandlerUnseen DEF StoreResult
  <2>2. CASE c \in Awaitables
    <3>1. status[c] # "Completed" /\ UNCHANGED status
      BY <1>8, <2>2 DEF StoreResult, IInv, StatusOK
    <3>2. \A d \in Calls : CellOf(d)' = CellOf(d)
      BY <1>8, <2>2, <3>1 DEF StoreResult, CellOf, IInv, TypeOK
    <3> QED
      BY <1>1, <1>2, <2>1, <3>2 DEF Cell, seen
  <2>3. CASE c \notin Awaitables
    <3>1. c \in Futures /\ result[c] = "unset" /\ Outcome(c) \in {"value", "error", "broken"}
      BY <1>8, <2>3 DEF StoreResult, IInv, HandlersOK, Outcome, Calls
    <3> QED
      BY <1>7, <1>8, <2>1, <3>1 DEF StoreResult
  <2> QED
    BY <2>2, <2>3
<1>9. CASE DropPromise(c)
  <2>1. Mode' = Mode
    BY <1>9 DEF DropPromise, Mode, ModeOf, Suspended
  <2> QED
    BY <1>7, <1>9, <2>1 DEF DropPromise
<1>10. CASE Complete(c)
  <2>1. /\ c \in Awaitables /\ status[c] # "Completed" /\ result[c] \in {"value", "error"}
        /\ UNCHANGED <<result, at>>
    BY <1>10 DEF Complete, IInv, HandlersOK, StatusOK, Outcome
  <2>2. status'[c] = "Completed" /\ \A d \in Awaitables \ {c} : status'[d] = status[d]
    BY <1>10, <2>1 DEF Complete, IInv, TypeOK
  <2>3. /\ CellOf(c) = "unset" /\ CellOf(c)' = result[c]
        /\ \A d \in Calls \ {c} : CellOf(d)' = CellOf(d)
    BY <2>1, <2>2 DEF CellOf
  <2>4. Cell[c] = "unset" /\ Cell' = [Cell EXCEPT ![c] = result[c]]
    BY <2>3 DEF Cell
  <2>5. /\ stage[c] = "exchange" /\ \A d \in Calls \ {c} : stage'[d] = stage[d]
        /\ stage'[c] = IF status[c] = "Waiting" THEN "resume" ELSE "end"
    BY <1>4, <1>10 DEF Complete
  <2>6. ASSUME NEW k \in Coroutines
        PROVE  ModeOf(k)' = IF ModeOf(k) = "asleep" /\ call[k] = c THEN "woken" ELSE ModeOf(k)
    <3>1. CASE Suspended(k) /\ call[k] = c
      <4>1. stage'[c] = "resume"
        BY <2>5, <3>1 DEF IInv, SuspendedOK
      <4> QED
        BY <1>1, <2>1, <2>5, <3>1, <4>1 DEF ModeOf, Suspended
    <3>2. CASE Suspended(k) /\ call[k] # c
      <4>1. stage'[call[k]] = stage[call[k]]
        BY <2>5, <3>2 DEF IInv, TypeOK, Suspended, Calls
      <4> QED
        BY <1>1, <2>1, <3>2, <4>1 DEF ModeOf, Suspended
    <3>3. CASE ~Suspended(k)
      BY <1>1, <2>1, <3>3 DEF ModeOf, Suspended
    <3> QED
      BY <3>1, <3>2, <3>3
  <2>7. Mode' = [k \in Coroutines |-> IF Mode[k] = "asleep" /\ call[k] = c THEN "woken" ELSE Mode[k]]
    BY <2>6 DEF Mode
  <2>8. Abstract!Set(c, result[c])
    BY <1>1, <1>2, <2>4, <2>7 DEF Abstract!Set, Cell, Mode, Taken
  <2> QED
    BY <2>1, <2>8 DEF Abstract!Next
<1>11. CASE ResumeCoroutine(c)
  <2> PICK k \in Coroutines : handle[c] = k
    BY <1>11 DEF ResumeCoroutine, IInv, HandlersOK, StatusOK, Parked
  <2>1. /\ stage[c] = "resume" /\ call[k] = c /\ c # None
        /\ \A t \in Threads : at[k][t] = "off"
    BY <1>11, CallsAssumption DEF ResumeCoroutine, IInv, HandlersOK, StatusOK, Parked
  <2>2. Mode[k] = "woken"
    BY <2>1 DEF Mode, ModeOf, Suspended
  <2>3. at'[k]["loop"] = "resume" /\ \A j \in Coroutines \ {k} : at'[j] = at[j]
    BY <1>11, <2>1 DEF ResumeCoroutine, IInv, TypeOK, Threads
  <2>4. ModeOf(k)' = "asking"
    BY <1>1, <2>1, <2>3 DEF ModeOf, Suspended, Threads
  <2>5. ASSUME NEW j \in Coroutines \ {k} PROVE ModeOf(j)' = ModeOf(j)
    <3>1. call[j] # c
      BY <2>1 DEF IInv, CoroutinesOK
    <3>2. stage'[call[j]] = stage[call[j]]
      BY <1>4, <1>11, <3>1 DEF ResumeCoroutine
    <3> QED
      BY <1>1, <2>3, <3>2 DEF ModeOf, Suspended
  <2>6. Mode' = [Mode EXCEPT ![k] = "asking"]
    BY <2>1, <2>4, <2>5 DEF Mode
  <2>7. Cell' = Cell
    BY <1>3, <1>11 DEF ResumeCoroutine
  <2>8. Abstract!Resume(k)
    BY <1>1, <1>2, <2>2, <2>6, <2>7 DEF Abstract!Resume, Abstract!Move, Cell, Mode, Taken
  <2> QED
    BY <2>1, <2>8 DEF Abstract!Next
<1> QED
  BY <1>5, <1>6, <1>8, <1>9, <1>10, <1>11 DEF HandlerStep

\* A result is set once and handed to whoever asks for it; a coroutine that has
\* suspended is woken by the step that sets it, and by no other (Handovers).
THEOREM ResultsAreHandedOver == Spec => Implements
<1>1. Init => Abstract!Init
  <2> SUFFICES ASSUME Init PROVE Abstract!Init
    OBVIOUS
  <2>1. \A c \in Calls : CellOf(c) = "unset"
    BY DEF Init, CellOf
  <2>2. \A k \in Coroutines : ModeOf(k) = "running"
    BY DEF Init, ModeOf, Suspended, Threads
  <2> QED
    BY <2>1, <2>2 DEF Init, Abstract!Init
<1>2. IInv /\ IInv' /\ [Next]_vars => [Abstract!Next]_seen
  <2> SUFFICES ASSUME IInv, IInv', [Next]_vars PROVE Abstract!Next \/ UNCHANGED seen
    OBVIOUS
  <2>1. CASE UNCHANGED vars
    BY <2>1 DEF vars, data, code, seen, Cell, CellOf, Mode, ModeOf, Suspended, Taken
  <2> QED
    BY <2>1, CallImplements, CoroutineImplements DEF Next
<1> QED
  BY <1>1, <1>2, ResultsInvariant, PTL DEF Spec, Implements, Abstract!Spec, seen, Cell, Mode, Taken
=============================================================================
