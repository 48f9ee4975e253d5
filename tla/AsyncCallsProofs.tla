-------------------------- MODULE AsyncCallsProofs --------------------------
(***************************************************************************)
(* The safety of the asynchronous calls of a proxy, for any threads and    *)
(* calls: the inductive invariant LifeInv, the safety properties of        *)
(* AsyncCalls and the refinement of PendingCalls.                          *)
(***************************************************************************)
EXTENDS AsyncCalls, TLAPS

-----------------------------------------------------------------------------
(* The inductive invariant.                                                 *)

\* A thread outside of the API has no references and ends nothing; issuing and
\* handling a call ends nothing either.
IdleOK ==
    \A t \in Callers :
        /\ pc[t] = "idle" => op[t] = "none" /\ local[t] = {} /\ ends[t] = {}
        /\ op[t] \in {"call", "handler"} => ends[t] = {}

\* sdbusMutex_ is held by the loop thread, for as long as it runs a handler; an
\* operation of the loop thread runs inside the handler.
HandlerOK ==
    /\ mutex = IF handler = "none" THEN None ELSE Loop
    /\ handler = "none" => current = None /\ pc[Loop] = "idle"
    /\ handler # "none" =>
          current \in Calls \ registered /\ memory[current] # "none"
    /\ handler = "callback" => op[Loop] # "handler"
    /\ handler = "cleanup" => op[Loop] \in {"none", "handler"}

\* The stages of each operation.
OpsOK ==
    \A t \in Callers :
        /\ op[t] = "none" => pc[t] = "idle"
        /\ op[t] = "call" => pc[t] \in {"push", "return", "drop", "release"}
        /\ op[t] = "slot" => pc[t] \in {"release", "drop"} /\ local[t] = {}
        /\ op[t] = "slot" /\ pc[t] = "release" => arg[t] \in Owned
        /\ pc[t] \in {"push", "return"} => op[t] = "call"
        /\ pc[t] = "erase" => op[t] \in {"cancel", "handler"}
        /\ pc[t] = "erase" /\ op[t] = "cancel" => arg[t] \in local[t] \cap Floating
        /\ pc[t] = "clear" => op[t] \in {"unregister", "destroy"} /\ local[t] = {}
        /\ op[t] = "handler" => t = Loop
        /\ op[t] = "handler" /\ pc[t] = "erase" => arg[t] = current

\* A call that is being issued belongs to the issuing thread alone.
IssueOK ==
    \A t \in Callers :
        op[t] = "call" =>
            /\ arg[t] \in Calls
            /\ memory[arg[t]] # "none"
            /\ local[t] \subseteq {arg[t]}
            /\ \A u \in Callers : op[u] = "call" /\ arg[u] = arg[t] => u = t
            /\ pc[t] \in {"push", "return"} =>
                  /\ local[t] = {arg[t]}
                  /\ arg[t] \notin slots \cup held
                  /\ \A u \in Callers \ {t} : arg[t] \notin local[u]
            /\ pc[t] = "push" => arg[t] \in Floating
            /\ arg[t] \in Owned <=> pc[t] = "return"

\* An info is alive exactly as long as somebody refers to it.
RefsOK ==
    \A c \in Calls :
        /\ memory[c] = "alive" <=> c \in slots \/ c \in held \/ Holders(c) # {}
        /\ c \in held => Holders(c) = {}

\* Exactly one thread is in the destructor of a dying info.
DyingOK ==
    /\ \A c \in Calls :
          memory[c] = "dying" => \E t \in Callers : pc[t] = "release" /\ arg[t] = c
    /\ \A t \in Callers :
          pc[t] = "release" =>
              /\ arg[t] \in Calls
              /\ memory[arg[t]] = "dying"
              /\ \A u \in Callers : pc[u] = "release" /\ arg[u] = arg[t] => u = t

\* A destroyed info is unknown to sd-bus, and no handler works on it that has
\* not destroyed it itself or is past using it.
FreedOK ==
    \A c \in Calls :
        /\ memory[c] \in {"none", "freed"} => c \notin registered
        /\ memory[c] = "freed" /\ handler # "none" /\ current = c =>
              c \in selfReleased \/ (handler = "cleanup" /\ pc[Loop] # "erase")

\* The finished flag is set for every call whose handler has been through.
FinishedOK ==
    /\ \A t \in Callers :
          pc[t] = "push" =>
              \/ arg[t] \in finished \/ arg[t] \in registered
              \/ handler # "none" /\ current = arg[t]
    /\ handler = "cleanup" =>
          pc[Loop] = "erase" \/ (current \in finished /\ current \notin slots)

\* Calls that are being ended are out of the container.
Ending(c) ==
    \/ c \in ended
    \/ \E t \in Callers : c \in ends[t] /\ pc[t] \in {"unlock", "drop", "release"}

EndedOK ==
    /\ \A c \in Calls :
          Ending(c) =>
              /\ memory[c] # "none" /\ c \notin slots /\ c \notin held
              /\ \A t \in Callers : ~(op[t] = "call" /\ arg[t] = c)
    /\ \A t \in Callers :
          pc[t] = "erase" /\ op[t] = "cancel" => ends[t] = {arg[t]}
    /\ \A t \in Callers :
          \A c \in ends[t] :
              memory[c] # "none" /\ \A u \in Callers : ~(op[u] = "call" /\ arg[u] = c)

\* Nothing is left behind by the destructor of the proxy unless it was outlived.
ProxyOK ==
    /\ \A t, u \in Callers : op[t] = "destroy" /\ op[u] = "destroy" => t = u
    /\ proxy = "dying" <=> \E t \in Callers : op[t] = "destroy"
    /\ proxy # "alive" => \A t \in Callers : op[t] \notin {"call", "unregister"}
    /\ proxy # "alive" => slots = {} \/ \E t \in Callers : op[t] = "destroy" /\ pc[t] = "clear"
    /\ (proxy = "gone" /\ ~outlived) =>
          /\ \A c \in Calls : memory[c] \in {"none", "freed"}
          /\ handler # "none" => current \in selfReleased

LifeInv ==
    /\ IdleOK /\ HandlerOK /\ OpsOK /\ IssueOK /\ RefsOK /\ DyingOK /\ FreedOK
    /\ FinishedOK /\ NoStuckCall /\ EndedOK /\ ProxyOK

-----------------------------------------------------------------------------
\* The assumption, in the terms of the proofs.
LEMMA ConstFacts ==
    /\ Callers = Threads \cup {Loop}
    /\ Owner \in Threads /\ Loop \notin Threads
    /\ None \notin Callers /\ None \notin Calls
    /\ Calls = Floating \cup Owned /\ Floating \cap Owned = {}
BY CallsAssumption DEF Callers, Calls

\* No step leaves the types.
LEMMA TypeStep ==
    ASSUME TypeOK, HandlerOK, OpsOK, IssueOK, [Next]_vars
    PROVE  TypeOK'
<1> USE ConstFacts DEF TypeOK, Ops, Stages, HandlerOK, OpsOK, IssueOK, life, lock,
        run, api, hist, Begins, Goto, MayCall, Free
<1>1. ASSUME NEW t \in Callers, NEW c \in Calls, CallMethodAsync(t, c) PROVE TypeOK'
  BY <1>1 DEF CallMethodAsync
<1>2. ASSUME NEW t \in Callers, PushBack(t) PROVE TypeOK'
  BY <1>2 DEF PushBack
<1>3. ASSUME NEW t \in Callers, ReturnSlot(t) PROVE TypeOK'
  BY <1>3 DEF ReturnSlot
<1>4. ASSUME NEW t \in Callers, NEW c \in Calls, Cancel(t, c) PROVE TypeOK'
  BY <1>4 DEF Cancel
<1>5. ASSUME NEW t \in Callers, NEW c \in Calls, ReleaseSlot(t, c) PROVE TypeOK'
  BY <1>5 DEF ReleaseSlot
<1>6. ASSUME NEW t \in Callers, Unregister(t) PROVE TypeOK'
  BY <1>6 DEF Unregister
<1>7. ASSUME NEW t \in Callers, Destroy(t) PROVE TypeOK'
  BY <1>7 DEF Destroy
<1>8. ASSUME NEW t \in Callers, Erase(t) PROVE TypeOK'
  BY <1>8 DEF Erase
<1>9. ASSUME NEW t \in Callers, Clear(t) PROVE TypeOK'
  BY <1>9 DEF Clear
<1>10. ASSUME NEW t \in Callers, Unlock(t) PROVE TypeOK'
  BY <1>10 DEF Unlock
<1>11. ASSUME NEW t \in Callers, NEW c \in Calls, Drop(t, c) PROVE TypeOK'
  BY <1>11 DEF Drop
<1>12. ASSUME NEW t \in Callers, Release(t) PROVE TypeOK'
  <2>1. selfReleased' \subseteq Calls
    BY <1>12 DEF Release, Running
  <2> QED
    BY <1>12, <2>1 DEF Release
<1>13. ASSUME NEW t \in Callers, Returns(t) PROVE TypeOK'
  <2>1. selfReleased' \subseteq Calls /\ ended' \subseteq Calls
    BY <1>13 DEF Returns, Running
  <2> QED
    BY <1>13, <2>1 DEF Returns, Lingering
<1>14. ASSUME NEW c \in Calls, Dispatch(c) PROVE TypeOK'
  BY <1>14 DEF Dispatch
<1>15. CASE CallbackReturns
  BY <1>15 DEF CallbackReturns
<1>16. CASE HandlerReturns
  BY <1>16 DEF HandlerReturns
<1>17. CASE UNCHANGED vars
  BY <1>17 DEF vars
<1> QED
  BY <1>1, <1>2, <1>3, <1>4, <1>5, <1>6, <1>7, <1>8, <1>9,
     <1>10, <1>11, <1>12, <1>13, <1>14, <1>15, <1>16, <1>17
  DEF Next, Starts, Continues

\* Threads that return to the application leave nothing behind.
LEMMA IdleStep ==
    ASSUME TypeOK, IdleOK, OpsOK, [Next]_vars
    PROVE  IdleOK'
<1> USE ConstFacts DEF TypeOK, IdleOK, OpsOK, life, lock, run, api, hist, Begins,
        Goto, MayCall, Free
<1>1. ASSUME NEW t \in Callers, NEW c \in Calls, CallMethodAsync(t, c) PROVE IdleOK'
  BY <1>1 DEF CallMethodAsync
<1>2. ASSUME NEW t \in Callers, PushBack(t) PROVE IdleOK'
  BY <1>2 DEF PushBack
<1>3. ASSUME NEW t \in Callers, ReturnSlot(t) PROVE IdleOK'
  BY <1>3 DEF ReturnSlot
<1>4. ASSUME NEW t \in Callers, NEW c \in Calls, Cancel(t, c) PROVE IdleOK'
  BY <1>4 DEF Cancel
<1>5. ASSUME NEW t \in Callers, NEW c \in Calls, ReleaseSlot(t, c) PROVE IdleOK'
  BY <1>5 DEF ReleaseSlot
<1>6. ASSUME NEW t \in Callers, Unregister(t) PROVE IdleOK'
  BY <1>6 DEF Unregister
<1>7. ASSUME NEW t \in Callers, Destroy(t) PROVE IdleOK'
  BY <1>7 DEF Destroy
<1>8. ASSUME NEW t \in Callers, Erase(t) PROVE IdleOK'
  BY <1>8 DEF Erase
<1>9. ASSUME NEW t \in Callers, Clear(t) PROVE IdleOK'
  BY <1>9 DEF Clear
<1>10. ASSUME NEW t \in Callers, Unlock(t) PROVE IdleOK'
  BY <1>10 DEF Unlock
<1>11. ASSUME NEW t \in Callers, NEW c \in Calls, Drop(t, c) PROVE IdleOK'
  BY <1>11 DEF Drop
<1>12. ASSUME NEW t \in Callers, Release(t) PROVE IdleOK'
  BY <1>12 DEF Release
<1>13. ASSUME NEW t \in Callers, Returns(t) PROVE IdleOK'
  BY <1>13 DEF Returns
<1>14. ASSUME NEW c \in Calls, Dispatch(c) PROVE IdleOK'
  BY <1>14 DEF Dispatch
<1>15. CASE CallbackReturns
  BY <1>15 DEF CallbackReturns
<1>16. CASE HandlerReturns
  BY <1>16 DEF HandlerReturns
<1>17. CASE UNCHANGED vars
  BY <1>17 DEF vars
<1> QED
  BY <1>1, <1>2, <1>3, <1>4, <1>5, <1>6, <1>7, <1>8, <1>9,
     <1>10, <1>11, <1>12, <1>13, <1>14, <1>15, <1>16, <1>17
  DEF Next, Starts, Continues

\* The loop thread keeps sdbusMutex_ as long as the handler runs.
LEMMA HandlerStep ==
    ASSUME TypeOK, HandlerOK, IdleOK, FreedOK, [Next]_vars
    PROVE  HandlerOK'
<1> USE ConstFacts DEF TypeOK, HandlerOK, IdleOK, FreedOK, life, lock, run, api, hist,
        Begins, Goto, MayCall, Free
<1>1. ASSUME NEW t \in Callers, NEW c \in Calls, CallMethodAsync(t, c) PROVE HandlerOK'
  BY <1>1 DEF CallMethodAsync
<1>2. ASSUME NEW t \in Callers, PushBack(t) PROVE HandlerOK'
  BY <1>2 DEF PushBack
<1>3. ASSUME NEW t \in Callers, ReturnSlot(t) PROVE HandlerOK'
  BY <1>3 DEF ReturnSlot
<1>4. ASSUME NEW t \in Callers, NEW c \in Calls, Cancel(t, c) PROVE HandlerOK'
  BY <1>4 DEF Cancel
<1>5. ASSUME NEW t \in Callers, NEW c \in Calls, ReleaseSlot(t, c) PROVE HandlerOK'
  BY <1>5 DEF ReleaseSlot
<1>6. ASSUME NEW t \in Callers, Unregister(t) PROVE HandlerOK'
  BY <1>6 DEF Unregister
<1>7. ASSUME NEW t \in Callers, Destroy(t) PROVE HandlerOK'
  BY <1>7 DEF Destroy
<1>8. ASSUME NEW t \in Callers, Erase(t) PROVE HandlerOK'
  BY <1>8 DEF Erase
<1>9. ASSUME NEW t \in Callers, Clear(t) PROVE HandlerOK'
  BY <1>9 DEF Clear
<1>10. ASSUME NEW t \in Callers, Unlock(t) PROVE HandlerOK'
  BY <1>10 DEF Unlock
<1>11. ASSUME NEW t \in Callers, NEW c \in Calls, Drop(t, c) PROVE HandlerOK'
  BY <1>11 DEF Drop
<1>12. ASSUME NEW t \in Callers, Release(t) PROVE HandlerOK'
  BY <1>12 DEF Release
<1>13. ASSUME NEW t \in Callers, Returns(t) PROVE HandlerOK'
  BY <1>13 DEF Returns
<1>14. ASSUME NEW c \in Calls, Dispatch(c) PROVE HandlerOK'
  BY <1>14 DEF Dispatch
<1>15. CASE CallbackReturns
  BY <1>15 DEF CallbackReturns
<1>16. CASE HandlerReturns
  BY <1>16 DEF HandlerReturns
<1>17. CASE UNCHANGED vars
  BY <1>17 DEF vars
<1> QED
  BY <1>1, <1>2, <1>3, <1>4, <1>5, <1>6, <1>7, <1>8, <1>9,
     <1>10, <1>11, <1>12, <1>13, <1>14, <1>15, <1>16, <1>17
  DEF Next, Starts, Continues

\* Every operation goes through its own stages.
LEMMA OpsStep ==
    ASSUME TypeOK, OpsOK, HandlerOK, IdleOK, [Next]_vars
    PROVE  OpsOK'
<1> USE ConstFacts DEF TypeOK, OpsOK, HandlerOK, IdleOK, life, lock, run, api, hist,
        Begins, Goto, MayCall, Free
<1>1. ASSUME NEW t \in Callers, NEW c \in Calls, CallMethodAsync(t, c) PROVE OpsOK'
  BY <1>1 DEF CallMethodAsync
<1>2. ASSUME NEW t \in Callers, PushBack(t) PROVE OpsOK'
  BY <1>2 DEF PushBack
<1>3. ASSUME NEW t \in Callers, ReturnSlot(t) PROVE OpsOK'
  BY <1>3 DEF ReturnSlot
<1>4. ASSUME NEW t \in Callers, NEW c \in Calls, Cancel(t, c) PROVE OpsOK'
  BY <1>4 DEF Cancel
<1>5. ASSUME NEW t \in Callers, NEW c \in Calls, ReleaseSlot(t, c) PROVE OpsOK'
  BY <1>5 DEF ReleaseSlot
<1>6. ASSUME NEW t \in Callers, Unregister(t) PROVE OpsOK'
  BY <1>6 DEF Unregister
<1>7. ASSUME NEW t \in Callers, Destroy(t) PROVE OpsOK'
  BY <1>7 DEF Destroy
<1>8. ASSUME NEW t \in Callers, Erase(t) PROVE OpsOK'
  BY <1>8 DEF Erase
<1>9. ASSUME NEW t \in Callers, Clear(t) PROVE OpsOK'
  BY <1>9 DEF Clear
<1>10. ASSUME NEW t \in Callers, Unlock(t) PROVE OpsOK'
  BY <1>10 DEF Unlock
<1>11. ASSUME NEW t \in Callers, NEW c \in Calls, Drop(t, c) PROVE OpsOK'
  BY <1>11 DEF Drop
<1>12. ASSUME NEW t \in Callers, Release(t) PROVE OpsOK'
  BY <1>12 DEF Release
<1>13. ASSUME NEW t \in Callers, Returns(t) PROVE OpsOK'
  BY <1>13 DEF Returns
<1>14. ASSUME NEW c \in Calls, Dispatch(c) PROVE OpsOK'
  BY <1>14 DEF Dispatch
<1>15. CASE CallbackReturns
  BY <1>15 DEF CallbackReturns
<1>16. CASE HandlerReturns
  BY <1>16 DEF HandlerReturns
<1>17. CASE UNCHANGED vars
  BY <1>17 DEF vars
<1> QED
  BY <1>1, <1>2, <1>3, <1>4, <1>5, <1>6, <1>7, <1>8, <1>9,
     <1>10, <1>11, <1>12, <1>13, <1>14, <1>15, <1>16, <1>17
  DEF Next, Starts, Continues

\* Nobody gets at a call before its PendingAsyncCall or Slot has been returned.
LEMMA IssueStep ==
    ASSUME TypeOK, IssueOK, OpsOK, IdleOK, HandlerOK, RefsOK, [Next]_vars
    PROVE  IssueOK'
<1> USE ConstFacts DEF TypeOK, IssueOK, OpsOK, IdleOK, HandlerOK, RefsOK, Holders,
        life, lock, run, api, hist, Begins, Goto, MayCall, Free
<1>1. ASSUME NEW t \in Callers, NEW c \in Calls, CallMethodAsync(t, c) PROVE IssueOK'
  BY <1>1 DEF CallMethodAsync
<1>2. ASSUME NEW t \in Callers, PushBack(t) PROVE IssueOK'
  BY <1>2 DEF PushBack
<1>3. ASSUME NEW t \in Callers, ReturnSlot(t) PROVE IssueOK'
  BY <1>3 DEF ReturnSlot
<1>4. ASSUME NEW t \in Callers, NEW c \in Calls, Cancel(t, c) PROVE IssueOK'
  BY <1>4 DEF Cancel, Issued, Referenced
<1>5. ASSUME NEW t \in Callers, NEW c \in Calls, ReleaseSlot(t, c) PROVE IssueOK'
  BY <1>5 DEF ReleaseSlot
<1>6. ASSUME NEW t \in Callers, Unregister(t) PROVE IssueOK'
  BY <1>6 DEF Unregister
<1>7. ASSUME NEW t \in Callers, Destroy(t) PROVE IssueOK'
  BY <1>7 DEF Destroy
<1>8. ASSUME NEW t \in Callers, Erase(t) PROVE IssueOK'
  BY <1>8 DEF Erase
<1>9. ASSUME NEW t \in Callers, Clear(t) PROVE IssueOK'
  BY <1>9 DEF Clear
<1>10. ASSUME NEW t \in Callers, Unlock(t) PROVE IssueOK'
  BY <1>10 DEF Unlock
<1>11. ASSUME NEW t \in Callers, NEW c \in Calls, Drop(t, c) PROVE IssueOK'
  BY <1>11 DEF Drop
<1>12. ASSUME NEW t \in Callers, Release(t) PROVE IssueOK'
  BY <1>12 DEF Release
<1>13. ASSUME NEW t \in Callers, Returns(t) PROVE IssueOK'
  BY <1>13 DEF Returns
<1>14. ASSUME NEW c \in Calls, Dispatch(c) PROVE IssueOK'
  BY <1>14 DEF Dispatch
<1>15. CASE CallbackReturns
  BY <1>15 DEF CallbackReturns
<1>16. CASE HandlerReturns
  BY <1>16 DEF HandlerReturns
<1>17. CASE UNCHANGED vars
  BY <1>17 DEF vars
<1> QED
  BY <1>1, <1>2, <1>3, <1>4, <1>5, <1>6, <1>7, <1>8, <1>9,
     <1>10, <1>11, <1>12, <1>13, <1>14, <1>15, <1>16, <1>17
  DEF Next, Starts, Continues

\* References are only copied from references, and the last one to go ends the
\* life of the info.
LEMMA RefsStep ==
    ASSUME TypeOK, IssueOK, OpsOK, IdleOK, HandlerOK, RefsOK, DyingOK, [Next]_vars
    PROVE  RefsOK'
<1> USE ConstFacts DEF TypeOK, IssueOK, OpsOK, IdleOK, HandlerOK, RefsOK, DyingOK,
        Holders, life, lock, run, api, hist, Begins, Goto, MayCall, Free
<1>1. ASSUME NEW t \in Callers, NEW c \in Calls, CallMethodAsync(t, c) PROVE RefsOK'
  BY <1>1 DEF CallMethodAsync
<1>2. ASSUME NEW t \in Callers, PushBack(t) PROVE RefsOK'
  BY <1>2 DEF PushBack
<1>3. ASSUME NEW t \in Callers, ReturnSlot(t) PROVE RefsOK'
  BY <1>3 DEF ReturnSlot
<1>4. ASSUME NEW t \in Callers, NEW c \in Calls, Cancel(t, c) PROVE RefsOK'
  BY <1>4 DEF Cancel, Issued, Referenced
<1>5. ASSUME NEW t \in Callers, NEW c \in Calls, ReleaseSlot(t, c) PROVE RefsOK'
  BY <1>5 DEF ReleaseSlot
<1>6. ASSUME NEW t \in Callers, Unregister(t) PROVE RefsOK'
  BY <1>6 DEF Unregister
<1>7. ASSUME NEW t \in Callers, Destroy(t) PROVE RefsOK'
  BY <1>7 DEF Destroy
<1>8. ASSUME NEW t \in Callers, Erase(t) PROVE RefsOK'
  BY <1>8 DEF Erase
<1>9. ASSUME NEW t \in Callers, Clear(t) PROVE RefsOK'
  BY <1>9 DEF Clear
<1>10. ASSUME NEW t \in Callers, Unlock(t) PROVE RefsOK'
  BY <1>10 DEF Unlock
<1>11. ASSUME NEW t \in Callers, NEW c \in Calls, Drop(t, c) PROVE RefsOK'
  BY <1>11 DEF Drop
<1>12. ASSUME NEW t \in Callers, Release(t) PROVE RefsOK'
  BY <1>12 DEF Release
<1>13. ASSUME NEW t \in Callers, Returns(t) PROVE RefsOK'
  BY <1>13 DEF Returns
<1>14. ASSUME NEW c \in Calls, Dispatch(c) PROVE RefsOK'
  BY <1>14 DEF Dispatch
<1>15. CASE CallbackReturns
  BY <1>15 DEF CallbackReturns
<1>16. CASE HandlerReturns
  BY <1>16 DEF HandlerReturns
<1>17. CASE UNCHANGED vars
  BY <1>17 DEF vars
<1> QED
  BY <1>1, <1>2, <1>3, <1>4, <1>5, <1>6, <1>7, <1>8, <1>9,
     <1>10, <1>11, <1>12, <1>13, <1>14, <1>15, <1>16, <1>17
  DEF Next, Starts, Continues

\* Only one thread drops the last reference.
LEMMA DyingStep ==
    ASSUME TypeOK, IssueOK, OpsOK, IdleOK, RefsOK, DyingOK, [Next]_vars
    PROVE  DyingOK'
<1> USE ConstFacts DEF TypeOK, IssueOK, OpsOK, IdleOK, RefsOK, DyingOK, Holders, life,
        lock, run, api, hist, Begins, Goto, MayCall, Free
<1>1. ASSUME NEW t \in Callers, NEW c \in Calls, CallMethodAsync(t, c) PROVE DyingOK'
  BY <1>1 DEF CallMethodAsync
<1>2. ASSUME NEW t \in Callers, PushBack(t) PROVE DyingOK'
  BY <1>2 DEF PushBack
<1>3. ASSUME NEW t \in Callers, ReturnSlot(t) PROVE DyingOK'
  BY <1>3 DEF ReturnSlot
<1>4. ASSUME NEW t \in Callers, NEW c \in Calls, Cancel(t, c) PROVE DyingOK'
  BY <1>4 DEF Cancel, Issued, Referenced
<1>5. ASSUME NEW t \in Callers, NEW c \in Calls, ReleaseSlot(t, c) PROVE DyingOK'
  BY <1>5 DEF ReleaseSlot
<1>6. ASSUME NEW t \in Callers, Unregister(t) PROVE DyingOK'
  BY <1>6 DEF Unregister
<1>7. ASSUME NEW t \in Callers, Destroy(t) PROVE DyingOK'
  BY <1>7 DEF Destroy
<1>8. ASSUME NEW t \in Callers, Erase(t) PROVE DyingOK'
  BY <1>8 DEF Erase
<1>9. ASSUME NEW t \in Callers, Clear(t) PROVE DyingOK'
  BY <1>9 DEF Clear
<1>10. ASSUME NEW t \in Callers, Unlock(t) PROVE DyingOK'
  BY <1>10 DEF Unlock
<1>11. ASSUME NEW t \in Callers, NEW c \in Calls, Drop(t, c) PROVE DyingOK'
  BY <1>11 DEF Drop
<1>12. ASSUME NEW t \in Callers, Release(t) PROVE DyingOK'
  BY <1>12 DEF Release
<1>13. ASSUME NEW t \in Callers, Returns(t) PROVE DyingOK'
  BY <1>13 DEF Returns
<1>14. ASSUME NEW c \in Calls, Dispatch(c) PROVE DyingOK'
  BY <1>14 DEF Dispatch
<1>15. CASE CallbackReturns
  BY <1>15 DEF CallbackReturns
<1>16. CASE HandlerReturns
  BY <1>16 DEF HandlerReturns
<1>17. CASE UNCHANGED vars
  BY <1>17 DEF vars
<1> QED
  BY <1>1, <1>2, <1>3, <1>4, <1>5, <1>6, <1>7, <1>8, <1>9,
     <1>10, <1>11, <1>12, <1>13, <1>14, <1>15, <1>16, <1>17
  DEF Next, Starts, Continues

\* The destructor releases the sd-bus slot first and waits for the handler.
LEMMA FreedStep ==
    ASSUME TypeOK, HandlerOK, OpsOK, IdleOK, RefsOK, DyingOK, FreedOK, [Next]_vars
    PROVE  FreedOK'
<1> USE ConstFacts DEF TypeOK, HandlerOK, OpsOK, IdleOK, RefsOK, DyingOK, FreedOK,
        life, lock, run, api, hist, Begins, Goto, MayCall, Free
<1>1. ASSUME NEW t \in Callers, NEW c \in Calls, CallMethodAsync(t, c) PROVE FreedOK'
  BY <1>1 DEF CallMethodAsync
<1>2. ASSUME NEW t \in Callers, PushBack(t) PROVE FreedOK'
  BY <1>2 DEF PushBack
<1>3. ASSUME NEW t \in Callers, ReturnSlot(t) PROVE FreedOK'
  BY <1>3 DEF ReturnSlot
<1>4. ASSUME NEW t \in Callers, NEW c \in Calls, Cancel(t, c) PROVE FreedOK'
  BY <1>4 DEF Cancel
<1>5. ASSUME NEW t \in Callers, NEW c \in Calls, ReleaseSlot(t, c) PROVE FreedOK'
  BY <1>5 DEF ReleaseSlot
<1>6. ASSUME NEW t \in Callers, Unregister(t) PROVE FreedOK'
  BY <1>6 DEF Unregister
<1>7. ASSUME NEW t \in Callers, Destroy(t) PROVE FreedOK'
  BY <1>7 DEF Destroy
<1>8. ASSUME NEW t \in Callers, Erase(t) PROVE FreedOK'
  BY <1>8 DEF Erase
<1>9. ASSUME NEW t \in Callers, Clear(t) PROVE FreedOK'
  BY <1>9 DEF Clear
<1>10. ASSUME NEW t \in Callers, Unlock(t) PROVE FreedOK'
  BY <1>10 DEF Unlock
<1>11. ASSUME NEW t \in Callers, NEW c \in Calls, Drop(t, c) PROVE FreedOK'
  BY <1>11 DEF Drop
<1>12. ASSUME NEW t \in Callers, Release(t) PROVE FreedOK'
  BY <1>12 DEF Release, Running
<1>13. ASSUME NEW t \in Callers, Returns(t) PROVE FreedOK'
  BY <1>13 DEF Returns, Running
<1>14. ASSUME NEW c \in Calls, Dispatch(c) PROVE FreedOK'
  BY <1>14 DEF Dispatch
<1>15. CASE CallbackReturns
  BY <1>15 DEF CallbackReturns
<1>16. CASE HandlerReturns
  BY <1>16 DEF HandlerReturns
<1>17. CASE UNCHANGED vars
  BY <1>17 DEF vars
<1> QED
  BY <1>1, <1>2, <1>3, <1>4, <1>5, <1>6, <1>7, <1>8, <1>9,
     <1>10, <1>11, <1>12, <1>13, <1>14, <1>15, <1>16, <1>17
  DEF Next, Starts, Continues

\* The handler tells a push_back that comes too late.
LEMMA FinishedStep ==
    ASSUME TypeOK, HandlerOK, OpsOK, IdleOK, IssueOK, RefsOK, DyingOK, FinishedOK,
               [Next]_vars
    PROVE  FinishedOK'
<1> USE ConstFacts DEF TypeOK, HandlerOK, OpsOK, IdleOK, IssueOK, RefsOK, DyingOK,
        FinishedOK, Holders, life, lock, run, api, hist, Begins, Goto, MayCall, Free
<1>1. ASSUME NEW t \in Callers, NEW c \in Calls, CallMethodAsync(t, c) PROVE FinishedOK'
  BY <1>1 DEF CallMethodAsync
<1>2. ASSUME NEW t \in Callers, PushBack(t) PROVE FinishedOK'
  BY <1>2 DEF PushBack
<1>3. ASSUME NEW t \in Callers, ReturnSlot(t) PROVE FinishedOK'
  BY <1>3 DEF ReturnSlot
<1>4. ASSUME NEW t \in Callers, NEW c \in Calls, Cancel(t, c) PROVE FinishedOK'
  BY <1>4 DEF Cancel
<1>5. ASSUME NEW t \in Callers, NEW c \in Calls, ReleaseSlot(t, c) PROVE FinishedOK'
  BY <1>5 DEF ReleaseSlot
<1>6. ASSUME NEW t \in Callers, Unregister(t) PROVE FinishedOK'
  BY <1>6 DEF Unregister
<1>7. ASSUME NEW t \in Callers, Destroy(t) PROVE FinishedOK'
  BY <1>7 DEF Destroy
<1>8. ASSUME NEW t \in Callers, Erase(t) PROVE FinishedOK'
  BY <1>8 DEF Erase
<1>9. ASSUME NEW t \in Callers, Clear(t) PROVE FinishedOK'
  BY <1>9 DEF Clear
<1>10. ASSUME NEW t \in Callers, Unlock(t) PROVE FinishedOK'
  BY <1>10 DEF Unlock
<1>11. ASSUME NEW t \in Callers, NEW c \in Calls, Drop(t, c) PROVE FinishedOK'
  BY <1>11 DEF Drop
<1>12. ASSUME NEW t \in Callers, Release(t) PROVE FinishedOK'
  BY <1>12 DEF Release
<1>13. ASSUME NEW t \in Callers, Returns(t) PROVE FinishedOK'
  BY <1>13 DEF Returns
<1>14. ASSUME NEW c \in Calls, Dispatch(c) PROVE FinishedOK'
  BY <1>14 DEF Dispatch
<1>15. CASE CallbackReturns
  BY <1>15 DEF CallbackReturns
<1>16. CASE HandlerReturns
  BY <1>16 DEF HandlerReturns
<1>17. CASE UNCHANGED vars
  BY <1>17 DEF vars
<1> QED
  BY <1>1, <1>2, <1>3, <1>4, <1>5, <1>6, <1>7, <1>8, <1>9,
     <1>10, <1>11, <1>12, <1>13, <1>14, <1>15, <1>16, <1>17
  DEF Next, Starts, Continues

\* The container only takes and keeps calls that are not over.
LEMMA StuckStep ==
    ASSUME TypeOK, HandlerOK, OpsOK, IssueOK, RefsOK, DyingOK, FinishedOK,
               NoStuckCall, [Next]_vars
    PROVE  NoStuckCall'
<1> USE ConstFacts DEF TypeOK, HandlerOK, OpsOK, IssueOK, RefsOK, DyingOK, FinishedOK,
        NoStuckCall, life, lock, run, api, hist, Begins, Goto, MayCall, Free
<1>1. ASSUME NEW t \in Callers, NEW c \in Calls, CallMethodAsync(t, c) PROVE NoStuckCall'
  BY <1>1 DEF CallMethodAsync
<1>2. ASSUME NEW t \in Callers, PushBack(t) PROVE NoStuckCall'
  BY <1>2 DEF PushBack
<1>3. ASSUME NEW t \in Callers, ReturnSlot(t) PROVE NoStuckCall'
  BY <1>3 DEF ReturnSlot
<1>4. ASSUME NEW t \in Callers, NEW c \in Calls, Cancel(t, c) PROVE NoStuckCall'
  BY <1>4 DEF Cancel
<1>5. ASSUME NEW t \in Callers, NEW c \in Calls, ReleaseSlot(t, c) PROVE NoStuckCall'
  BY <1>5 DEF ReleaseSlot
<1>6. ASSUME NEW t \in Callers, Unregister(t) PROVE NoStuckCall'
  BY <1>6 DEF Unregister
<1>7. ASSUME NEW t \in Callers, Destroy(t) PROVE NoStuckCall'
  BY <1>7 DEF Destroy
<1>8. ASSUME NEW t \in Callers, Erase(t) PROVE NoStuckCall'
  BY <1>8 DEF Erase
<1>9. ASSUME NEW t \in Callers, Clear(t) PROVE NoStuckCall'
  BY <1>9 DEF Clear
<1>10. ASSUME NEW t \in Callers, Unlock(t) PROVE NoStuckCall'
  BY <1>10 DEF Unlock
<1>11. ASSUME NEW t \in Callers, NEW c \in Calls, Drop(t, c) PROVE NoStuckCall'
  BY <1>11 DEF Drop
<1>12. ASSUME NEW t \in Callers, Release(t) PROVE NoStuckCall'
  BY <1>12 DEF Release
<1>13. ASSUME NEW t \in Callers, Returns(t) PROVE NoStuckCall'
  BY <1>13 DEF Returns
<1>14. ASSUME NEW c \in Calls, Dispatch(c) PROVE NoStuckCall'
  BY <1>14 DEF Dispatch
<1>15. CASE CallbackReturns
  BY <1>15 DEF CallbackReturns
<1>16. CASE HandlerReturns
  BY <1>16 DEF HandlerReturns
<1>17. CASE UNCHANGED vars
  BY <1>17 DEF vars
<1> QED
  BY <1>1, <1>2, <1>3, <1>4, <1>5, <1>6, <1>7, <1>8, <1>9,
     <1>10, <1>11, <1>12, <1>13, <1>14, <1>15, <1>16, <1>17
  DEF Next, Starts, Continues

\* What is being ended never comes back into the container.
LEMMA EndedStep ==
    ASSUME TypeOK, OpsOK, IdleOK, IssueOK, RefsOK, EndedOK, [Next]_vars
    PROVE  EndedOK'
<1> USE ConstFacts DEF TypeOK, OpsOK, IdleOK, IssueOK, RefsOK, EndedOK, Ending,
        Holders, life, lock, run, api, hist, Begins, Goto, MayCall, Free
<1>1. ASSUME NEW t \in Callers, NEW c \in Calls, CallMethodAsync(t, c) PROVE EndedOK'
  BY <1>1 DEF CallMethodAsync
<1>2. ASSUME NEW t \in Callers, PushBack(t) PROVE EndedOK'
  BY <1>2 DEF PushBack
<1>3. ASSUME NEW t \in Callers, ReturnSlot(t) PROVE EndedOK'
  BY <1>3 DEF ReturnSlot
<1>4. ASSUME NEW t \in Callers, NEW c \in Calls, Cancel(t, c) PROVE EndedOK'
  BY <1>4 DEF Cancel, Issued, Referenced
<1>5. ASSUME NEW t \in Callers, NEW c \in Calls, ReleaseSlot(t, c) PROVE EndedOK'
  BY <1>5 DEF ReleaseSlot
<1>6. ASSUME NEW t \in Callers, Unregister(t) PROVE EndedOK'
  BY <1>6 DEF Unregister
<1>7. ASSUME NEW t \in Callers, Destroy(t) PROVE EndedOK'
  BY <1>7 DEF Destroy
<1>8. ASSUME NEW t \in Callers, Erase(t) PROVE EndedOK'
  BY <1>8 DEF Erase
<1>9. ASSUME NEW t \in Callers, Clear(t) PROVE EndedOK'
  BY <1>9 DEF Clear, Issued
<1>10. ASSUME NEW t \in Callers, Unlock(t) PROVE EndedOK'
  BY <1>10 DEF Unlock
<1>11. ASSUME NEW t \in Callers, NEW c \in Calls, Drop(t, c) PROVE EndedOK'
  BY <1>11 DEF Drop
<1>12. ASSUME NEW t \in Callers, Release(t) PROVE EndedOK'
  BY <1>12 DEF Release
<1>13. ASSUME NEW t \in Callers, Returns(t) PROVE EndedOK'
  BY <1>13 DEF Returns
<1>14. ASSUME NEW c \in Calls, Dispatch(c) PROVE EndedOK'
  BY <1>14 DEF Dispatch
<1>15. CASE CallbackReturns
  BY <1>15 DEF CallbackReturns
<1>16. CASE HandlerReturns
  BY <1>16 DEF HandlerReturns
<1>17. CASE UNCHANGED vars
  BY <1>17 DEF vars
<1> QED
  BY <1>1, <1>2, <1>3, <1>4, <1>5, <1>6, <1>7, <1>8, <1>9,
     <1>10, <1>11, <1>12, <1>13, <1>14, <1>15, <1>16, <1>17
  DEF Next, Starts, Continues

\* The destructor of the proxy clears the container, and nobody fills it again.
LEMMA ProxyStep ==
    ASSUME TypeOK, HandlerOK, OpsOK, IdleOK, IssueOK, RefsOK, DyingOK, FreedOK,
               ProxyOK, [Next]_vars
    PROVE  ProxyOK'
<1> USE ConstFacts DEF TypeOK, Ops, HandlerOK, OpsOK, IdleOK, IssueOK, RefsOK,
        DyingOK, FreedOK, ProxyOK, Holders, life, lock, run, api, hist, Begins, Goto,
        MayCall, Free
<1>1. ASSUME NEW t \in Callers, NEW c \in Calls, CallMethodAsync(t, c) PROVE ProxyOK'
  BY <1>1 DEF CallMethodAsync
<1>2. ASSUME NEW t \in Callers, PushBack(t) PROVE ProxyOK'
  BY <1>2 DEF PushBack
<1>3. ASSUME NEW t \in Callers, ReturnSlot(t) PROVE ProxyOK'
  BY <1>3 DEF ReturnSlot
<1>4. ASSUME NEW t \in Callers, NEW c \in Calls, Cancel(t, c) PROVE ProxyOK'
  BY <1>4 DEF Cancel, Issued, Referenced
<1>5. ASSUME NEW t \in Callers, NEW c \in Calls, ReleaseSlot(t, c) PROVE ProxyOK'
  BY <1>5 DEF ReleaseSlot
<1>6. ASSUME NEW t \in Callers, Unregister(t) PROVE ProxyOK'
  BY <1>6 DEF Unregister
<1>7. ASSUME NEW t \in Callers, Destroy(t) PROVE ProxyOK'
  BY <1>7 DEF Destroy
<1>8. ASSUME NEW t \in Callers, Erase(t) PROVE ProxyOK'
  BY <1>8 DEF Erase
<1>9. ASSUME NEW t \in Callers, Clear(t) PROVE ProxyOK'
  BY <1>9 DEF Clear
<1>10. ASSUME NEW t \in Callers, Unlock(t) PROVE ProxyOK'
  BY <1>10 DEF Unlock
<1>11. ASSUME NEW t \in Callers, NEW c \in Calls, Drop(t, c) PROVE ProxyOK'
  BY <1>11 DEF Drop
<1>12. ASSUME NEW t \in Callers, Release(t) PROVE ProxyOK'
  BY <1>12 DEF Release
<1>13. ASSUME NEW t \in Callers, Returns(t) PROVE ProxyOK'
  <2>1. CASE op[t] # "destroy"
    BY <1>13, <2>1 DEF Returns
  <2>2. CASE op[t] = "destroy" /\ ~outlived'
    <3>1. slots = {} /\ local[t] = {} /\ \A u \in Callers \ {t} : local[u] = {}
      BY <1>13, <2>2 DEF Returns, Lingering
    <3>2. \A u \in Callers : pc[u] # "release"
      BY <1>13, <2>2 DEF Returns, Lingering
    <3>3. \A d \in Calls : memory[d] \in {"none", "freed"}
      BY <1>13, <2>2, <3>1, <3>2 DEF Returns, Lingering
    <3>4. handler # "none" => current \in selfReleased'
      BY <1>13, <2>2 DEF Returns, Lingering, Running
    <3> QED
      BY <1>13, <2>2, <3>3, <3>4 DEF Returns
  <2>3. CASE op[t] = "destroy" /\ outlived'
    BY <1>13, <2>3 DEF Returns
  <2> QED
    BY <2>1, <2>2, <2>3
<1>14. ASSUME NEW c \in Calls, Dispatch(c) PROVE ProxyOK'
  BY <1>14 DEF Dispatch
<1>15. CASE CallbackReturns
  BY <1>15 DEF CallbackReturns
<1>16. CASE HandlerReturns
  BY <1>16 DEF HandlerReturns
<1>17. CASE UNCHANGED vars
  BY <1>17 DEF vars
<1> QED
  BY <1>1, <1>2, <1>3, <1>4, <1>5, <1>6, <1>7, <1>8, <1>9,
     <1>10, <1>11, <1>12, <1>13, <1>14, <1>15, <1>16, <1>17
  DEF Next, Starts, Continues

\* Nothing exists at the start.
LEMMA LifeInit == Init => TypeOK /\ LifeInv
<1> SUFFICES ASSUME Init PROVE TypeOK /\ LifeInv
  OBVIOUS
<1> USE ConstFacts DEF Init
<1>1. TypeOK
  BY DEF TypeOK, Ops, Stages
<1>2. IdleOK /\ HandlerOK /\ OpsOK /\ IssueOK
  BY DEF IdleOK, HandlerOK, OpsOK, IssueOK
<1>3. RefsOK /\ DyingOK /\ FreedOK /\ FinishedOK
  BY DEF RefsOK, Holders, DyingOK, FreedOK, FinishedOK
<1>4. NoStuckCall /\ EndedOK /\ ProxyOK
  BY DEF NoStuckCall, EndedOK, Ending, ProxyOK
<1> QED
  BY <1>1, <1>2, <1>3, <1>4 DEF LifeInv

\* The parts are inductive together.
LEMMA LifeStep == TypeOK /\ LifeInv /\ [Next]_vars => TypeOK' /\ LifeInv'
BY TypeStep, IdleStep, HandlerStep, OpsStep, IssueStep, RefsStep, DyingStep,
   FreedStep, FinishedStep, StuckStep, EndedStep, ProxyStep
DEF LifeInv

\* The invariant of the whole module, in every behaviour.
THEOREM LifeInvariant == Spec => [](TypeOK /\ LifeInv)
BY LifeInit, LifeStep, PTL DEF Spec

-----------------------------------------------------------------------------
(* The safety properties of AsyncCalls.                                     *)

\* No operation leaves the types: slots_ holds floating calls only, the
\* application owns the others.
THEOREM TypeCorrect == Spec => []TypeOK
BY LifeInvariant, PTL

\* sd-bus never holds a pointer to a destroyed AsyncCallInfo: the raw pointer
\* given to sd_bus_call_async goes with the last strong reference.
THEOREM SdBusPointersValid == Spec => []UserDataAlive
<1>1. TypeOK /\ LifeInv => UserDataAlive
  BY DEF TypeOK, LifeInv, FreedOK, UserDataAlive
<1> QED
  BY <1>1, LifeInvariant, PTL

\* A reply that overtakes push_back does not leave its call in the container.
THEOREM NothingStuck == Spec => []NoStuckCall
<1>1. TypeOK /\ LifeInv => NoStuckCall
  BY DEF LifeInv
<1> QED
  BY <1>1, LifeInvariant, PTL

\* The reply handler and cancel never work on a destroyed info or proxy, except
\* in the two cases the property names.
THEOREM MemorySafe == Spec => []NoUseAfterFree
<1>1. ASSUME TypeOK, LifeInv, NEW t \in Callers, NEW c \in Calls, UsesInfo(t, c)
      PROVE  /\ memory[c] = "freed" => c \in selfReleased
             /\ (proxy = "gone" /\ pc[t] = "erase") => c \in selfReleased \/ outlived
  <2> USE ConstFacts DEF LifeInv, UsesInfo, Running
  <2>1. memory[c] = "freed" => c \in selfReleased
    BY <1>1 DEF OpsOK, RefsOK, Holders, FreedOK, HandlerOK
  <2>2. (proxy = "gone" /\ pc[t] = "erase") => c \in selfReleased \/ outlived
    BY <1>1 DEF OpsOK, RefsOK, Holders, ProxyOK, HandlerOK
  <2> QED
    BY <2>1, <2>2
<1>2. TypeOK /\ LifeInv => NoUseAfterFree
  BY <1>1 DEF NoUseAfterFree
<1> QED
  BY <1>2, LifeInvariant, PTL

\* Closed calls are over in every respect.
ClosedOver ==
    \A c \in Closed : c \in Calls /\ memory[c] = "freed" /\ c \notin registered /\ ~Running(c)

\* A closed call has no reference and no destructor left: its info is freed.
LEMMA ClosedFacts == TypeOK /\ LifeInv => ClosedOver
<1> SUFFICES ASSUME TypeOK, LifeInv, NEW c \in Closed
             PROVE  /\ c \in Calls /\ memory[c] = "freed"
                    /\ c \notin registered /\ ~Running(c)
  BY DEF ClosedOver
<1>1. c \in Calls /\ c \in ended \ selfReleased /\ ~EndedElsewhere(c)
  BY DEF Closed, TypeOK
<1>2. memory[c] # "alive"
  BY <1>1 DEF LifeInv, RefsOK, Holders, EndedOK, Ending, EndedElsewhere
<1>3. memory[c] # "dying"
  BY <1>1 DEF LifeInv, DyingOK, EndedElsewhere
<1>4. memory[c] = "freed"
  BY <1>1, <1>2, <1>3 DEF LifeInv, EndedOK, Ending, TypeOK
<1> QED
  BY <1>1, <1>4 DEF LifeInv, FreedOK, Running

\* Whoever has ended a call need not fear its callback any more: neither cancel,
\* nor unregister, nor a destructor returns while the callback runs or may run.
THEOREM EndMeansEnd == Spec => []NoCallbackAfterEnd
<1>1. TypeOK /\ LifeInv => NoCallbackAfterEnd
  BY ClosedFacts DEF NoCallbackAfterEnd, ClosedOver
<1> QED
  BY <1>1, LifeInvariant, PTL

-----------------------------------------------------------------------------
(* The refinement of PendingCalls.                                          *)

\* What StateOf says, condition by condition.
StateFacts ==
    \A c \in Calls :
        /\ StateOf(c) \in {"new", "pending", "running", "done"}
        /\ StateOf(c) = "new" <=> memory[c] = "none"
        /\ StateOf(c) = "running" <=> Running(c)
        /\ StateOf(c) = "pending" <=> c \in registered

\* The four states exclude each other.
LEMMA StateValues == TypeOK /\ LifeInv => StateFacts
<1> SUFFICES ASSUME TypeOK, LifeInv, NEW c \in Calls
             PROVE  /\ StateOf(c) \in {"new", "pending", "running", "done"}
                    /\ StateOf(c) = "new" <=> memory[c] = "none"
                    /\ StateOf(c) = "running" <=> Running(c)
                    /\ StateOf(c) = "pending" <=> c \in registered
  BY DEF StateFacts
<1>1. memory[c] = "none" => ~Running(c) /\ c \notin registered
  BY DEF LifeInv, HandlerOK, FreedOK, Running
<1>2. Running(c) => c \notin registered
  BY DEF LifeInv, HandlerOK, Running
<1> QED
  BY <1>1, <1>2 DEF StateOf

StaysClosed(d) ==
    memory'[d] = "freed" /\ d \in ended' /\ d \notin selfReleased'

\* A freed info stays freed, and its call stays ended.
LEMMA ClosedStay ==
    ASSUME TypeOK, LifeInv, NEW d \in Closed, [Next]_vars
    PROVE  StaysClosed(d)
<1>0. memory[d] = "freed" /\ d \in Calls /\ ~Running(d)
  BY ClosedFacts DEF ClosedOver
<1> USE ConstFacts DEF StaysClosed, LifeInv, TypeOK, Closed, life, lock, run, api,
        hist, Begins, Goto, MayCall, Free
<1>1. ASSUME NEW t \in Callers, NEW c \in Calls, CallMethodAsync(t, c) PROVE StaysClosed(d)
  BY <1>0, <1>1 DEF CallMethodAsync
<1>2. ASSUME NEW t \in Callers, PushBack(t) PROVE StaysClosed(d)
  BY <1>0, <1>2 DEF PushBack
<1>3. ASSUME NEW t \in Callers, ReturnSlot(t) PROVE StaysClosed(d)
  BY <1>0, <1>3 DEF ReturnSlot
<1>4. ASSUME NEW t \in Callers, NEW c \in Calls, Cancel(t, c) PROVE StaysClosed(d)
  BY <1>0, <1>4 DEF Cancel
<1>5. ASSUME NEW t \in Callers, NEW c \in Calls, ReleaseSlot(t, c) PROVE StaysClosed(d)
  BY <1>0, <1>5 DEF ReleaseSlot, RefsOK
<1>6. ASSUME NEW t \in Callers, Unregister(t) PROVE StaysClosed(d)
  BY <1>0, <1>6 DEF Unregister
<1>7. ASSUME NEW t \in Callers, Destroy(t) PROVE StaysClosed(d)
  BY <1>0, <1>7 DEF Destroy
<1>8. ASSUME NEW t \in Callers, Erase(t) PROVE StaysClosed(d)
  BY <1>0, <1>8 DEF Erase
<1>9. ASSUME NEW t \in Callers, Clear(t) PROVE StaysClosed(d)
  BY <1>0, <1>9 DEF Clear
<1>10. ASSUME NEW t \in Callers, Unlock(t) PROVE StaysClosed(d)
  BY <1>0, <1>10 DEF Unlock
<1>11. ASSUME NEW t \in Callers, NEW c \in Calls, Drop(t, c) PROVE StaysClosed(d)
  BY <1>0, <1>11 DEF Drop, RefsOK, Holders
<1>12. ASSUME NEW t \in Callers, Release(t) PROVE StaysClosed(d)
  BY <1>0, <1>12 DEF Release
<1>13. ASSUME NEW t \in Callers, Returns(t) PROVE StaysClosed(d)
  BY <1>0, <1>13 DEF Returns
<1>14. ASSUME NEW c \in Calls, Dispatch(c) PROVE StaysClosed(d)
  BY <1>0, <1>14 DEF Dispatch
<1>15. CASE CallbackReturns
  BY <1>0, <1>15 DEF CallbackReturns
<1>16. CASE HandlerReturns
  BY <1>0, <1>16 DEF HandlerReturns
<1>17. CASE UNCHANGED vars
  BY <1>0, <1>17 DEF vars
<1> QED
  BY <1>1, <1>2, <1>3, <1>4, <1>5, <1>6, <1>7, <1>8, <1>9,
     <1>10, <1>11, <1>12, <1>13, <1>14, <1>15, <1>16, <1>17
  DEF Next, Starts, Continues

\* No call is ever reopened, and closed calls are done.
LEMMA ClosedGrows ==
    ASSUME TypeOK, LifeInv, TypeOK', LifeInv', [Next]_vars
    PROVE  /\ Closed \subseteq Closed'
           /\ \A d \in Closed' : d \in Calls /\ StateOf(d)' = "done"
<1>1. ASSUME NEW d \in Closed PROVE d \in Closed'
  <2>1. memory'[d] = "freed" /\ d \in ended' /\ d \notin selfReleased' /\ d \in Calls
    BY ClosedStay, ClosedFacts DEF ClosedOver, StaysClosed
  <2>2. \A t \in Callers : d \notin local'[t]
    BY <2>1 DEF LifeInv, RefsOK, Holders
  <2>3. \A t \in Callers : ~(pc'[t] = "release" /\ arg'[t] = d)
    BY <2>1 DEF LifeInv, DyingOK
  <2> QED
    BY <2>1, <2>2, <2>3 DEF Closed, EndedElsewhere
<1>2. ClosedOver'
  BY ClosedFacts, PTL
<1>3. StateFacts'
  BY StateValues, PTL
<1> QED
  BY <1>1, <1>2, <1>3 DEF StateFacts, ClosedOver

\* A call that keeps these three facts keeps its state.
LEMMA SameState ==
    ASSUME TypeOK, LifeInv, TypeOK', LifeInv', NEW d \in Calls,
           memory'[d] = "none" <=> memory[d] = "none",
           d \in registered' <=> d \in registered,
           Running(d)' <=> Running(d)
    PROVE  StateOf(d)' = StateOf(d)
<1>1. StateFacts /\ StateFacts'
  BY StateValues, PTL
<1> QED
  BY <1>1 DEF StateFacts

\* A step that changes these facts for one call only is a move of that call.
LEMMA OneMoves ==
    ASSUME TypeOK, LifeInv, TypeOK', LifeInv', NEW c \in Calls, NEW from, NEW to,
           StateOf(c) = from, StateOf(c)' = to,
           \A d \in Calls \ {c} :
              /\ memory'[d] = "none" <=> memory[d] = "none"
              /\ d \in registered' <=> d \in registered
              /\ Running(d)' <=> Running(d)
    PROVE  Abstract!Move(c, from, to)
<1>1. ASSUME NEW d \in Calls \ {c} PROVE StateOf(d)' = StateOf(d)
  BY SameState
<1> QED
  BY <1>1 DEF Abstract!Move

\* Every step is a step of PendingCalls.
LEMMA RefinesStep ==
    ASSUME TypeOK, LifeInv, TypeOK', LifeInv', [Next]_vars
    PROVE  Abstract!Next
<1>0. Abstract!Close
  BY ClosedGrows DEF Abstract!Close
<1>00. StateFacts /\ StateFacts'
  BY StateValues, PTL
<1> USE ConstFacts DEF life, lock, run, api, hist, Begins, Goto, MayCall, Free
<1>1. ASSUME NEW t \in Callers, NEW c \in Calls, CallMethodAsync(t, c) PROVE Abstract!Next
  <2>1. memory[c] = "none" /\ memory'[c] = "alive" /\ c \in registered'
    BY <1>1 DEF CallMethodAsync, TypeOK
  <2>2. StateOf(c) = "new" /\ StateOf(c)' = "pending"
    BY <2>1, StateValues, <1>00 DEF StateFacts
  <2>3. Abstract!Issue(c)
    BY <1>1, <2>2, OneMoves DEF CallMethodAsync, Running, TypeOK, Abstract!Issue
  <2> QED
    BY <2>3, <1>0 DEF Abstract!Next
<1>2. ASSUME NEW t \in Callers, PushBack(t) PROVE Abstract!Next
  <2>1. ASSUME NEW d \in Calls PROVE StateOf(d)' = StateOf(d)
    BY <1>2, SameState DEF PushBack, Running, TypeOK
  <2> QED
    BY <2>1, <1>0 DEF Abstract!Next
<1>3. ASSUME NEW t \in Callers, ReturnSlot(t) PROVE Abstract!Next
  <2>1. ASSUME NEW d \in Calls PROVE StateOf(d)' = StateOf(d)
    BY <1>3, SameState DEF ReturnSlot, Running, TypeOK
  <2> QED
    BY <2>1, <1>0 DEF Abstract!Next
<1>4. ASSUME NEW t \in Callers, NEW c \in Calls, Cancel(t, c) PROVE Abstract!Next
  <2>1. ASSUME NEW d \in Calls PROVE StateOf(d)' = StateOf(d)
    BY <1>4, SameState DEF Cancel, Running, TypeOK
  <2> QED
    BY <2>1, <1>0 DEF Abstract!Next
<1>5. ASSUME NEW t \in Callers, NEW c \in Calls, ReleaseSlot(t, c) PROVE Abstract!Next
  <2>1. ASSUME NEW d \in Calls PROVE StateOf(d)' = StateOf(d)
    BY <1>5, SameState DEF ReleaseSlot, Running, TypeOK, LifeInv, RefsOK, Holders
  <2> QED
    BY <2>1, <1>0 DEF Abstract!Next
<1>6. ASSUME NEW t \in Callers, Unregister(t) PROVE Abstract!Next
  <2>1. ASSUME NEW d \in Calls PROVE StateOf(d)' = StateOf(d)
    BY <1>6, SameState DEF Unregister, Running, TypeOK
  <2> QED
    BY <2>1, <1>0 DEF Abstract!Next
<1>7. ASSUME NEW t \in Callers, Destroy(t) PROVE Abstract!Next
  <2>1. ASSUME NEW d \in Calls PROVE StateOf(d)' = StateOf(d)
    BY <1>7, SameState DEF Destroy, Running, TypeOK
  <2> QED
    BY <2>1, <1>0 DEF Abstract!Next
<1>8. ASSUME NEW t \in Callers, Erase(t) PROVE Abstract!Next
  <2>1. ASSUME NEW d \in Calls PROVE StateOf(d)' = StateOf(d)
    BY <1>8, SameState DEF Erase, Running, TypeOK
  <2> QED
    BY <2>1, <1>0 DEF Abstract!Next
<1>9. ASSUME NEW t \in Callers, Clear(t) PROVE Abstract!Next
  <2>1. ASSUME NEW d \in Calls PROVE StateOf(d)' = StateOf(d)
    BY <1>9, SameState DEF Clear, Running, TypeOK
  <2> QED
    BY <2>1, <1>0 DEF Abstract!Next
<1>10. ASSUME NEW t \in Callers, Unlock(t) PROVE Abstract!Next
  <2>1. ASSUME NEW d \in Calls PROVE StateOf(d)' = StateOf(d)
    BY <1>10, SameState DEF Unlock, Running, TypeOK
  <2> QED
    BY <2>1, <1>0 DEF Abstract!Next
<1>11. ASSUME NEW t \in Callers, NEW c \in Calls, Drop(t, c) PROVE Abstract!Next
  <2>1. ASSUME NEW d \in Calls PROVE StateOf(d)' = StateOf(d)
    BY <1>11, SameState DEF Drop, Running, TypeOK, LifeInv, RefsOK, Holders
  <2> QED
    BY <2>1, <1>0 DEF Abstract!Next
<1>12. ASSUME NEW t \in Callers, Release(t) PROVE Abstract!Next
  <2>1. arg[t] \in Calls /\ memory[arg[t]] = "dying" /\ memory'[arg[t]] = "freed"
    BY <1>12 DEF Release, LifeInv, DyingOK, TypeOK
  <2>2. CASE arg[t] \in registered
    <3>1. StateOf(arg[t]) = "pending" /\ StateOf(arg[t])' = "done"
      BY <1>12, <2>1, <2>2, <1>00 DEF StateFacts, Release, Running
    <3>2. Abstract!Cancel(arg[t])
      BY <1>12, <2>1, <3>1, OneMoves DEF Release, Running, TypeOK, Abstract!Cancel
    <3> QED
      BY <2>1, <3>2, <1>0 DEF Abstract!Next
  <2>3. CASE arg[t] \notin registered
    <3>1. ASSUME NEW d \in Calls PROVE StateOf(d)' = StateOf(d)
      BY <1>12, <2>1, <2>3, SameState DEF Release, Running, TypeOK
    <3> QED
      BY <3>1, <1>0 DEF Abstract!Next
  <2> QED
    BY <2>2, <2>3
<1>13. ASSUME NEW t \in Callers, Returns(t) PROVE Abstract!Next
  <2>1. ASSUME NEW d \in Calls PROVE StateOf(d)' = StateOf(d)
    BY <1>13, SameState DEF Returns, Running, TypeOK
  <2> QED
    BY <2>1, <1>0 DEF Abstract!Next
<1>14. ASSUME NEW c \in Calls, Dispatch(c) PROVE Abstract!Next
  <2>1. StateOf(c) = "pending" /\ StateOf(c)' = "running"
    BY <1>14, <1>00 DEF StateFacts, Dispatch, Running
  <2>2. \A d \in Calls : StateOf(d) # "running"
    BY <1>14, <1>00 DEF StateFacts, Dispatch, Running
  <2>3. Abstract!Deliver(c)
    BY <1>14, <2>1, <2>2, OneMoves DEF Dispatch, Running, Abstract!Deliver
  <2> QED
    BY <2>3, <1>0 DEF Abstract!Next
<1>15. CASE CallbackReturns
  <2>1. current \in Calls \ registered /\ memory[current] # "none"
    BY <1>15 DEF CallbackReturns, LifeInv, HandlerOK
  <2>2. StateOf(current) = "running" /\ StateOf(current)' = "done"
    BY <1>15, <2>1, <1>00 DEF StateFacts, CallbackReturns, Running
  <2>3. Abstract!Return(current)
    BY <1>15, <2>1, <2>2, OneMoves DEF CallbackReturns, Running, Abstract!Return
  <2> QED
    BY <2>1, <2>3, <1>0 DEF Abstract!Next
<1>16. CASE HandlerReturns
  <2>1. ASSUME NEW d \in Calls PROVE StateOf(d)' = StateOf(d)
    BY <1>16, SameState DEF HandlerReturns, Running, TypeOK
  <2> QED
    BY <2>1, <1>0 DEF Abstract!Next
<1>17. CASE UNCHANGED vars
  <2>1. ASSUME NEW d \in Calls PROVE StateOf(d)' = StateOf(d)
    BY <1>17, SameState DEF vars, Running, TypeOK
  <2> QED
    BY <2>1, <1>0 DEF Abstract!Next
<1> QED
  BY <1>1, <1>2, <1>3, <1>4, <1>5, <1>6, <1>7, <1>8, <1>9,
     <1>10, <1>11, <1>12, <1>13, <1>14, <1>15, <1>16, <1>17
  DEF Next, Starts, Continues

\* Nothing has been issued, nothing is closed.
LEMMA RefinesInit == Init => Abstract!Init
BY DEF Init, StateOf, Running, Closed, Abstract!Init

\* The calls of a proxy implement PendingCalls: delivered at most once, one at a
\* time, never after an end that has returned.
THEOREM Refinement == Spec => Implements
<1>1. TypeOK /\ LifeInv /\ TypeOK' /\ LifeInv' /\ [Next]_vars => Abstract!Next
  BY RefinesStep
<1> QED
  BY <1>1, RefinesInit, LifeInvariant, PTL DEF Spec, Implements, Abstract!Spec

-----------------------------------------------------------------------------
(* Deadlock.                                                                *)

\* mutex_ is held for the critical section of erase and clear, no longer.
SlotsMutexOK == \A t \in Callers : slotsMutex = t <=> pc[t] = "unlock"

\* Every step keeps it, since no other one begins or ends such a section.
LEMMA SlotsMutexStep ==
    ASSUME TypeOK, LifeInv, SlotsMutexOK, [Next]_vars
    PROVE  SlotsMutexOK'
<1> USE ConstFacts DEF TypeOK, SlotsMutexOK, life, lock, run, api, hist, Begins, Goto,
        MayCall, Free
<1>1. ASSUME NEW t \in Callers, NEW c \in Calls, CallMethodAsync(t, c) PROVE SlotsMutexOK'
  BY <1>1 DEF CallMethodAsync
<1>2. ASSUME NEW t \in Callers, PushBack(t) PROVE SlotsMutexOK'
  BY <1>2 DEF PushBack
<1>3. ASSUME NEW t \in Callers, ReturnSlot(t) PROVE SlotsMutexOK'
  BY <1>3 DEF ReturnSlot
<1>4. ASSUME NEW t \in Callers, NEW c \in Calls, Cancel(t, c) PROVE SlotsMutexOK'
  BY <1>4 DEF Cancel
<1>5. ASSUME NEW t \in Callers, NEW c \in Calls, ReleaseSlot(t, c) PROVE SlotsMutexOK'
  BY <1>5 DEF ReleaseSlot
<1>6. ASSUME NEW t \in Callers, Unregister(t) PROVE SlotsMutexOK'
  BY <1>6 DEF Unregister
<1>7. ASSUME NEW t \in Callers, Destroy(t) PROVE SlotsMutexOK'
  BY <1>7 DEF Destroy
<1>8. ASSUME NEW t \in Callers, Erase(t) PROVE SlotsMutexOK'
  BY <1>8 DEF Erase
<1>9. ASSUME NEW t \in Callers, Clear(t) PROVE SlotsMutexOK'
  BY <1>9 DEF Clear
<1>10. ASSUME NEW t \in Callers, Unlock(t) PROVE SlotsMutexOK'
  BY <1>10 DEF Unlock
<1>11. ASSUME NEW t \in Callers, NEW c \in Calls, Drop(t, c) PROVE SlotsMutexOK'
  BY <1>11 DEF Drop
<1>12. ASSUME NEW t \in Callers, Release(t) PROVE SlotsMutexOK'
  BY <1>12 DEF Release
<1>13. ASSUME NEW t \in Callers, Returns(t) PROVE SlotsMutexOK'
  BY <1>13 DEF Returns
<1>14. ASSUME NEW c \in Calls, Dispatch(c) PROVE SlotsMutexOK'
  BY <1>14 DEF Dispatch
<1>15. CASE CallbackReturns
  BY <1>15 DEF CallbackReturns, LifeInv, HandlerOK
<1>16. CASE HandlerReturns
  BY <1>16 DEF HandlerReturns
<1>17. CASE UNCHANGED vars
  BY <1>17 DEF vars
<1> QED
  BY <1>1, <1>2, <1>3, <1>4, <1>5, <1>6, <1>7, <1>8, <1>9,
     <1>10, <1>11, <1>12, <1>13, <1>14, <1>15, <1>16, <1>17
  DEF Next, Starts, Continues

\* The owner of mutex_ waits for nobody, the loop thread at most for the owner of
\* mutex_, and all others for one of these two.
LEMMA WaitsAreOrdered ==
    ASSUME TypeOK, LifeInv, SlotsMutexOK
    PROVE  NoDeadlock
<1>1. mutex \in {None, Loop} /\ None \notin Callers /\ Loop \in Callers
  BY ConstFacts DEF LifeInv, HandlerOK
<1>2. \A t \in Callers : \A u \in WaitsFor(t) : (u = Loop /\ t # Loop) \/ u = slotsMutex
  BY <1>1 DEF WaitsFor
<1>3. \A t, u \in Callers : t = slotsMutex => u \notin WaitsFor(t)
  BY DEF WaitsFor, SlotsMutexOK
<1>4. ASSUME NEW W \in SUBSET Callers, W # {}
      PROVE  \E t \in W : WaitsFor(t) \cap W = {}
  <2>1. CASE slotsMutex \in W
    BY <2>1, <1>3
  <2>2. CASE slotsMutex \notin W /\ Loop \in W
    BY <2>2, <1>2
  <2>3. CASE slotsMutex \notin W /\ Loop \notin W
    BY <2>3, <1>2, <1>4
  <2> QED
    BY <2>1, <2>2, <2>3
<1>5. ASSUME NEW t \in Callers, NEW u \in WaitsFor(t)
      PROVE  pc[u] # "idle" \/ (u = Loop /\ handler # "none")
  <2>1. u \in Callers /\ (u = slotsMutex \/ u = mutex)
    BY DEF WaitsFor
  <2>2. CASE u = slotsMutex
    BY <2>1, <2>2 DEF SlotsMutexOK
  <2>3. CASE u = mutex
    BY <1>1, <2>1, <2>3 DEF LifeInv, HandlerOK
  <2> QED
    BY <2>1, <2>2, <2>3
<1> QED
  BY <1>4, <1>5 DEF NoDeadlock

\* The threads that issue, cancel, unregister, release and destroy and the one
\* that runs the reply handlers never wait for each other in a circle
\* (Proxy.h FloatingAsyncCallSlots::mutex_, SdBus::sdbusMutex_).
THEOREM LocksAreOrdered == Spec => []NoDeadlock
<1>1. Init => SlotsMutexOK
  BY ConstFacts DEF Init, SlotsMutexOK
<1>2. TypeOK /\ LifeInv /\ SlotsMutexOK /\ [Next]_vars => SlotsMutexOK'
  BY SlotsMutexStep
<1>3. TypeOK /\ LifeInv /\ SlotsMutexOK => NoDeadlock
  BY WaitsAreOrdered
<1> QED
  BY <1>1, <1>2, <1>3, LifeInvariant, PTL DEF Spec
=============================================================================
