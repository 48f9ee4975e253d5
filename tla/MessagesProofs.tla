---------------------------- MODULE MessagesProofs ----------------------------
(***************************************************************************)
(* Proofs about message references and file descriptors, for every number   *)
(* of handles, messages, descriptors and threads.                           *)
(***************************************************************************)
EXTENDS Messages, FiniteSetTheorems, TLAPS

Ops == [name : {"idle", "assign", "creds", "copyfd"},
        dst : Handles \cup UnixFds \cup {None}, src : Handles \cup UnixFds \cup {None}]

\* A message with a handle, or held by sd-bus, is not freed.
LEMMA Held == ASSUME IInv, NEW h \in Handles, Valid(h) PROVE refs[handle[h]] \in Nat \ {0}
<1> DEFINE Holders == {k \in Handles : handle[k] = handle[h]}
<1>1. handle[h] \in Msgs
  BY DEF Valid
<1>2. IsFiniteSet(Holders)
  BY MessagesAssumption, FS_Subset
<1>3. Cardinality(Holders) \in Nat /\ Cardinality(Holders) # 0
  <2>1. h \in Holders
    OBVIOUS
  <2> HIDE DEF Holders
  <2> QED
    BY <1>2, <2>1, FS_CardinalityType, FS_EmptySet
<1>4. refs[handle[h]] = Cardinality(Holders) + (IF handle[h] \in queue THEN 1 ELSE 0)
  BY <1>1 DEF IInv, RefsCounted
<1> HIDE DEF Holders
<1> QED
  BY <1>3, <1>4

\* A message that sd-bus holds has a reference.
LEMMA HeldBySdBus == ASSUME IInv, NEW m \in queue PROVE m \in Msgs /\ refs[m] \in Nat \ {0}
BY DEF IInv, TypeOK, KindsOK

\* Giving a reference back keeps the types, and frees what has none left.
LEMMA UnreferencedTyped ==
    ASSUME IInv, NEW m \in Msgs, refs[m] # 0, Unreferenced(m)
    PROVE  /\ refs' \in [Msgs -> Nat]
           /\ kind' \in [Msgs -> {"free", "call", "silent", "reply", "sent", "incoming", "received"}]
           /\ \A k \in Msgs : refs'[k] = 0 <=> kind'[k] = "free"
           /\ open' \subseteq Fds /\ fdIn' \in [Msgs -> Fds \cup {None}]
<1> USE DEF IInv, TypeOK, Unreferenced
<1>1. refs[m] - 1 \in Nat /\ (refs[m] - 1 = 0 <=> refs[m] = 1)
  OBVIOUS
<1>2. refs' \in [Msgs -> Nat] /\ \A k \in Msgs : refs'[k] = IF k = m THEN refs[m] - 1 ELSE refs[k]
  BY <1>1
<1>3. \A k \in Msgs : kind'[k] = IF k = m /\ refs[m] = 1 THEN "free" ELSE kind[k]
  OBVIOUS
<1> QED
  BY <1>1, <1>2, <1>3

\* The count of the handles of a message, when one handle changes.
HoldersOf(f, m) == {h \in Handles : f[h] = m}

Sets(f, h, x, g) == g = [f EXCEPT ![h] = x]

Recounted(f, y, x, g) ==
    \A m \in Msgs :
        /\ Cardinality(HoldersOf(f, m)) \in Nat /\ Cardinality(HoldersOf(g, m)) \in Nat
        /\ Cardinality(HoldersOf(g, m)) + (IF y = m THEN 1 ELSE 0)
             = Cardinality(HoldersOf(f, m)) + (IF x = m THEN 1 ELSE 0)

\* When one handle changes, the count of each message moves by that handle.
LEMMA Recount ==
    ASSUME NEW f \in [Handles -> Msgs \cup {None, "none"}], NEW h \in Handles, NEW x, NEW g, Sets(f, h, x, g)
    PROVE  Recounted(f, f[h], x, g)
<1> USE DEF Sets
<1> SUFFICES ASSUME NEW m \in Msgs
             PROVE  /\ Cardinality(HoldersOf(f, m)) \in Nat /\ Cardinality(HoldersOf(g, m)) \in Nat
                    /\ Cardinality(HoldersOf(g, m)) + (IF f[h] = m THEN 1 ELSE 0)
                         = Cardinality(HoldersOf(f, m)) + (IF x = m THEN 1 ELSE 0)
  BY DEF Recounted
<1>1. IsFiniteSet(HoldersOf(f, m)) /\ IsFiniteSet(HoldersOf(g, m))
  BY MessagesAssumption, FS_Subset DEF HoldersOf
<1>2. Cardinality(HoldersOf(f, m)) \in Nat /\ Cardinality(HoldersOf(g, m)) \in Nat
  BY <1>1, FS_CardinalityType
<1>3. CASE f[h] = m /\ x # m
  <2>1. HoldersOf(g, m) = HoldersOf(f, m) \ {h} /\ h \in HoldersOf(f, m)
    BY <1>3 DEF HoldersOf
  <2>2. Cardinality(HoldersOf(g, m)) = Cardinality(HoldersOf(f, m)) - 1
    BY <1>1, <2>1, FS_RemoveElement
  <2> QED
    BY <1>2, <1>3, <2>2
<1>4. CASE f[h] # m /\ x = m
  <2>1. HoldersOf(g, m) = HoldersOf(f, m) \cup {h} /\ h \notin HoldersOf(f, m)
    BY <1>4 DEF HoldersOf
  <2>2. Cardinality(HoldersOf(g, m)) = Cardinality(HoldersOf(f, m)) + 1
    BY <1>1, <2>1, FS_AddElement
  <2> QED
    BY <1>2, <1>4, <2>2
<1>5. CASE f[h] = m <=> x = m
  <2>1. HoldersOf(g, m) = HoldersOf(f, m)
    BY <1>5 DEF HoldersOf
  <2> QED
    BY <1>2, <1>5, <2>1
<1> QED
  BY <1>3, <1>4, <1>5

\* A message has finitely many handles.
LEMMA CountedTyped == ASSUME NEW f, NEW m PROVE Cardinality(HoldersOf(f, m)) \in Nat
BY MessagesAssumption, FS_Subset, FS_CardinalityType DEF HoldersOf

\* RefsCounted in these terms.
Counted(f, r, q) ==
    \A m \in Msgs : r[m] = Cardinality(HoldersOf(f, m)) + (IF m \in q THEN 1 ELSE 0)

\* RefsCounted is Counted of the state, before and after a step.
LEMMA RefsCountedAs ==
    /\ RefsCounted <=> Counted(handle, refs, queue)
    /\ RefsCounted' <=> Counted(handle', refs', queue')
BY DEF RefsCounted, Counted, HoldersOf

\* A message in the hands of sd-bus and of a handle has two references.
LEMMA HeldTwice ==
    ASSUME IInv, NEW h \in Handles, Valid(h), handle[h] \in queue
    PROVE  refs[handle[h]] \in Nat \ {0, 1}
<1>1. handle[h] \in Msgs /\ handle \in [Handles -> Msgs \cup {None, "none"}]
  BY DEF Valid, IInv, TypeOK
<1>2. IsFiniteSet(HoldersOf(handle, handle[h])) /\ h \in HoldersOf(handle, handle[h])
  BY MessagesAssumption, FS_Subset DEF HoldersOf
<1>3. Cardinality(HoldersOf(handle, handle[h])) \in Nat \ {0}
  BY <1>2, FS_CardinalityType, FS_EmptySet
<1>4. refs[handle[h]] = Cardinality(HoldersOf(handle, handle[h])) + 1
  BY <1>1, RefsCountedAs DEF IInv, Counted
<1> QED
  BY <1>3, <1>4

\* A freed message has no handle and is not in the queue of sd-bus.
LEMMA FreeIsUnused ==
    ASSUME IInv, NEW m \in Msgs, kind[m] = "free"
    PROVE  refs[m] = 0 /\ m \notin queue /\ Cardinality(HoldersOf(handle, m)) = 0 /\ \A h \in Handles : handle[h] # m
<1>1. refs[m] = 0 /\ m \notin queue
  BY DEF IInv, TypeOK, KindsOK
<1>2. \A h \in Handles : handle[h] # m
  BY <1>1, Held DEF Valid
<1>3. HoldersOf(handle, m) = {}
  BY <1>2 DEF HoldersOf
<1> QED
  BY <1>1, <1>2, <1>3, FS_EmptySet

\* Messages keep their types.
LEMMA TypingStep == IInv /\ [Next]_vars => TypeOK'
<1> SUFFICES ASSUME IInv, [Next]_vars PROVE TypeOK'
  OBVIOUS
<1> USE MessagesAssumption DEF IInv, TypeOK, messages, fds, Ready, Valid, Kinds, InUse, MayChange, Usable,
           Idle, OpsOK
<1>1. ASSUME NEW t \in Threads, NEW h \in Handles, NEW m \in Msgs, CreateMethodCall(t, h, m)
      PROVE  TypeOK'
  BY <1>1 DEF CreateMethodCall, Adopts
<1>2. ASSUME NEW t \in Threads, NEW h \in Handles, NEW m \in Msgs, Wrap(t, h, m)
      PROVE  TypeOK'
  BY <1>2 DEF Wrap
<1>3. ASSUME NEW t \in Threads, NEW h \in Handles, NEW from \in Handles, CopyAssign(t, h, from)
      PROVE  TypeOK'
  <2>1. handle' \in [Handles -> Msgs \cup {None, "none"}]
    BY <1>3 DEF CopyAssign
  <2>2. CASE Valid(h)
    BY <1>3, <2>1, <2>2, Held, UnreferencedTyped DEF CopyAssign
  <2>3. CASE ~Valid(h)
    BY <1>3, <2>1, <2>3 DEF CopyAssign
  <2> QED
    BY <2>2, <2>3
<1>4. ASSUME NEW t \in Threads, CopyTakes(t)
      PROVE  TypeOK'
  <2>1. op[t].src \in Handles /\ handle[op[t].src] \in Msgs /\ refs[handle[op[t].src]] \in Nat \ {0}
    BY <1>4, Held DEF CopyTakes
  <2> QED
    BY <1>4, <2>1 DEF CopyTakes
<1>5. ASSUME NEW t \in Threads, NEW h \in Handles, NEW from \in Handles, MoveAssign(t, h, from)
      PROVE  TypeOK'
  <2>1. handle' \in [Handles -> Msgs \cup {None, "none"}]
    BY <1>5 DEF MoveAssign
  <2>2. CASE Valid(h)
    BY <1>5, <2>1, <2>2, Held, UnreferencedTyped DEF MoveAssign
  <2>3. CASE ~Valid(h)
    BY <1>5, <2>1, <2>3 DEF MoveAssign
  <2> QED
    BY <2>2, <2>3
<1>6. ASSUME NEW t \in Threads, NEW h \in Handles, Destruct(t, h)
      PROVE  TypeOK'
  <2>1. handle' \in [Handles -> Msgs \cup {None, "none"}]
    BY <1>6 DEF Destruct
  <2>2. CASE Valid(h)
    BY <1>6, <2>1, <2>2, Held, UnreferencedTyped DEF Destruct
  <2>3. CASE ~Valid(h)
    BY <1>6, <2>1, <2>3 DEF Destruct
  <2> QED
    BY <2>2, <2>3
<1>7. ASSUME NEW t \in Threads, NEW h \in Handles, DontExpectReply(t, h)
      PROVE  TypeOK'
  BY <1>7 DEF DontExpectReply
<1>8. ASSUME NEW t \in Threads, NEW h \in Handles, NEW result \in Handles, NEW m \in Msgs, SendCall(t, h, result, m)
      PROVE  TypeOK'
  BY <1>8 DEF SendCall, Queued
<1>9. ASSUME NEW t \in Threads, NEW h \in Handles, SendMessage(t, h)
      PROVE  TypeOK'
  BY <1>9 DEF SendMessage, Queued
<1>10. ASSUME NEW t \in Threads, NEW h \in Handles, NEW result \in Handles, NEW m \in Msgs, CreateReply(t, h, result, m)
      PROVE  TypeOK'
  BY <1>10 DEF CreateReply, Adopts
<1>11. ASSUME NEW t \in Threads, NEW h \in Handles, QueryCreds(t, h)
      PROVE  TypeOK'
  BY <1>11 DEF QueryCreds
<1>12. ASSUME NEW t \in Threads, ReturnCreds(t)
      PROVE  TypeOK'
  BY <1>12 DEF ReturnCreds
<1>13. ASSUME NEW m \in Msgs, NEW n \in Fds \cup {None}, Receives(m, n)
      PROVE  TypeOK'
  BY <1>13 DEF Receives
<1>14. ASSUME NEW m \in Msgs, Releases(m)
      PROVE  TypeOK'
  <2>1. refs[m] # 0 /\ Unreferenced(m) /\ queue' \subseteq Msgs
    BY <1>14, HeldBySdBus DEF Releases
  <2> QED
    BY <1>14, <2>1, UnreferencedTyped DEF Releases
<1>15. ASSUME NEW n \in Fds, AppOpens(n)
      PROVE  TypeOK'
  BY <1>15 DEF AppOpens
<1>16. ASSUME NEW n \in Fds, AppCloses(n)
      PROVE  TypeOK'
  BY <1>16 DEF AppCloses
<1>17. ASSUME NEW f \in UnixFds, NEW n \in Fds \cup {None}, Adopt(f, n)
      PROVE  TypeOK'
  BY <1>17 DEF Adopt, Closes
<1>18. ASSUME NEW f \in UnixFds, NEW n \in Fds, NEW new \in Fds, Dup(f, n, new)
      PROVE  TypeOK'
  BY <1>18 DEF Dup, Closes
<1>19. ASSUME NEW t \in Threads, NEW f \in UnixFds, NEW from \in UnixFds, CopyFd(t, f, from)
      PROVE  TypeOK'
  BY <1>19 DEF CopyFd, Closes
<1>20. ASSUME NEW t \in Threads, NEW new \in Fds \cup {None}, CopyFdDup(t, new)
      PROVE  TypeOK'
  BY <1>20 DEF CopyFdDup
<1>21. ASSUME NEW f \in UnixFds, NEW from \in UnixFds, MoveFd(f, from)
      PROVE  TypeOK'
  BY <1>21 DEF MoveFd, Closes
<1>22. ASSUME NEW f \in UnixFds, ReleaseFd(f)
      PROVE  TypeOK'
  BY <1>22 DEF ReleaseFd
<1>23. ASSUME NEW f \in UnixFds, DestructFd(f)
      PROVE  TypeOK'
  BY <1>23 DEF DestructFd, Closes
<1>24. ASSUME NEW t \in Threads, NEW h \in Handles, NEW f \in UnixFds, NEW new \in Fds, AppendFd(t, h, f, new)
      PROVE  TypeOK'
  BY <1>24 DEF AppendFd
<1>25. ASSUME NEW t \in Threads, NEW h \in Handles, NEW f \in UnixFds, NEW new \in Fds, ReadFd(t, h, f, new)
      PROVE  TypeOK'
  BY <1>25 DEF ReadFd, Closes
<1>26. CASE UNCHANGED vars
  BY <1>26 DEF vars, messages, fds
<1> QED
  BY <1>1, <1>2, <1>3, <1>4, <1>5, <1>6, <1>7, <1>8, <1>9, <1>10, <1>11, <1>12,
     <1>13, <1>14, <1>15, <1>16, <1>17, <1>18, <1>19, <1>20, <1>21, <1>22, <1>23, <1>24,
     <1>25, <1>26
     DEF Next, HandleOps, FdOps

\* Assignments keep what they work on.
LEMMA OpsStep == IInv /\ [Next]_vars => OpsOK'
<1> SUFFICES ASSUME IInv, [Next]_vars PROVE OpsOK'
  OBVIOUS
<1> USE MessagesAssumption DEF IInv, TypeOK, messages, fds, Ready, Valid, Kinds, InUse, MayChange, Usable,
           Idle, OpsOK
<1>1. ASSUME NEW t \in Threads, NEW h \in Handles, NEW m \in Msgs, CreateMethodCall(t, h, m)
      PROVE  OpsOK'
  BY <1>1 DEF CreateMethodCall, Adopts
<1>2. ASSUME NEW t \in Threads, NEW h \in Handles, NEW m \in Msgs, Wrap(t, h, m)
      PROVE  OpsOK'
  BY <1>2 DEF Wrap
<1>3. ASSUME NEW t \in Threads, NEW h \in Handles, NEW from \in Handles, CopyAssign(t, h, from)
      PROVE  OpsOK'
  BY <1>3 DEF CopyAssign, Unreferenced
<1>4. ASSUME NEW t \in Threads, CopyTakes(t)
      PROVE  OpsOK'
  BY <1>4 DEF CopyTakes
<1>5. ASSUME NEW t \in Threads, NEW h \in Handles, NEW from \in Handles, MoveAssign(t, h, from)
      PROVE  OpsOK'
  BY <1>5 DEF MoveAssign, Unreferenced
<1>6. ASSUME NEW t \in Threads, NEW h \in Handles, Destruct(t, h)
      PROVE  OpsOK'
  BY <1>6 DEF Destruct, Unreferenced
<1>7. ASSUME NEW t \in Threads, NEW h \in Handles, DontExpectReply(t, h)
      PROVE  OpsOK'
  BY <1>7 DEF DontExpectReply
<1>8. ASSUME NEW t \in Threads, NEW h \in Handles, NEW result \in Handles, NEW m \in Msgs, SendCall(t, h, result, m)
      PROVE  OpsOK'
  BY <1>8 DEF SendCall, Queued
<1>9. ASSUME NEW t \in Threads, NEW h \in Handles, SendMessage(t, h)
      PROVE  OpsOK'
  BY <1>9 DEF SendMessage, Queued
<1>10. ASSUME NEW t \in Threads, NEW h \in Handles, NEW result \in Handles, NEW m \in Msgs, CreateReply(t, h, result, m)
      PROVE  OpsOK'
  BY <1>10 DEF CreateReply, Adopts
<1>11. ASSUME NEW t \in Threads, NEW h \in Handles, QueryCreds(t, h)
      PROVE  OpsOK'
  BY <1>11 DEF QueryCreds
<1>12. ASSUME NEW t \in Threads, ReturnCreds(t)
      PROVE  OpsOK'
  BY <1>12 DEF ReturnCreds
<1>13. ASSUME NEW m \in Msgs, NEW n \in Fds \cup {None}, Receives(m, n)
      PROVE  OpsOK'
  BY <1>13 DEF Receives
<1>14. ASSUME NEW m \in Msgs, Releases(m)
      PROVE  OpsOK'
  BY <1>14 DEF Releases, Unreferenced
<1>15. ASSUME NEW n \in Fds, AppOpens(n)
      PROVE  OpsOK'
  BY <1>15 DEF AppOpens
<1>16. ASSUME NEW n \in Fds, AppCloses(n)
      PROVE  OpsOK'
  BY <1>16 DEF AppCloses
<1>17. ASSUME NEW f \in UnixFds, NEW n \in Fds \cup {None}, Adopt(f, n)
      PROVE  OpsOK'
  BY <1>17 DEF Adopt, Closes
<1>18. ASSUME NEW f \in UnixFds, NEW n \in Fds, NEW new \in Fds, Dup(f, n, new)
      PROVE  OpsOK'
  BY <1>18 DEF Dup, Closes
<1>19. ASSUME NEW t \in Threads, NEW f \in UnixFds, NEW from \in UnixFds, CopyFd(t, f, from)
      PROVE  OpsOK'
  BY <1>19 DEF CopyFd, Closes
<1>20. ASSUME NEW t \in Threads, NEW new \in Fds \cup {None}, CopyFdDup(t, new)
      PROVE  OpsOK'
  BY <1>20 DEF CopyFdDup
<1>21. ASSUME NEW f \in UnixFds, NEW from \in UnixFds, MoveFd(f, from)
      PROVE  OpsOK'
  BY <1>21 DEF MoveFd, Closes
<1>22. ASSUME NEW f \in UnixFds, ReleaseFd(f)
      PROVE  OpsOK'
  BY <1>22 DEF ReleaseFd
<1>23. ASSUME NEW f \in UnixFds, DestructFd(f)
      PROVE  OpsOK'
  BY <1>23 DEF DestructFd, Closes
<1>24. ASSUME NEW t \in Threads, NEW h \in Handles, NEW f \in UnixFds, NEW new \in Fds, AppendFd(t, h, f, new)
      PROVE  OpsOK'
  BY <1>24 DEF AppendFd
<1>25. ASSUME NEW t \in Threads, NEW h \in Handles, NEW f \in UnixFds, NEW new \in Fds, ReadFd(t, h, f, new)
      PROVE  OpsOK'
  BY <1>25 DEF ReadFd, Closes
<1>26. CASE UNCHANGED vars
  BY <1>26 DEF vars, messages, fds
<1> QED
  BY <1>1, <1>2, <1>3, <1>4, <1>5, <1>6, <1>7, <1>8, <1>9, <1>10, <1>11, <1>12,
     <1>13, <1>14, <1>15, <1>16, <1>17, <1>18, <1>19, <1>20, <1>21, <1>22, <1>23, <1>24,
     <1>25, <1>26
     DEF Next, HandleOps, FdOps

\* What the operations on descriptors leave alone.
LEMMA FdOpsKeep == FdOps => UNCHANGED <<messages, creds>>
BY DEF FdOps, AppOpens, AppCloses, Adopt, Dup, CopyFd, CopyFdDup, MoveFd, ReleaseFd, DestructFd, AppendFd, ReadFd

\* sd-bus holds sealed messages only, a freed message has no descriptor.
LEMMA KindsStep == IInv /\ [Next]_vars => KindsOK'
<1> SUFFICES ASSUME IInv, [Next]_vars PROVE KindsOK'
  OBVIOUS
<1> USE MessagesAssumption DEF IInv, TypeOK, messages, fds, Ready, Valid, Kinds, InUse, MayChange, Usable,
           KindsOK
<1>1. ASSUME NEW t \in Threads, NEW h \in Handles, NEW m \in Msgs, CreateMethodCall(t, h, m)
      PROVE  KindsOK'
  <2>1. \A q \in queue : kind[q] # "free"
    OBVIOUS
  <2> QED
    BY <1>1, <2>1 DEF CreateMethodCall, Adopts
<1>2. ASSUME NEW t \in Threads, NEW h \in Handles, NEW m \in Msgs, Wrap(t, h, m)
      PROVE  KindsOK'
  BY <1>2 DEF Wrap
<1>3. ASSUME NEW t \in Threads, NEW h \in Handles, NEW from \in Handles, CopyAssign(t, h, from)
      PROVE  KindsOK'
  <2>1. CASE Valid(h)
    BY <1>3, <2>1, Held, HeldTwice DEF CopyAssign, Unreferenced
  <2>2. CASE ~Valid(h)
    BY <1>3, <2>2 DEF CopyAssign
  <2> QED
    BY <2>1, <2>2
<1>4. ASSUME NEW t \in Threads, CopyTakes(t)
      PROVE  KindsOK'
  BY <1>4 DEF CopyTakes
<1>5. ASSUME NEW t \in Threads, NEW h \in Handles, NEW from \in Handles, MoveAssign(t, h, from)
      PROVE  KindsOK'
  <2>1. CASE Valid(h)
    BY <1>5, <2>1, Held, HeldTwice DEF MoveAssign, Unreferenced
  <2>2. CASE ~Valid(h)
    BY <1>5, <2>2 DEF MoveAssign
  <2> QED
    BY <2>1, <2>2
<1>6. ASSUME NEW t \in Threads, NEW h \in Handles, Destruct(t, h)
      PROVE  KindsOK'
  <2>1. CASE Valid(h)
    BY <1>6, <2>1, Held, HeldTwice DEF Destruct, Unreferenced
  <2>2. CASE ~Valid(h)
    BY <1>6, <2>2 DEF Destruct
  <2> QED
    BY <2>1, <2>2
<1>7. ASSUME NEW t \in Threads, NEW h \in Handles, DontExpectReply(t, h)
      PROVE  KindsOK'
  BY <1>7 DEF DontExpectReply
<1>8. ASSUME NEW t \in Threads, NEW h \in Handles, NEW result \in Handles, NEW m \in Msgs, SendCall(t, h, result, m)
      PROVE  KindsOK'
  <2>1. \A q \in queue : kind[q] # "free"
    OBVIOUS
  <2> QED
    BY <1>8, <2>1 DEF SendCall, Queued
<1>9. ASSUME NEW t \in Threads, NEW h \in Handles, SendMessage(t, h)
      PROVE  KindsOK'
  BY <1>9 DEF SendMessage, Queued
<1>10. ASSUME NEW t \in Threads, NEW h \in Handles, NEW result \in Handles, NEW m \in Msgs, CreateReply(t, h, result, m)
      PROVE  KindsOK'
  <2>1. \A q \in queue : kind[q] # "free"
    OBVIOUS
  <2> QED
    BY <1>10, <2>1 DEF CreateReply, Adopts
<1>11. ASSUME NEW t \in Threads, NEW h \in Handles, QueryCreds(t, h)
      PROVE  KindsOK'
  BY <1>11 DEF QueryCreds
<1>12. ASSUME NEW t \in Threads, ReturnCreds(t)
      PROVE  KindsOK'
  BY <1>12 DEF ReturnCreds
<1>13. ASSUME NEW m \in Msgs, NEW n \in Fds \cup {None}, Receives(m, n)
      PROVE  KindsOK'
  BY <1>13 DEF Receives
<1>14. ASSUME NEW m \in Msgs, Releases(m)
      PROVE  KindsOK'
  BY <1>14 DEF Releases, Unreferenced
<1>15. ASSUME NEW n \in Fds, AppOpens(n)
      PROVE  KindsOK'
  BY <1>15 DEF AppOpens
<1>16. ASSUME NEW n \in Fds, AppCloses(n)
      PROVE  KindsOK'
  BY <1>16 DEF AppCloses
<1>17. ASSUME NEW f \in UnixFds, NEW n \in Fds \cup {None}, Adopt(f, n)
      PROVE  KindsOK'
  BY <1>17 DEF Adopt, Closes
<1>18. ASSUME NEW f \in UnixFds, NEW n \in Fds, NEW new \in Fds, Dup(f, n, new)
      PROVE  KindsOK'
  BY <1>18 DEF Dup, Closes
<1>19. ASSUME NEW t \in Threads, NEW f \in UnixFds, NEW from \in UnixFds, CopyFd(t, f, from)
      PROVE  KindsOK'
  BY <1>19 DEF CopyFd, Closes
<1>20. ASSUME NEW t \in Threads, NEW new \in Fds \cup {None}, CopyFdDup(t, new)
      PROVE  KindsOK'
  BY <1>20 DEF CopyFdDup
<1>21. ASSUME NEW f \in UnixFds, NEW from \in UnixFds, MoveFd(f, from)
      PROVE  KindsOK'
  BY <1>21 DEF MoveFd, Closes
<1>22. ASSUME NEW f \in UnixFds, ReleaseFd(f)
      PROVE  KindsOK'
  BY <1>22 DEF ReleaseFd
<1>23. ASSUME NEW f \in UnixFds, DestructFd(f)
      PROVE  KindsOK'
  BY <1>23 DEF DestructFd, Closes
<1>24. ASSUME NEW t \in Threads, NEW h \in Handles, NEW f \in UnixFds, NEW new \in Fds, AppendFd(t, h, f, new)
      PROVE  KindsOK'
  <2>1. handle[h] \in Msgs /\ kind[handle[h]] # "free" /\ UNCHANGED <<queue, kind>>
    BY <1>24 DEF AppendFd
  <2> QED
    BY <1>24, <2>1 DEF AppendFd
<1>25. ASSUME NEW t \in Threads, NEW h \in Handles, NEW f \in UnixFds, NEW new \in Fds, ReadFd(t, h, f, new)
      PROVE  KindsOK'
  BY <1>25 DEF ReadFd, Closes
<1>26. CASE UNCHANGED vars
  BY <1>26 DEF vars, messages, fds
<1> QED
  BY <1>1, <1>2, <1>3, <1>4, <1>5, <1>6, <1>7, <1>8, <1>9, <1>10, <1>11, <1>12,
     <1>13, <1>14, <1>15, <1>16, <1>17, <1>18, <1>19, <1>20, <1>21, <1>22, <1>23, <1>24,
     <1>25, <1>26
     DEF Next, HandleOps, FdOps

\* A thread has credentials only while it queries them.
LEMMA CredsStep == IInv /\ [Next]_vars => CredsReturned'
<1> SUFFICES ASSUME IInv, [Next]_vars PROVE CredsReturned'
  OBVIOUS
<1> USE MessagesAssumption DEF IInv, TypeOK, messages, fds, Ready, Valid, Kinds, InUse, MayChange, Usable,
           Idle, CredsReturned, OpsOK
<1>1. ASSUME NEW t \in Threads, NEW h \in Handles, NEW m \in Msgs, CreateMethodCall(t, h, m)
      PROVE  CredsReturned'
  BY <1>1 DEF CreateMethodCall, Adopts
<1>2. ASSUME NEW t \in Threads, NEW h \in Handles, NEW m \in Msgs, Wrap(t, h, m)
      PROVE  CredsReturned'
  BY <1>2 DEF Wrap
<1>3. ASSUME NEW t \in Threads, NEW h \in Handles, NEW from \in Handles, CopyAssign(t, h, from)
      PROVE  CredsReturned'
  BY <1>3 DEF CopyAssign, Unreferenced
<1>4. ASSUME NEW t \in Threads, CopyTakes(t)
      PROVE  CredsReturned'
  BY <1>4 DEF CopyTakes
<1>5. ASSUME NEW t \in Threads, NEW h \in Handles, NEW from \in Handles, MoveAssign(t, h, from)
      PROVE  CredsReturned'
  BY <1>5 DEF MoveAssign, Unreferenced
<1>6. ASSUME NEW t \in Threads, NEW h \in Handles, Destruct(t, h)
      PROVE  CredsReturned'
  BY <1>6 DEF Destruct, Unreferenced
<1>7. ASSUME NEW t \in Threads, NEW h \in Handles, DontExpectReply(t, h)
      PROVE  CredsReturned'
  BY <1>7 DEF DontExpectReply
<1>8. ASSUME NEW t \in Threads, NEW h \in Handles, NEW result \in Handles, NEW m \in Msgs, SendCall(t, h, result, m)
      PROVE  CredsReturned'
  BY <1>8 DEF SendCall, Queued
<1>9. ASSUME NEW t \in Threads, NEW h \in Handles, SendMessage(t, h)
      PROVE  CredsReturned'
  BY <1>9 DEF SendMessage, Queued
<1>10. ASSUME NEW t \in Threads, NEW h \in Handles, NEW result \in Handles, NEW m \in Msgs, CreateReply(t, h, result, m)
      PROVE  CredsReturned'
  BY <1>10 DEF CreateReply, Adopts
<1>11. ASSUME NEW t \in Threads, NEW h \in Handles, QueryCreds(t, h)
      PROVE  CredsReturned'
  BY <1>11 DEF QueryCreds
<1>12. ASSUME NEW t \in Threads, ReturnCreds(t)
      PROVE  CredsReturned'
  BY <1>12 DEF ReturnCreds
<1>13. ASSUME NEW m \in Msgs, NEW n \in Fds \cup {None}, Receives(m, n)
      PROVE  CredsReturned'
  BY <1>13 DEF Receives
<1>14. ASSUME NEW m \in Msgs, Releases(m)
      PROVE  CredsReturned'
  BY <1>14 DEF Releases, Unreferenced
<1>15. ASSUME NEW n \in Fds, AppOpens(n)
      PROVE  CredsReturned'
  BY <1>15 DEF AppOpens
<1>16. ASSUME NEW n \in Fds, AppCloses(n)
      PROVE  CredsReturned'
  BY <1>16 DEF AppCloses
<1>17. ASSUME NEW f \in UnixFds, NEW n \in Fds \cup {None}, Adopt(f, n)
      PROVE  CredsReturned'
  BY <1>17 DEF Adopt, Closes
<1>18. ASSUME NEW f \in UnixFds, NEW n \in Fds, NEW new \in Fds, Dup(f, n, new)
      PROVE  CredsReturned'
  BY <1>18 DEF Dup, Closes
<1>19. ASSUME NEW t \in Threads, NEW f \in UnixFds, NEW from \in UnixFds, CopyFd(t, f, from)
      PROVE  CredsReturned'
  BY <1>19 DEF CopyFd, Closes
<1>20. ASSUME NEW t \in Threads, NEW new \in Fds \cup {None}, CopyFdDup(t, new)
      PROVE  CredsReturned'
  BY <1>20 DEF CopyFdDup
<1>21. ASSUME NEW f \in UnixFds, NEW from \in UnixFds, MoveFd(f, from)
      PROVE  CredsReturned'
  BY <1>21 DEF MoveFd, Closes
<1>22. ASSUME NEW f \in UnixFds, ReleaseFd(f)
      PROVE  CredsReturned'
  BY <1>22 DEF ReleaseFd
<1>23. ASSUME NEW f \in UnixFds, DestructFd(f)
      PROVE  CredsReturned'
  BY <1>23 DEF DestructFd, Closes
<1>24. ASSUME NEW t \in Threads, NEW h \in Handles, NEW f \in UnixFds, NEW new \in Fds, AppendFd(t, h, f, new)
      PROVE  CredsReturned'
  BY <1>24 DEF AppendFd
<1>25. ASSUME NEW t \in Threads, NEW h \in Handles, NEW f \in UnixFds, NEW new \in Fds, ReadFd(t, h, f, new)
      PROVE  CredsReturned'
  BY <1>25 DEF ReadFd, Closes
<1>26. CASE UNCHANGED vars
  BY <1>26 DEF vars, messages, fds
<1> QED
  BY <1>1, <1>2, <1>3, <1>4, <1>5, <1>6, <1>7, <1>8, <1>9, <1>10, <1>11, <1>12,
     <1>13, <1>14, <1>15, <1>16, <1>17, <1>18, <1>19, <1>20, <1>21, <1>22, <1>23, <1>24,
     <1>25, <1>26
     DEF Next, HandleOps, FdOps

\* Whatever a step does to handles, it does to the references.
LEMMA RefsStep == IInv /\ [Next]_vars /\ Counted(handle, refs, queue) => Counted(handle', refs', queue')
<1> SUFFICES ASSUME IInv, [Next]_vars, Counted(handle, refs, queue) PROVE Counted(handle', refs', queue')
  OBVIOUS
<1> USE MessagesAssumption DEF IInv, TypeOK, messages, fds, Ready, Valid, Kinds, InUse, MayChange, Usable,
           KindsOK, OpsOK
<1>1. ASSUME NEW t \in Threads, NEW h \in Handles, NEW m \in Msgs, CreateMethodCall(t, h, m)
      PROVE  Counted(handle', refs', queue')
  <2>1. handle[h] = "none" /\ refs' = [refs EXCEPT ![m] = 1] /\ queue' = queue /\ refs[m] = 0
    BY <1>1, FreeIsUnused DEF CreateMethodCall, Adopts
  <2>2. Sets(handle, h, m, handle')
    BY <1>1 DEF CreateMethodCall, Adopts, Sets
  <2>3. Recounted(handle, handle[h], m, handle')
    BY <2>2, Recount
  <2> QED
    BY <2>1, <2>3 DEF Counted, Recounted
<1>2. ASSUME NEW t \in Threads, NEW h \in Handles, NEW m \in Msgs, Wrap(t, h, m)
      PROVE  Counted(handle', refs', queue')
  <2>1. handle[h] = "none" /\ refs' = [refs EXCEPT ![m] = refs[m] + 1] /\ queue' = queue
    BY <1>2, FreeIsUnused DEF Wrap
  <2>2. Sets(handle, h, m, handle')
    BY <1>2 DEF Wrap, Sets
  <2>3. Recounted(handle, handle[h], m, handle')
    BY <2>2, Recount
  <2> QED
    BY <2>1, <2>3 DEF Counted, Recounted
<1>3. ASSUME NEW t \in Threads, NEW h \in Handles, NEW from \in Handles, CopyAssign(t, h, from)
      PROVE  Counted(handle', refs', queue')
  <2>1. Sets(handle, h, None, handle') /\ queue' = queue
    BY <1>3 DEF CopyAssign, Sets
  <2>4. Recounted(handle, handle[h], None, handle')
    BY <2>1, Recount
  <2>2. CASE Valid(h)
    <3>1. handle[h] \in Msgs /\ refs' = [refs EXCEPT ![handle[h]] = refs[handle[h]] - 1]
      BY <1>3, <2>2 DEF CopyAssign, Unreferenced
    <3> QED
      BY <2>1, <2>4, <3>1 DEF Counted, Recounted
  <2>3. CASE ~Valid(h)
    <3>1. handle[h] \notin Msgs /\ refs' = refs
      BY <1>3, <2>3 DEF CopyAssign
    <3> QED
      BY <2>1, <2>4, <3>1 DEF Counted, Recounted
  <2> QED
    BY <2>2, <2>3
<1>4. ASSUME NEW t \in Threads, CopyTakes(t)
      PROVE  Counted(handle', refs', queue')
  <2>1. /\ op[t].dst \in Handles /\ handle[op[t].dst] = None /\ handle[op[t].src] \in Msgs /\ queue' = queue
        /\ refs' = [refs EXCEPT ![handle[op[t].src]] = refs[handle[op[t].src]] + 1]
    BY <1>4 DEF CopyTakes
  <2>2. Sets(handle, op[t].dst, handle[op[t].src], handle')
    BY <1>4 DEF CopyTakes, Sets
  <2>3. Recounted(handle, handle[op[t].dst], handle[op[t].src], handle')
    BY <2>1, <2>2, Recount
  <2> QED
    BY <2>1, <2>3 DEF Counted, Recounted
<1>5. ASSUME NEW t \in Threads, NEW h \in Handles, NEW from \in Handles, MoveAssign(t, h, from)
      PROVE  Counted(handle', refs', queue')
  <2> DEFINE x == IF h = from THEN None ELSE handle[from]
             f == [handle EXCEPT ![h] = x]
  <2>1. Sets(handle, h, x, f) /\ f \in [Handles -> Msgs \cup {None, "none"}] /\ f[from] = x
    BY DEF Sets
  <2>2. Sets(f, from, None, handle') /\ queue' = queue
    BY <1>5 DEF MoveAssign, Sets
  <2> HIDE DEF x, f
  <2>3. Recounted(handle, handle[h], x, f) /\ Recounted(f, x, None, handle')
    BY <2>1, <2>2, Recount
  <2>4. Recounted(handle, handle[h], None, handle')
    BY <2>3 DEF Recounted
  <2>5. CASE Valid(h)
    <3>1. handle[h] \in Msgs /\ refs' = [refs EXCEPT ![handle[h]] = refs[handle[h]] - 1]
      BY <1>5, <2>5 DEF MoveAssign, Unreferenced
    <3> QED
      BY <2>2, <2>4, <3>1 DEF Counted, Recounted
  <2>6. CASE ~Valid(h)
    <3>1. handle[h] \notin Msgs /\ refs' = refs
      BY <1>5, <2>6 DEF MoveAssign
    <3> QED
      BY <2>2, <2>4, <3>1 DEF Counted, Recounted
  <2> QED
    BY <2>5, <2>6
<1>6. ASSUME NEW t \in Threads, NEW h \in Handles, Destruct(t, h)
      PROVE  Counted(handle', refs', queue')
  <2>1. Sets(handle, h, "none", handle') /\ queue' = queue
    BY <1>6 DEF Destruct, Sets
  <2>4. Recounted(handle, handle[h], "none", handle')
    BY <2>1, Recount
  <2>2. CASE Valid(h)
    <3>1. handle[h] \in Msgs /\ refs' = [refs EXCEPT ![handle[h]] = refs[handle[h]] - 1]
      BY <1>6, <2>2 DEF Destruct, Unreferenced
    <3> QED
      BY <2>1, <2>4, <3>1 DEF Counted, Recounted
  <2>3. CASE ~Valid(h)
    <3>1. handle[h] \notin Msgs /\ refs' = refs
      BY <1>6, <2>3 DEF Destruct
    <3> QED
      BY <2>1, <2>4, <3>1 DEF Counted, Recounted
  <2> QED
    BY <2>2, <2>3
<1>7. ASSUME NEW t \in Threads, NEW h \in Handles, DontExpectReply(t, h)
      PROVE  Counted(handle', refs', queue')
  BY <1>7 DEF DontExpectReply
<1>8. ASSUME NEW t \in Threads, NEW h \in Handles, NEW result \in Handles, NEW m \in Msgs, SendCall(t, h, result, m)
      PROVE  Counted(handle', refs', queue')
  <2>1. handle[result] = "none"
    BY <1>8 DEF SendCall
  <2>2. CASE kind[m] = "free" /\ UNCHANGED queue
    <3>1. Sets(handle, result, m, handle') /\ refs' = [refs EXCEPT ![m] = 1] /\ refs[m] = 0
      BY <1>8, <2>2, FreeIsUnused DEF SendCall, Sets
    <3>2. Recounted(handle, handle[result], m, handle')
      BY <3>1, Recount
    <3> QED
      BY <2>1, <2>2, <3>1, <3>2 DEF Counted, Recounted
  <2>3. CASE Kinds(h, {"silent"}) /\ m = handle[h] /\ Queued(m)
    <3>1. Sets(handle, result, None, handle') /\ refs' = [refs EXCEPT ![m] = refs[m] + 1]
          /\ m \notin queue /\ queue' = queue \cup {m}
      BY <1>8, <2>3 DEF SendCall, Queued, Sets
    <3>2. Recounted(handle, handle[result], None, handle')
      BY <3>1, Recount
    <3> QED
      BY <2>1, <3>1, <3>2 DEF Counted, Recounted
  <2> QED
    BY <1>8, <2>2, <2>3 DEF SendCall
<1>9. ASSUME NEW t \in Threads, NEW h \in Handles, SendMessage(t, h)
      PROVE  Counted(handle', refs', queue')
  <2>1. handle' = handle /\ handle[h] \in Msgs \ queue /\ queue' = queue \cup {handle[h]} /\ refs' = [refs EXCEPT ![handle[h]] = refs[handle[h]] + 1]
    BY <1>9, FreeIsUnused DEF SendMessage, Queued
  <2>2. \A k \in Msgs : Cardinality(HoldersOf(handle, k)) \in Nat
    BY CountedTyped
  <2> QED
    BY <2>1, <2>2 DEF Counted
<1>10. ASSUME NEW t \in Threads, NEW h \in Handles, NEW result \in Handles, NEW m \in Msgs, CreateReply(t, h, result, m)
      PROVE  Counted(handle', refs', queue')
  <2>1. handle[result] = "none" /\ refs' = [refs EXCEPT ![m] = 1] /\ queue' = queue /\ refs[m] = 0
    BY <1>10, FreeIsUnused DEF CreateReply, Adopts
  <2>2. Sets(handle, result, m, handle')
    BY <1>10 DEF CreateReply, Adopts, Sets
  <2>3. Recounted(handle, handle[result], m, handle')
    BY <2>2, Recount
  <2> QED
    BY <2>1, <2>3 DEF Counted, Recounted
<1>11. ASSUME NEW t \in Threads, NEW h \in Handles, QueryCreds(t, h)
      PROVE  Counted(handle', refs', queue')
  BY <1>11 DEF QueryCreds
<1>12. ASSUME NEW t \in Threads, ReturnCreds(t)
      PROVE  Counted(handle', refs', queue')
  BY <1>12 DEF ReturnCreds
<1>13. ASSUME NEW m \in Msgs, NEW n \in Fds \cup {None}, Receives(m, n)
      PROVE  Counted(handle', refs', queue')
  <2>1. handle' = handle /\ m \notin queue /\ queue' = queue \cup {m} /\ refs' = [refs EXCEPT ![m] = 1] /\ refs[m] = 0
    BY <1>13, FreeIsUnused DEF Receives
  <2>2. \A k \in Msgs : Cardinality(HoldersOf(handle, k)) \in Nat
    BY CountedTyped
  <2> QED
    BY <2>1, <2>2 DEF Counted
<1>14. ASSUME NEW m \in Msgs, Releases(m)
      PROVE  Counted(handle', refs', queue')
  <2>1. handle' = handle /\ m \in queue /\ queue' = queue \ {m} /\ refs' = [refs EXCEPT ![m] = refs[m] - 1]
    BY <1>14, FreeIsUnused DEF Releases, Unreferenced
  <2>2. \A k \in Msgs : Cardinality(HoldersOf(handle, k)) \in Nat
    BY CountedTyped
  <2> QED
    BY <2>1, <2>2 DEF Counted
<1>15. CASE FdOps
  BY <1>15, FdOpsKeep DEF messages
<1>16. CASE UNCHANGED vars
  BY <1>16 DEF vars, messages, fds
<1> QED
  BY <1>1, <1>2, <1>3, <1>4, <1>5, <1>6, <1>7, <1>8, <1>9, <1>10, <1>11, <1>12,
     <1>13, <1>14, <1>15, <1>16
     DEF Next, HandleOps, FdOps

\* The descriptor that each UnixFd owns; one whose fd_ is closed owns none.
Where == [f \in UnixFds |-> IF f \in Closed THEN None ELSE fd[f]]

\* DescriptorsOK in terms of the owners.
Owned(w, i, o, r) ==
    /\ \A f \in UnixFds : w[f] \in Fds =>
          /\ w[f] \in o /\ w[f] \notin r
          /\ \A g \in UnixFds : g # f => w[g] # w[f]
          /\ \A m \in Msgs : i[m] # w[f]
    /\ \A m \in Msgs : i[m] \in Fds =>
          /\ i[m] \in o /\ i[m] \notin r
          /\ \A k \in Msgs : k # m => i[k] # i[m]
    /\ r \subseteq o
    /\ \A n \in o : n \in r \/ (\E f \in UnixFds : w[f] = n) \/ \E m \in Msgs : i[m] = n

\* DescriptorsOK is Owned of the state.
LEMMA DescriptorsOKAs == TypeOK => (DescriptorsOK <=> Owned(Where, fdIn, open, raw))
<1> SUFFICES ASSUME TypeOK PROVE DescriptorsOK <=> Owned(Where, fdIn, open, raw)
  OBVIOUS
<1>1. None \notin Fds /\ open \subseteq Fds
  BY MessagesAssumption DEF TypeOK
<1>2. \A f \in UnixFds : Where[f] = IF f \in Closed THEN None ELSE fd[f]
  BY DEF Where
<1> HIDE DEF Where
<1>3. DescriptorsOK => Owned(Where, fdIn, open, raw)
  BY <1>1, <1>2 DEF DescriptorsOK, Owned
<1>4. Owned(Where, fdIn, open, raw) => DescriptorsOK
  <2> SUFFICES ASSUME Owned(Where, fdIn, open, raw) PROVE DescriptorsOK
    OBVIOUS
  <2>1. \A f \in UnixFds \ Closed : fd[f] \in Fds =>
          /\ fd[f] \in open /\ fd[f] \notin raw
          /\ \A g \in UnixFds \ (Closed \cup {f}) : fd[g] # fd[f]
          /\ \A m \in Msgs : fdIn[m] # fd[f]
    BY <1>2 DEF Owned
  <2>2. \A n \in open :
          n \in raw \/ (\E f \in UnixFds \ Closed : fd[f] = n) \/ \E m \in Msgs : fdIn[m] = n
    BY <1>1, <1>2 DEF Owned
  <2> QED
    BY <2>1, <2>2 DEF DescriptorsOK, Owned
<1> QED
  BY <1>3, <1>4

WhereType == [UnixFds -> Fds \cup {None, "none"}]

\* Owners own descriptors.
LEMMA WhereTyped == TypeOK => Where \in WhereType
BY DEF Where, WhereType, TypeOK

Becomes(w, f, x, v) == v = [w EXCEPT ![f] = x]

\* A UnixFd lets its descriptor go, and it is closed.
LEMMA Shut ==
    ASSUME NEW w \in WhereType, NEW v, NEW i, NEW o, NEW r, NEW f \in UnixFds, NEW x, x \notin Fds,
           Becomes(w, f, x, v), Owned(w, i, o, r), o \subseteq Fds
    PROVE  Owned(v, i, o \ ({w[f]} \cap Fds), r)
BY DEF WhereType, Becomes, Owned

\* A UnixFd gets a new descriptor; what it had is closed.
LEMMA Renewed ==
    ASSUME NEW w \in WhereType, NEW v, NEW i, NEW o, NEW r, NEW f \in UnixFds, NEW n \in Fds \ o,
           Becomes(w, f, n, v), Owned(w, i, o, r), o \subseteq Fds
    PROVE  Owned(v, i, (o \cup {n}) \ ({w[f]} \cap Fds), r)
<1> USE DEF WhereType, Becomes, Owned
<1>1. \A g \in UnixFds : v[g] = IF g = f THEN n ELSE w[g]
  OBVIOUS
<1>2. \A g \in UnixFds : w[g] # n /\ \A m \in Msgs : i[m] # n
  OBVIOUS
<1>3. \A g \in UnixFds : v[g] \in Fds => v[g] \in (o \cup {n}) \ ({w[f]} \cap Fds) /\ v[g] \notin r
  BY <1>1, <1>2
<1>4. \A g \in UnixFds : v[g] \in Fds => (\A k \in UnixFds : k # g => v[k] # v[g]) /\ \A m \in Msgs : i[m] # v[g]
  BY <1>1, <1>2
<1>5. \A k \in (o \cup {n}) \ ({w[f]} \cap Fds) : k \in r \/ (\E g \in UnixFds : v[g] = k) \/ \E m \in Msgs : i[m] = k
  BY <1>1
<1> HIDE DEF Becomes, WhereType
<1>6. \A m \in Msgs : i[m] \in Fds => i[m] \in (o \cup {n}) \ ({w[f]} \cap Fds) /\ i[m] \notin r
  OBVIOUS
<1> QED
  BY <1>3, <1>4, <1>5, <1>6

\* A UnixFd may change only when its descriptor is its own.
LEMMA MayChangeIsOwner == ASSUME NEW f \in UnixFds, MayChange(f) PROVE f \notin Closed /\ Where[f] = fd[f]
BY DEF MayChange, InUse, Closed, Where

\* A step that neither begins nor ends a copy leaves the same UnixFds closed.
LEMMA ClosedKept ==
    ASSUME UNCHANGED torn,
           \A t \in Threads : /\ op'[t].name = "copyfd" <=> op[t].name = "copyfd"
                              /\ op[t].name = "copyfd" => op'[t] = op[t]
    PROVE  Closed' = Closed
<1>1. \A x : x \in Closed <=> x \in torn \/ \E t \in Threads : op[t].name = "copyfd" /\ x = op[t].dst
  BY DEF Closed
<1>2. \A x : x \in Closed' <=> x \in torn \/ \E t \in Threads : op'[t].name = "copyfd" /\ x = op'[t].dst
  BY DEF Closed
<1>3. ASSUME NEW x PROVE x \in Closed <=> x \in Closed'
  <2>1. ASSUME NEW t \in Threads PROVE op[t].name = "copyfd" /\ x = op[t].dst <=> op'[t].name = "copyfd" /\ x = op'[t].dst
    OBVIOUS
  <2> QED
    BY <1>1, <1>2, <2>1
<1> QED
  BY <1>3

\* The operations on messages leave the UnixFds alone.
LEMMA OwnersKeep == IInv /\ Next /\ ~FdOps => Where' = Where /\ raw' = raw
<1> SUFFICES ASSUME IInv, Next, ~FdOps PROVE Where' = Where /\ raw' = raw
  OBVIOUS
<1> USE DEF IInv, fds
<1>1. ASSUME NEW t \in Threads, NEW h \in Handles, NEW m \in Msgs, CreateMethodCall(t, h, m)
      PROVE  Where' = Where /\ raw' = raw
  BY <1>1 DEF CreateMethodCall, Where, Closed
<1>2. ASSUME NEW t \in Threads, NEW h \in Handles, NEW m \in Msgs, Wrap(t, h, m)
      PROVE  Where' = Where /\ raw' = raw
  BY <1>2 DEF Wrap, Where, Closed
<1>3. ASSUME NEW t \in Threads, NEW h \in Handles, NEW from \in Handles, CopyAssign(t, h, from)
      PROVE  Where' = Where /\ raw' = raw
  <2>1. op' = [op EXCEPT ![t] = [name |-> "assign", dst |-> h, src |-> from]] /\ op[t].name # "copyfd" /\ UNCHANGED torn
    BY <1>3 DEF CopyAssign, Ready, Idle
  <2>4. \A u \in Threads : op'[u] = op[u] \/ (u = t /\ op'[u].name # "copyfd")
    BY <2>1 DEF Idle, TypeOK
  <2>2. Closed' = Closed
    BY <2>1, <2>4, ClosedKept
  <2>3. UNCHANGED <<fd, raw>>
    BY <1>3 DEF CopyAssign, fds
  <2> QED
    BY <2>2, <2>3 DEF Where
<1>4. ASSUME NEW t \in Threads, CopyTakes(t)
      PROVE  Where' = Where /\ raw' = raw
  <2>1. op' = [op EXCEPT ![t] = Idle] /\ op[t].name # "copyfd" /\ UNCHANGED torn
    BY <1>4 DEF CopyTakes, Ready, Idle
  <2>4. \A u \in Threads : op'[u] = op[u] \/ (u = t /\ op'[u].name # "copyfd")
    BY <2>1 DEF Idle, TypeOK
  <2>2. Closed' = Closed
    BY <2>1, <2>4, ClosedKept
  <2>3. UNCHANGED <<fd, raw>>
    BY <1>4 DEF CopyTakes, fds
  <2> QED
    BY <2>2, <2>3 DEF Where
<1>5. ASSUME NEW t \in Threads, NEW h \in Handles, NEW from \in Handles, MoveAssign(t, h, from)
      PROVE  Where' = Where /\ raw' = raw
  BY <1>5 DEF MoveAssign, Where, Closed
<1>6. ASSUME NEW t \in Threads, NEW h \in Handles, Destruct(t, h)
      PROVE  Where' = Where /\ raw' = raw
  BY <1>6 DEF Destruct, Where, Closed
<1>7. ASSUME NEW t \in Threads, NEW h \in Handles, DontExpectReply(t, h)
      PROVE  Where' = Where /\ raw' = raw
  BY <1>7 DEF DontExpectReply, Where, Closed
<1>8. ASSUME NEW t \in Threads, NEW h \in Handles, NEW result \in Handles, NEW m \in Msgs, SendCall(t, h, result, m)
      PROVE  Where' = Where /\ raw' = raw
  BY <1>8 DEF SendCall, Where, Closed
<1>9. ASSUME NEW t \in Threads, NEW h \in Handles, SendMessage(t, h)
      PROVE  Where' = Where /\ raw' = raw
  BY <1>9 DEF SendMessage, Where, Closed
<1>10. ASSUME NEW t \in Threads, NEW h \in Handles, NEW result \in Handles, NEW m \in Msgs, CreateReply(t, h, result, m)
      PROVE  Where' = Where /\ raw' = raw
  BY <1>10 DEF CreateReply, Where, Closed
<1>11. ASSUME NEW t \in Threads, NEW h \in Handles, QueryCreds(t, h)
      PROVE  Where' = Where /\ raw' = raw
  <2>1. op' = [op EXCEPT ![t] = [name |-> "creds", dst |-> None, src |-> h]] /\ op[t].name # "copyfd" /\ UNCHANGED torn
    BY <1>11 DEF QueryCreds, Ready, Idle
  <2>4. \A u \in Threads : op'[u] = op[u] \/ (u = t /\ op'[u].name # "copyfd")
    BY <2>1 DEF Idle, TypeOK
  <2>2. Closed' = Closed
    BY <2>1, <2>4, ClosedKept
  <2>3. UNCHANGED <<fd, raw>>
    BY <1>11 DEF QueryCreds, fds
  <2> QED
    BY <2>2, <2>3 DEF Where
<1>12. ASSUME NEW t \in Threads, ReturnCreds(t)
      PROVE  Where' = Where /\ raw' = raw
  <2>1. op' = [op EXCEPT ![t] = Idle] /\ op[t].name # "copyfd" /\ UNCHANGED torn
    BY <1>12 DEF ReturnCreds, Ready, Idle
  <2>4. \A u \in Threads : op'[u] = op[u] \/ (u = t /\ op'[u].name # "copyfd")
    BY <2>1 DEF Idle, TypeOK
  <2>2. Closed' = Closed
    BY <2>1, <2>4, ClosedKept
  <2>3. UNCHANGED <<fd, raw>>
    BY <1>12 DEF ReturnCreds, fds
  <2> QED
    BY <2>2, <2>3 DEF Where
<1>13. ASSUME NEW m \in Msgs, NEW n \in Fds \cup {None}, Receives(m, n)
      PROVE  Where' = Where /\ raw' = raw
  BY <1>13 DEF Receives, Where, Closed
<1>14. ASSUME NEW m \in Msgs, Releases(m)
      PROVE  Where' = Where /\ raw' = raw
  BY <1>14 DEF Releases, Where, Closed
<1> QED
  BY <1>1, <1>2, <1>3, <1>4, <1>5, <1>6, <1>7, <1>8, <1>9, <1>10, <1>11, <1>12,
     <1>13, <1>14
     DEF Next, HandleOps

\* What the operations on messages do to descriptors.
Drops(k)   == open' = open \ {fdIn[k]} /\ fdIn' = [fdIn EXCEPT ![k] = None]
Gets(k, x) == x \notin open /\ fdIn[k] = None /\ open' = open \cup ({x} \cap Fds) /\ fdIn' = [fdIn EXCEPT ![k] = x]

\* A reference given back drops the descriptor of the message, or nothing.
LEMMA UnreferencedDrops == ASSUME NEW m \in Msgs, Unreferenced(m) PROVE UNCHANGED <<open, fdIn>> \/ Drops(m)
BY DEF Unreferenced, Drops

\* A message that is received brings a descriptor, a freed one closes its own.
LEMMA MessageFds == IInv /\ Next /\ ~FdOps => UNCHANGED <<open, fdIn>> \/ \E k \in Msgs : Drops(k) \/ \E x \in Fds \cup {None} : Gets(k, x)
<1> SUFFICES ASSUME IInv, Next, ~FdOps PROVE UNCHANGED <<open, fdIn>> \/ \E k \in Msgs : Drops(k) \/ \E x \in Fds \cup {None} : Gets(k, x)
  OBVIOUS
<1> USE MessagesAssumption DEF IInv, fds
<1>1. ASSUME NEW t \in Threads, NEW h \in Handles, NEW m \in Msgs, CreateMethodCall(t, h, m)
      PROVE  UNCHANGED <<open, fdIn>> \/ \E k \in Msgs : Drops(k) \/ \E x \in Fds \cup {None} : Gets(k, x)
  BY <1>1 DEF CreateMethodCall
<1>2. ASSUME NEW t \in Threads, NEW h \in Handles, NEW m \in Msgs, Wrap(t, h, m)
      PROVE  UNCHANGED <<open, fdIn>> \/ \E k \in Msgs : Drops(k) \/ \E x \in Fds \cup {None} : Gets(k, x)
  BY <1>2 DEF Wrap
<1>3. ASSUME NEW t \in Threads, NEW h \in Handles, NEW from \in Handles, CopyAssign(t, h, from)
      PROVE  UNCHANGED <<open, fdIn>> \/ \E k \in Msgs : Drops(k) \/ \E x \in Fds \cup {None} : Gets(k, x)
  <2>1. CASE Valid(h)
    BY <1>3, <2>1, UnreferencedDrops DEF CopyAssign, Valid
  <2>2. CASE ~Valid(h)
    BY <1>3, <2>2 DEF CopyAssign
  <2> QED
    BY <2>1, <2>2
<1>4. ASSUME NEW t \in Threads, CopyTakes(t)
      PROVE  UNCHANGED <<open, fdIn>> \/ \E k \in Msgs : Drops(k) \/ \E x \in Fds \cup {None} : Gets(k, x)
  BY <1>4 DEF CopyTakes
<1>5. ASSUME NEW t \in Threads, NEW h \in Handles, NEW from \in Handles, MoveAssign(t, h, from)
      PROVE  UNCHANGED <<open, fdIn>> \/ \E k \in Msgs : Drops(k) \/ \E x \in Fds \cup {None} : Gets(k, x)
  <2>1. CASE Valid(h)
    BY <1>5, <2>1, UnreferencedDrops DEF MoveAssign, Valid
  <2>2. CASE ~Valid(h)
    BY <1>5, <2>2 DEF MoveAssign
  <2> QED
    BY <2>1, <2>2
<1>6. ASSUME NEW t \in Threads, NEW h \in Handles, Destruct(t, h)
      PROVE  UNCHANGED <<open, fdIn>> \/ \E k \in Msgs : Drops(k) \/ \E x \in Fds \cup {None} : Gets(k, x)
  <2>1. CASE Valid(h)
    BY <1>6, <2>1, UnreferencedDrops DEF Destruct, Valid
  <2>2. CASE ~Valid(h)
    BY <1>6, <2>2 DEF Destruct
  <2> QED
    BY <2>1, <2>2
<1>7. ASSUME NEW t \in Threads, NEW h \in Handles, DontExpectReply(t, h)
      PROVE  UNCHANGED <<open, fdIn>> \/ \E k \in Msgs : Drops(k) \/ \E x \in Fds \cup {None} : Gets(k, x)
  BY <1>7 DEF DontExpectReply
<1>8. ASSUME NEW t \in Threads, NEW h \in Handles, NEW result \in Handles, NEW m \in Msgs, SendCall(t, h, result, m)
      PROVE  UNCHANGED <<open, fdIn>> \/ \E k \in Msgs : Drops(k) \/ \E x \in Fds \cup {None} : Gets(k, x)
  BY <1>8 DEF SendCall
<1>9. ASSUME NEW t \in Threads, NEW h \in Handles, SendMessage(t, h)
      PROVE  UNCHANGED <<open, fdIn>> \/ \E k \in Msgs : Drops(k) \/ \E x \in Fds \cup {None} : Gets(k, x)
  BY <1>9 DEF SendMessage
<1>10. ASSUME NEW t \in Threads, NEW h \in Handles, NEW result \in Handles, NEW m \in Msgs, CreateReply(t, h, result, m)
      PROVE  UNCHANGED <<open, fdIn>> \/ \E k \in Msgs : Drops(k) \/ \E x \in Fds \cup {None} : Gets(k, x)
  BY <1>10 DEF CreateReply
<1>11. ASSUME NEW t \in Threads, NEW h \in Handles, QueryCreds(t, h)
      PROVE  UNCHANGED <<open, fdIn>> \/ \E k \in Msgs : Drops(k) \/ \E x \in Fds \cup {None} : Gets(k, x)
  BY <1>11 DEF QueryCreds
<1>12. ASSUME NEW t \in Threads, ReturnCreds(t)
      PROVE  UNCHANGED <<open, fdIn>> \/ \E k \in Msgs : Drops(k) \/ \E x \in Fds \cup {None} : Gets(k, x)
  BY <1>12 DEF ReturnCreds
<1>13. ASSUME NEW m \in Msgs, NEW n \in Fds \cup {None}, Receives(m, n)
      PROVE  UNCHANGED <<open, fdIn>> \/ \E k \in Msgs : Drops(k) \/ \E x \in Fds \cup {None} : Gets(k, x)
  <2>1. Gets(m, n)
    BY <1>13 DEF Receives, Gets, KindsOK, TypeOK
  <2> QED
    BY <2>1
<1>14. ASSUME NEW m \in Msgs, Releases(m)
      PROVE  UNCHANGED <<open, fdIn>> \/ \E k \in Msgs : Drops(k) \/ \E x \in Fds \cup {None} : Gets(k, x)
  BY <1>14, UnreferencedDrops DEF Releases
<1> QED
  BY <1>1, <1>2, <1>3, <1>4, <1>5, <1>6, <1>7, <1>8, <1>9, <1>10, <1>11, <1>12,
     <1>13, <1>14
     DEF Next, HandleOps

\* How the owners of descriptors change.
InType == [Msgs -> Fds \cup {None}]

\* A message is freed: its descriptor is closed.
LEMMA Dropped ==
    ASSUME NEW w \in WhereType, NEW i \in InType, NEW o, NEW r, NEW k \in Msgs, Owned(w, i, o, r), o \subseteq Fds
    PROVE  Owned(w, [i EXCEPT ![k] = None], o \ {i[k]}, r)
BY MessagesAssumption DEF WhereType, InType, Owned

\* A message gets a descriptor that was not open.
LEMMA Got ==
    ASSUME NEW w \in WhereType, NEW i \in InType, NEW o, NEW r, NEW k \in Msgs, NEW x \in Fds \cup {None},
           x \notin o, i[k] = None, Owned(w, i, o, r), o \subseteq Fds
    PROVE  Owned(w, [i EXCEPT ![k] = x], o \cup ({x} \cap Fds), r)
BY MessagesAssumption DEF WhereType, InType, Owned

\* The application opens a descriptor.
LEMMA RawOpened ==
    ASSUME NEW w \in WhereType, NEW i \in InType, NEW o, NEW r, NEW n \in Fds \ o, Owned(w, i, o, r), o \subseteq Fds
    PROVE  Owned(w, i, o \cup {n}, r \cup {n})
BY DEF WhereType, InType, Owned

\* The application closes a descriptor of its own.
LEMMA RawClosed ==
    ASSUME NEW w \in WhereType, NEW i \in InType, NEW o, NEW r, NEW n \in r, Owned(w, i, o, r), o \subseteq Fds
    PROVE  Owned(w, i, o \ {n}, r \ {n})
BY DEF WhereType, InType, Owned

\* A UnixFd adopts a descriptor of the application, and closes what it had.
LEMMA Adopted ==
    ASSUME NEW w \in WhereType, NEW v, NEW i \in InType, NEW o, NEW r, NEW f \in UnixFds, NEW n \in r,
           Becomes(w, f, n, v), Owned(w, i, o, r), o \subseteq Fds
    PROVE  Owned(v, i, o \ ({w[f]} \cap Fds), r \ {n})
<1> USE DEF WhereType, InType, Owned
<1>1. \A g \in UnixFds : v[g] = IF g = f THEN n ELSE w[g]
  BY DEF Becomes
<1>2. n \in o /\ n \in Fds /\ (\A g \in UnixFds : w[g] # n) /\ \A m \in Msgs : i[m] # n
  OBVIOUS
<1>3. \A g \in UnixFds : v[g] \in Fds => v[g] \in o \ ({w[f]} \cap Fds) /\ v[g] \notin r \ {n}
  BY <1>1, <1>2
<1>4. \A g \in UnixFds : v[g] \in Fds => (\A k \in UnixFds : k # g => v[k] # v[g]) /\ \A m \in Msgs : i[m] # v[g]
  BY <1>1, <1>2
<1>5. \A k \in o \ ({w[f]} \cap Fds) : k \in r \ {n} \/ (\E g \in UnixFds : v[g] = k) \/ \E m \in Msgs : i[m] = k
  BY <1>1
<1>6. \A m \in Msgs : i[m] \in Fds => i[m] \in o \ ({w[f]} \cap Fds) /\ i[m] \notin r \ {n}
  OBVIOUS
<1>7. r \ {n} \subseteq o \ ({w[f]} \cap Fds)
  OBVIOUS
<1> QED
  BY <1>3, <1>4, <1>5, <1>6, <1>7

\* A UnixFd takes the descriptor of another one, and closes what it had.
LEMMA Moved ==
    ASSUME NEW w \in WhereType, NEW v, NEW i \in InType, NEW o, NEW r, NEW f \in UnixFds, NEW from \in UnixFds,
           f # from, v = [w EXCEPT ![f] = w[from], ![from] = None], Owned(w, i, o, r), o \subseteq Fds
    PROVE  Owned(v, i, o \ ({w[f]} \cap Fds), r)
<1> USE MessagesAssumption DEF WhereType, InType, Owned
<1>1. \A g \in UnixFds : v[g] = IF g = f THEN w[from] ELSE IF g = from THEN None ELSE w[g]
  OBVIOUS
<1>3. \A g \in UnixFds : v[g] \in Fds => v[g] \in o \ ({w[f]} \cap Fds) /\ v[g] \notin r
  BY <1>1
<1>4. \A g \in UnixFds : v[g] \in Fds => (\A k \in UnixFds : k # g => v[k] # v[g]) /\ \A m \in Msgs : i[m] # v[g]
  BY <1>1
<1>5. \A k \in o \ ({w[f]} \cap Fds) : k \in r \/ (\E g \in UnixFds : v[g] = k) \/ \E m \in Msgs : i[m] = k
  BY <1>1
<1>6. \A m \in Msgs : i[m] \in Fds => i[m] \in o \ ({w[f]} \cap Fds) /\ i[m] \notin r
  OBVIOUS
<1> QED
  BY <1>3, <1>4, <1>5, <1>6

\* A UnixFd hands its descriptor to the application.
LEMMA Released ==
    ASSUME NEW w \in WhereType, NEW v, NEW i \in InType, NEW o, NEW r, NEW f \in UnixFds, w[f] \in Fds,
           Becomes(w, f, None, v), Owned(w, i, o, r), o \subseteq Fds
    PROVE  Owned(v, i, o, r \cup {w[f]})
<1> USE MessagesAssumption DEF WhereType, InType, Owned
<1>1. \A g \in UnixFds : v[g] = IF g = f THEN None ELSE w[g]
  BY DEF Becomes
<1>2. \A g \in UnixFds : v[g] \in Fds => v[g] \in o /\ v[g] \notin r \cup {w[f]}
  BY <1>1
<1>3. \A k \in o : k \in r \cup {w[f]} \/ (\E g \in UnixFds : v[g] = k) \/ \E m \in Msgs : i[m] = k
  BY <1>1
<1> QED
  BY <1>1, <1>2, <1>3

\* The owner that an operation changes.
LEMMA WhereBecomes ==
    ASSUME TypeOK, NEW f \in UnixFds, f \notin Closed, NEW n, UNCHANGED <<torn, op>>, fd' = [fd EXCEPT ![f] = n]
    PROVE  Becomes(Where, f, n, Where')
<1>1. Closed' = Closed
  BY DEF Closed
<1> QED
  BY <1>1 DEF Where, Becomes, TypeOK

\* Descriptors keep their owners.
LEMMA DescriptorsStep == IInv /\ [Next]_vars => Owned(Where', fdIn', open', raw')
<1> SUFFICES ASSUME IInv, [Next]_vars PROVE Owned(Where', fdIn', open', raw')
  OBVIOUS
<1> USE MessagesAssumption
<1>a. TypeOK /\ OpsOK /\ Owned(Where, fdIn, open, raw)
  BY DescriptorsOKAs DEF IInv
<1>b. Where \in WhereType /\ fdIn \in InType /\ open \subseteq Fds /\ raw \subseteq Fds
  BY <1>a, WhereTyped DEF TypeOK, InType
<1>c. None \notin Fds /\ "none" \notin Fds
  OBVIOUS
<1> USE <1>a, <1>b, <1>c
<1>1. ASSUME NEW n \in Fds, AppOpens(n)
      PROVE  Owned(Where', fdIn', open', raw')
  <2>1. Where' = Where
    BY <1>1 DEF AppOpens, fds, Where, Closed
  <2>2. n \notin open /\ open' = open \cup {n} /\ raw' = raw \cup {n} /\ fdIn' = fdIn
    BY <1>1 DEF AppOpens, fds, Kinds, Valid
  <2> QED
    BY <2>1, <2>2, RawOpened
<1>2. ASSUME NEW n \in Fds, AppCloses(n)
      PROVE  Owned(Where', fdIn', open', raw')
  <2>1. Where' = Where
    BY <1>2 DEF AppCloses, fds, Where, Closed
  <2>2. n \in raw /\ open' = open \ {n} /\ raw' = raw \ {n} /\ fdIn' = fdIn
    BY <1>2 DEF AppCloses, fds, Kinds, Valid
  <2> QED
    BY <2>1, <2>2, RawClosed
<1>3. ASSUME NEW f \in UnixFds, NEW n \in Fds \cup {None}, Adopt(f, n)
      PROVE  Owned(Where', fdIn', open', raw')
  <2>1. f \notin Closed /\ Where[f] = fd[f]
    BY <1>3, MayChangeIsOwner DEF Adopt
  <2>2. Becomes(Where, f, n, Where')
    BY <1>3, <2>1, WhereBecomes DEF Adopt, fds
  <2>3. open' = open \ ({Where[f]} \cap Fds) /\ fdIn' = fdIn /\ raw' = raw \ {n} /\ (n \in raw \/ n = None)
    BY <1>3, <2>1 DEF Adopt, Closes, fds
  <2>4. CASE n \in raw
    BY <2>2, <2>3, <2>4, Adopted
  <2>5. CASE n \notin raw
    <3>1. n \notin Fds /\ raw' = raw
      BY <2>3, <2>5
    <3> QED
      BY <2>2, <2>3, <3>1, Shut
  <2> QED
    BY <2>4, <2>5
<1>4. ASSUME NEW f \in UnixFds, NEW n \in Fds, NEW new \in Fds, Dup(f, n, new)
      PROVE  Owned(Where', fdIn', open', raw')
  <2>1. f \notin Closed /\ Where[f] = fd[f]
    BY <1>4, MayChangeIsOwner DEF Dup, Usable
  <2>2. Becomes(Where, f, new, Where')
    BY <1>4, <2>1, WhereBecomes DEF Dup, fds
  <2>3. open' = (open \cup {new}) \ ({Where[f]} \cap Fds) /\ UNCHANGED <<fdIn, raw>> /\ new \in Fds \ open
    BY <1>4, <2>1 DEF Dup, Closes, fds
  <2> QED
    BY <2>1, <2>2, <2>3, Renewed
<1>5. ASSUME NEW t \in Threads, NEW f \in UnixFds, NEW from \in UnixFds, CopyFd(t, f, from)
      PROVE  Owned(Where', fdIn', open', raw')
  <2>1. f \notin Closed /\ Where[f] = fd[f] /\ op[t].name = "idle"
    BY <1>5, MayChangeIsOwner DEF CopyFd, Ready, Idle
  <2>2. /\ UNCHANGED <<fdIn, fd, raw, torn>> /\ open' = open \ ({Where[f]} \cap Fds)
        /\ op' = [op EXCEPT ![t] = [name |-> "copyfd", dst |-> f, src |-> from]]
    BY <1>5, <2>1 DEF CopyFd, Closes, fds
  <2>3. \A u \in Threads : IF u = t THEN op'[u].name = "copyfd" /\ op'[u].dst = f ELSE op'[u] = op[u]
    BY <2>2 DEF TypeOK
  <2>4. \A x : x \in Closed <=> x \in torn \/ \E u \in Threads : op[u].name = "copyfd" /\ x = op[u].dst
    BY DEF Closed
  <2>5. \A x : x \in Closed' <=> x \in torn \/ \E u \in Threads : op'[u].name = "copyfd" /\ x = op'[u].dst
    BY <2>2 DEF Closed
  <2>6. \A x : x \in Closed' <=> x \in Closed \/ x = f
    BY <2>1, <2>3, <2>4, <2>5
  <2>7. Becomes(Where, f, None, Where')
    BY <2>2, <2>6 DEF Where, Becomes
  <2> QED
    BY <2>2, <2>7, Shut
<1>6. ASSUME NEW t \in Threads, NEW new \in Fds \cup {None}, CopyFdDup(t, new)
      PROVE  Owned(Where', fdIn', open', raw')
  <2> DEFINE f == op[t].dst  from == op[t].src
  <2>1. /\ f \in UnixFds \ torn /\ op[t].name = "copyfd"
        /\ \A u \in Threads \ {t} : op[u].dst # f
    BY <1>6 DEF CopyFdDup, OpsOK
  <2>2. \A u \in Threads : IF u = t THEN op'[u].name # "copyfd" ELSE op'[u] = op[u]
    BY <1>6 DEF CopyFdDup, Idle, TypeOK
  <2>3. \A x : x \in Closed <=> x \in torn \/ \E u \in Threads : op[u].name = "copyfd" /\ x = op[u].dst
    BY DEF Closed
  <2>4. \A x : x \in Closed' <=> x \in torn' \/ \E u \in Threads : op'[u].name = "copyfd" /\ x = op'[u].dst
    BY DEF Closed
  <2>11. torn \subseteq torn'
    BY <1>6 DEF CopyFdDup
  <2>5. f \in Closed /\ \A x : x \in Closed' <=> x \in torn' \/ (x \in Closed /\ x # f)
    BY <2>1, <2>2, <2>3, <2>4, <2>11
  <2>6. \A x : x \in torn => x \in Closed
    BY <2>3
  <2>7. Where[f] = None /\ UNCHANGED <<fdIn, raw>>
    BY <1>6, <2>1, <2>5 DEF Where, CopyFdDup
  <2>8. CASE fd[from] = None /\ new = None /\ fd' = [fd EXCEPT ![f] = None] /\ UNCHANGED <<open, torn>>
    <3>1. \A x : x \in Closed' <=> x \in Closed /\ x # f
      BY <2>1, <2>5, <2>6, <2>8
    <3>2. Becomes(Where, f, None, Where')
      BY <2>1, <2>8, <3>1 DEF Where, Becomes, TypeOK
    <3>3. open' = open \ ({Where[f]} \cap Fds)
      BY <2>7, <2>8
    <3> QED
      BY <2>1, <2>7, <3>2, <3>3, Shut
  <2>9. CASE new \in Fds \ open /\ fd' = [fd EXCEPT ![f] = new] /\ open' = open \cup {new} /\ UNCHANGED torn
    <3>1. \A x : x \in Closed' <=> x \in Closed /\ x # f
      BY <2>1, <2>5, <2>6, <2>9
    <3>2. Becomes(Where, f, new, Where')
      BY <2>1, <2>9, <3>1 DEF Where, Becomes, TypeOK
    <3>3. open' = (open \cup {new}) \ ({Where[f]} \cap Fds)
      BY <2>7, <2>9
    <3> QED
      BY <2>1, <2>7, <2>9, <3>2, <3>3, Renewed
  <2>10. CASE torn' = (IF fd[f] \in Fds THEN torn \cup {f} ELSE torn) /\ UNCHANGED <<fd, open>>
    <3>1. \A x : x \in Closed' <=> x \in Closed /\ (x # f \/ fd[f] \in Fds)
      BY <2>1, <2>5, <2>6, <2>10
    <3>2. Becomes(Where, f, IF fd[f] \in Fds THEN None ELSE fd[f], Where')
      BY <2>1, <2>5, <2>10, <3>1 DEF Where, Becomes, TypeOK
    <3>3. open' = open \ ({Where[f]} \cap Fds) /\ (IF fd[f] \in Fds THEN None ELSE fd[f]) \notin Fds
      BY <2>7, <2>10
    <3> QED
      BY <2>1, <2>7, <3>2, <3>3, Shut
  <2> QED
    BY <1>6, <2>8, <2>9, <2>10 DEF CopyFdDup
<1>7. ASSUME NEW f \in UnixFds, NEW from \in UnixFds, MoveFd(f, from)
      PROVE  Owned(Where', fdIn', open', raw')
  <2>1. f \notin Closed /\ Where[f] = fd[f] /\ from \notin Closed /\ Where[from] = fd[from] /\ f # from
    BY <1>7, MayChangeIsOwner DEF MoveFd, Usable
  <2>2. Closed' = Closed
    BY <1>7 DEF MoveFd, fds, Closed
  <2>3. Where' = [Where EXCEPT ![f] = Where[from], ![from] = None]
    BY <1>7, <2>1, <2>2 DEF MoveFd, Where, TypeOK
  <2>4. open' = open \ ({Where[f]} \cap Fds) /\ UNCHANGED <<fdIn, raw>>
    BY <1>7, <2>1 DEF MoveFd, Closes, fds
  <2> QED
    BY <2>1, <2>3, <2>4, Moved
<1>8. ASSUME NEW f \in UnixFds, ReleaseFd(f)
      PROVE  Owned(Where', fdIn', open', raw')
  <2>1. f \notin Closed /\ Where[f] = fd[f]
    BY <1>8, MayChangeIsOwner DEF ReleaseFd, Usable
  <2>2. Becomes(Where, f, None, Where')
    BY <1>8, <2>1, WhereBecomes DEF ReleaseFd, fds
  <2>3. UNCHANGED <<open, fdIn>> /\ raw' = raw \cup {Where[f]} /\ Where[f] \in Fds
    BY <1>8, <2>1 DEF ReleaseFd, Closes, fds
  <2> QED
    BY <2>1, <2>2, <2>3, Released
<1>9. ASSUME NEW f \in UnixFds, DestructFd(f)
      PROVE  Owned(Where', fdIn', open', raw')
  <2>1. f \notin Closed /\ Where[f] = fd[f]
    BY <1>9, MayChangeIsOwner DEF DestructFd, Usable
  <2>2. Becomes(Where, f, "none", Where')
    BY <1>9, <2>1, WhereBecomes DEF DestructFd, fds
  <2>3. open' = open \ ({Where[f]} \cap Fds) /\ UNCHANGED <<fdIn, raw>> /\ "none" \notin Fds
    BY <1>9, <2>1 DEF DestructFd, Closes, fds
  <2> QED
    BY <2>1, <2>2, <2>3, Shut
<1>10. ASSUME NEW t \in Threads, NEW h \in Handles, NEW f \in UnixFds, NEW new \in Fds, AppendFd(t, h, f, new)
      PROVE  Owned(Where', fdIn', open', raw')
  <2>1. Where' = Where
    BY <1>10 DEF AppendFd, fds, Where, Closed
  <2>2. /\ handle[h] \in Msgs /\ fdIn[handle[h]] = None /\ new \in Fds \ open /\ raw' = raw
        /\ open' = open \cup ({new} \cap Fds) /\ fdIn' = [fdIn EXCEPT ![handle[h]] = new]
    BY <1>10 DEF AppendFd, fds, Kinds, Valid
  <2> QED
    BY <2>1, <2>2, Got
<1>11. ASSUME NEW t \in Threads, NEW h \in Handles, NEW f \in UnixFds, NEW new \in Fds, ReadFd(t, h, f, new)
      PROVE  Owned(Where', fdIn', open', raw')
  <2>1. f \notin Closed /\ Where[f] = fd[f]
    BY <1>11, MayChangeIsOwner DEF ReadFd, Usable
  <2>2. Becomes(Where, f, new, Where')
    BY <1>11, <2>1, WhereBecomes DEF ReadFd, fds
  <2>3. open' = (open \cup {new}) \ ({Where[f]} \cap Fds) /\ UNCHANGED <<fdIn, raw>> /\ new \in Fds \ open
    BY <1>11, <2>1 DEF ReadFd, Closes, fds
  <2> QED
    BY <2>1, <2>2, <2>3, Renewed
<1>12. CASE Next /\ ~FdOps
  <2>1. Where' = Where /\ raw' = raw
    BY <1>12, OwnersKeep
  <2>2. CASE UNCHANGED <<open, fdIn>>
    BY <2>1, <2>2
  <2>3. ASSUME NEW k \in Msgs, Drops(k) PROVE Owned(Where', fdIn', open', raw')
    BY <2>1, <2>3, Dropped DEF Drops
  <2>4. ASSUME NEW k \in Msgs, NEW x \in Fds \cup {None}, Gets(k, x) PROVE Owned(Where', fdIn', open', raw')
    BY <2>1, <2>4, Got DEF Gets
  <2> QED
    BY <1>12, <2>2, <2>3, <2>4, MessageFds
<1>13. CASE UNCHANGED vars
  BY <1>13 DEF vars, messages, fds, Where, Closed
<1> QED
  BY <1>1, <1>2, <1>3, <1>4, <1>5, <1>6, <1>7, <1>8, <1>9, <1>10, <1>11, <1>12,
     <1>13
     DEF Next, FdOps

\* The invariant that MessagesInvariant is about.
THEOREM MessagesInvariant == Spec => []IInv
<1>1. Init => IInv
  <2> SUFFICES ASSUME Init PROVE IInv
    OBVIOUS
  <2> USE MessagesAssumption DEF Init
  <2>1. TypeOK
    BY DEF TypeOK, Idle
  <2>2. OpsOK /\ KindsOK /\ CredsReturned
    BY DEF OpsOK, KindsOK, CredsReturned, Idle
  <2>3. RefsCounted
    <3>1. \A m \in Msgs : HoldersOf(handle, m) = {}
      BY DEF HoldersOf
    <3> QED
      BY <3>1, FS_EmptySet, RefsCountedAs DEF Counted
  <2>4. DescriptorsOK
    BY DEF DescriptorsOK
  <2> QED
    BY <2>1, <2>2, <2>3, <2>4 DEF IInv
<1>2. IInv /\ [Next]_vars => IInv'
  <2> SUFFICES ASSUME IInv, [Next]_vars PROVE IInv'
    OBVIOUS
  <2>1. TypeOK' /\ OpsOK' /\ KindsOK' /\ CredsReturned'
    BY TypingStep, OpsStep, KindsStep, CredsStep
  <2>2. RefsCounted'
    BY RefsStep, RefsCountedAs DEF IInv
  <2>3. (DescriptorsOK <=> Owned(Where, fdIn, open, raw))'
    BY <2>1, DescriptorsOKAs, PTL
  <2>4. DescriptorsOK'
    BY <2>3, DescriptorsStep
  <2> QED
    BY <2>1, <2>2, <2>4 DEF IInv
<1> QED
  BY <1>1, <1>2, PTL DEF Spec

\* Messages are freed when the last reference goes: at every step of every
\* interleaved copy, move, send and reply, the references are those counted.
THEOREM MessageReferencesCounted == Spec => []RefsCounted
<1>1. IInv => RefsCounted
  BY DEF IInv
<1> QED
  BY <1>1, MessagesInvariant, PTL

\* No getter of credentials keeps a reference to them, whether it throws or not.
THEOREM CredentialsReturned == Spec => []CredsReturned
<1>1. IInv => CredsReturned
  BY DEF IInv
<1> QED
  BY <1>1, MessagesInvariant, PTL

\* Every open descriptor has exactly one owner, a closed one has none.
THEOREM DescriptorsOwnedOnce == Spec => []FdOwnedOnce
<1>1. IInv => FdOwnedOnce
  <2> SUFFICES ASSUME IInv, NEW n \in Fds PROVE OwnersOf(n) = IF n \in open THEN 1 ELSE 0
    BY DEF FdOwnedOnce
  <2> DEFINE A == {f \in UnixFds \ Closed : fd[f] = n}
             B == {m \in Msgs : fdIn[m] = n}
             C == raw \cap {n}
  <2>1. /\ n \notin open => A = {} /\ B = {} /\ C = {}
        /\ n \in open => \/ (\E f : A = {f}) /\ B = {} /\ C = {}
                         \/ A = {} /\ (\E m : B = {m}) /\ C = {}
                         \/ A = {} /\ B = {} /\ C = {n}
    <3>1. DescriptorsOK
      BY DEF IInv
    <3>2. n \notin open => A = {} /\ B = {} /\ C = {}
      BY <3>1 DEF DescriptorsOK
    <3>3. ASSUME n \in raw PROVE A = {} /\ B = {} /\ C = {n}
      BY <3>1, <3>3 DEF DescriptorsOK
    <3>4. ASSUME NEW f \in UnixFds \ Closed, fd[f] = n PROVE A = {f} /\ B = {} /\ C = {}
      BY <3>1, <3>4 DEF DescriptorsOK
    <3>5. ASSUME NEW m \in Msgs, fdIn[m] = n PROVE A = {} /\ B = {m} /\ C = {}
      BY <3>1, <3>5 DEF DescriptorsOK
    <3>6. n \in open => n \in raw \/ (\E f \in UnixFds \ Closed : fd[f] = n) \/ \E m \in Msgs : fdIn[m] = n
      BY <3>1 DEF DescriptorsOK
    <3> HIDE DEF A, B, C
    <3> QED
      BY <3>2, <3>3, <3>4, <3>5, <3>6
  <2>2. OwnersOf(n) = Cardinality(A) + Cardinality(B) + Cardinality(C)
    BY DEF OwnersOf
  <2>3. Cardinality({}) = 0 /\ \A x : Cardinality({x}) = 1
    BY FS_EmptySet, FS_Singleton
  <2> HIDE DEF A, B, C
  <2>4. n \notin open => Cardinality(A) = 0 /\ Cardinality(B) = 0 /\ Cardinality(C) = 0
    BY <2>1, <2>3
  <2>5. n \in open => \/ Cardinality(A) = 1 /\ Cardinality(B) = 0 /\ Cardinality(C) = 0
                      \/ Cardinality(A) = 0 /\ Cardinality(B) = 1 /\ Cardinality(C) = 0
                      \/ Cardinality(A) = 0 /\ Cardinality(B) = 0 /\ Cardinality(C) = 1
    BY <2>1, <2>3
  <2> QED
    BY <2>2, <2>4, <2>5
<1> QED
  BY <1>1, MessagesInvariant, PTL
=============================================================================
