------------------------------ MODULE SlotsProofs ------------------------------
(***************************************************************************)
(* Proofs about registrations and their Slots, for every set of threads and *)
(* of registrations.                                                        *)
(***************************************************************************)
EXTENDS Slots, FiniteSetTheorems, TLAPS

\* A registration belongs to one object.
LEMMA OwnersApart ==
    /\ \A o \in Owners : Owned(o) \subseteq Regs
    /\ \A o, p \in Owners : o # p => Owned(o) \cap Owned(p) = {}
BY SlotsAssumption DEF Owners, Owned, Regs

\* An info object is in the hands of one thread.
LEMMA OneHand ==
    ASSUME IInv, NEW t \in Callers, NEW u \in Callers, NEW r \in work[t], r \in work[u]
    PROVE  t = u
<1> USE DEF IInv, TypeOK, PlacesOK, ThreadsOK, ApartOK, Loose, Ops
<1>1. CASE Loose(t) \/ Loose(u)
  BY <1>1
<1>2. CASE ~Loose(t) /\ ~Loose(u)
  <2>1. on[t] \in Owners /\ on[u] \in Owners /\ r \in Owned(on[t]) /\ r \in Owned(on[u])
    OBVIOUS
  <2>2. on[t] = on[u] /\ on[t] # None
    BY <2>1, OwnersApart, SlotsAssumption
  <2> QED
    BY <1>2, <2>2
<1> QED
  BY <1>1, <1>2

\* A destructor has its object to itself.
LEMMA Alone ==
    ASSUME IInv, NEW t \in Callers, op[t] \in {"destroy", "leave", "release"},
           NEW u \in Callers, on[u] = on[t]
    PROVE  u = t
<1>1. on[t] # None /\ owner[on[t]] = "dying"
  BY DEF IInv, ThreadsOK
<1>2. op[u] \in {"destroy", "leave", "release"}
  BY <1>1 DEF IInv, ThreadsOK
<1> QED
  BY <1>1, <1>2 DEF IInv, ApartOK

\* An owner whose registrations are all gone has no memory left.
LEMMA NothingLeft ==
    ASSUME IInv, NEW t \in Callers, op[t] \in {"destroy", "release"}, work[t] = {} \/ container[on[t]] = {}
    PROVE  \A r \in Owned(on[t]) : memory[r] \in {"none", "freed"}
<1> USE DEF IInv, TypeOK, Ops
<1>1. /\ on[t] \in Owners /\ owner[on[t]] = "dying" /\ held \cap Owned(on[t]) = {}
      /\ container[on[t]] = {} /\ work[t] = {}
  BY DEF ThreadsOK, OwnersOK
<1>2. SUFFICES ASSUME NEW r \in Owned(on[t]), memory[r] \in {"alive", "dying"} PROVE FALSE
  BY <1>1, OwnersApart
<1>3. r \in Regs /\ \A o \in Owners : r \notin container[o]
  BY <1>1, OwnersApart
<1>4. PICK u \in Callers : r \in work[u]
  BY <1>1, <1>2, <1>3 DEF PlacesOK
<1>5. on[u] = on[t]
  BY <1>1, <1>4, OwnersApart DEF ThreadsOK
<1> QED
  BY <1>1, <1>4, <1>5, Alone

\* Slots keep their types.
LEMMA TypingStep == IInv /\ [Next]_vars => TypeOK'
<1> SUFFICES ASSUME IInv, [Next]_vars PROVE TypeOK'
  OBVIOUS
<1> USE SlotsAssumption, OwnersApart DEF IInv, TypeOK, Begins, Ends, Ops, Owners, ThreadsOK, ApartOK,
           OwnersOK, sdbus, lib, api, hist
<1>1. ASSUME NEW t \in Callers, NEW o \in Owners, NEW r \in Regs, Register(t, o, r) PROVE TypeOK'
  BY <1>1 DEF Register, MayCall, Free, Exclusive
<1>2. ASSUME NEW t \in Callers, ReturnSlot(t) PROVE TypeOK'
  BY <1>2 DEF ReturnSlot
<1>3. ASSUME NEW t \in Callers, PushBack(t) PROVE TypeOK'
  BY <1>3 DEF PushBack
<1>4. ASSUME NEW t \in Callers, NEW o \in Owners, NEW r \in Regs, ReleaseSlot(t, o, r) PROVE TypeOK'
  BY <1>4 DEF ReleaseSlot, MayCall
<1>5. ASSUME NEW t \in Callers, NEW o \in Owners, Unregister(t, o) PROVE TypeOK'
  BY <1>5 DEF Unregister, MayCall, Exclusive
<1>6. ASSUME NEW t \in Callers, NEW o \in Owners, Destroy(t, o) PROVE TypeOK'
  BY <1>6 DEF Destroy, MayCall, MayDestroy
<1>7. ASSUME NEW t \in Callers, NEW r \in Regs, Unref(t, r) PROVE TypeOK'
  BY <1>7 DEF Unref, Free
<1>8. ASSUME NEW t \in Callers, NEW r \in Regs, DestroyInfo(t, r) PROVE TypeOK'
  BY <1>8 DEF DestroyInfo
<1>9. ASSUME NEW t \in Callers, Returns(t) PROVE TypeOK'
  BY <1>9 DEF Returns
<1>10. ASSUME NEW t \in Callers, CloseConnection(t) PROVE TypeOK'
  BY <1>10 DEF CloseConnection, MayCall, MayDestroy
<1>11. ASSUME NEW t \in Callers, Leave(t) PROVE TypeOK'
  BY <1>11 DEF Leave
<1>12. ASSUME NEW t \in Callers, CloseBus(t) PROVE TypeOK'
  BY <1>12 DEF CloseBus
<1>13. ASSUME NEW r \in Regs, Dispatch(r) PROVE TypeOK'
  BY <1>13 DEF Dispatch
<1>14. ASSUME NEW r \in Regs, DispatchInstall(r) PROVE TypeOK'
  BY <1>14 DEF DispatchInstall
<1>15. CASE HandlerReturns
  BY <1>15 DEF HandlerReturns
<1>16. CASE UNCHANGED vars
  BY <1>16 DEF vars
<1> QED
  BY <1>1, <1>2, <1>3, <1>4, <1>5, <1>6, <1>7, <1>8, <1>9,
     <1>10, <1>11, <1>12, <1>13, <1>14, <1>15, <1>16
     DEF Next, Starts, Continues

\* sd-bus knows what is alive.
LEMMA MemoryStep == IInv /\ [Next]_vars => MemoryOK'
<1> SUFFICES ASSUME IInv, [Next]_vars PROVE MemoryOK'
  OBVIOUS
<1> USE SlotsAssumption DEF IInv, TypeOK, Callers, Begins, Ends, Ops, sdbus, lib, api, hist, MemoryOK, PlacesOK
<1>1. ASSUME NEW t \in Callers, NEW o \in Owners, NEW r \in Regs, Register(t, o, r) PROVE MemoryOK'
  <2>1. r # None /\ handling # r /\ r \notin installed /\ r \notin selfReleased
    BY <1>1 DEF Register
  <2>2. CASE memory' = [memory EXCEPT ![r] = "alive"] /\ registered' = registered \cup {r}
             /\ installing' = installing \cup ({r} \cap Matches)
    BY <1>1, <2>1, <2>2 DEF Register
  <2>3. CASE memory' = [memory EXCEPT ![r] = "freed"] /\ UNCHANGED sdbus
    BY <1>1, <2>1, <2>3 DEF Register
  <2> QED
    BY <1>1, <2>2, <2>3 DEF Register
<1>2. ASSUME NEW t \in Callers, ReturnSlot(t) PROVE MemoryOK'
  BY <1>2 DEF ReturnSlot
<1>3. ASSUME NEW t \in Callers, PushBack(t) PROVE MemoryOK'
  BY <1>3 DEF PushBack
<1>4. ASSUME NEW t \in Callers, NEW o \in Owners, NEW r \in Regs, ReleaseSlot(t, o, r) PROVE MemoryOK'
  BY <1>4 DEF ReleaseSlot, MayCall
<1>5. ASSUME NEW t \in Callers, NEW o \in Owners, Unregister(t, o) PROVE MemoryOK'
  BY <1>5 DEF Unregister, MayCall, Exclusive
<1>6. ASSUME NEW t \in Callers, NEW o \in Owners, Destroy(t, o) PROVE MemoryOK'
  BY <1>6 DEF Destroy, MayCall, MayDestroy
<1>7. ASSUME NEW t \in Callers, NEW r \in Regs, Unref(t, r) PROVE MemoryOK'
  BY <1>7 DEF Unref, Free
<1>8. ASSUME NEW t \in Callers, NEW r \in Regs, DestroyInfo(t, r) PROVE MemoryOK'
  BY <1>8 DEF DestroyInfo
<1>9. ASSUME NEW t \in Callers, Returns(t) PROVE MemoryOK'
  BY <1>9 DEF Returns
<1>10. ASSUME NEW t \in Callers, CloseConnection(t) PROVE MemoryOK'
  BY <1>10 DEF CloseConnection, MayCall, MayDestroy
<1>11. ASSUME NEW t \in Callers, Leave(t) PROVE MemoryOK'
  BY <1>11 DEF Leave
<1>12. ASSUME NEW t \in Callers, CloseBus(t) PROVE MemoryOK'
  BY <1>12 DEF CloseBus
<1>13. ASSUME NEW r \in Regs, Dispatch(r) PROVE MemoryOK'
  BY <1>13 DEF Dispatch
<1>14. ASSUME NEW r \in Regs, DispatchInstall(r) PROVE MemoryOK'
  BY <1>14 DEF DispatchInstall
<1>15. CASE HandlerReturns
  BY <1>15 DEF HandlerReturns
<1>16. CASE UNCHANGED vars
  BY <1>16 DEF vars
<1> QED
  BY <1>1, <1>2, <1>3, <1>4, <1>5, <1>6, <1>7, <1>8, <1>9,
     <1>10, <1>11, <1>12, <1>13, <1>14, <1>15, <1>16
     DEF Next, Starts, Continues

\* Info objects are in one place.
LEMMA PlacesStep == IInv /\ [Next]_vars => PlacesOK'
<1> SUFFICES ASSUME IInv, [Next]_vars PROVE PlacesOK'
  OBVIOUS
<1> USE SlotsAssumption DEF IInv, TypeOK, Callers, Begins, Ends, Ops, sdbus, lib, api, hist, MemoryOK,
           PlacesOK, ThreadsOK, ApartOK, OwnersOK, Loose
<1>1. ASSUME NEW t \in Callers, NEW o \in Owners, NEW r \in Regs, Register(t, o, r) PROVE PlacesOK'
  BY <1>1 DEF Register, MayCall, Free, Exclusive
<1>2. ASSUME NEW t \in Callers, ReturnSlot(t) PROVE PlacesOK'
  <2>1. /\ held' = held \cup work[t] /\ UNCHANGED <<memory, container>>
        /\ op' = [op EXCEPT ![t] = "none"] /\ work' = [work EXCEPT ![t] = {}]
    BY <1>2 DEF ReturnSlot
  <2>2. op[t] = "return" /\ Loose(t)
    BY <1>2 DEF ReturnSlot
  <2>3. \A r \in work[t] : memory[r] = "alive" /\ r \in Regs /\ r \notin held
    BY <2>2
  <2> QED
    BY <2>1, <2>2, <2>3
<1>3. ASSUME NEW t \in Callers, PushBack(t) PROVE PlacesOK'
  BY <1>3 DEF PushBack
<1>4. ASSUME NEW t \in Callers, NEW o \in Owners, NEW r \in Regs, ReleaseSlot(t, o, r) PROVE PlacesOK'
  BY <1>4 DEF ReleaseSlot, MayCall
<1>5. ASSUME NEW t \in Callers, NEW o \in Owners, Unregister(t, o) PROVE PlacesOK'
  BY <1>5 DEF Unregister, MayCall, Exclusive
<1>6. ASSUME NEW t \in Callers, NEW o \in Owners, Destroy(t, o) PROVE PlacesOK'
  BY <1>6 DEF Destroy, MayCall, MayDestroy
<1>7. ASSUME NEW t \in Callers, NEW r \in Regs, Unref(t, r) PROVE PlacesOK'
  BY <1>7 DEF Unref, Free
<1>8. ASSUME NEW t \in Callers, NEW r \in Regs, DestroyInfo(t, r) PROVE PlacesOK'
  <2>1. /\ memory' = [memory EXCEPT ![r] = "freed"] /\ UNCHANGED <<held, op>>
        /\ work' = [work EXCEPT ![t] = work[t] \ {r}]
        /\ \A o \in Owners : container'[o] = container[o] \ {r}
    BY <1>8 DEF DestroyInfo
  <2>2. r \in work[t] /\ r \notin held /\ memory[r] = "dying"
    BY <1>8 DEF DestroyInfo
  <2>3. \A u \in Callers \ {t} : r \notin work[u]
    BY <2>2, OneHand
  <2> QED
    BY <2>1, <2>2, <2>3
<1>9. ASSUME NEW t \in Callers, Returns(t) PROVE PlacesOK'
  BY <1>9 DEF Returns
<1>10. ASSUME NEW t \in Callers, CloseConnection(t) PROVE PlacesOK'
  BY <1>10 DEF CloseConnection, MayCall, MayDestroy
<1>11. ASSUME NEW t \in Callers, Leave(t) PROVE PlacesOK'
  BY <1>11 DEF Leave
<1>12. ASSUME NEW t \in Callers, CloseBus(t) PROVE PlacesOK'
  BY <1>12 DEF CloseBus
<1>13. ASSUME NEW r \in Regs, Dispatch(r) PROVE PlacesOK'
  BY <1>13 DEF Dispatch
<1>14. ASSUME NEW r \in Regs, DispatchInstall(r) PROVE PlacesOK'
  BY <1>14 DEF DispatchInstall
<1>15. CASE HandlerReturns
  BY <1>15 DEF HandlerReturns
<1>16. CASE UNCHANGED vars
  BY <1>16 DEF vars
<1> QED
  BY <1>1, <1>2, <1>3, <1>4, <1>5, <1>6, <1>7, <1>8, <1>9,
     <1>10, <1>11, <1>12, <1>13, <1>14, <1>15, <1>16
     DEF Next, Starts, Continues

\* Threads have in hand what they work on.
LEMMA ThreadsStep == IInv /\ [Next]_vars => ThreadsOK'
<1> SUFFICES ASSUME IInv, [Next]_vars PROVE ThreadsOK'
  OBVIOUS
<1> USE SlotsAssumption DEF IInv, TypeOK, Callers, Begins, Ends, Ops, sdbus, lib, api, hist, Owners,
           PlacesOK, ThreadsOK, ApartOK, OwnersOK, Loose
<1>1. ASSUME NEW t \in Callers, NEW o \in Owners, NEW r \in Regs, Register(t, o, r) PROVE ThreadsOK'
  BY <1>1 DEF Register, MayCall, Free, Exclusive
<1>2. ASSUME NEW t \in Callers, ReturnSlot(t) PROVE ThreadsOK'
  BY <1>2 DEF ReturnSlot
<1>3. ASSUME NEW t \in Callers, PushBack(t) PROVE ThreadsOK'
  BY <1>3 DEF PushBack
<1>4. ASSUME NEW t \in Callers, NEW o \in Owners, NEW r \in Regs, ReleaseSlot(t, o, r) PROVE ThreadsOK'
  BY <1>4 DEF ReleaseSlot, MayCall
<1>5. ASSUME NEW t \in Callers, NEW o \in Owners, Unregister(t, o) PROVE ThreadsOK'
  BY <1>5 DEF Unregister, MayCall, Exclusive
<1>6. ASSUME NEW t \in Callers, NEW o \in Owners, Destroy(t, o) PROVE ThreadsOK'
  BY <1>6 DEF Destroy, MayCall, MayDestroy
<1>7. ASSUME NEW t \in Callers, NEW r \in Regs, Unref(t, r) PROVE ThreadsOK'
  BY <1>7 DEF Unref, Free
<1>8. ASSUME NEW t \in Callers, NEW r \in Regs, DestroyInfo(t, r) PROVE ThreadsOK'
  <2>1. /\ work' = [work EXCEPT ![t] = work[t] \ {r}] /\ UNCHANGED <<op, on, owner, loop>>
        /\ \A o \in Owners : container'[o] = container[o] \ {r}
    BY <1>8 DEF DestroyInfo
  <2>2. \A u \in Callers \ {t} : r \notin work[u]
    BY <1>8, OneHand DEF DestroyInfo
  <2> HIDE DEF Owners
  <2>3. \A u \in Callers : op[u] \in {"unregister", "destroy", "release"} => work'[u] = container'[on[u]]
    <3> SUFFICES ASSUME NEW u \in Callers, op[u] \in {"unregister", "destroy", "release"}
                 PROVE  work'[u] = container'[on[u]]
      OBVIOUS
    <3>1. on[u] \in Owners /\ work[u] = container[on[u]]
      OBVIOUS
    <3>2. work'[u] = work[u] \ {r}
      BY <2>1, <2>2
    <3>3. container'[on[u]] = container[on[u]] \ {r}
      BY <2>1, <3>1
    <3> QED
      BY <3>1, <3>2, <3>3
  <2>4. \A u \in Callers : work'[u] \subseteq work[u]
    BY <2>1
  <2>5. UNCHANGED <<op, on, owner, loop>>
    BY <2>1
  <2>6. ThreadsOK
    OBVIOUS
  <2> HIDE DEF IInv, TypeOK, PlacesOK, ApartOK, OwnersOK
  <2> QED
    BY <2>3, <2>4, <2>5, <2>6
<1>9. ASSUME NEW t \in Callers, Returns(t) PROVE ThreadsOK'
  BY <1>9 DEF Returns
<1>10. ASSUME NEW t \in Callers, CloseConnection(t) PROVE ThreadsOK'
  BY <1>10 DEF CloseConnection, MayCall, MayDestroy
<1>11. ASSUME NEW t \in Callers, Leave(t) PROVE ThreadsOK'
  BY <1>11 DEF Leave
<1>12. ASSUME NEW t \in Callers, CloseBus(t) PROVE ThreadsOK'
  BY <1>12 DEF CloseBus
<1>13. ASSUME NEW r \in Regs, Dispatch(r) PROVE ThreadsOK'
  BY <1>13 DEF Dispatch
<1>14. ASSUME NEW r \in Regs, DispatchInstall(r) PROVE ThreadsOK'
  BY <1>14 DEF DispatchInstall
<1>15. CASE HandlerReturns
  BY <1>15 DEF HandlerReturns
<1>16. CASE UNCHANGED vars
  BY <1>16 DEF vars
<1> QED
  BY <1>1, <1>2, <1>3, <1>4, <1>5, <1>6, <1>7, <1>8, <1>9,
     <1>10, <1>11, <1>12, <1>13, <1>14, <1>15, <1>16
     DEF Next, Starts, Continues

\* Threads keep out of each other's way.
LEMMA ApartStep == IInv /\ [Next]_vars => ApartOK'
<1> SUFFICES ASSUME IInv, [Next]_vars PROVE ApartOK'
  OBVIOUS
<1> USE SlotsAssumption DEF IInv, TypeOK, Callers, Begins, Ends, Ops, sdbus, lib, api, hist, Owners,
           ThreadsOK, ApartOK
<1>1. ASSUME NEW t \in Callers, NEW o \in Owners, NEW r \in Regs, Register(t, o, r) PROVE ApartOK'
  BY <1>1 DEF Register, MayCall, Free, Exclusive
<1>2. ASSUME NEW t \in Callers, ReturnSlot(t) PROVE ApartOK'
  BY <1>2 DEF ReturnSlot
<1>3. ASSUME NEW t \in Callers, PushBack(t) PROVE ApartOK'
  BY <1>3 DEF PushBack
<1>4. ASSUME NEW t \in Callers, NEW o \in Owners, NEW r \in Regs, ReleaseSlot(t, o, r) PROVE ApartOK'
  BY <1>4 DEF ReleaseSlot, MayCall
<1>5. ASSUME NEW t \in Callers, NEW o \in Owners, Unregister(t, o) PROVE ApartOK'
  BY <1>5 DEF Unregister, MayCall, Exclusive
<1>6. ASSUME NEW t \in Callers, NEW o \in Owners, Destroy(t, o) PROVE ApartOK'
  BY <1>6 DEF Destroy, MayCall, MayDestroy
<1>7. ASSUME NEW t \in Callers, NEW r \in Regs, Unref(t, r) PROVE ApartOK'
  BY <1>7 DEF Unref, Free
<1>8. ASSUME NEW t \in Callers, NEW r \in Regs, DestroyInfo(t, r) PROVE ApartOK'
  BY <1>8 DEF DestroyInfo
<1>9. ASSUME NEW t \in Callers, Returns(t) PROVE ApartOK'
  BY <1>9 DEF Returns
<1>10. ASSUME NEW t \in Callers, CloseConnection(t) PROVE ApartOK'
  BY <1>10 DEF CloseConnection, MayCall, MayDestroy
<1>11. ASSUME NEW t \in Callers, Leave(t) PROVE ApartOK'
  BY <1>11 DEF Leave
<1>12. ASSUME NEW t \in Callers, CloseBus(t) PROVE ApartOK'
  BY <1>12 DEF CloseBus
<1>13. ASSUME NEW r \in Regs, Dispatch(r) PROVE ApartOK'
  BY <1>13 DEF Dispatch
<1>14. ASSUME NEW r \in Regs, DispatchInstall(r) PROVE ApartOK'
  BY <1>14 DEF DispatchInstall
<1>15. CASE HandlerReturns
  BY <1>15 DEF HandlerReturns
<1>16. CASE UNCHANGED vars
  BY <1>16 DEF vars
<1> QED
  BY <1>1, <1>2, <1>3, <1>4, <1>5, <1>6, <1>7, <1>8, <1>9,
     <1>10, <1>11, <1>12, <1>13, <1>14, <1>15, <1>16
     DEF Next, Starts, Continues

\* Objects go when nothing of theirs is left.
LEMMA OwnersStep == IInv /\ [Next]_vars => OwnersOK'
<1> SUFFICES ASSUME IInv, [Next]_vars PROVE OwnersOK'
  OBVIOUS
<1> USE SlotsAssumption DEF IInv, TypeOK, Callers, Begins, Ends, Ops, sdbus, lib, api, hist, MemoryOK,
           PlacesOK, ThreadsOK, ApartOK, OwnersOK, Loose
<1>1. ASSUME NEW t \in Callers, NEW o \in Owners, NEW r \in Regs, Register(t, o, r) PROVE OwnersOK'
  <2>1. owner[o] = "alive" /\ r \in Owned(o) /\ UNCHANGED <<owner, held, loop>>
    BY <1>1 DEF Register, Exclusive
  <2>2. \A q \in Regs \ {r} : memory'[q] = memory[q]
    BY <1>1 DEF Register
  <2>3. \A p \in Owners : owner[p] = "gone" => \A q \in Owned(p) : q # r /\ q \in Regs
    BY <2>1, OwnersApart
  <2>4. \A u \in Callers : on'[u] = on[u] \/ on'[u] = o
    BY <1>1 DEF Register
  <2> QED
    BY <2>1, <2>2, <2>3, <2>4
<1>2. ASSUME NEW t \in Callers, ReturnSlot(t) PROVE OwnersOK'
  <2>1. held' = held \cup work[t] /\ UNCHANGED <<owner, memory, loop>>
    BY <1>2 DEF ReturnSlot
  <2>2. on[t] \in Owners /\ owner[on[t]] # "dying" /\ work[t] \subseteq Owned(on[t])
    BY <1>2 DEF ReturnSlot
  <2>3. \A o \in Owners : owner[o] = "dying" => work[t] \cap Owned(o) = {}
    BY <2>2, OwnersApart
  <2>4. \A u \in Callers : on'[u] \in {on[u], None}
    BY <1>2 DEF ReturnSlot
  <2> QED
    BY <2>1, <2>3, <2>4
<1>3. ASSUME NEW t \in Callers, PushBack(t) PROVE OwnersOK'
  BY <1>3 DEF PushBack
<1>4. ASSUME NEW t \in Callers, NEW o \in Owners, NEW r \in Regs, ReleaseSlot(t, o, r) PROVE OwnersOK'
  BY <1>4 DEF ReleaseSlot, MayCall
<1>5. ASSUME NEW t \in Callers, NEW o \in Owners, Unregister(t, o) PROVE OwnersOK'
  BY <1>5 DEF Unregister, MayCall, Exclusive
<1>6. ASSUME NEW t \in Callers, NEW o \in Owners, Destroy(t, o) PROVE OwnersOK'
  BY <1>6 DEF Destroy, MayCall, MayDestroy
<1>7. ASSUME NEW t \in Callers, NEW r \in Regs, Unref(t, r) PROVE OwnersOK'
  BY <1>7 DEF Unref, Free
<1>8. ASSUME NEW t \in Callers, NEW r \in Regs, DestroyInfo(t, r) PROVE OwnersOK'
  BY <1>8 DEF DestroyInfo
<1>9. ASSUME NEW t \in Callers, Returns(t) PROVE OwnersOK'
  <2>1. UNCHANGED <<memory, held, loop>> /\ \A u \in Callers : on'[u] = IF u = t THEN None ELSE on[u]
    BY <1>9 DEF Returns
  <2>2. CASE op[t] = "destroy"
    <3>1. on[t] \in Owners /\ owner[on[t]] = "dying" /\ owner' = [owner EXCEPT ![on[t]] = "gone"]
      BY <1>9, <2>2 DEF Returns
    <3>2. container[on[t]] = {}
      BY <1>9, <2>2 DEF Returns
    <3>3. \A r \in Owned(on[t]) : memory[r] \in {"none", "freed"}
      BY <2>2, <3>1, <3>2, NothingLeft
    <3>4. \A u \in Callers : on'[u] # on[t]
      BY <2>1, <2>2, <3>1, Alone
    <3>5. on[t] # "connection"
      BY <2>2
    <3> QED
      BY <2>1, <3>1, <3>3, <3>4, <3>5
  <2>3. CASE op[t] # "destroy"
    BY <1>9, <2>1, <2>3 DEF Returns
  <2> QED
    BY <2>2, <2>3
<1>10. ASSUME NEW t \in Callers, CloseConnection(t) PROVE OwnersOK'
  BY <1>10 DEF CloseConnection, MayCall, MayDestroy
<1>11. ASSUME NEW t \in Callers, Leave(t) PROVE OwnersOK'
  BY <1>11 DEF Leave
<1>12. ASSUME NEW t \in Callers, CloseBus(t) PROVE OwnersOK'
  <2>1. UNCHANGED <<memory, held, loop>> /\ \A u \in Callers : on'[u] = IF u = t THEN None ELSE on[u]
    BY <1>12 DEF CloseBus
  <2>2. /\ op[t] = "release" /\ on[t] = "connection" /\ container["connection"] = {}
        /\ owner["connection"] = "dying" /\ owner' = [owner EXCEPT !["connection"] = "gone"] /\ loop = "left"
    BY <1>12 DEF CloseBus
  <2>3. \A r \in Owned("connection") : memory[r] \in {"none", "freed"}
    BY <2>2, NothingLeft
  <2>4. \A u \in Callers : on'[u] # "connection"
    BY <2>1, <2>2, Alone
  <2> QED
    BY <2>1, <2>2, <2>3, <2>4
<1>13. ASSUME NEW r \in Regs, Dispatch(r) PROVE OwnersOK'
  BY <1>13 DEF Dispatch
<1>14. ASSUME NEW r \in Regs, DispatchInstall(r) PROVE OwnersOK'
  BY <1>14 DEF DispatchInstall
<1>15. CASE HandlerReturns
  BY <1>15 DEF HandlerReturns
<1>16. CASE UNCHANGED vars
  BY <1>16 DEF vars
<1> QED
  BY <1>1, <1>2, <1>3, <1>4, <1>5, <1>6, <1>7, <1>8, <1>9,
     <1>10, <1>11, <1>12, <1>13, <1>14, <1>15, <1>16
     DEF Next, Starts, Continues

-----------------------------------------------------------------------------
\* The invariant of the registrations: where each Slot is, who works on it, and
\* which memory lives, at every step of every thread.
THEOREM SlotsInvariant == Spec => []IInv
<1>1. Init => IInv
  BY SlotsAssumption DEF Init, IInv, TypeOK, MemoryOK, PlacesOK, ThreadsOK, ApartOK, OwnersOK, Loose, Ops, Owners
<1>2. IInv /\ [Next]_vars => IInv'
  BY TypingStep, MemoryStep, PlacesStep, ThreadsStep, ApartStep, OwnersStep DEF IInv
<1> QED
  BY <1>1, <1>2, PTL DEF Spec

\* A handler never runs on an info object that is being deleted, nor for an
\* object that is gone, unless it has released its own registration.
THEOREM HandlersOnLiveObjects == Spec => []NoUseAfterFree
<1>1. IInv => NoUseAfterFree
  BY DEF IInv, TypeOK, MemoryOK, OwnersOK, NoUseAfterFree
<1> QED
  BY <1>1, SlotsInvariant, PTL

\* The loop thread does not leave its own loop to close its connection.
LoopStays == op[Loop] \notin {"leave", "release"}

LEMMA LoopStaysStep == IInv /\ LoopStays /\ [Next]_vars => LoopStays'
<1> SUFFICES ASSUME IInv, LoopStays, [Next]_vars PROVE LoopStays'
  OBVIOUS
<1> USE DEF IInv, TypeOK, LoopStays, Begins, Ends, api, Callers
<1>1. ASSUME NEW t \in Callers, Starts(t) PROVE LoopStays'
  <2>1. ASSUME NEW o \in Owners, Unregister(t, o) \/ Destroy(t, o) PROVE LoopStays'
    BY <2>1 DEF Unregister, Destroy
  <2>2. ASSUME NEW o \in Owners, NEW r \in Regs, Register(t, o, r) \/ ReleaseSlot(t, o, r)
        PROVE  LoopStays'
    BY <2>2 DEF Register, ReleaseSlot
  <2>3. CASE CloseConnection(t)
    BY <2>3 DEF CloseConnection
  <2> QED
    BY <1>1, <2>1, <2>2, <2>3 DEF Starts
<1>2. ASSUME NEW t \in Callers, Continues(t) PROVE LoopStays'
  <2>1. CASE PushBack(t) \/ ReturnSlot(t) \/ Returns(t) \/ Leave(t) \/ CloseBus(t)
    BY <2>1 DEF PushBack, ReturnSlot, Returns, Leave, CloseBus
  <2>2. ASSUME NEW r \in Regs, Unref(t, r) \/ DestroyInfo(t, r) PROVE LoopStays'
    BY <2>2 DEF Unref, DestroyInfo
  <2> QED
    BY <1>2, <2>1, <2>2 DEF Continues
<1>3. CASE (\E r \in Regs : Dispatch(r) \/ DispatchInstall(r)) \/ HandlerReturns \/ UNCHANGED vars
  BY <1>3 DEF Dispatch, DispatchInstall, HandlerReturns, vars
<1> QED
  BY <1>1, <1>2, <1>3 DEF Next

\* What a thread is to delete is still to be deleted: it waits for sdbusMutex_ or
\* for the end of the loop, if for anything.
LEMMA WaitsForHandler ==
    ASSUME IInv, NEW t \in Callers, op[t] # "none", ~CanGoOn(t)
    PROVE  handling # None /\ (t = Loop => op[t] = "leave")
<1>1. op[t] \in Ops \ {"none", "push", "return"}
  BY DEF IInv, TypeOK, CanGoOn
<1>2. CASE op[t] = "leave"
  BY <1>2 DEF CanGoOn
<1>3. CASE op[t] # "leave"
  <2>1. PICK r \in work[t] : memory[r] \in {"alive", "dying"}
    BY <1>1, <1>3 DEF CanGoOn, Ops, IInv, TypeOK, PlacesOK
  <2> QED
    BY <1>1, <1>3, <2>1 DEF CanGoOn, Ops, Free
<1> QED
  BY <1>2, <1>3

\* No thread is stuck: it waits for handlers only, and they wait for nobody.
THEOREM NothingDeadlocks == Spec => []NoDeadlock
<1>1. Init => LoopStays
  BY DEF Init, LoopStays, Callers
<1>2. IInv /\ LoopStays => NoDeadlock
  <2> SUFFICES ASSUME IInv, LoopStays, NEW t \in Callers, op[t] # "none", ~CanGoOn(t)
               PROVE  t # Loop /\ handling # None /\ (op[Loop] = "none" \/ CanGoOn(Loop))
    BY DEF NoDeadlock
  <2>1. handling # None /\ t # Loop
    BY WaitsForHandler DEF LoopStays
  <2>2. op[Loop] = "none" \/ CanGoOn(Loop)
    BY WaitsForHandler DEF LoopStays, Callers
  <2> QED
    BY <2>1, <2>2
<1> QED
  BY <1>1, <1>2, LoopStaysStep, SlotsInvariant, PTL DEF Spec

\* A closed connection leaves nothing behind.
THEOREM ClosingIsClean == Spec => []ClosedClean
<1>1. IInv => ClosedClean
  <2> SUFFICES ASSUME IInv, owner["connection"] = "gone"
               PROVE  /\ registered = {} /\ installing = {} /\ handling = None
                      /\ \A r \in Regs : memory[r] \in {"none", "freed"}
    BY DEF ClosedClean
  <2>1. \A o \in Owners : owner[o] = "gone"
    BY DEF IInv, OwnersOK, Owners
  <2>2. \A r \in Regs : \E o \in Owners : r \in Owned(o)
    BY DEF Regs, Owners, Owned
  <2>3. \A r \in Regs : memory[r] \in {"none", "freed"}
    BY <2>1, <2>2 DEF IInv, OwnersOK
  <2> QED
    BY <2>3 DEF IInv, TypeOK, MemoryOK, OwnersOK
<1> QED
  BY <1>1, SlotsInvariant, PTL

\* Who has info objects in hand either holds them or clears a vector.
LEMMA InHand ==
    ASSUME IInv, NEW t \in Callers, NEW r \in work[t], op[t] \notin {"unregister", "destroy", "release"}
    PROVE  Loose(t)
<1>1. op[t] \in Ops
  BY DEF IInv, TypeOK
<1>2. op[t] # "none" /\ op[t] # "leave"
  BY DEF IInv, ThreadsOK
<1> QED
  BY <1>1, <1>2 DEF Ops, Loose

\* An info object has one owner as long as it exists, and none afterwards.
THEOREM InfosHaveOneOwner == Spec => []OneOwner
<1>1. IInv => OneOwner
  <2> SUFFICES ASSUME IInv, NEW r \in Regs
               PROVE  Claims(r) = IF memory[r] \in {"alive", "dying"} THEN 1 ELSE 0
    BY DEF OneOwner
  <2> DEFINE Hands == {t \in Callers : r \in work[t] /\ op[t] # "unregister" /\ op[t] # "destroy" /\ op[t] # "release"}
             Vectors == {o \in Owners : r \in container[o]}
             Slot == held \cap {r}
  <2> USE DEF IInv, TypeOK, PlacesOK, ThreadsOK, Loose, Ops
  <2>1. Claims(r) = Cardinality(Hands) + Cardinality(Vectors) + Cardinality(Slot)
    BY DEF Claims
  <2>2. Cardinality({}) = 0 /\ \A x : Cardinality({x}) = 1
    BY FS_EmptySet, FS_Singleton
  <2>3. \A t \in Hands : Loose(t)
    BY InHand
  <2>4. CASE r \in held
    <3>1. Hands = {} /\ Vectors = {} /\ Slot = {r} /\ memory[r] = "alive"
      BY <2>4
    <3> HIDE DEF Hands, Vectors, Slot, IInv, TypeOK, PlacesOK, ThreadsOK, Loose, Ops
    <3>8. Cardinality(Hands) = 0 /\ Cardinality(Vectors) = 0 /\ Cardinality(Slot) = 1
      BY <2>2, <3>1
    <3> QED
      BY <2>1, <3>1, <3>8
  <2>5. CASE \E o \in Owners : r \in container[o]
    <3>1. PICK o \in Owners : r \in container[o]
      BY <2>5
    <3>2. Vectors = {o}
      BY <3>1, OwnersApart
    <3>3. Hands = {} /\ Slot = {} /\ memory[r] \in {"alive", "dying"}
      BY <2>3, <3>1
    <3> HIDE DEF Hands, Vectors, Slot, IInv, TypeOK, PlacesOK, ThreadsOK, Loose, Ops
    <3>8. Cardinality(Hands) = 0 /\ Cardinality(Vectors) = 1 /\ Cardinality(Slot) = 0
      BY <2>2, <3>2, <3>3
    <3> QED
      BY <2>1, <3>2, <3>3, <3>8
  <2>6. CASE r \notin held /\ (\A o \in Owners : r \notin container[o]) /\ \E t \in Callers : r \in work[t]
    <3>1. PICK t \in Callers : r \in work[t]
      BY <2>6
    <3>2. op[t] \notin {"unregister", "destroy", "release"}
      BY <2>6, <3>1 DEF Owners
    <3>3. Hands = {t}
      BY <3>1, <3>2, OneHand
    <3>4. Vectors = {} /\ Slot = {} /\ memory[r] \in {"alive", "dying"}
      BY <2>6
    <3> HIDE DEF Hands, Vectors, Slot, IInv, TypeOK, PlacesOK, ThreadsOK, Loose, Ops
    <3>8. Cardinality(Hands) = 1 /\ Cardinality(Vectors) = 0 /\ Cardinality(Slot) = 0
      BY <2>2, <3>3, <3>4
    <3> QED
      BY <2>1, <3>3, <3>4, <3>8
  <2>7. CASE r \notin held /\ (\A o \in Owners : r \notin container[o]) /\ \A t \in Callers : r \notin work[t]
    <3>1. Hands = {} /\ Vectors = {} /\ Slot = {} /\ memory[r] \notin {"alive", "dying"}
      BY <2>7
    <3> HIDE DEF Hands, Vectors, Slot, IInv, TypeOK, PlacesOK, ThreadsOK, Loose, Ops
    <3>8. Cardinality(Hands) = 0 /\ Cardinality(Vectors) = 0 /\ Cardinality(Slot) = 0
      BY <2>2, <3>1
    <3> QED
      BY <2>1, <3>1, <3>8
  <2> QED
    BY <2>4, <2>5, <2>6, <2>7
<1> QED
  BY <1>1, SlotsInvariant, PTL

-----------------------------------------------------------------------------
(* Slots keep the promise of Registrations.                                 *)

Status  == [r \in Regs |-> StatusOf(r)]
Running == {handling} \ {None}
Ended   == {r \in Regs : memory[r] = "freed"} \ selfReleased

\* The abstract status of a registration, read off the detailed state.
LEMMA StatusFacts ==
    ASSUME IInv, NEW r \in Regs
    PROVE  /\ memory[r] = "none" => StatusOf(r) = "new"
           /\ memory[r] = "alive" => StatusOf(r) = "active"
           /\ memory[r] \in {"dying", "freed"} => StatusOf(r) = "ended"
BY DEF IInv, MemoryOK, StatusOf

\* The same of the state after a step.
LEMMA StatusFactsNext ==
    ASSUME IInv', NEW r \in Regs
    PROVE  /\ memory'[r] = "none" => StatusOf(r)' = "new"
           /\ memory'[r] = "alive" => StatusOf(r)' = "active"
           /\ memory'[r] \in {"dying", "freed"} => StatusOf(r)' = "ended"
BY DEF IInv, MemoryOK, StatusOf

\* A step that leaves info objects alone leaves their status.
LEMMA StatusStays ==
    ASSUME UNCHANGED <<registered, memory>>
    PROVE  Status' = Status
BY DEF Status, StatusOf

\* The status of one registration changes.
LEMMA StatusMoves ==
    ASSUME IInv, IInv', NEW r \in Regs, \A q \in Regs \ {r} : memory'[q] = memory[q]
    PROVE  /\ Status[r] = StatusOf(r)
           /\ Status' = [Status EXCEPT ![r] = StatusOf(r)']
<1>1. \A q \in Regs \ {r} : StatusOf(q)' = StatusOf(q)
  <2> SUFFICES ASSUME NEW q \in Regs \ {r} PROVE StatusOf(q)' = StatusOf(q)
    OBVIOUS
  <2>1. memory'[q] = memory[q] /\ memory[q] \in {"none", "alive", "dying", "freed"}
    BY DEF IInv, TypeOK
  <2> QED
    BY <2>1, StatusFacts, StatusFactsNext
<1> QED
  BY <1>1 DEF Status

\* A Slot promises the same whatever it stands for: the handler runs only while
\* the registration is active, and the one who ends it does not return while
\* the handler runs.
THEOREM SlotsImplementRegistrations == Spec => Implements
<1>1. Init => Abstract!Init
  <2> SUFFICES ASSUME Init PROVE Abstract!Init
    OBVIOUS
  <2>1. \A r \in Regs : StatusOf(r) = "new"
    BY DEF Init, StatusOf
  <2> QED
    BY <2>1 DEF Init, Abstract!Init
<1>2. IInv /\ IInv' /\ [Next]_vars => [Abstract!Next]_<<Status, Running, installed, Ended>>
  <2> SUFFICES ASSUME IInv, IInv', [Next]_vars
               PROVE  Abstract!Next \/ UNCHANGED <<Status, Running, installed, Ended>>
    OBVIOUS
  <2> USE DEF sdbus, lib, hist
  <2>1. ASSUME NEW t \in Callers, NEW o \in Owners, NEW r \in Regs, Register(t, o, r) PROVE Abstract!Next
    <3>1. memory[r] = "none" /\ r \notin selfReleased /\ handling # r
      BY <2>1, SlotsAssumption DEF Register, IInv, MemoryOK, TypeOK
    <3>2. UNCHANGED <<handling, installed, selfReleased>> /\ \A q \in Regs \ {r} : memory'[q] = memory[q]
      BY <2>1 DEF Register, IInv, TypeOK
    <3>3. Status[r] = "new" /\ Status' = [Status EXCEPT ![r] = StatusOf(r)']
      BY <3>1, <3>2, StatusMoves, StatusFacts
    <3>4. CASE memory'[r] = "alive"
      <4>1. StatusOf(r)' = "active" /\ Ended' = Ended
        BY <3>1, <3>2, <3>4, StatusFactsNext DEF Ended
      <4>2. Abstract!Register(r) /\ Abstract!Close
        BY <3>2, <3>3, <4>1 DEF Abstract!Register, Abstract!Move, Abstract!Close, Status, Ended
      <4> QED
        BY <4>2 DEF Abstract!Next
    <3>5. CASE memory'[r] = "freed"
      <4>1. StatusOf(r)' = "ended" /\ Ended' = Ended \cup {r}
        BY <3>1, <3>2, <3>5, StatusFactsNext DEF Ended
      <4>2. Abstract!Refuse(r)
        BY <3>2, <3>3, <4>1 DEF Abstract!Refuse, Abstract!Move, Status
      <4>3. Status'[r] = "ended" /\ r \notin Running'
        BY <3>1, <3>2, <4>1 DEF Status, Running
      <4>4. Abstract!Close
        BY <4>1, <4>3 DEF Abstract!Close, Status, Ended, Running
      <4> QED
        BY <4>2, <4>4 DEF Abstract!Next
    <3> QED
      BY <2>1, <3>4, <3>5 DEF Register, IInv, TypeOK
  <2>2. ASSUME NEW t \in Callers, NEW r \in Regs, Unref(t, r) PROVE Abstract!Next
    <3>1. /\ memory[r] = "alive" /\ memory' = [memory EXCEPT ![r] = "dying"]
          /\ UNCHANGED <<handling, installed>>
          /\ selfReleased' \in {selfReleased, selfReleased \cup {r}}
      BY <2>2 DEF Unref
    <3>2. memory'[r] = "dying" /\ \A q \in Regs \ {r} : memory'[q] = memory[q]
      BY <3>1 DEF IInv, TypeOK
    <3>3. Status[r] = "active" /\ Status' = [Status EXCEPT ![r] = "ended"]
      BY <3>1, <3>2, StatusMoves, StatusFacts, StatusFactsNext
    <3>4. Ended' = Ended
      BY <3>1, <3>2 DEF Ended
    <3>5. Abstract!End(r) /\ Abstract!Close
      BY <3>1, <3>3, <3>4 DEF Abstract!End, Abstract!Move, Abstract!Close, Status, Ended
    <3> QED
      BY <3>5 DEF Abstract!Next
  <2>3. ASSUME NEW t \in Callers, NEW r \in Regs, DestroyInfo(t, r) PROVE Abstract!Next
    <3>1. /\ memory[r] = "dying" /\ memory' = [memory EXCEPT ![r] = "freed"]
          /\ UNCHANGED <<handling, installed, selfReleased, registered>>
      BY <2>3 DEF DestroyInfo
    <3>2. memory'[r] = "freed" /\ \A q \in Regs \ {r} : memory'[q] = memory[q]
      BY <3>1 DEF IInv, TypeOK
    <3>3. StatusOf(r) = "ended" /\ StatusOf(r)' = "ended"
      BY <3>1, <3>2, StatusFacts, StatusFactsNext
    <3>4. Status' = Status
      BY <3>2, <3>3, StatusMoves DEF Status
    <3>5. Ended' = Ended \cup ({r} \ selfReleased)
      BY <3>1, <3>2 DEF Ended
    <3>6. r \notin selfReleased => handling # r
      BY <3>1, SlotsAssumption DEF IInv, MemoryOK, TypeOK
    <3>7. Abstract!Close
      BY <3>1, <3>3, <3>5, <3>6 DEF Abstract!Close, Ended, Status, Running
    <3> QED
      BY <3>1, <3>4, <3>7 DEF Abstract!Next, Status, Running
  <2>4. ASSUME NEW r \in Regs, Dispatch(r) PROVE Abstract!Next
    <3>1. Status[r] = "active" /\ Status' = Status /\ Ended' = Ended
      BY <2>4, StatusFacts, StatusStays DEF Dispatch, IInv, MemoryOK, Status, Ended
    <3>2. Abstract!Run(r) /\ Abstract!Close
      BY <2>4, <3>1, SlotsAssumption DEF Dispatch, Abstract!Run, Abstract!Starts, Abstract!Close, Status, Ended
    <3> QED
      BY <3>2 DEF Abstract!Next
  <2>5. ASSUME NEW r \in Regs, DispatchInstall(r) PROVE Abstract!Next
    <3>1. Status[r] = "active" /\ Status' = Status /\ Ended' = Ended /\ r \notin installed
      BY <2>5, StatusFacts, StatusStays DEF DispatchInstall, IInv, MemoryOK, Status, Ended
    <3>2. Abstract!Install(r) /\ Abstract!Close
      BY <2>5, <3>1, SlotsAssumption DEF DispatchInstall, Abstract!Install, Abstract!Starts, Abstract!Close,
         Status, Ended
    <3> QED
      BY <3>2 DEF Abstract!Next
  <2>6. CASE HandlerReturns
    <3>1. Status' = Status /\ Ended' = Ended /\ Running' = {}
      BY <2>6, StatusStays DEF HandlerReturns, Ended, Running
    <3>2. Abstract!Return /\ Abstract!Close
      BY <2>6, <3>1 DEF HandlerReturns, Abstract!Return, Abstract!Close, Status, Ended, Running
    <3> QED
      BY <3>2 DEF Abstract!Next
  <2>7. CASE UNCHANGED <<sdbus, handling, memory, installed, selfReleased>>
    BY <2>7, StatusStays DEF Ended, Running
  <2>8. ASSUME NEW t \in Callers,
               \/ \E o \in Owners, r \in Regs : ReleaseSlot(t, o, r)
               \/ \E o \in Owners : Unregister(t, o) \/ Destroy(t, o)
               \/ PushBack(t) \/ ReturnSlot(t) \/ Returns(t) \/ CloseConnection(t) \/ Leave(t) \/ CloseBus(t)
        PROVE  UNCHANGED <<sdbus, handling, memory, installed, selfReleased>>
    BY <2>8 DEF ReleaseSlot, Unregister, Destroy, PushBack, ReturnSlot, Returns, CloseConnection, Leave, CloseBus
  <2>9. CASE UNCHANGED vars
    BY <2>7, <2>9 DEF vars
  <2> QED
    BY <2>1, <2>2, <2>3, <2>4, <2>5, <2>6, <2>7, <2>8, <2>9 DEF Next, Starts, Continues
<1> QED
  BY <1>1, <1>2, SlotsInvariant, PTL DEF Spec, Implements, Abstract!Spec, Status, Running, Ended

=============================================================================
