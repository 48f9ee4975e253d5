----------------------------- MODULE VTablesProofs -----------------------------
(***************************************************************************)
(* An interface with any number of members, described in any order with any  *)
(* names, serves each of them by its name.  There are three steps to it: the  *)
(* tables hold the items and nothing else, each in a place of its own; sorted *)
(* they still do; and bisection of a sorted table in which no name comes     *)
(* twice ends at the one row that sd-bus has called back for.                *)
(***************************************************************************)
EXTENDS VTables, SequenceTheorems, TLAPS

\* A table put in order is a table of the same items, each in a place of its own.
LEMMA SortedFacts ==
    ASSUME NEW s \in Seq(Items), NEW t \in Sorted(s)
    PROVE  /\ t \in Seq(Items) /\ DOMAIN t = DOMAIN s /\ InOrder(t)
           /\ \E q \in [DOMAIN s -> DOMAIN s] :
                /\ \A n \in DOMAIN s : t[q[n]] = s[n]
                /\ \A m, n \in DOMAIN s : q[m] = q[n] => m = n
                /\ \A n \in DOMAIN s : \E m \in DOMAIN s : q[m] = n
<1> DEFINE D == DOMAIN s
<1>1. PICK p \in Bijection(D, D) : t = [i \in D |-> s[p[i]]]
  BY DEF Sorted, Permuted
<1>2. /\ p \in [D -> D]
      /\ \A a, b \in D : p[a] = p[b] => a = b
      /\ \A b \in D : \E a \in D : p[a] = b
  BY DEF Bijection, Injection, Surjection, IsInjective
<1>3. D = 1..Len(s) /\ Len(s) \in Nat /\ \A i \in D : s[i] \in Items
  OBVIOUS
<1>4. t \in [1..Len(s) -> Items]
  BY <1>1, <1>2, <1>3
<1>5. t \in Seq(Items) /\ DOMAIN t = D
  BY <1>3, <1>4, IsASeq
<1>6. DEFINE q == [n \in D |-> CHOOSE a \in D : p[a] = n]
<1>7. \A n \in D : q[n] \in D /\ p[q[n]] = n
  BY <1>2
<1>8. \A n \in D : t[q[n]] = s[n]
  BY <1>1, <1>7
<1>9. \A m, n \in D : q[m] = q[n] => m = n
  BY <1>7
<1>10. \A n \in D : \E m \in D : q[m] = n
  <2> TAKE n \in D
  <2>1. p[n] \in D /\ p[q[p[n]]] = p[n] /\ q[p[n]] \in D
    BY <1>2, <1>7
  <2> QED
    BY <1>2, <2>1
<1>11. q \in [D -> D]
  BY <1>7
<1>12. InOrder(t)
  BY DEF Sorted
<1> QED
  BY <1>5, <1>8, <1>9, <1>10, <1>11, <1>12

-----------------------------------------------------------------------------
(* The inductive invariant.                                                 *)

\* Exactly one update behaviour is set, the last one; only properties have setters.
DescribedOK ==
    \A i \in DOMAIN items :
        /\ items[i].flags \cap Behaviours = {shown[i]}
        /\ items[i].kind # "property" => items[i].setter = Empty

\* place is where the items that are written are in the tables of their kinds.
Placed(place) ==
    /\ \A i \in 1..written :
        /\ ~Invalid(items[i])
        /\ place[i] \in DOMAIN tables[items[i].kind]
        /\ tables[items[i].kind][place[i]] = items[i]
    /\ \A i, j \in 1..written :
        items[i].kind = items[j].kind /\ place[i] = place[j] => i = j
    /\ \A k \in Kinds : \A n \in DOMAIN tables[k] :
        \E i \in 1..written : items[i].kind = k /\ place[i] = n

WrittenOK ==
    /\ \E place \in [1..written -> Nat] : Placed(place)
    /\ phase = "describing" => written = 0
    /\ phase = "sorted" \/ Serving => written = Len(items)

\* The tables are in order, and the rows are those of the tables.
RowsOK ==
    /\ phase = "sorted" \/ Serving => \A k \in Kinds : InOrder(tables[k])
    /\ Serving =>
        /\ \A k \in Kinds : rows[k] = [i \in DOMAIN tables[k] |-> Row(tables[k][i])]
        /\ Accepted(rows)

\* What is below the range is too small, what is above it is not.
SearchOK ==
    phase \in {"searching", "answered"} =>
        /\ request.kind \in {"method", "property"} /\ request.row \in DOMAIN Table
        /\ request.operation = "set" => Table[request.row].setter # Empty
        /\ low <= high /\ high <= Len(Table) + 1
        /\ \A n \in DOMAIN Table : /\ n < low => Table[n].name < Wanted
                                   /\ n >= high => Table[n].name >= Wanted
        /\ phase = "answered" => answer = Run(Table[request.row], request.operation)

IInv == TableTypeOK /\ DescribedOK /\ WrittenOK /\ RowsOK /\ SearchOK

LEMMA InitIInv == TableInit => IInv
<1> SUFFICES ASSUME TableInit PROVE IInv
  OBVIOUS
<1> USE DEF TableInit
<1>1. TableTypeOK
  BY TablesAssumption DEF TableTypeOK, Kinds
<1>2. DescribedOK
  BY DEF DescribedOK
<1>3. WrittenOK
  <2> DEFINE place == [i \in 1..written |-> 0]
  <2>1. Placed(place)
    BY DEF Placed
  <2> QED
    BY <2>1 DEF WrittenOK, Serving
<1>4. RowsOK /\ SearchOK
  BY DEF RowsOK, SearchOK, Serving
<1> QED
  BY <1>1, <1>2, <1>3, <1>4 DEF IInv
-----------------------------------------------------------------------------
(* The steps, in the order in which an interface goes through them.          *)

\* The tables depend on what is written only.
LEMMA SameTables ==
    ASSUME WrittenOK, UNCHANGED <<written, tables>>,
           \A i \in 1..written : items'[i] = items[i],
           phase' = "describing" => written = 0,
           phase' = "sorted" \/ Serving' => written = Len(items')
    PROVE  WrittenOK'
<1>1. PICK place \in [1..written -> Nat] : Placed(place)
  BY DEF WrittenOK
<1>2. Placed(place)'
  BY <1>1 DEF Placed, Invalid
<1> QED
  BY <1>1, <1>2 DEF WrittenOK

LEMMA DescribeStep ==
    ASSUME IInv, NEW d \in Declared, Describe(d)
    PROVE  IInv'
<1> DEFINE item == [kind |-> d.kind, name |-> d.name, getter |-> d.getter,
                     setter |-> d.setter, flags |-> {"change"}]
            L == Len(items)
<1> USE DEF IInv, Describe
<1>1. item \in Items
  BY TablesAssumption DEF Declarations, Items, Flags, Behaviours
<1>2. /\ items \in Seq(Items) /\ shown \in Seq(Behaviours) /\ L \in Nat /\ Len(shown) = L
      /\ items' = Append(items, item) /\ shown' = Append(shown, "change")
  BY DEF TableTypeOK
<1>3. /\ items' \in Seq(Items) /\ Len(items') = L + 1
      /\ \A i \in 1..L : items'[i] = items[i]
      /\ items'[L + 1] = item
  BY <1>1, <1>2
<1>4. /\ shown' \in Seq(Behaviours) /\ Len(shown') = L + 1
      /\ \A i \in 1..L : shown'[i] = shown[i]
      /\ shown'[L + 1] = "change"
  BY <1>2 DEF Behaviours
<1>5. TableTypeOK'
  BY <1>2, <1>3, <1>4, TablesAssumption DEF TableTypeOK
<1>6. DescribedOK'
  <2>1. item.flags \cap Behaviours = {"change"}
    BY DEF Behaviours
  <2>2. item.kind # "property" => item.setter = Empty
    BY TablesAssumption
  <2> QED
    BY <1>2, <1>3, <1>4, <2>1, <2>2 DEF DescribedOK
<1>7. WrittenOK'
  <2>1. written = 0
    BY DEF WrittenOK
  <2> QED
    BY <2>1, SameTables DEF Serving
<1>8. RowsOK' /\ SearchOK'
  BY DEF RowsOK, SearchOK, Serving
<1> QED
  BY <1>5, <1>6, <1>7, <1>8

LEMMA SetFlagStep ==
    ASSUME IInv, NEW flag \in Settable, SetFlag(flag)
    PROVE  IInv'
<1> DEFINE L == Len(items)
            flags == WithFlag(items[L].flags, flag)
<1> USE DEF IInv, SetFlag
<1>1. /\ items \in Seq(Items) /\ shown \in Seq(Behaviours) /\ L \in Nat /\ Len(shown) = L
      /\ L \in 1..L /\ items[L] \in Items /\ items[L].flags \in SUBSET Flags
  <2>1. items \in Seq(Items) /\ items # <<>> /\ L \in Nat /\ L # 0
    BY EmptySeq DEF TableTypeOK
  <2>2. L \in 1..L /\ items[L] \in Items
    BY <2>1
  <2> QED
    BY <2>1, <2>2 DEF TableTypeOK, Items
<1>2. flag \in Flags /\ flags \in SUBSET Flags
  BY <1>1, TablesAssumption DEF WithFlag
<1>3. /\ items' = [items EXCEPT ![L] = [items[L] EXCEPT !.flags = flags]]
      /\ [items[L] EXCEPT !.flags = flags] \in Items
  BY <1>1, <1>2 DEF Items
<1>4. /\ items' \in Seq(Items) /\ Len(items') = L
      /\ \A i \in 1..L - 1 : items'[i] = items[i]
      /\ items'[L].flags = flags
      /\ items'[L].kind = items[L].kind /\ items'[L].setter = items[L].setter
  BY <1>1, <1>3 DEF Items
<1>5. /\ shown' \in Seq(Behaviours) /\ Len(shown') = L
      /\ \A i \in 1..L - 1 : shown'[i] = shown[i]
      /\ shown'[L] = IF flag \in Behaviours THEN flag ELSE shown[L]
  BY <1>1
<1>6. TableTypeOK'
  BY <1>1, <1>4, <1>5 DEF TableTypeOK
<1>7. DescribedOK'
  <2>1. items[L].flags \cap Behaviours = {shown[L]}
    BY <1>1 DEF DescribedOK
  <2>2. flags \cap Behaviours = {shown'[L]}
    BY <1>5, <2>1 DEF WithFlag
  <2> QED
    BY <1>1, <1>4, <1>5, <2>2 DEF DescribedOK
<1>8. WrittenOK'
  <2>1. written = 0
    BY DEF WrittenOK
  <2> QED
    BY <2>1, SameTables DEF Serving
<1>9. RowsOK' /\ SearchOK'
  BY DEF RowsOK, SearchOK, Serving
<1> QED
  BY <1>6, <1>7, <1>8, <1>9

LEMMA AddVTableStep ==
    ASSUME IInv, AddVTable
    PROVE  IInv'
<1> USE DEF IInv, AddVTable
<1>1. TableTypeOK' /\ DescribedOK'
  BY DEF TableTypeOK, DescribedOK
<1>2. WrittenOK'
  BY SameTables DEF Serving
<1>3. RowsOK' /\ SearchOK'
  BY DEF RowsOK, SearchOK, Serving
<1> QED
  BY <1>1, <1>2, <1>3

\* An item that is written comes behind what its table holds.
LEMMA WriteRecordStep ==
    ASSUME IInv, WriteRecord
    PROVE  IInv'
<1> DEFINE item == items[written + 1]
            K == item.kind
            n == Len(tables[K]) + 1
<1> USE DEF IInv, WriteRecord
<1>1. /\ items \in Seq(Items) /\ written \in Nat /\ written + 1 \in 1..Len(items)
      /\ item \in Items /\ K \in Kinds
      /\ tables \in [Kinds -> Seq(Items)] /\ tables[K] \in Seq(Items) /\ n \in Nat \ {0}
      /\ \A i \in 1..written : items[i] \in Items /\ items[i].kind \in Kinds
  <2>1. items \in Seq(Items) /\ written \in Nat /\ written + 1 \in 1..Len(items)
    BY DEF TableTypeOK
  <2>2. item \in Items /\ \A i \in 1..written : items[i] \in Items
    BY <2>1
  <2>3. K \in Kinds /\ \A i \in 1..written : items[i].kind \in Kinds
    BY <2>2 DEF Items
  <2>4. tables \in [Kinds -> Seq(Items)] /\ tables[K] \in Seq(Items)
    BY <2>3 DEF TableTypeOK
  <2>5. n \in Nat \ {0}
    BY <2>4
  <2> QED
    BY <2>1, <2>2, <2>3, <2>4, <2>5
<1>2. CASE Invalid(item)
  <2>1. TableTypeOK' /\ DescribedOK'
    BY <1>2 DEF TableTypeOK, DescribedOK
  <2>2. WrittenOK'
    BY <1>2, SameTables DEF Serving
  <2>3. RowsOK' /\ SearchOK'
    BY <1>2 DEF RowsOK, SearchOK, Serving
  <2> QED
    BY <2>1, <2>2, <2>3
<1>3. CASE ~Invalid(item)
  <2>1. /\ tables' = [tables EXCEPT ![K] = Append(tables[K], item)]
        /\ written' = written + 1
        /\ phase' = phase /\ items' = items /\ phase = "writing"
    BY <1>1, <1>3
  <2>2. /\ tables'[K] \in Seq(Items) /\ DOMAIN tables'[K] = 1..n /\ DOMAIN tables[K] = 1..n - 1
        /\ \A m \in 1..n - 1 : tables'[K][m] = tables[K][m]
        /\ tables'[K][n] = item
        /\ \A k \in Kinds \ {K} : tables'[k] = tables[k]
    BY <1>1, <2>1
  <2>3. TableTypeOK'
    BY <1>1, <2>1, <2>2 DEF TableTypeOK
  <2>4. PICK place \in [1..written -> Nat] : Placed(place)
    BY DEF WrittenOK
  <2>5. PICK next \in [1..written' -> Nat] :
          next[written + 1] = n /\ \A i \in 1..written : next[i] = place[i]
    <3> DEFINE f == [i \in 1..written + 1 |-> IF i = written + 1 THEN n ELSE place[i]]
    <3>1. f \in [1..written' -> Nat] /\ f[written + 1] = n /\ \A i \in 1..written : f[i] = place[i]
      BY <1>1, <2>1
    <3> QED
      BY <3>1
  <2>6. \A i \in 1..written + 1 : i \in 1..written \/ i = written + 1
    BY <1>1
  <2>7. \A i \in 1..written : /\ items[i].kind \in Kinds /\ ~Invalid(items[i])
                              /\ place[i] \in DOMAIN tables[items[i].kind]
                              /\ tables[items[i].kind][place[i]] = items[i]
                              /\ items[i].kind = K => place[i] \in 1..n - 1
    BY <1>1, <2>2, <2>4 DEF Placed
  <2>8. \A i \in 1..written' :
            /\ ~Invalid(items[i])
            /\ next[i] \in DOMAIN tables'[items[i].kind]
            /\ tables'[items[i].kind][next[i]] = items[i]
    <3> SUFFICES ASSUME NEW i \in 1..written + 1
                  PROVE  /\ ~Invalid(items[i])
                         /\ next[i] \in DOMAIN tables'[items[i].kind]
                         /\ tables'[items[i].kind][next[i]] = items[i]
      BY <2>1
    <3>1. CASE i = written + 1
      BY <1>1, <1>3, <2>2, <2>5, <3>1
    <3>2. CASE i \in 1..written /\ items[i].kind = K
      <4>1. place[i] \in 1..n - 1 /\ tables[K][place[i]] = items[i] /\ next[i] = place[i]
        BY <2>5, <2>7, <3>2
      <4>2. tables'[K][next[i]] = items[i] /\ next[i] \in 1..n
        BY <1>1, <2>2, <4>1
      <4> QED
        BY <2>2, <2>7, <3>2, <4>2
    <3>3. CASE i \in 1..written /\ items[i].kind # K
      BY <2>2, <2>5, <2>7, <3>3
    <3> QED
      BY <2>6, <3>1, <3>2, <3>3
  <2>9. \A i, j \in 1..written' : items[i].kind = items[j].kind /\ next[i] = next[j] => i = j
    <3>1. \A i, j \in 1..written : items[i].kind = items[j].kind /\ place[i] = place[j] => i = j
      BY <2>4 DEF Placed
    <3>2. \A i \in 1..written : items[i].kind = K => next[i] # n
      BY <1>1, <2>5, <2>7
    <3> QED
      BY <1>1, <2>1, <2>5, <2>6, <3>1, <3>2
  <2>10. \A k \in Kinds : \A m \in DOMAIN tables'[k] :
            \E i \in 1..written' : items[i].kind = k /\ next[i] = m
    <3> SUFFICES ASSUME NEW k \in Kinds, NEW m \in DOMAIN tables'[k]
                  PROVE  \E i \in 1..written + 1 : items[i].kind = k /\ next[i] = m
      BY <2>1
    <3>1. CASE k = K /\ m = n
      BY <1>1, <2>5, <3>1
    <3>2. CASE ~(k = K /\ m = n)
      <4>1. m \in DOMAIN tables[k]
        BY <1>1, <2>2, <3>2
      <4>2. PICK i \in 1..written : items[i].kind = k /\ place[i] = m
        BY <2>4, <4>1 DEF Placed
      <4> QED
        BY <1>1, <2>5, <4>2
    <3> QED
      BY <3>1, <3>2
  <2>11. Placed(next)'
    BY <2>1, <2>8, <2>9, <2>10 DEF Placed, Invalid
  <2>12. WrittenOK'
    BY <2>1, <2>5, <2>11 DEF WrittenOK, Serving
  <2>13. DescribedOK' /\ RowsOK' /\ SearchOK'
    BY <2>1 DEF DescribedOK, RowsOK, SearchOK, Serving
  <2> QED
    BY <2>3, <2>12, <2>13
<1> QED
  BY <1>2, <1>3

\* The places move with the items.
LEMMA SortStep ==
    ASSUME IInv, SortRecords
    PROVE  IInv'
<1> USE DEF IInv, SortRecords
<1>1. tables \in [Kinds -> Seq(Items)]
  BY DEF TableTypeOK
<1>2. tables' = [k \in Kinds |-> tables'[k]] /\ \A k \in Kinds : tables'[k] \in Sorted(tables[k])
  <2>1. PICK methods \in Sorted(tables["method"]), signals \in Sorted(tables["signal"]),
             properties \in Sorted(tables["property"]) :
          tables' = [k \in Kinds |-> CASE k = "method" -> methods
                                       [] k = "signal" -> signals
                                       [] k = "property" -> properties]
    OBVIOUS
  <2>2. /\ tables'["method"] = methods /\ tables'["signal"] = signals
        /\ tables'["property"] = properties
    BY <2>1 DEF Kinds
  <2> QED
    BY <2>1, <2>2 DEF Kinds
<1> DEFINE Moves(k, q) ==
        /\ q \in [DOMAIN tables[k] -> DOMAIN tables[k]]
        /\ \A n \in DOMAIN tables[k] : tables'[k][q[n]] = tables[k][n]
        /\ \A m, n \in DOMAIN tables[k] : q[m] = q[n] => m = n
        /\ \A n \in DOMAIN tables[k] : \E m \in DOMAIN tables[k] : q[m] = n
<1>3. \A k \in Kinds : /\ tables'[k] \in Seq(Items) /\ DOMAIN tables'[k] = DOMAIN tables[k]
                       /\ InOrder(tables'[k])
                       /\ \E q : Moves(k, q)
  <2> TAKE k \in Kinds
  <2>1. tables[k] \in Seq(Items) /\ tables'[k] \in Sorted(tables[k])
    BY <1>1, <1>2
  <2>2. PICK q \in [DOMAIN tables[k] -> DOMAIN tables[k]] :
          /\ \A n \in DOMAIN tables[k] : tables'[k][q[n]] = tables[k][n]
          /\ \A m, n \in DOMAIN tables[k] : q[m] = q[n] => m = n
          /\ \A n \in DOMAIN tables[k] : \E m \in DOMAIN tables[k] : q[m] = n
    BY <2>1, SortedFacts
  <2>3. Moves(k, q)
    BY <2>2
  <2> HIDE DEF Moves
  <2> QED
    BY <2>1, <2>3, SortedFacts
<1>4. TableTypeOK'
  BY <1>2, <1>3 DEF TableTypeOK
<1>5. PICK moved : \A k \in Kinds : Moves(k, moved[k])
  <2> DEFINE f == [k \in Kinds |-> CHOOSE q : Moves(k, q)]
  <2>1. \A k \in Kinds : Moves(k, f[k])
    BY <1>3
  <2> HIDE DEF f, Moves
  <2> QED
    BY <2>1
<1>6. PICK place \in [1..written -> Nat] : Placed(place)
  BY DEF WrittenOK
<1>7. \A i \in 1..written : /\ items[i].kind \in Kinds /\ ~Invalid(items[i])
                            /\ place[i] \in DOMAIN tables[items[i].kind]
                            /\ tables[items[i].kind][place[i]] = items[i]
  <2>1. \A i \in 1..written : items[i] \in Items
    BY DEF TableTypeOK
  <2> QED
    BY <1>6, <2>1 DEF Placed, Items
<1>8. \A i \in 1..written :
        LET q == moved[items[i].kind]
        IN  /\ q[place[i]] \in DOMAIN tables'[items[i].kind] /\ q[place[i]] \in Nat
            /\ tables'[items[i].kind][q[place[i]]] = items[i]
  <2> TAKE i \in 1..written
  <2> DEFINE k == items[i].kind
  <2>1. k \in Kinds /\ Moves(k, moved[k]) /\ place[i] \in DOMAIN tables[k]
    BY <1>5, <1>7
  <2>2. tables[k] \in Seq(Items)
    BY <1>1, <2>1
  <2>3. DOMAIN tables[k] \subseteq Nat
    BY <2>2
  <2> QED
    BY <1>3, <1>7, <2>1, <2>3
<1>9. PICK next \in [1..written -> Nat] :
        \A i \in 1..written : next[i] = moved[items[i].kind][place[i]]
  <2> DEFINE f == [i \in 1..written |-> moved[items[i].kind][place[i]]]
  <2>1. f \in [1..written -> Nat] /\ \A i \in 1..written : f[i] = moved[items[i].kind][place[i]]
    BY <1>8
  <2> QED
    BY <2>1
<1>10. \A i, j \in 1..written : items[i].kind = items[j].kind /\ next[i] = next[j] => i = j
  <2> SUFFICES ASSUME NEW i \in 1..written, NEW j \in 1..written,
                       items[i].kind = items[j].kind, next[i] = next[j]
                PROVE  i = j
    OBVIOUS
  <2>1. place[i] = place[j]
    BY <1>5, <1>7, <1>9
  <2> QED
    BY <1>6, <2>1 DEF Placed
<1>11. \A k \in Kinds : \A n \in DOMAIN tables'[k] :
          \E i \in 1..written : items[i].kind = k /\ next[i] = n
  <2> SUFFICES ASSUME NEW k \in Kinds, NEW n \in DOMAIN tables'[k]
                PROVE  \E i \in 1..written : items[i].kind = k /\ next[i] = n
    OBVIOUS
  <2>1. PICK m \in DOMAIN tables[k] : moved[k][m] = n
    BY <1>3, <1>5
  <2>2. PICK i \in 1..written : items[i].kind = k /\ place[i] = m
    BY <1>6, <2>1 DEF Placed
  <2> QED
    BY <1>9, <2>1, <2>2
<1>12. Placed(next)'
  <2>1. items' = items /\ written' = written
    OBVIOUS
  <2>2. \A i \in 1..written :
          /\ ~Invalid(items[i])
          /\ next[i] \in DOMAIN tables'[items[i].kind]
          /\ tables'[items[i].kind][next[i]] = items[i]
    BY <1>7, <1>8, <1>9
  <2> HIDE DEF IInv, SortRecords, Moves
  <2> QED
    BY <1>10, <1>11, <2>1, <2>2 DEF Placed, Invalid
<1>13. WrittenOK'
  BY <1>9, <1>12 DEF WrittenOK
<1>14. DescribedOK' /\ RowsOK' /\ SearchOK'
  BY <1>3 DEF DescribedOK, RowsOK, SearchOK, Serving
<1> QED
  BY <1>4, <1>13, <1>14

LEMMA RegisterStep ==
    ASSUME IInv, Register
    PROVE  IInv'
<1> USE DEF IInv, Register
<1>1. TableTypeOK' /\ DescribedOK'
  BY DEF TableTypeOK, DescribedOK
<1>2. WrittenOK'
  <2>1. written = Len(items)
    BY DEF WrittenOK
  <2> QED
    BY <2>1, SameTables DEF Serving
<1>3. RowsOK'
  BY DEF RowsOK, Serving
<1>4. SearchOK'
  BY DEF SearchOK
<1> QED
  BY <1>1, <1>2, <1>3, <1>4

LEMMA CallStep ==
    ASSUME IInv, NEW kind \in {"method", "property"}, NEW i \in DOMAIN rows[kind],
           NEW operation \in {"get", "set"}, Call(kind, i, operation)
    PROVE  IInv'
<1> USE DEF IInv, Call
<1>1. /\ kind \in Kinds /\ tables[kind] \in Seq(Items) /\ Serving
      /\ rows[kind] = [n \in DOMAIN tables[kind] |-> Row(tables[kind][n])]
  BY DEF TableTypeOK, Kinds, RowsOK, Serving
<1>2. i \in DOMAIN tables[kind] /\ DOMAIN tables[kind] = 1..Len(tables[kind]) /\ i \in Nat
  BY <1>1
<1>3. TableTypeOK'
  BY <1>1, <1>2 DEF TableTypeOK
<1>4. DescribedOK' /\ WrittenOK' /\ RowsOK'
  <2>1. DescribedOK' /\ RowsOK'
    BY DEF DescribedOK, RowsOK, Serving
  <2> QED
    BY <2>1, SameTables DEF WrittenOK, Serving
<1>5. SearchOK'
  <2> DEFINE item == tables[kind][i]
  <2>4. rows[kind][i].writable = (item.setter # Empty)
    BY <1>1, <1>2 DEF Row
  <2>1. operation = "set" => item.setter # Empty
    BY <2>4 DEF Operations
  <2>2. Table' = tables[kind] /\ phase' = "searching"
    BY DEF Table
  <2> QED
    BY <1>1, <1>2, <2>1, <2>2 DEF SearchOK
<1> QED
  BY <1>3, <1>4, <1>5

\* What a search works on.
LEMMA SearchFacts ==
    ASSUME IInv, phase \in {"searching", "answered"}
    PROVE  /\ request.kind \in Kinds /\ Table \in Seq(Items) /\ Serving
           /\ DOMAIN Table = 1..Len(Table) /\ Len(Table) \in Nat
           /\ request.row \in 1..Len(Table) /\ Wanted = Table[request.row].name
           /\ \A n \in 1..Len(Table) : Table[n] \in Items /\ Table[n].name \in Int
           /\ \A m, n \in 1..Len(Table) : m < n => Table[m].name <= Table[n].name
           /\ \A n \in 1..Len(Table) : Table[n].name = Wanted => n = request.row
<1> USE DEF IInv
<1>1. Serving /\ request.kind \in {"method", "property"} /\ request.kind \in Kinds
  BY DEF SearchOK, Serving, Kinds
<1>2. Table \in Seq(Items) /\ request.row \in DOMAIN Table
  BY <1>1 DEF SearchOK, TableTypeOK, Table
<1>3. DOMAIN Table = 1..Len(Table) /\ Len(Table) \in Nat
  BY <1>2
<1>4. \A n \in 1..Len(Table) : Table[n] \in Items /\ Table[n].name \in Int
  <2>1. \A n \in 1..Len(Table) : Table[n] \in Items
    BY <1>2
  <2> QED
    BY <2>1, TablesAssumption DEF Items
<1>5. \A m, n \in 1..Len(Table) : m < n => Table[m].name <= Table[n].name
  BY <1>1, <1>3 DEF RowsOK, InOrder, Table
<1>6. /\ rows[request.kind] = [n \in DOMAIN Table |-> Row(Table[n])]
      /\ Accepted(rows)
  BY <1>1 DEF RowsOK, Table
<1>7. \A n \in DOMAIN Table : rows[request.kind][n].name = Table[n].name
  BY <1>6 DEF Row
<1>8. Wanted = Table[request.row].name
  BY <1>2, <1>7 DEF Wanted
<1>9. \A n \in 1..Len(Table) : Table[n].name = Wanted => n = request.row
  <2>1. \A m, n \in DOMAIN Table : rows[request.kind][m].name = rows[request.kind][n].name => m = n
    BY <1>1, <1>6 DEF Accepted
  <2> QED
    BY <1>2, <1>3, <1>7, <1>8, <2>1
<1> QED
  BY <1>1, <1>2, <1>3, <1>4, <1>5, <1>8, <1>9

LEMMA BisectStep ==
    ASSUME IInv, Bisect
    PROVE  IInv'
<1> DEFINE middle == low + (high - low) \div 2
<1> USE DEF IInv, Bisect
<1>1. /\ low \in Nat \ {0} /\ high \in Nat \ {0} /\ low < high /\ high <= Len(Table) + 1
      /\ Len(Table) \in Nat /\ DOMAIN Table = 1..Len(Table)
  BY SearchFacts DEF TableTypeOK, SearchOK
<1>2. middle \in Nat /\ low <= middle /\ middle < high
  BY <1>1
<1> HIDE DEF middle
<1>3. middle \in 1..Len(Table)
  BY <1>1, <1>2
<1>4. TableTypeOK'
  BY <1>1, <1>2 DEF TableTypeOK, middle
<1>5. DescribedOK' /\ WrittenOK' /\ RowsOK'
  <2>1. DescribedOK' /\ RowsOK'
    BY DEF DescribedOK, RowsOK, Serving
  <2> QED
    BY <2>1, SameTables DEF WrittenOK, Serving
<1>6. Table' = Table /\ Wanted' = Wanted
  BY DEF Table, Wanted
<1>7. /\ \A n \in 1..Len(Table) : Table[n].name \in Int
      /\ Wanted \in Int
      /\ \A m, n \in 1..Len(Table) : m < n => Table[m].name <= Table[n].name
  BY SearchFacts
<1>8. CASE Table[middle].name < Wanted
  <2>1. low' = middle + 1 /\ high' = high
    BY <1>8 DEF middle
  <2>2. \A n \in 1..Len(Table) : n < middle + 1 => Table[n].name < Wanted
    <3> SUFFICES ASSUME NEW n \in 1..Len(Table), n < middle + 1 PROVE Table[n].name < Wanted
      OBVIOUS
    <3>1. n = middle \/ n < middle
      BY <1>2
    <3> QED
      BY <1>3, <1>7, <1>8, <3>1
  <2> QED
    BY <1>1, <1>2, <1>4, <1>5, <1>6, <2>1, <2>2 DEF SearchOK
<1>9. CASE ~(Table[middle].name < Wanted)
  <2>1. high' = middle /\ low' = low
    BY <1>9 DEF middle
  <2>2. \A n \in 1..Len(Table) : n >= middle => Table[n].name >= Wanted
    <3> SUFFICES ASSUME NEW n \in 1..Len(Table), n >= middle PROVE Table[n].name >= Wanted
      OBVIOUS
    <3>1. n = middle \/ middle < n
      BY <1>2
    <3> QED
      BY <1>3, <1>7, <1>9, <3>1
  <2> QED
    BY <1>1, <1>2, <1>4, <1>5, <1>6, <2>1, <2>2 DEF SearchOK
<1> QED
  BY <1>8, <1>9

\* The search ends at the row that was called back for.
LEMMA AnswerStep ==
    ASSUME IInv, Answer
    PROVE  IInv'
<1> DEFINE r == request.row
<1> USE DEF IInv, Answer
<1>1. /\ low \in Nat \ {0} /\ low = high /\ high <= Len(Table) + 1
      /\ Len(Table) \in Nat /\ DOMAIN Table = 1..Len(Table) /\ r \in 1..Len(Table)
      /\ Wanted = Table[r].name
      /\ \A n \in 1..Len(Table) : Table[n].name \in Int
  BY SearchFacts DEF TableTypeOK, SearchOK
<1>2. /\ \A n \in 1..Len(Table) : n < low => Table[n].name < Wanted
      /\ \A n \in 1..Len(Table) : n >= low => Table[n].name >= Wanted
  BY <1>1 DEF SearchOK
<1>3. low <= r /\ low \in 1..Len(Table)
  BY <1>1, <1>2
<1>4. Table[low].name <= Table[r].name
  BY <1>1, <1>3, SearchFacts
<1>5. Table[low].name = Wanted
  BY <1>1, <1>2, <1>3, <1>4
<1>6. low = r
  BY <1>3, <1>5, SearchFacts
<1>7. answer' = Run(Table[r], request.operation) /\ phase' = "answered"
  BY <1>1, <1>3, <1>5, <1>6
<1>8. Table' = Table /\ Wanted' = Wanted /\ Run(Table[r], request.operation)' = Run(Table[r], request.operation)
  BY DEF Table, Wanted, Run
<1>9. TableTypeOK'
  BY DEF TableTypeOK
<1>10. DescribedOK' /\ WrittenOK' /\ RowsOK'
  <2>1. DescribedOK' /\ RowsOK'
    BY DEF DescribedOK, RowsOK, Serving
  <2> QED
    BY <2>1, SameTables DEF WrittenOK, Serving
<1>11. SearchOK'
  BY <1>7, <1>8 DEF SearchOK
<1> QED
  BY <1>9, <1>10, <1>11

LEMMA StepIInv == IInv /\ [TableNext]_tableVars => IInv'
<1> SUFFICES ASSUME IInv, [TableNext]_tableVars PROVE IInv'
  OBVIOUS
<1>1. CASE \E d \in Declared : Describe(d)
  BY <1>1, DescribeStep
<1>2. CASE \E flag \in Settable : SetFlag(flag)
  BY <1>2, SetFlagStep
<1>3. CASE AddVTable
  BY <1>3, AddVTableStep
<1>4. CASE WriteRecord
  BY <1>4, WriteRecordStep
<1>5. CASE SortRecords
  BY <1>5, SortStep
<1>6. CASE Register
  BY <1>6, RegisterStep
<1>7. CASE \E kind \in {"method", "property"} : \E i \in DOMAIN rows[kind] :
             \E operation \in {"get", "set"} : Call(kind, i, operation)
  BY <1>7, CallStep
<1>8. CASE Bisect
  BY <1>8, BisectStep
<1>9. CASE Answer
  BY <1>9, AnswerStep
<1>10. CASE UNCHANGED tableVars
  <2> USE <1>10 DEF tableVars, IInv
  <2>1. TableTypeOK' /\ DescribedOK'
    BY DEF TableTypeOK, DescribedOK
  <2>2. WrittenOK' /\ RowsOK'
    BY SameTables DEF WrittenOK, RowsOK, Serving
  <2>3. SearchOK'
    BY DEF SearchOK, Table, Wanted
  <2> QED
    BY <2>1, <2>2, <2>3
<1> QED
  BY <1>1, <1>2, <1>3, <1>4, <1>5, <1>6, <1>7, <1>8, <1>9, <1>10 DEF TableNext

-----------------------------------------------------------------------------
(* The theorems.                                                            *)

THEOREM TablesInvariant == TableSpec => []IInv
  BY InitIInv, StepIInv, PTL DEF TableSpec

\* The variables have their types: whatever is sorted or searched is a table of
\* items, and the range of std::lower_bound is one (Object::createInternalVTable).
THEOREM TablesTypeCorrect == TableSpec => []TableTypeOK
<1>1. IInv => TableTypeOK
  BY DEF IInv
<1> QED
  BY <1>1, TablesInvariant, PTL

LEMMA RowShows ==
    ASSUME NEW item \in Items, NEW behaviour \in Behaviours,
           item.flags \cap Behaviours = {behaviour},
           item.kind # "property" => item.setter = Empty
    PROVE  Shows(Row(item), item, behaviour)
<1>1. /\ item.kind \in {"method", "signal", "property"} /\ item.flags \subseteq Flags
      /\ behaviour \in {"change", "invalidation", "none", "const"}
      /\ Row(item).writable = (item.setter # Empty)
      /\ Row(item).flags = RowFlags(item)
  BY DEF Items, Kinds, Behaviours, Row
<1>2. PropertyFlags(item.flags) \cap Behaviours = {behaviour} \ {"none"}
  BY <1>1 DEF PropertyFlags, Behaviours
<1>3. Unprivileged(item.flags) \cap Behaviours = {}
  BY DEF Unprivileged, Behaviours
<1>4. CASE item.kind = "property"
  <2>1. RowFlags(item) \cap Behaviours = {behaviour} \ {"none"}
    BY <1>2, <1>3, <1>4 DEF RowFlags
  <2>2. item.setter # Empty => ("unprivileged" \in RowFlags(item)) = ("privileged" \notin item.flags)
    BY <1>4 DEF RowFlags, PropertyFlags, Unprivileged
  <2> QED
    BY <1>1, <1>4, <2>1, <2>2 DEF Shows
<1>5. CASE item.kind = "method"
  <2>1. ("unprivileged" \in RowFlags(item)) = ("privileged" \notin item.flags)
    BY <1>5 DEF RowFlags, Unprivileged
  <2> QED
    BY <1>1, <1>5, <2>1 DEF Shows
<1> QED
  BY <1>1, <1>4, <1>5 DEF Shows

\* What the application has described is what sd-bus serves, member by member
\* (Object::createInternalVTable, findMethod, findProperty).
THEOREM MembersServedByName == TableSpec => []ServedByName
<1>1. IInv => ServedByName
  <2> SUFFICES ASSUME IInv PROVE ServedByName
    OBVIOUS
  <2> USE DEF IInv
  <2>1. PICK place \in [1..written -> Nat] : Placed(place)
    BY DEF WrittenOK
  <2>2. /\ items \in Seq(Items) /\ shown \in Seq(Behaviours) /\ Len(shown) = Len(items)
        /\ \A i \in DOMAIN items : /\ items[i] \in Items /\ items[i].kind \in Kinds
                                   /\ shown[i] \in Behaviours
    <3>1. /\ items \in Seq(Items) /\ shown \in Seq(Behaviours) /\ Len(shown) = Len(items)
      BY DEF TableTypeOK
    <3>2. \A i \in DOMAIN items : items[i] \in Items /\ shown[i] \in Behaviours
      BY <3>1
    <3> QED
      BY <3>1, <3>2 DEF Items
  <2>3. ASSUME Serving, NEW i \in DOMAIN items
        PROVE  \E n \in DOMAIN rows[items[i].kind] :
                  /\ rows[items[i].kind][n].name = items[i].name
                  /\ Shows(rows[items[i].kind][n], items[i], shown[i])
    <3> DEFINE k == items[i].kind
                n == place[i]
    <3>1. i \in 1..written
      BY <2>2, <2>3 DEF WrittenOK
    <3>2. n \in DOMAIN tables[k] /\ tables[k][n] = items[i]
      BY <2>1, <3>1 DEF Placed
    <3>3. n \in DOMAIN rows[k] /\ rows[k][n] = Row(items[i])
      <4>1. k \in Kinds
        BY <2>2
      <4>2. rows[k] = [m \in DOMAIN tables[k] |-> Row(tables[k][m])]
        BY <2>3, <4>1 DEF RowsOK
      <4> QED
        BY <3>2, <4>2
    <3>4. Shows(Row(items[i]), items[i], shown[i])
      BY <2>2, RowShows DEF DescribedOK
    <3>5. Row(items[i]).name = items[i].name
      BY DEF Row
    <3> QED
      BY <3>3, <3>4, <3>5
  <2>4. ASSUME phase = "answered"
        PROVE  /\ answer \in Callbacks \cup {"writeOnly"}
               /\ \E i \in DOMAIN items : items[i].kind = request.kind /\ items[i].name = Wanted
               /\ \A i \in DOMAIN items :
                    items[i].kind = request.kind /\ items[i].name = Wanted =>
                        answer = Run(items[i], request.operation)
    <3> DEFINE r == request.row
                k == request.kind
    <3>1. /\ k \in {"method", "property"} /\ k \in Kinds /\ Serving
          /\ answer = Run(Table[r], request.operation)
          /\ request.operation = "set" => Table[r].setter # Empty
          /\ Table = tables[k]
      BY <2>4 DEF SearchOK, Serving, Kinds, Table
    <3>2. /\ r \in DOMAIN Table /\ Wanted = Table[r].name
          /\ \A n \in DOMAIN Table : Table[n].name = Wanted => n = r
      BY <2>4, SearchFacts
    <3>3. \A i \in DOMAIN items : i \in 1..written
      BY <2>2, <3>1 DEF WrittenOK
    <3>4. PICK i \in 1..written : items[i].kind = k /\ place[i] = r
      BY <2>1, <3>1, <3>2 DEF Placed
    <3>5. i \in DOMAIN items /\ Table[r] = items[i] /\ ~Invalid(items[i])
      BY <2>1, <2>2, <3>1, <3>4 DEF Placed, TableTypeOK
    <3>6. answer \in Callbacks \cup {"writeOnly"}
      <4>1. items[i].getter \in Functors /\ items[i].setter \in Functors
        BY <2>2, <3>5 DEF Items
      <4> QED
        BY <3>1, <3>4, <3>5, <4>1 DEF Run, Invalid, Functors
    <3>7. ASSUME NEW j \in DOMAIN items, items[j].kind = k, items[j].name = Wanted
          PROVE  answer = Run(items[j], request.operation)
      <4>1. place[j] \in DOMAIN Table /\ Table[place[j]] = items[j]
        BY <2>1, <3>1, <3>3, <3>7 DEF Placed
      <4>2. place[j] = r
        BY <3>2, <3>7, <4>1
      <4> QED
        BY <3>1, <4>1, <4>2
    <3> QED
      BY <3>2, <3>4, <3>5, <3>6, <3>7
  <2> QED
    BY <2>3, <2>4 DEF ServedByName
<1> QED
  BY <1>1, TablesInvariant, PTL
=============================================================================
