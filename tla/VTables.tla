-------------------------------- MODULE VTables --------------------------------
(***************************************************************************)
(* The members of one interface of an Object: how the application describes  *)
(* them, what addVTable makes of the descriptions -- a table of each kind,    *)
(* sorted for lookups by name, and the rows it hands to sd-bus, which all    *)
(* point to the same three static callbacks -- and how these callbacks find   *)
(* what to run when sd-bus calls them with nothing but a name.               *)
(*                                                                          *)
(* Names are integers, in the order that operator< of std::string gives them. *)
(***************************************************************************)
EXTENDS Integers, Sequences, Functions

CONSTANTS
    Declared,  \* members the application may describe, callbacks included
    Names,
    Callbacks,
    Empty,     \* a std::function without a target
    Settable,  \* flags the application may set
    MaxItems   \* bound on the number of members

Kinds      == {"method", "signal", "property"}
Behaviours == {"change", "invalidation", "none", "const"}
Flags      == Behaviours \cup {"deprecated", "no_reply", "privileged"}

\* The callback of a method is its getter here.
Functors == Callbacks \cup {Empty}
Declarations  == [kind : Kinds, name : Names, getter : Functors, setter : Functors]
Items    == [kind : Kinds, name : Names, getter : Functors, setter : Functors,
             flags : SUBSET Flags]

ASSUME TablesAssumption ==
    /\ Declared \subseteq Declarations
    /\ Names \subseteq Int
    /\ Empty \notin Callbacks
    /\ \A d \in Declared : d.kind # "property" => d.setter = Empty
    /\ Settable \subseteq Flags
    /\ MaxItems \in Nat

VARIABLES
    items,   \* the VTableItems, in the order of the application
    shown,   \* history: the update behaviour it has set last, of each
    phase,   \* "describing", "writing", "sorted", "served", "refused",
             \* "searching", or "answered"
    written, \* number of items that are in a table
    tables,  \* VTable::methods, signals and properties
    rows,    \* the sd_bus_vtable made of each
    request, \* the row and operation that sd-bus calls back for
    low, high, \* the range that std::lower_bound looks at
    answer   \* what the callback runs, or why it does not

tableVars == <<items, shown, phase, written, tables, rows, request, low, high, answer>>

TableInit ==
    /\ items = <<>> /\ shown = <<>> /\ phase = "describing" /\ written = 0
    /\ tables = [k \in Kinds |-> <<>>] /\ rows = [k \in Kinds |-> <<>>]
    /\ request = [kind |-> "method", row |-> 0, operation |-> "get"]
    /\ low = 1 /\ high = 1 /\ answer = "none"

-----------------------------------------------------------------------------
(* The application describes the members.                                   *)

\* Flags::set, for either kind of flag.
WithFlag(flags, flag) ==
    IF flag \in Behaviours THEN (flags \ Behaviours) \cup {flag} ELSE flags \cup {flag}

\* The flags that an item of a kind has functions for.
FlagsFor(kind) ==
    CASE kind = "method"   -> {"deprecated", "no_reply", "privileged"}
      [] kind = "signal"   -> {"deprecated"}
      [] kind = "property" -> {"deprecated", "privileged"} \cup Behaviours

\* registerMethod and the like; a new Flags object emits changes.
Describe(d) ==
    /\ phase = "describing" /\ Len(items) < MaxItems
    /\ items' = Append(items, [kind |-> d.kind, name |-> d.name, getter |-> d.getter,
                               setter |-> d.setter, flags |-> {"change"}])
    /\ shown' = Append(shown, "change")
    /\ UNCHANGED <<phase, written, tables, rows, request, low, high, answer>>

\* markAsDeprecated, markAsPrivileged, withNoReply, withUpdateBehavior.
SetFlag(flag) ==
    /\ phase = "describing" /\ items # <<>>
    /\ flag \in FlagsFor(items[Len(items)].kind)
    /\ items' = [items EXCEPT ![Len(items)].flags = WithFlag(@, flag)]
    /\ shown' = IF flag \in Behaviours THEN [shown EXCEPT ![Len(items)] = flag] ELSE shown
    /\ UNCHANGED <<phase, written, tables, rows, request, low, high, answer>>

-----------------------------------------------------------------------------
(* addVTable.                                                               *)

AddVTable ==
    /\ phase = "describing"
    /\ phase' = "writing"
    /\ UNCHANGED <<items, shown, written, tables, rows, request, low, high, answer>>

\* A method without a callback, a property with neither a getter nor a setter.
Invalid(item) ==
    \/ item.kind = "method" /\ item.getter = Empty
    \/ item.kind = "property" /\ item.getter = Empty /\ item.setter = Empty

\* writeMethodRecordToVTable and the like, for one item of the vector.
WriteRecord ==
    /\ phase = "writing" /\ written < Len(items)
    /\ LET item == items[written + 1] IN
        IF Invalid(item)
          THEN phase' = "refused" /\ UNCHANGED <<written, tables>>
          ELSE /\ tables' = [tables EXCEPT ![item.kind] = Append(@, item)]
               /\ written' = written + 1
               /\ UNCHANGED phase
    /\ UNCHANGED <<items, shown, rows, request, low, high, answer>>

Permuted(s) == {[i \in DOMAIN s |-> s[p[i]]] : p \in Bijection(DOMAIN s, DOMAIN s)}

InOrder(s) == \A i, j \in DOMAIN s : i < j => s[i].name <= s[j].name

\* Mutant: each kind in the order in which the application lists it.
Sorted_AsListed(s) == {s}

\* What std::sort may make of s: it is not stable.
Sorted(s) == {t \in Permuted(s) : InOrder(t)}

\* The end of createInternalVTable.
SortRecords ==
    /\ phase = "writing" /\ written = Len(items)
    /\ \E methods \in Sorted(tables["method"]), signals \in Sorted(tables["signal"]),
          properties \in Sorted(tables["property"]) :
        tables' = [k \in Kinds |-> CASE k = "method" -> methods
                                     [] k = "signal" -> signals
                                     [] k = "property" -> properties]
    /\ phase' = "sorted"
    /\ UNCHANGED <<items, shown, written, rows, request, low, high, answer>>

\* toSdBusMethodFlags, toSdBusSignalFlags, toSdBusPropertyFlags and
\* toSdBusWritablePropertyFlags; no flag stands for "emits no signal".
Unprivileged(flags) == IF "privileged" \in flags THEN {} ELSE {"unprivileged"}

PropertyFlags(flags) ==
    (flags \cap {"deprecated"}) \cup
    (IF "change" \in flags THEN {"change"}
     ELSE IF "invalidation" \in flags THEN {"invalidation"}
     ELSE flags \cap {"const"})

RowFlags(item) ==
    CASE item.kind = "method"   -> (item.flags \cap {"deprecated", "no_reply"}) \cup Unprivileged(item.flags)
      [] item.kind = "signal"   -> item.flags \cap {"deprecated"}
      [] item.kind = "property" ->
            PropertyFlags(item.flags) \cup
            (IF item.setter = Empty THEN {} ELSE Unprivileged(item.flags))

Row(item) == [name |-> item.name, writable |-> item.setter # Empty, flags |-> RowFlags(item)]

\* sd_bus_add_object_vtable refuses two methods or two properties of one name.
Accepted(sdbusVTable) ==
    \A k \in {"method", "property"} : \A i, j \in DOMAIN sdbusVTable[k] :
        sdbusVTable[k][i].name = sdbusVTable[k][j].name => i = j

\* createInternalSdBusVTable and addObjectVTable, which may fail otherwise, too.
Register ==
    /\ phase = "sorted"
    /\ rows' = [k \in Kinds |-> [i \in DOMAIN tables[k] |-> Row(tables[k][i])]]
    /\ \/ phase' = "served" /\ Accepted(rows')
       \/ phase' = "refused"
    /\ UNCHANGED <<items, shown, written, tables, request, low, high, answer>>

-----------------------------------------------------------------------------
(* sd-bus calls back.                                                       *)

Operations(kind, row) ==
    {"get"} \cup (IF kind = "property" /\ row.writable THEN {"set"} ELSE {})

\* sdbus_method_callback and the get and set callbacks of a property, up to
\* std::lower_bound in findMethod or findProperty.
Call(kind, i, operation) ==
    /\ phase \in {"served", "answered"}
    /\ operation \in Operations(kind, rows[kind][i])
    /\ request' = [kind |-> kind, row |-> i, operation |-> operation]
    /\ low' = 1 /\ high' = Len(tables[kind]) + 1
    /\ phase' = "searching" /\ answer' = "none"
    /\ UNCHANGED <<items, shown, written, tables, rows>>

Table == tables[request.kind]

\* The name is all that sd-bus passes on.
Wanted == rows[request.kind][request.row].name

\* An iteration of std::lower_bound.
Bisect ==
    /\ phase = "searching" /\ low < high
    /\ LET middle == low + (high - low) \div 2 IN
        IF Table[middle].name < Wanted
          THEN low' = middle + 1 /\ UNCHANGED high
          ELSE high' = middle /\ UNCHANGED low
    /\ UNCHANGED <<items, shown, phase, written, tables, rows, request, answer>>

\* What a callback runs for an item; a property without a getter has an error
\* for an answer.
Run(item, operation) ==
    IF operation = "set" THEN item.setter
    ELSE IF item.kind = "property" /\ item.getter = Empty THEN "writeOnly"
    ELSE item.getter

\* What findMethod or findProperty makes of the result, and the callback of that.
Answer ==
    /\ phase = "searching" /\ low = high
    /\ answer' = IF low <= Len(Table) /\ Table[low].name = Wanted
                   THEN Run(Table[low], request.operation) ELSE "nullptr"
    /\ phase' = "answered"
    /\ UNCHANGED <<items, shown, written, tables, rows, request, low, high>>

-----------------------------------------------------------------------------
TableNext ==
    \/ \E d \in Declared : Describe(d)
    \/ \E flag \in Settable : SetFlag(flag)
    \/ AddVTable \/ WriteRecord \/ SortRecords \/ Register
    \/ \E kind \in {"method", "property"} : \E i \in DOMAIN rows[kind] :
          \E operation \in {"get", "set"} : Call(kind, i, operation)
    \/ Bisect \/ Answer

TableSpec == TableInit /\ [][TableNext]_tableVars
-----------------------------------------------------------------------------
TableTypeOK ==
    /\ items \in Seq(Items) /\ Len(items) <= MaxItems
    /\ shown \in Seq(Behaviours) /\ Len(shown) = Len(items)
    /\ phase \in {"describing", "writing", "sorted", "served", "refused", "searching", "answered"}
    /\ written \in 0..Len(items)
    /\ tables \in [Kinds -> Seq(Items)]
    /\ request \in [kind : Kinds, row : Nat, operation : {"get", "set"}]
    /\ low \in Nat \ {0} /\ high \in Nat \ {0}

\* What a row tells the peers about a member, apart from its name: a property
\* shows the update behaviour that was set last, and whoever may call a method or
\* set a property is unprivileged unless the application said otherwise.
Shows(row, item, behaviour) ==
    /\ row.writable = (item.setter # Empty)
    /\ item.kind = "property" => row.flags \cap Behaviours = {behaviour} \ {"none"}
    /\ item.kind = "method" \/ row.writable =>
        (("unprivileged" \in row.flags) = ("privileged" \notin item.flags))

Serving == phase \in {"served", "searching", "answered"}

\* sd-bus, which calls back by name only, reaches the callback that the
\* application gave for that name, in whatever order it listed the members and
\* however std::sort has moved them, never an empty one; and every member is a row,
\* as it was described (Object::createInternalVTable, findMethod, findProperty and
\* the assertions in the static callbacks).
ServedByName ==
    /\ Serving => \A i \in DOMAIN items : \E n \in DOMAIN rows[items[i].kind] :
        LET row == rows[items[i].kind][n]
        IN  row.name = items[i].name /\ Shows(row, items[i], shown[i])
    /\ phase = "answered" =>
        /\ answer \in Callbacks \cup {"writeOnly"}
        /\ \E i \in DOMAIN items : items[i].kind = request.kind /\ items[i].name = Wanted
        /\ \A i \in DOMAIN items :
            items[i].kind = request.kind /\ items[i].name = Wanted =>
                answer = Run(items[i], request.operation)
=============================================================================
