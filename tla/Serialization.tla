----------------------------- MODULE Serialization -----------------------------
(***************************************************************************)
(* Values of C++ types written to a message and read from it: the operators *)
(* << and >> of Message, over the read cursor of the sd-bus message and the  *)
(* flag ok_, and Variant, which is a message of its own with one value.      *)
(*                                                                          *)
(* A basic value is a number, a list a sequence, a map a function, a struct  *)
(* or tuple the sequence of its members, a Variant the item it holds and a   *)
(* std::variant the pair of its alternative and value.  The names of the *)
(* members of a registered struct are the numbers 1, 2, ...                  *)
(***************************************************************************)
EXTENDS TypeTraits, FiniteSetsExt

(* An item of a message: its type code, the signature of its contents for a *)
(* container, its value for a basic one.                                    *)
Item(type, contents, value, items) ==
    [type |-> type, contents |-> contents, value |-> value, items |-> items]
Single(type, value) == Item(type, <<>>, value, <<>>)
NoItem   == Single("-", 0)
Refusal  == <<Single("!", 0)>>

ItemSignature(item) ==
    CASE item.type = "a" -> <<"a">> \o item.contents
      [] item.type = "(" -> <<"(">> \o item.contents \o <<")">>
      [] item.type = "{" -> <<"{">> \o item.contents \o <<"}">>
      [] OTHER           -> <<item.type>>
Signature(items) == FlattenSeq([i \in DOMAIN items |-> ItemSignature(items[i])])

-----------------------------------------------------------------------------
(* Writing.                                                                 *)

\* sd-bus refuses what does not match the signature the container was opened
\* with; the exception ends the serialization.
Container(type, contents, items) ==
    LET fits == IF type = "a"
                  THEN \A i \in DOMAIN items : ItemSignature(items[i]) = contents
                  ELSE Signature(items) = contents
    IN  IF fits /\ \A i \in DOMAIN items : items[i].type # "!"
          THEN <<Item(type, contents, 0, items)>>
          ELSE Refusal

Ascending(S) == SetToSortSeq(S, LAMBDA a, b : a < b)

RECURSIVE Put(_, _)

PutList(T, v) ==
    IF IsFast(T[2])
      THEN <<Item("a", SignatureOf(T[2]), 0,
                  [i \in DOMAIN v |-> Single(Head(SignatureOf(T[2])), v[i])])>>
      ELSE Container("a", SignatureOf(T[2]), FlattenSeq([i \in DOMAIN v |-> Put(T[2], v[i])]))

PutEntry(T, k, v) ==
    Container("{", SignatureOf(Members(T)), Put(T[2], k) \o Put(T[3], v))

PutMap(T, v) ==
    LET entry == <<"DictEntry", T[2], T[3]>>
        keys  == Ascending(DOMAIN v)
    IN  Container("a", SignatureOf(entry),
                  FlattenSeq([i \in DOMAIN keys |-> PutEntry(entry, keys[i], v[keys[i]])]))

\* Variant{value}.
VariantOf(T, v) == Container("v", SignatureOf(T), Put(T, v))[1]

PutAsDictionary(T, v) ==
    LET entry == <<"DictEntry", <<"string">>, <<"Variant">>>>
    IN  Container("a", SignatureOf(entry),
                  FlattenSeq([i \in DOMAIN v |-> PutEntry(entry, i, VariantOf(T[i + 1], v[i]))]))

\* The items that << appends.
Put(T, v) ==
    CASE T[1] \in BasicTypes -> <<Single(Code[T[1]], v)>>
      [] T[1] = "enum"       -> Put(T[2], v)
      [] T[1] = "tuple"      -> FlattenSeq([i \in DOMAIN v |-> Put(T[i + 1], v[i])])
      [] T[1] \in {"Struct"} \cup Structs ->
                                Container("(", SignatureOf(Members(T)), Put(Members(T), v))
      [] T[1] = "DictEntry"  -> PutEntry(T, v[1], v[2])
      [] T[1] \in Lists      -> PutList(T, v)
      [] T[1] \in Maps       -> PutMap(T, v)
      [] T[1] = "as_dictionary" -> PutAsDictionary(T, v)
      [] T[1] = "variant"    -> <<VariantOf(T[v[1] + 1], v[2])>>
      [] OTHER               -> IF v = NoItem THEN Refusal ELSE <<v>>

-----------------------------------------------------------------------------
(* The read cursor of sd-bus.                                               *)

Frame(type, items) == [type |-> type, items |-> items, at |-> 1]

\* What >> works on: the containers entered, ok_, and how the last operation
\* ended: with an exception, or with a null pointer handed to strcmp.
Reader(items) == [frames |-> <<Frame("root", items)>>, ok |-> TRUE, fault |-> "none"]

Top(m)    == Last(m.frames)
AtEnd(m)  == Top(m).at > Len(Top(m).items)
Upcoming(m) == Top(m).items[Top(m).at]
Fails(m)  == [m EXCEPT !.fault = "error"]
Skip(m)   == [m EXCEPT !.frames[Len(m.frames)].at = @ + 1]
Sound(m)  == m.fault = "none"

\* At the end of an array sd-bus answers 0, which clears ok_; at the end of
\* anything else it answers with an error.
NothingLeft(m) == IF Top(m).type = "a" THEN [m EXCEPT !.ok = FALSE] ELSE Fails(m)

Enter(m, type, contents) ==
    IF AtEnd(m) THEN NothingLeft(m)
    ELSE IF Upcoming(m).type = type /\ Upcoming(m).contents = contents
      THEN [Skip(m) EXCEPT !.frames = Append(@, Frame(type, Upcoming(m).items))]
      ELSE Fails(m)

\* A container is left only when all of it has been read.
Exit(m) ==
    IF ~Sound(m) THEN m
    ELSE IF Len(m.frames) > 1 /\ AtEnd(m) THEN [m EXCEPT !.frames = Front(@)] ELSE Fails(m)

\* To the beginning of the container the cursor is in, or of the message.
Rewind(m, complete) ==
    LET frames == IF complete THEN <<Head(m.frames)>> ELSE m.frames
    IN  [m EXCEPT !.frames = [frames EXCEPT ![Len(frames)].at = 1]]

\* The contents signature that peekType answers; none for a basic type.
Peek(m) == IF AtEnd(m) THEN <<>> ELSE Upcoming(m).contents
-----------------------------------------------------------------------------
(* Reading: the reader and the value after >>.                              *)

Read(m, v) == [m |-> m, v |-> v]

\* A value-initialized object.
RECURSIVE Zero(_)
Zero(T) ==
    CASE T[1] \in BasicTypes  -> 0
      [] T[1] = "enum"        -> 0
      [] T[1] = "array"       -> [i \in 1..T[3] |-> Zero(T[2])]
      [] T[1] \in {"tuple", "Struct", "DictEntry"} \cup Structs ->
                                 [i \in 1..Len(T) - 1 |-> Zero(T[i + 1])]
      [] T[1] = "variant"     -> <<1, Zero(T[2])>>
      [] T[1] = "Variant"     -> NoItem
      [] OTHER                -> <<>>

RECURSIVE Extract(_, _)

ExtractBasic(m, code) ==
    IF AtEnd(m) THEN Read(NothingLeft(m), 0)
    ELSE IF Upcoming(m).type = code THEN Read(Skip(m), Upcoming(m).value)
    ELSE Read(Fails(m), 0)

\* Elements that do not arrive leave the fixed sequence as it is; there is no
\* room for elements beyond its size.
Overwrite(T, values) ==
    [i \in 1..T[3] |-> IF i <= Len(values) THEN values[i] ELSE Zero(T[2])]

Leave(read) == Read(Exit(read.m), read.v)

\* In one step.
WithinFast(inside, m, T, items) ==
    IF AtEnd(m) \/ ~Sound(inside) THEN Read(inside, Zero(T))
    ELSE IF T[1] = "vector" THEN Read(Skip(m), [i \in DOMAIN items |-> items[i].value])
    ELSE IF Len(items) <= T[3]
      THEN Read(Skip(m), Overwrite(T, [i \in DOMAIN items |-> items[i].value]))
    ELSE Read(Fails(Skip(m)), Zero(T))

ExtractFast(m, T) ==
    WithinFast(Enter(m, "a", SignatureOf(T[2])), m, T, IF AtEnd(m) THEN <<>> ELSE Upcoming(m).items)

\* More elements than any list of a checked instance has.
Unlimited == 99

\* One element after the other, while limit allows, until ok_ is cleared.
RECURSIVE Elements(_, _, _, _)
AfterElement(next, T, values, limit) ==
    IF Sound(next.m) /\ next.m.ok
      THEN Elements(next.m, T, Append(values, next.v), limit)
      ELSE Read(next.m, values)
Elements(m, T, values, limit) ==
    IF Len(values) = limit THEN Read(m, values)
    ELSE AfterElement(Extract(m, T), T, values, limit)

ClearFlags(m) == IF Sound(m) THEN [m EXCEPT !.ok = TRUE] ELSE m

\* Mutant: ok_ stays cleared by the end of the list.
LeaveList_KeepsFlags(list, T) ==
    IF T[1] = "vector" THEN Leave(list)
    ELSE IF Sound(list.m) /\ ~AtEnd(list.m) THEN Read(Fails(list.m), Zero(T))
    ELSE Read(Exit(list.m), Overwrite(T, list.v))

LeaveList(list, T) ==
    IF T[1] = "vector" THEN Read(Exit(ClearFlags(list.m)), list.v)
    ELSE IF Sound(list.m) /\ ~AtEnd(list.m) THEN Read(Fails(list.m), Zero(T))
    ELSE Read(Exit(ClearFlags(list.m)), Overwrite(T, list.v))

\* enterContainer has failed, or has found nothing and cleared ok_.
Outside(inside) == ~Sound(inside) \/ ~inside.ok

WithinList(inside, T) ==
    IF Outside(inside) THEN Read(inside, Zero(T))
    ELSE LeaveList(Elements(inside, T[2], <<>>, IF T[1] = "vector" THEN Unlimited ELSE T[3]), T)

ExtractSlow(m, T) == WithinList(Enter(m, "a", SignatureOf(T[2])), T)

\* One member after the other, whatever ok_ says.
AppendRead(next, values) == Read(next.m, Append(values, next.v))
ExtractTuple(m, types) ==
    FoldLeft(LAMBDA done, T : AppendRead(Extract(done.m, T), done.v), Read(m, <<>>), types)

\* Struct and DictEntry.
WithinMembers(inside, T) ==
    IF Outside(inside) THEN Read(inside, Zero(T)) ELSE Leave(ExtractTuple(inside, Tail(T)))
ExtractMembers(m, T, type) == WithinMembers(Enter(m, type, SignatureOf(Members(T))), T)

\* The reader of a Variant's own message.
Box(item) == Reader(IF item = NoItem THEN <<>> ELSE <<item>>)

\* Mutant: the cursor stays where the last reader has left it.
Get_NoRewind(box, T) ==
    Leave(Extract(Enter([box EXCEPT !.fault = "none"], "v", SignatureOf(T)), T))

\* Variant::get.
Get(box, T) ==
    Leave(Extract(Enter(Rewind([box EXCEPT !.fault = "none"], FALSE), "v", SignatureOf(T)), T))

\* The first of two entries with the same key stays in a map.  A struct takes
\* the member out of its variant; a strict one has no unknown members.
Assign(got, v, key) == Read(got.m, [v EXCEPT ![key] = got.v])
Accept(T, v, key, value) ==
    IF T[1] \in Maps
      THEN Read(Reader(<<>>),
                [k \in DOMAIN v \cup {key} |-> IF k \in DOMAIN v THEN v[k] ELSE value])
    ELSE IF key \in DOMAIN v THEN Assign(Get(Box(value), T[key + 1]), v, key)
    ELSE Read(IF T[1] = "strict" THEN Fails(Reader(<<>>)) ELSE Reader(<<>>), v)

EntryOf(T) == IF T[1] \in Maps THEN <<"DictEntry", T[2], T[3]>>
              ELSE <<"DictEntry", <<"string">>, <<"Variant">>>>

RECURSIVE Entries(_, _, _)
AfterAccept(accepted, m, T) ==
    IF Sound(accepted.m) THEN Entries(m, T, accepted.v)
    ELSE Read([m EXCEPT !.fault = accepted.m.fault], accepted.v)
AfterEntry(next, T, v) ==
    IF Outside(next.m) THEN Read(next.m, v)
    ELSE AfterAccept(Accept(T, v, next.v[1], next.v[2]), next.m, T)
Entries(m, T, v) == AfterEntry(ExtractMembers(m, EntryOf(T), "{"), T, v)

\* deserializeDictionary.
LeaveDictionary(list) == Read(Exit(ClearFlags(list.m)), list.v)
WithinDictionary(inside, T) ==
    IF Outside(inside) THEN Read(inside, Zero(T)) ELSE LeaveDictionary(Entries(inside, T, Zero(T)))
ExtractDictionary(m, T) == WithinDictionary(Enter(m, "a", SignatureOf(EntryOf(T))), T)

\* A registered struct comes as a struct or as a dictionary.
ExtractRegistered(m, T) ==
    IF ~AtEnd(m) /\ Upcoming(m).type = "("
      THEN ExtractMembers(m, T, "(")
      ELSE ExtractDictionary(m, T)

\* Variant::operator>>: whatever comes next; nothing is the end of a container.
ExtractVariant(m) ==
    IF AtEnd(m) THEN Read([m EXCEPT !.ok = FALSE], NoItem) ELSE Read(Skip(m), Upcoming(m))

\* Variant::serializeTo: the whole message, from its beginning.
SerializeTo(box) ==
    LET m == Rewind([box EXCEPT !.fault = "none"], TRUE)
    IN  Read([m EXCEPT !.frames[1].at = Len(Top(m).items) + 1], Top(m).items)

\* The alternatives are tried in order; without a contents signature to compare
\* with strcmp gets a null pointer.
AlternativeRead(value, index) == Read(Exit(value.m), <<index, value.v>>)
ReadAlternative(m, T, contents, fitting) ==
    IF contents = <<>> THEN Read([m EXCEPT !.fault = "undefined"], Zero(T))
    ELSE IF fitting = {} THEN Read(Fails(m), Zero(T))
    ELSE AlternativeRead(Extract(Enter(m, "v", contents), T[Min(fitting) + 1]), Min(fitting))
ExtractStdVariant(m, T) ==
    ReadAlternative(m, T, Peek(m), {i \in 1..Len(T) - 1 : SignatureOf(T[i + 1]) = Peek(m)})

Extract(m, T) ==
    IF ~Sound(m) THEN Read(m, Zero(T)) ELSE
    CASE T[1] \in BasicTypes -> ExtractBasic(m, Code[T[1]])
      [] T[1] = "enum"       -> Extract(m, T[2])
      [] T[1] = "tuple"      -> ExtractTuple(m, Tail(T))
      [] T[1] = "Struct"     -> ExtractMembers(m, T, "(")
      [] T[1] = "DictEntry"  -> ExtractMembers(m, T, "{")
      [] T[1] \in Structs    -> ExtractRegistered(m, T)
      [] T[1] \in Lists      -> IF IsFast(T[2]) THEN ExtractFast(m, T) ELSE ExtractSlow(m, T)
      [] T[1] \in Maps       -> ExtractDictionary(m, T)
      [] T[1] = "variant"    -> ExtractStdVariant(m, T)
      [] OTHER               -> ExtractVariant(m)
=============================================================================
