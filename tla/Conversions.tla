------------------------------ MODULE Conversions ------------------------------
(***************************************************************************)
(* What sdbus-c++ converts, each with whoever depends on the conversion:     *)
(* values written to a message and read from it, possibly as another type;   *)
(* a Variant that is read again and again; an interface description that     *)
(* becomes a proxy and an adaptor which then talk to each other.  A behaviour *)
(* is about one of them.                                                    *)
(***************************************************************************)
EXTENDS Serialization, CodeGen

CONSTANTS
    Written,   \* types of the first value in a message, and in a Variant
    Trailing,  \* types of the second one
    ReadAs,    \* types a reader expects
    Described  \* members of interface descriptions

VARIABLES
    topic,  \* what the behaviour is about, and how far it has come
    given,  \* the input
    code,   \* what has been generated from it
    wire,   \* the items of a message under way
    reader, \* a message that is read, or the one of a Variant
    out     \* the results, in order

conversionVars == <<topic, given, code, wire, reader, out>>

ConversionInit ==
    /\ topic = "none"
    /\ given = <<>> /\ code = <<>> /\ wire = <<>> /\ reader = Reader(<<>>) /\ out = <<>>

\* Some values of every type, to tell apart the order and number of elements.
RECURSIVE Values(_)
Product(types) ==
    FoldLeft(LAMBDA tuples, T : {Append(t, v) : t \in tuples, v \in Values(T)}, {<<>>}, types)
Values(T) ==
    CASE T[1] \in BasicTypes -> {1, 2}
      [] T[1] = "enum"       -> {1, 2}
      [] T[1] \in {"tuple", "Struct", "DictEntry", "as_dictionary"} \cup Structs -> Product(Tail(T))
      [] T[1] = "array"      -> Product([i \in 1..T[3] |-> T[2]])
      [] T[1] \in Lists      -> {<<>>} \cup Product(<<T[2]>>) \cup Product(<<T[2], T[2]>>)
      [] T[1] \in Maps       -> UNION {[keys -> Values(T[3])] : keys \in SUBSET {1, 2}}
      [] T[1] = "variant"    -> UNION {{<<i, v>> : v \in Values(T[i + 1])}
                                        : i \in 1..Len(T) - 1}
      [] OTHER               -> {VariantOf(<<"int32_t">>, 1),
                                 VariantOf(<<"vector", <<"string">>>>, <<2, 1>>),
                                 VariantOf(<<"Variant">>, VariantOf(<<"string">>, 1))}

-----------------------------------------------------------------------------
(* Values in a message.                                                     *)

Write(T1, T2) ==
    /\ topic = "none"
    /\ \E v1 \in Values(T1), v2 \in Values(T2) :
        /\ given' = <<[type |-> T1, value |-> v1], [type |-> T2, value |-> v2]>>
        /\ wire' = Put(T1, v1) \o Put(T2, v2)
    /\ reader' = Reader(wire')
    /\ topic' = "message"
    /\ UNCHANGED <<code, out>>

\* A reader that has had an exception stops.
ReadNext(U) ==
    /\ topic = "message" /\ Len(out) < Len(given) /\ Sound(reader)
    /\ \E read \in {Extract(reader, U)} :
        /\ reader' = read.m
        /\ out' = Append(out, [type |-> U, value |-> read.v])
    /\ UNCHANGED <<topic, given, code, wire>>

-----------------------------------------------------------------------------
(* A Variant.                                                               *)

Hold(T) ==
    /\ topic = "none"
    /\ \E v \in Values(T) :
        /\ given' = <<[type |-> T, value |-> v]>>
        /\ wire' = <<VariantOf(T, v)>>
    /\ reader' = Box(wire'[1])
    /\ topic' = "variant"
    /\ UNCHANGED <<code, out>>

GetAs(U) ==
    /\ topic = "variant"
    /\ \E read \in {Get(reader, U)} :
        /\ reader' = read.m
        /\ out' = <<[type |-> U, value |-> read.v]>>
    /\ UNCHANGED <<topic, given, code, wire>>

\* The Variant is sent.
Serialize ==
    /\ topic = "variant"
    /\ LET sent == SerializeTo(reader)
       IN  /\ reader' = sent.m
           /\ wire' = sent.v
    /\ out' = <<>>
    /\ UNCHANGED <<topic, given, code>>
-----------------------------------------------------------------------------
(* Generated code.                                                          *)

Generate(member) ==
    /\ topic = "none"
    /\ given' = <<member>>
    /\ code' = CASE member.kind = "method" ->
                        [proxy |-> ProxyMethod(member), adaptor |-> AdaptorMethod(member),
                         compiles |-> ProxyMethodCompiles(ProxyMethod(member))]
                 [] member.kind = "property" ->
                        [proxy |-> ProxyProperty(member), adaptor |-> AdaptorProperty(member),
                         compiles |-> /\ ProxyPropertyCompiles(ProxyProperty(member))
                                      /\ AdaptorPropertyCompiles(member)]
                 [] OTHER ->
                        [proxy |-> SignalTypes(member), adaptor |-> SignalTypes(member),
                         compiles |-> TRUE]
    /\ topic' = "generated"
    /\ UNCHANGED <<wire, reader, out>>

Tuple(types) == <<"tuple">> \o types

\* What one side writes as these types, and the other reads as those.
Exchange(from, to) ==
    \E v \in Product(from) : \E items \in {Put(Tuple(from), v)} :
        \E read \in {Extract(Reader(items), Tuple(to))} :
            /\ wire' = items
            /\ reader' = read.m
            /\ out' = Append(out, [sent |-> v, received |-> read.v])

\* The generated proxy calls the method of the generated adaptor.
CallMethod ==
    /\ topic = "generated" /\ given[1].kind = "method" /\ code.compiles
    /\ Exchange(code.proxy.arguments, code.adaptor.arguments)
    /\ topic' = "called"
    /\ UNCHANGED <<given, code>>

\* The results go back, into whatever the statement of the proxy ends with.
ReturnResults ==
    /\ topic = "called" /\ Sound(reader)
    /\ code.proxy.ending \notin {"dontExpectReply", "destructor"}
    /\ Exchange(code.adaptor.results, code.proxy.results)
    /\ topic' = "answered"
    /\ UNCHANGED <<given, code>>

EmitSignal ==
    /\ topic = "generated" /\ given[1].kind = "signal"
    /\ Exchange(code.adaptor, code.proxy)
    /\ topic' = "answered"
    /\ UNCHANGED <<given, code>>

\* A value travels in an item and is taken out of it.
Hand(v, item, type) ==
    \E read \in {Get(Box(item), type)} :
        /\ wire' = <<item>>
        /\ reader' = read.m
        /\ out' = <<[sent |-> <<v>>, received |-> <<read.v>>]>>

\* sd-bus puts what the getter returns into a variant with the signature of the
\* property; the proxy takes it out again.
GetProperty ==
    /\ topic = "generated" /\ given[1].kind = "property" /\ code.compiles
    /\ code.proxy.get # "no"
    /\ \E v \in Values(code.adaptor.type) :
        Hand(v, VariantOf(code.adaptor.type, v), code.proxy.type)
    /\ topic' = "answered"
    /\ UNCHANGED <<given, code>>

\* toValue puts the value into a Variant, which a Variant is already; sd-bus
\* enters it with the signature of the property.
SetProperty ==
    /\ topic = "generated" /\ given[1].kind = "property" /\ code.compiles
    /\ code.proxy.set # "no"
    /\ \E v \in Values(code.proxy.type) :
        Hand(v, IF code.proxy.type = <<"Variant">> /\ ~code.proxy.embeds
                  THEN v ELSE VariantOf(code.proxy.type, v), code.adaptor.type)
    /\ topic' = "answered"
    /\ UNCHANGED <<given, code>>

-----------------------------------------------------------------------------
ConversionNext ==
    \/ \E T1 \in Written, T2 \in Trailing : Write(T1, T2)
    \/ \E U \in ReadAs : ReadNext(U)
    \/ \E T \in Written : Hold(T)
    \/ \E U \in ReadAs : GetAs(U)
    \/ Serialize
    \/ \E member \in Described : Generate(member)
    \/ CallMethod \/ ReturnResults \/ EmitSignal \/ GetProperty \/ SetProperty
-----------------------------------------------------------------------------
(* Properties.                                                              *)

RECURSIVE Mentions(_, _)
Mentions(T, names) ==
    \/ T[1] \in names
    \/ \E i \in 2..Len(T) : ~(T[1] = "array" /\ i = 3) /\ Mentions(T[i], names)

\* Types that read whatever has their signature: not those with room for a
\* number of elements or a choice of alternatives.
Plain(U) == ~Mentions(U, {"array", "variant"})

\* Types that read more than their signature: any item is a Variant to >>, and
\* registered structs come as dictionaries, too.
Lenient(U) == Mentions(U, {"Variant"} \cup Structs)

\* The value that was read, written again, is the item.  A longer array and a
\* struct that came as a dictionary are more than the item.
Denotes(U, v, item) ==
    \/ Put(U, v) = <<item>>
    \/ U[1] = "array" /\ \E n \in 0..U[3] : Put(<<"vector", U[2]>>, SubSeq(v, 1, n)) = <<item>>
    \/ U[1] \in Structs /\ item.type = "a" /\
        \A i \in DOMAIN item.items :
            LET key == item.items[i].items[1].value
                in  == item.items[i].items[2]
            IN  IF key \in DOMAIN v THEN VariantOf(U[key + 1], v[key]) = in ELSE U[1] = "relaxed"
    \/ Mentions(U, {"array"} \cup Structs) /\ U[1] \notin {"array"} \cup Structs

\* What is read from a message without an exception is the value that was
\* written, the cursor is at the next one and ok_ is set, also after the end of a
\* list has cleared it; and a reader that expects the right signature has no
\* exception (Message::operator<< and >>, signature_of).
ReadBack ==
    topic = "message" =>
        /\ Signature(wire) = SignatureOf(Tuple([i \in DOMAIN given |-> given[i].type]))
        /\ \A i \in DOMAIN out :
            LET U    == out[i].type
                fits == SignatureOf(U) = ItemSignature(wire[i])
                read == i < Len(out) \/ Sound(reader)
            IN  /\ read => /\ fits \/ Lenient(U)
                           /\ Denotes(U, out[i].value, wire[i])
                           /\ U = given[i].type => out[i].value = given[i].value
                /\ fits /\ Plain(U) => read
        /\ Sound(reader) =>
            reader.ok /\ Len(reader.frames) = 1 /\ Top(reader).at = Len(out) + 1

\* What a get answers: the value, when it is asked for with the right type, and
\* an exception otherwise.
Answered(U, value) ==
    /\ Sound(reader') =>
        /\ SignatureOf(U) = wire[1].contents \/ Lenient(U)
        /\ Denotes(U, value, wire[1].items[1])
    /\ Plain(U) /\ SignatureOf(U) = wire[1].contents => Sound(reader')

\* A Variant answers the same question with the same value as often as it is
\* asked, before and after it has been sent, and gets of a wrong type in between
\* change nothing (Variant::get, serializeTo).  A get that has failed inside of the
\* value, behind the right signature, is the exception: see VariantUnharmed.
VariantConst ==
    [][topic = "variant" /\ out' # <<>> /\ Len(reader.frames) = 1 =>
        /\ Answered(out'[1].type, out'[1].value)
        /\ Plain(out'[1].type) => Len(reader'.frames) = 1]_conversionVars

\* The same after every get: reading a Variant does not change it ("Some const
\* methods are conceptually const", Types.h:48).  In fact a get that fails inside
\* of the value leaves the cursor there, where the next one looks for the variant.
VariantUnharmed ==
    [][topic = "variant" /\ out' # <<>> => Answered(out'[1].type, out'[1].value)]_conversionVars

\* A generated proxy and a generated adaptor understand each other in the
\* signatures that the description states: arguments, results, signals and
\* property values arrive as they were sent, and a call expects a reply unless
\* the method is annotated with NoReply and returns nothing.
GeneratedAgree ==
    topic \in {"generated", "called", "answered"} =>
        LET member == given[1]
            types(side) == CASE member.kind = "method"   -> side.arguments \o side.results
                             [] member.kind = "property" -> <<side.type>>
                             [] OTHER                    -> side
            stated == IF member.kind = "method"
                        THEN Select(member.args, "in") \o Select(member.args, "out")
                        ELSE member.args
            signature == FlattenSeq([i \in DOMAIN stated |-> stated[i].type])
        IN  /\ SignatureOf(Tuple(types(code.proxy))) = signature
            /\ SignatureOf(Tuple(types(code.adaptor))) = signature
            /\ Sound(reader)
            /\ \A i \in DOMAIN out : out[i].received = out[i].sent
            /\ member.kind = "method" /\ code.compiles =>
                (code.proxy.ending = "dontExpectReply") =
                    (Has(member, "NoReply", {"true"}) /\ Select(member.args, "out") = <<>>)
=============================================================================
