-------------------------------- MODULE CodeGen --------------------------------
(***************************************************************************)
(* xml2cpp: the C++ code generated for a method, a property or a signal of   *)
(* an interface description, as far as types, arguments, replies and the     *)
(* way the generated statement ends go.  Names of arguments are left out.    *)
(*                                                                          *)
(* A member of the description is a record [kind, args, access,              *)
(* annotations]: args is a sequence of [direction, type], type a signature,  *)
(* and annotations a sequence of [name, value].                              *)
(***************************************************************************)
EXTENDS TypeTraits

-----------------------------------------------------------------------------
(* signature_to_type.                                                       *)

Atom == [y |-> "uint8_t", b |-> "bool", n |-> "int16_t", q |-> "uint16_t", i |-> "int32_t",
         u |-> "uint32_t", x |-> "int64_t", t |-> "uint64_t", d |-> "double", s |-> "string",
         o |-> "ObjectPath", g |-> "Signature", v |-> "Variant", h |-> "UnixFd"]

Closing == {")", "}"}
CodeAt(signature, i) == IF i <= Len(signature) THEN signature[i] ELSE "nul"

\* The text so far and the index that recursive calls share; "exit" is
\* exit(-1).
Parsed(text, i) == [text |-> text, i |-> i]
Beyond == 99 \* no signature is that long
Exits == Parsed(<<"exit">>, Beyond)

RECURSIVE ParseSignature(_, _, _, _)

\* A nested call, between the opening of a template and its closing.
Nested(signature, text, open, i, onlyOnce) ==
    LET inner == ParseSignature(signature, text \o open, i, onlyOnce)
    IN  Parsed(inner.text \o [k \in 1..Len(open) |-> ">"], inner.i)

ParseOne(signature, text, i) ==
    CASE signature[i] = "a" ->
            (CASE CodeAt(signature, i + 1) = "{" -> Nested(signature, text, <<"map">>, i + 2, FALSE)
               [] CodeAt(signature, i + 1) = "(" -> Nested(signature, text, <<"vector", "Struct">>, i + 2, FALSE)
               [] CodeAt(signature, i + 1) = "nul" -> Exits
               [] OTHER -> Nested(signature, text, <<"vector">>, i + 1, TRUE))
      [] signature[i] = "(" -> Nested(signature, text, <<"Struct">>, i + 1, FALSE)
      [] signature[i] \in DOMAIN Atom -> Parsed(Append(text, Atom[signature[i]]), i)
      [] OTHER -> Exits

\* Mutant: the separator is written whatever comes next.
ParseSignature_Comma(signature, text, i, onlyOnce) ==
    IF i > Len(signature) \/ CodeAt(signature, i) \in Closing THEN Parsed(text, i)
    ELSE LET one   == ParseOne(signature, text, i)
             comma == one.i + 1 <= Len(signature)
         IN  IF onlyOnce THEN one
             ELSE ParseSignature(signature, IF comma THEN Append(one.text, ",") ELSE one.text,
                                 one.i + 1, FALSE)

ParseSignature(signature, text, i, onlyOnce) ==
    IF i > Len(signature) \/ CodeAt(signature, i) \in Closing THEN Parsed(text, i)
    ELSE LET one   == ParseOne(signature, text, i)
             comma == one.i + 1 <= Len(signature) /\ signature[one.i + 1] \notin Closing
         IN  IF onlyOnce THEN one
             ELSE ParseSignature(signature, IF comma THEN Append(one.text, ",") ELSE one.text,
                                 one.i + 1, FALSE)

\* The C++ compiler reads the text: the type at index i, and the index after it.
Templates == {"map", "vector", "Struct"}
IllFormed == <<"ill-formed">>

RECURSIVE TypeAt(_, _), ArgumentsAt(_, _, _)
TypeAt(text, i) ==
    IF i > Len(text) \/ text[i] \in {">", ",", "exit"} THEN [type |-> IllFormed, i |-> Beyond]
    ELSE IF text[i] \in Templates THEN ArgumentsAt(text, i + 1, <<text[i]>>)
    ELSE [type |-> <<text[i]>>, i |-> i + 1]
ArgumentsAt(text, i, type) ==
    LET argument == TypeAt(text, i)
        extended == Append(type, argument.type)
    IN  IF argument.i > Len(text) \/ argument.type = IllFormed THEN [type |-> IllFormed, i |-> Beyond]
        ELSE CASE text[argument.i] = ">" -> [type |-> extended, i |-> argument.i + 1]
               [] text[argument.i] = "," -> ArgumentsAt(text, argument.i + 1, extended)
               [] OTHER                  -> [type |-> IllFormed, i |-> Beyond]

SignatureToType(signature) ==
    LET text == ParseSignature(signature, <<>>, 1, FALSE).text
        type == TypeAt(text, 1)
    IN  IF type.i = Len(text) + 1 THEN type.type ELSE IllFormed
-----------------------------------------------------------------------------
(* The description.                                                         *)

\* Nodes::select.
Select(args, direction) == SelectSeq(args, LAMBDA a : a.direction = direction)

\* argsToNamesAndTypes, outArgsToType with bareList.
Types(args) == [i \in DOMAIN args |-> SignatureToType(args[i].type)]

Has(member, name, values) ==
    \E i \in DOMAIN member.annotations :
        member.annotations[i].name = name /\ member.annotations[i].value \in values

\* getAnnotations of the adaptor: a map, in which the last value stays.
Annotation(member, name) ==
    LET values == SelectSeq(member.annotations, LAMBDA a : a.name = name)
    IN  IF values = <<>> THEN "" ELSE Last(values).value

-----------------------------------------------------------------------------
(* Methods.                                                                 *)

ClientSide == {"client", "clientserver", "client-server"}
ServerSide == {"server", "clientserver", "client-server"}
Impls      == {"callback", "direct-callback", "future", "awaitable"}

\* One annotation after the other; client-side without an implementation is a
\* callback.  async and impl name the annotations, as methods and the two
\* accessors of a property have their own.
ClientImpl(member, async, sides, impl) ==
    FoldLeft(LAMBDA chosen, a :
                 IF a.name = async /\ a.value \in sides /\ chosen = "sync" THEN "callback"
                 ELSE IF a.name = impl /\ a.value \in Impls THEN a.value
                 ELSE chosen,
             "sync", member.annotations)

\* A method with out arguments keeps its reply.
DontExpectReply(member) ==
    Has(member, "NoReply", {"true"}) /\ Select(member.args, "out") = <<>>

\* ProxyGenerator::processMethods: the types of the generated function and how
\* its statement ends.
ProxyMethod(member) ==
    LET impl   == ClientImpl(member, "Async", ClientSide, "ClientImpl")
        silent == DontExpectReply(member)
        outs   == Select(member.args, "out")
    IN  [arguments |-> Types(Select(member.args, "in")), results |-> Types(outs),
         async |-> impl # "sync",
         ending |-> IF impl # "sync" /\ ~silent THEN impl
                    ELSE IF outs # <<>> THEN "storeResultsTo"
                    ELSE IF silent THEN "dontExpectReply"
                    ELSE "destructor"]

\* AsyncMethodInvoker has no dontExpectReply().
ProxyMethodCompiles(code) == ~(code.async /\ code.ending = "dontExpectReply")

\* AdaptorGenerator::processMethods.
AdaptorMethod(member) ==
    [arguments |-> Types(Select(member.args, "in")),
     results   |-> Types(Select(member.args, "out")),
     async     |-> Annotation(member, "Async") \in ServerSide,
     noReply   |-> Annotation(member, "NoReply") = "true"]

-----------------------------------------------------------------------------
(* Properties and signals.                                                  *)

Readable(member) == member.access \in {"read", "readwrite"}
Writable(member) == member.access \in {"write", "readwrite"}
TypeOf(member)   == SignatureToType(member.args[1].type)

\* {value, sdbus::embed_variant} in place of value.
EmbedsVariant(member) == member.args[1].type = <<"v">>

\* ProxyGenerator::processProperties.
ProxyProperty(member) ==
    [type  |-> TypeOf(member), embeds |-> EmbedsVariant(member),
     get   |-> IF Readable(member) THEN ClientImpl(member, "Get.Async", {"client"}, "Get.ClientImpl") ELSE "no",
     set   |-> IF Writable(member) THEN ClientImpl(member, "Set.Async", {"client"}, "Set.ClientImpl") ELSE "no"]

\* The setter with a direct callback forwards it as a T, which is an F.
ProxyPropertyCompiles(code) == code.set # "direct-callback"

\* AdaptorGenerator::processProperties; propertyAnnotationToFlag leaves out the
\* namespace of the default.
AdaptorProperty(member) ==
    [type |-> TypeOf(member), get |-> Readable(member), set |-> Writable(member)]

AdaptorPropertyCompiles(member) ==
    Annotation(member, "EmitsChangedSignal") \in {"", "true", "invalidates", "const", "false"}

\* AdaptorGenerator::processSignals and ProxyGenerator::processSignals: all
\* arguments, whatever their direction.
SignalTypes(member) == Types(member.args)
=============================================================================
