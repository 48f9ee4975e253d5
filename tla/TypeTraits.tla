------------------------------- MODULE TypeTraits -------------------------------
(***************************************************************************)
(* C++ types as terms and their D-Bus signatures, as signature_of computes  *)
(* them at compile time.                                                    *)
(*                                                                          *)
(* A type is a tuple: the name of the template and its arguments, as in     *)
(* <<"map", <<"string">>, <<"vector", <<"int32_t">>>>>>; std::array has its  *)
(* size as the last argument.  A signature is a sequence of type codes.     *)
(***************************************************************************)
EXTENDS Naturals, Sequences, SequencesExt

\* The specializations for single types.
Code == [bool |-> "b", uint8_t |-> "y", int16_t |-> "n", uint16_t |-> "q", int32_t |-> "i",
         uint32_t |-> "u", int64_t |-> "x", uint64_t |-> "t", double |-> "d", string |-> "s",
         ObjectPath |-> "o", Signature |-> "g", UnixFd |-> "h"]

BasicTypes == DOMAIN Code

\* is_trivial_dbus_type; an enum inherits it from its underlying type.
IsTrivial(T) ==
    (IF T[1] = "enum" THEN T[2][1] ELSE T[1])
        \in BasicTypes \ {"string", "ObjectPath", "Signature", "UnixFd"}

\* A list of such elements is converted in one step; bool, which is an int on the
\* wire, is left out by name, and an enum of it is not.
IsFast(T) == IsTrivial(T) /\ T # <<"bool">>

Lists   == {"vector", "array", "span"}
Maps    == {"map", "unordered_map"}
\* Structs of the application, known through SDBUSCPP_REGISTER_STRUCT.
Structs == {"strict", "relaxed"}

\* The type of the members as a whole.
Members(T) == <<"tuple">> \o Tail(T)

RECURSIVE SignatureOf(_)

\* signature_of_v; Variant and std::variant are "v" whatever they may hold.
SignatureOf(T) ==
    CASE T[1] \in BasicTypes  -> <<Code[T[1]]>>
      [] T[1] = "tuple"       -> FlattenSeq([i \in 1..Len(T) - 1 |-> SignatureOf(T[i + 1])])
      [] T[1] \in {"Struct"} \cup Structs -> <<"(">> \o SignatureOf(Members(T)) \o <<")">>
      [] T[1] = "DictEntry"   -> <<"{">> \o SignatureOf(Members(T)) \o <<"}">>
      [] T[1] \in Lists  -> <<"a">> \o SignatureOf(T[2])
      [] T[1] \in Maps -> <<"a">> \o SignatureOf(<<"DictEntry", T[2], T[3]>>)
      [] T[1] = "as_dictionary" -> <<"a", "{", "s", "v", "}">>
      [] T[1] = "enum"        -> SignatureOf(T[2])
      [] OTHER                -> <<"v">>
=============================================================================
