----------------------------- MODULE MCConversions -----------------------------
(***************************************************************************)
(* Conversions for TLC: types of every kind, nested up to three deep, the    *)
(* combinations of annotations the generators look at; and, as topics of     *)
(* their own, vtables of up to three members and the timeouts of an event    *)
(* loop.                                                                    *)
(***************************************************************************)
EXTENDS Conversions, VTables, PollTimeouts, TLC

I == <<"int32_t">>
S == <<"string">>
V == <<"Variant">>
ListOf(T) == <<"vector", T>>

MCWritten ==
    {I, S, V, <<"enum", <<"uint8_t">>>>, ListOf(I), ListOf(S), ListOf(<<"bool">>),
     ListOf(<<"enum", <<"uint8_t">>>>),
     ListOf(ListOf(S)), ListOf(V), <<"array", S, 2>>, <<"span", I>>,
     <<"Struct", I, ListOf(S)>>, ListOf(<<"Struct", I, S>>),
     <<"map", S, ListOf(S)>>, <<"map", S, V>>, <<"variant", I, ListOf(S)>>,
     <<"strict", I, ListOf(S)>>, <<"as_dictionary", I, ListOf(S)>>}

MCTrailing == {I, <<"array", S, 1>>}

MCReadAs ==
    (MCWritten \ {<<"span", I>>, <<"as_dictionary", I, ListOf(S)>>}) \cup
    {<<"array", S, 1>>, <<"array", S, 3>>, <<"array", I, 1>>, <<"array", I, 3>>,
     ListOf(<<"DictEntry", S, V>>), <<"unordered_map", S, V>>, <<"relaxed", I>>,
     <<"strict", I, S>>}

\* A list, read as a list and as an array that is too small for it.
FewWritten == {ListOf(S)}
FewReadAs  == {ListOf(S), <<"array", S, 1>>}

-----------------------------------------------------------------------------
Signatures ==
    {<<"i">>, <<"v">>, <<"a", "s">>, <<"a", "a", "s">>, <<"a", "{", "s", "v", "}">>,
     <<"(", "i", "a", "s", ")">>, <<"a", "(", "i", "s", ")">>, <<"(", "(", "i", ")", "s", ")">>,
     <<"a", "{", "s", "(", "i", "v", ")", "}">>, <<"a", "{", "i", "a", "{", "s", "b", "}", "}">>,
     <<"a", "a", "{", "s", "i", "}">>}

Arg(direction, type) == [direction |-> direction, type |-> type]
Note(name, value)    == [name |-> name, value |-> value]

Arguments ==
    {<<>>} \cup
    {<<Arg("in", s)>> : s \in Signatures} \cup {<<Arg("out", s)>> : s \in Signatures} \cup
    {<<Arg("out", <<"s">>), Arg("in", s), Arg("out", <<"u">>), Arg("in", <<"y">>)>> : s \in Signatures}

MethodNotes ==
    {<<>>, <<Note("NoReply", "true")>>, <<Note("NoReply", "false")>>,
     <<Note("Async", "client")>>, <<Note("Async", "server")>>,
     <<Note("Async", "client-server"), Note("ClientImpl", "future")>>,
     <<Note("ClientImpl", "awaitable"), Note("Async", "client")>>,
     <<Note("NoReply", "true"), Note("Async", "client")>>}

PropertyNotes ==
    {<<>>, <<Note("Get.Async", "client")>>, <<Note("Set.Async", "client"), Note("Set.ClientImpl", "future")>>,
     <<Note("Set.ClientImpl", "direct-callback")>>, <<Note("EmitsChangedSignal", "sometimes")>>}

Member(kind, args, access, notes) ==
    [kind |-> kind, args |-> args, access |-> access, annotations |-> notes]

MCDescribed ==
    {Member("method", args, "", notes) : args \in Arguments, notes \in MethodNotes} \cup
    {Member("property", <<Arg("", s)>>, access, notes) :
        s \in Signatures, access \in {"read", "write", "readwrite"}, notes \in PropertyNotes} \cup
    {Member("signal", args, "", <<>>) : args \in Arguments}

-----------------------------------------------------------------------------
CONSTANTS g1, g2, g3, s1, s2  \* callbacks

Declaration(kind, name, getter, setter) ==
    [kind |-> kind, name |-> name, getter |-> getter, setter |-> setter]

\* Names in any order, a method that is there twice, members without a callback.
MCDeclared ==
    {Declaration("method", n[1], n[2], Empty) : n \in {<<1, g1>>, <<2, g2>>, <<3, g3>>, <<2, g3>>, <<1, Empty>>}} \cup
    {Declaration("property", n[1], n[2], n[3]) :
        n \in {<<1, g1, Empty>>, <<2, g2, s2>>, <<3, Empty, s1>>, <<1, Empty, Empty>>}} \cup
    {Declaration("signal", 1, Empty, Empty)}

-----------------------------------------------------------------------------
\* A behaviour converts data, or describes and serves one interface, or polls for
\* the deadlines of a loop.
MCInit == ConversionInit /\ TableInit /\ Init

MCNext ==
    \/ TableInit /\ Init /\ ConversionNext /\ UNCHANGED <<tableVars, vars>>
    \/ topic = "none" /\ Init /\ TableNext /\ UNCHANGED <<conversionVars, vars>>
    \/ topic = "none" /\ TableInit /\ Next /\ UNCHANGED <<conversionVars, tableVars>>

MCSpec == MCInit /\ [][MCNext]_<<conversionVars, tableVars, vars>>
=============================================================================
