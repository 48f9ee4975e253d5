----------------------------- MODULE Statements -----------------------------
(***************************************************************************)
(* The convenience API from end to end: statements like                     *)
(*   proxy->callMethod("m").onInterface(i).withArguments(a).storeResultsTo(r)*)
(* on the client, whose last step may be the destructor of the temporary;   *)
(* and on the server the callbacks of Object, with handlers that reply      *)
(* themselves, hand a Result to another thread, get or set a property.      *)
(*                                                                         *)
(* One server connection dispatches the messages of one client connection   *)
(* in the order they were sent. Invokers are temporaries, as the source      *)
(* asks for; a handler that has moved its Result away throws nothing.        *)
(***************************************************************************)
EXTENDS Naturals, Sequences

CONSTANTS
    Stmts,     \* statements, each evaluated by a thread of its own
    Initial,   \* the value of the property before any Set
    Nothing    \* no value

ASSUME StatementsAssumption ==
    /\ Initial \notin Stmts /\ Nothing \notin Stmts \cup {Initial}
    /\ {"none", "error", "void"} \cap (Stmts \cup {Initial, Nothing}) = {}

VARIABLES
    verb,     \* "method", "get", "getAll", "set" of a property, or "signal"
    ending,   \* how the chain ends: "results", "destructor", "noReply", "async"
    stage,    \* where the thread is in the chain
    flying,   \* std::uncaught_exceptions() of the thread
    saved,    \* exceptions_ of the invoker
    called,   \* methodCalled_
    sent,     \* number of messages the statement has sent
    inbox,    \* messages on their way to the server, in order
    server,   \* what the server does with the message
    replies,  \* replies to it, in order
    property, \* value of the property: the statement that has set it last
    outcome,  \* what the caller got: "none", a value, "error" or "void"
    \* history
    broken,   \* statements a step of which threw before the message was sent
    before,   \* the statements that had sent their message when one began
    timedOut, \* statements whose timeout came first
    garbled   \* statements whose results were of other types than asked for

chain == <<verb, ending, stage, flying, saved, called>>
wire  == <<sent, inbox, server, replies, property>>
hist  == <<broken, before, timedOut, garbled>>
vars  == <<chain, wire, outcome, hist>>

Values == Stmts \cup {Initial, Nothing}

TypeOK ==
    /\ verb \in [Stmts -> {"method", "get", "getAll", "set", "signal"}]
    /\ ending \in [Stmts -> {"results", "destructor", "noReply", "async"}]
    /\ stage \in [Stmts -> {"new", "chain", "send", "wait", "decode", "destroy", "done"}]
    /\ flying \in [Stmts -> 0 .. 2] /\ saved \in [Stmts -> 0 .. 1]
    /\ called \in [Stmts -> BOOLEAN]
    /\ sent \in [Stmts -> 0 .. 2]
    /\ inbox \in Seq(Stmts)
    /\ server \in [Stmts -> {"none", "deferred", "returned", "threw", "dropped", "told"}]
    /\ replies \in [Stmts -> Seq(Values \cup {"error"})]
    /\ property \in Stmts \cup {Initial}
    /\ outcome \in [Stmts -> Values \cup {"none", "error", "void"}]
    /\ broken \subseteq Stmts /\ timedOut \subseteq Stmts /\ garbled \subseteq Stmts
    /\ before \in [Stmts -> SUBSET Stmts]

\* Which chains the classes offer: MethodInvoker and AsyncMethodInvoker, the
\* getters, the setters and SignalEmitter.
MethodChains == [verb : {"method"}, ending : {"results", "destructor", "noReply", "async"}]
GetChains    == [verb : {"get"}, ending : {"results", "async"}]
GetAllChains == [verb : {"getAll"}, ending : {"results", "async"}]
SetChains    == [verb : {"set"}, ending : {"destructor", "noReply", "async"}]
SignalChains == [verb : {"signal"}, ending : {"destructor"}]

Chains == MethodChains \cup GetChains \cup GetAllChains \cup SetChains \cup SignalChains

\* A statement may be evaluated in a destructor that runs while an exception is
\* in flight.
Init ==
    /\ \E c \in [Stmts -> Chains] :
          /\ verb = [s \in Stmts |-> c[s].verb]
          /\ ending = [s \in Stmts |-> c[s].ending]
    /\ flying \in [Stmts -> 0 .. 1]
    /\ stage = [s \in Stmts |-> "new"]
    /\ saved = [s \in Stmts |-> 0] /\ called = [s \in Stmts |-> FALSE]
    /\ sent = [s \in Stmts |-> 0] /\ inbox = <<>>
    /\ server = [s \in Stmts |-> "none"] /\ replies = [s \in Stmts |-> <<>>]
    /\ property = Initial /\ outcome = [s \in Stmts |-> "none"]
    /\ broken = {} /\ before = [s \in Stmts |-> {}] /\ timedOut = {} /\ garbled = {}

Set(f, s, v) == [f EXCEPT ![s] = v]
Goto(s, p)   == stage' = Set(stage, s, p)

-----------------------------------------------------------------------------
(* The client.                                                              *)

\* Constructor: remembers how many exceptions are in flight already.
Begin(s) ==
    /\ stage[s] = "new"
    /\ saved' = Set(saved, s, flying[s])
    /\ before' = Set(before, s, {w \in Stmts : sent[w] > 0})
    /\ Goto(s, "chain")
    /\ UNCHANGED <<verb, ending, flying, called, wire, outcome, broken, timedOut, garbled>>

\* onInterface, withArguments, dontExpectReply: each of them may throw.
ChainThrows(s) ==
    /\ stage[s] = "chain"
    /\ broken' = broken \cup {s}
    /\ outcome' = Set(outcome, s, "error")
    /\ flying' = Set(flying, s, flying[s] + 1)
    /\ Goto(s, IF ending[s] = "async" THEN "done" ELSE "destroy")
    /\ UNCHANGED <<verb, ending, saved, called, wire, before, timedOut, garbled>>

\* storeResultsTo and uponReplyInvoke send, the other chains only end.
ChainEnds(s) ==
    /\ stage[s] = "chain"
    /\ Goto(s, IF ending[s] \in {"results", "async"} THEN "send" ELSE "destroy")
    /\ UNCHANGED <<verb, ending, flying, saved, called, wire, outcome, hist>>

\* Mutant: the destructor sends nothing with any exception in flight.
Destructor_AnyException(s) ==
    /\ stage[s] = "destroy"
    /\ Goto(s, IF called[s] \/ flying[s] > 0 THEN "done" ELSE "send")
    /\ UNCHANGED <<verb, ending, flying, saved, called, wire, outcome, hist>>

\* Mutant: the destructor does not ask whether the call was made.
Destructor_Again(s) ==
    /\ stage[s] = "destroy"
    /\ Goto(s, IF flying[s] # saved[s] THEN "done" ELSE "send")
    /\ UNCHANGED <<verb, ending, flying, saved, called, wire, outcome, hist>>

\* ~MethodInvoker, ~SignalEmitter.
Destructor(s) ==
    /\ stage[s] = "destroy"
    /\ Goto(s, IF called[s] \/ flying[s] # saved[s] THEN "done" ELSE "send")
    /\ UNCHANGED <<verb, ending, flying, saved, called, wire, outcome, hist>>

\* Mutant: a call that expects a reply is sent ahead of those that do not.
Send_Overtakes(s) ==
    /\ stage[s] = "send"
    /\ sent' = Set(sent, s, sent[s] + 1)
    /\ inbox' = IF ending[s] = "noReply" THEN Append(inbox, s) ELSE <<s>> \o inbox
    /\ IF verb[s] = "signal" \/ ending[s] = "noReply"
       THEN Goto(s, "done") /\ outcome' = Set(outcome, s, "void")
       ELSE Goto(s, "wait") /\ UNCHANGED outcome
    /\ UNCHANGED <<verb, ending, flying, saved, called, server, replies, property, hist>>

\* A blocking caller waits for the reply, the others are through: a signal, a
\* call without reply, an async call, whose reply comes by the event loop.
Send(s) ==
    /\ stage[s] = "send"
    /\ sent' = Set(sent, s, sent[s] + 1)
    /\ inbox' = Append(inbox, s)
    /\ IF verb[s] = "signal" \/ ending[s] = "noReply"
       THEN Goto(s, "done") /\ outcome' = Set(outcome, s, "void")
       ELSE Goto(s, "wait") /\ UNCHANGED outcome
    /\ UNCHANGED <<verb, ending, flying, saved, called, server, replies, property, hist>>

\* Where a failed call leaves the statement: an exception runs through what is
\* left of it; an async caller has a callback that gets the error.
Fails(s) ==
    /\ outcome' = Set(outcome, s, "error")
    /\ IF ending[s] = "async"
       THEN Goto(s, "done") /\ UNCHANGED flying
       ELSE /\ flying' = Set(flying, s, flying[s] + 1)
            /\ Goto(s, IF ending[s] = "results" THEN "destroy" ELSE "done")

\* The message is not valid, for want of an onInterface, or sd-bus refuses it;
\* an async caller gets an exception, too.
SendFails(s) ==
    /\ stage[s] = "send"
    /\ broken' = broken \cup {s}
    /\ outcome' = Set(outcome, s, "error")
    /\ flying' = Set(flying, s, flying[s] + 1)
    /\ Goto(s, IF ending[s] = "results" THEN "destroy" ELSE "done")
    /\ UNCHANGED <<verb, ending, saved, called, wire, before, timedOut, garbled>>

\* The first reply is the one that counts; a later one has no taker.
ReplyArrives(s) ==
    /\ stage[s] = "wait" /\ replies[s] # <<>>
    /\ IF Head(replies[s]) = "error"
       THEN Fails(s) /\ UNCHANGED called
       ELSE /\ called' = Set(called, s, ending[s] = "results")
            /\ Goto(s, "decode")
            /\ UNCHANGED <<flying, outcome>>
    /\ UNCHANGED <<verb, ending, saved, wire, hist>>

\* Mutant: a blocking call has no timeout.
Timeout_AsyncOnly(s) ==
    /\ stage[s] = "wait" /\ ending[s] = "async"
    /\ Fails(s)
    /\ timedOut' = timedOut \cup {s}
    /\ UNCHANGED <<verb, ending, saved, called, wire, broken, before, garbled>>

Timeout(s) ==
    /\ stage[s] = "wait"
    /\ Fails(s)
    /\ timedOut' = timedOut \cup {s}
    /\ UNCHANGED <<verb, ending, saved, called, wire, broken, before, garbled>>

\* The results go to the variables of storeResultsTo or to the callback; they
\* may be of other types than the caller has asked for.
Decode(s) ==
    /\ stage[s] = "decode"
    /\ \/ /\ outcome' = Set(outcome, s, IF ending[s] = "destructor" THEN "void" ELSE Head(replies[s]))
          /\ Goto(s, IF ending[s] = "results" THEN "destroy" ELSE "done")
          /\ UNCHANGED <<flying, garbled>>
       \/ ending[s] # "destructor" /\ Fails(s) /\ garbled' = garbled \cup {s}
    /\ UNCHANGED <<verb, ending, saved, called, wire, broken, before, timedOut>>

-----------------------------------------------------------------------------
(* The server: sdbus_method_callback, sdbus_property_get_callback and        *)
(* sdbus_property_set_callback, and the signal handler of a proxy.           *)

NextMessage(s) == inbox # <<>> /\ s = Head(inbox) /\ inbox' = Tail(inbox)

\* sd-bus sends no reply to a call that expects none.
Replies(s, r) ==
    replies' = IF ending[s] = "noReply" THEN replies ELSE [replies EXCEPT ![s] = Append(@, r)]

\* What the handler returns: for a method some value of its own.
Result(s) == CASE verb[s] \in {"get", "getAll"} -> property [] OTHER -> Nothing

\* The handler returns: its results are sent, the property is read or set.
HandlerReturns(s) ==
    /\ verb[s] # "signal" /\ NextMessage(s)
    /\ server' = Set(server, s, "returned")
    /\ property' = IF verb[s] = "set" THEN s ELSE property
    /\ Replies(s, Result(s))
    /\ UNCHANGED <<chain, sent, outcome, hist>>

\* Mutant: the exception is caught, but the callback returns success.
HandlerThrows_Swallowed(s) ==
    /\ verb[s] # "signal" /\ NextMessage(s)
    /\ server' = Set(server, s, "threw")
    /\ Replies(s, Nothing)
    /\ UNCHANGED <<chain, sent, property, outcome, hist>>

\* The arguments cannot be read, the handler throws or its results cannot be
\* written: invokeHandlerAndCatchErrors, sd-bus replies with the error. So it
\* does itself for an unknown member, other argument types, a property that is
\* read-only; the getter of a write-only property sets the error.
HandlerThrows(s) ==
    /\ verb[s] # "signal" /\ NextMessage(s)
    /\ server' = Set(server, s, "threw")
    /\ Replies(s, "error")
    /\ UNCHANGED <<chain, sent, property, outcome, hist>>

\* Mutant: the callback of an async handler replies as well.
HandlerDefers_Replies(s) ==
    /\ verb[s] = "method" /\ NextMessage(s)
    /\ server' = Set(server, s, "deferred")
    /\ Replies(s, Nothing)
    /\ UNCHANGED <<chain, sent, property, outcome, hist>>

\* A handler with a Result parameter: the reply is left to whoever has it.
HandlerDefers(s) ==
    /\ verb[s] = "method" /\ NextMessage(s)
    /\ server' = Set(server, s, "deferred")
    /\ UNCHANGED <<chain, sent, replies, property, outcome, hist>>

\* Result::returnResults, returnError, or the Result is destroyed unused.
ReturnResults(s) ==
    /\ server[s] = "deferred"
    /\ \/ server' = Set(server, s, "returned") /\ Replies(s, Nothing)
       \/ server' = Set(server, s, "threw") /\ Replies(s, "error")
       \/ server' = Set(server, s, "dropped") /\ UNCHANGED replies
    /\ UNCHANGED <<chain, sent, inbox, property, outcome, hist>>

\* makeSignalHandler: arguments that cannot be read are dropped with the
\* exception, or told to a handler with an Error parameter; nobody replies.
SignalHandler(s) ==
    /\ verb[s] = "signal" /\ NextMessage(s)
    /\ \E end \in {"returned", "threw", "told"} : server' = Set(server, s, end)
    /\ UNCHANGED <<chain, sent, replies, property, outcome, hist>>

-----------------------------------------------------------------------------
ClientStep(s) ==
    \/ Begin(s) \/ ChainThrows(s) \/ ChainEnds(s) \/ Destructor(s) \/ Send(s) \/ SendFails(s)
    \/ ReplyArrives(s) \/ Timeout(s) \/ Decode(s)

ServerStep(s) ==
    \/ HandlerReturns(s) \/ HandlerThrows(s) \/ HandlerDefers(s) \/ ReturnResults(s)
    \/ SignalHandler(s)

Next == \E s \in Stmts : ClientStep(s) \/ ServerStep(s)

Spec == Init /\ [][Next]_vars

\* Threads are scheduled; each call has a timeout.
FairSpec == Spec /\ \A s \in Stmts : WF_vars(ClientStep(s))

-----------------------------------------------------------------------------
(* Properties.                                                              *)

\* A statement whose steps did not throw has sent one message when it is over,
\* also when it is evaluated while an exception is in flight, another one none;
\* in particular it does not call again when the call or its results failed.
OneMessage ==
    \A s \in Stmts :
        stage[s] = "done" => sent[s] = IF s \in broken THEN 0 ELSE 1

\* A call is answered at most once, one that expects no reply never; whoever
\* handles it, it is answered when the handler is through with it, unless a
\* Result was dropped.
OneReply ==
    \A s \in Stmts :
        Len(replies[s]) =
            IF server[s] \in {"returned", "threw"} /\ ending[s] # "noReply" /\ verb[s] # "signal"
            THEN 1 ELSE 0

\* A caller that gets results gets those of a handler that has returned; after
\* an error that came in time, for nothing but the types of the results, the
\* handler has failed.
Truthful ==
    \A s \in Stmts : stage[s] = "done" =>
        /\ outcome[s] \in Values \/ (outcome[s] = "void" /\ ending[s] = "destructor" /\ verb[s] # "signal")
               => server[s] = "returned"
        /\ outcome[s] = "error" /\ s \notin broken \cup timedOut \cup garbled
               => server[s] = "threw"

\* Calls take effect in the order they were made, those that expect no reply
\* included: a Get that began when a Set had been sent, and did set the property,
\* returns neither the initial value nor one that an even earlier Set has set.
ReadsLatest ==
    \A g, w \in Stmts :
        /\ verb[g] \in {"get", "getAll"} /\ outcome[g] \in Values
        /\ verb[w] = "set" /\ server[w] = "returned" /\ w \in before[g]
        => outcome[g] \notin {Initial} \cup before[w]

\* What a statement is as an operation on the remote object, and how far it is.
KindOf(s) == CASE verb[s] \in {"get", "getAll"} -> "read"
               [] verb[s] = "set"               -> "write"
               [] OTHER                         -> "call"

OneWay(s) == ending[s] = "noReply" \/ verb[s] = "signal"

LifeOf(s) == IF sent[s] = 0 THEN "new"
             ELSE CASE server[s] \in {"none", "deferred"} -> "issued"
                    [] server[s] = "returned"             -> "performed"
                    [] OTHER                              -> "failed"

ResultOf(s) == IF server[s] = "returned" /\ replies[s] # <<>> THEN Head(replies[s]) ELSE "none"

Abstract == INSTANCE RemoteCalls
    WITH Ops <- Stmts,
         kind <- [s \in Stmts |-> KindOf(s)],
         oneWay <- [s \in Stmts |-> OneWay(s)],
         life <- [s \in Stmts |-> LifeOf(s)],
         register <- property,
         result <- [s \in Stmts |-> ResultOf(s)]

\* Each statement takes effect at one instant, once at most, and tells its caller
\* the result of that instant or that it has failed, once; one that failed before
\* it was sent is never sent (MethodInvoker, Object's callbacks; RemoteCalls).
Implements == Abstract!Spec

\* Every statement ends, with results or an error, whatever the server does.
StatementsEnd == \A s \in Stmts : (stage[s] = "chain") ~> (stage[s] = "done")

-----------------------------------------------------------------------------
(* What makes these invariants inductive.                                   *)

Steady(s) == flying[s] = saved[s] /\ ~called[s] /\ s \notin broken

\* Where a statement is tells whether it has sent its message.
StagesOK ==
    \A s \in Stmts :
        /\ stage[s] = "new" => sent[s] = 0 /\ ~called[s] /\ s \notin broken /\ flying[s] < 2
        /\ stage[s] \in {"chain", "send"} => sent[s] = 0 /\ Steady(s)
        /\ stage[s] = "wait" => sent[s] = 1 /\ Steady(s)
        /\ stage[s] = "decode" =>
              /\ sent[s] = 1 /\ flying[s] = saved[s] /\ s \notin broken
              /\ called[s] = (ending[s] = "results")
              /\ replies[s] # <<>> /\ Head(replies[s]) \in Values
        /\ stage[s] = "destroy" =>
              \/ flying[s] = saved[s] + 1 /\ sent[s] = (IF s \in broken THEN 0 ELSE 1)
              \/ called[s] /\ sent[s] = 1 /\ s \notin broken
              \/ sent[s] = 0 /\ Steady(s)
        /\ stage[s] = "done" => sent[s] = IF s \in broken THEN 0 ELSE 1

\* A message is in the inbox once, from when it is sent to when it is handled,
\* behind those sent before its statement began.
InboxOK ==
    /\ \A i, j \in 1 .. Len(inbox) : inbox[i] = inbox[j] => i = j
    /\ \A i \in 1 .. Len(inbox) : sent[inbox[i]] = 1 /\ server[inbox[i]] = "none"
    /\ \A s \in Stmts : sent[s] = 1 /\ server[s] = "none" => \E i \in 1 .. Len(inbox) : inbox[i] = s
    /\ \A s \in Stmts : server[s] # "none" => sent[s] = 1
    /\ \A g \in Stmts : \A w \in before[g] :
          /\ sent[w] = 1 /\ g # w
          /\ \A i, j \in 1 .. Len(inbox) : inbox[i] = w /\ inbox[j] = g => i < j

\* What a reply holds is what the handler did.
RepliesOK ==
    \A s \in Stmts :
        /\ server[s] = "deferred" => verb[s] = "method"
        /\ replies[s] # <<>> /\ server[s] = "returned" => Head(replies[s]) \in Values
        /\ replies[s] # <<>> /\ server[s] = "threw" => Head(replies[s]) = "error"

\* Truthful, at any stage.
OutcomesOK ==
    \A s \in Stmts :
        /\ outcome[s] \in Values \/ (outcome[s] = "void" /\ ending[s] = "destructor" /\ verb[s] # "signal")
               => server[s] = "returned"
        /\ outcome[s] = "error" /\ s \notin broken \cup timedOut \cup garbled
               => server[s] = "threw"
        /\ outcome[s] \in Values => replies[s] # <<>> /\ outcome[s] = Head(replies[s])

\* The caller is told nothing before the statement is decided.
UndecidedOK ==
    \A s \in Stmts :
        \/ stage[s] \in {"new", "chain", "send", "wait", "decode"}
        \/ stage[s] = "destroy" /\ ~called[s] /\ flying[s] = saved[s]
        => outcome[s] = "none"

\* A Set is handled before a Get that began when it had been sent, and after the
\* Set calls that had been sent when it began.
PropertyOK ==
    /\ \A w \in Stmts : verb[w] = "set" /\ server[w] = "returned" =>
          property \notin {Initial} \cup before[w]
    /\ \A g \in Stmts : \A w \in before[g] : server[g] # "none" => server[w] # "none"
    /\ \A g \in Stmts : \A w \in before[g] :
          /\ verb[g] \in {"get", "getAll"} /\ replies[g] # <<>>
          /\ verb[w] = "set" /\ server[w] = "returned"
          => Head(replies[g]) \notin {Initial} \cup before[w]

IInv ==
    TypeOK /\ StagesOK /\ InboxOK /\ OneReply /\ RepliesOK /\ OutcomesOK
    /\ UndecidedOK /\ PropertyOK
=============================================================================
