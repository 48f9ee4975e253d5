--------------------------- MODULE StatementsProofs ---------------------------
(***************************************************************************)
(* Proofs about the statements of the convenience API, for any number of    *)
(* them and every order of their steps.                                     *)
(***************************************************************************)
EXTENDS Statements, TLAPS


\* What appending to a sequence leaves, and adds.
LEMMA AppendFacts ==
    ASSUME NEW S, NEW q \in Seq(S), NEW e \in S
    PROVE  /\ Append(q, e) \in Seq(S) /\ Append(q, e) # <<>>
           /\ Len(q) \in Nat /\ Len(Append(q, e)) = Len(q) + 1
           /\ Append(q, e)[Len(q) + 1] = e
           /\ \A i \in 1 .. Len(q) : Append(q, e)[i] = q[i]
OBVIOUS

\* What a queue is after its head is taken.
LEMMA TailFacts ==
    ASSUME NEW S, NEW q \in Seq(S), q # <<>>
    PROVE  /\ Tail(q) \in Seq(S) /\ Head(q) \in S /\ Head(q) = q[1]
           /\ Len(q) \in Nat \ {0} /\ Len(Tail(q)) = Len(q) - 1
           /\ \A i \in 1 .. Len(q) - 1 : Tail(q)[i] = q[i + 1]
OBVIOUS

\* A call that is not answered yet has no reply, and then it has one.
LEMMA NoReplyYet ==
    ASSUME IInv, NEW s \in Stmts, server[s] \in {"none", "deferred"}
    PROVE  replies[s] = <<>>
<1>1. replies[s] \in Seq(Values \cup {"error"}) /\ Len(replies[s]) = 0
  BY DEF IInv, TypeOK, OneReply
<1> QED
  BY <1>1

\* A statement that has no reply gets one, or none when it wants none.
LEMMA RepliesFacts ==
    ASSUME IInv, NEW s \in Stmts, server[s] \in {"none", "deferred"},
           NEW r \in Values \cup {"error"}, Replies(s, r)
    PROVE  /\ replies' \in [Stmts -> Seq(Values \cup {"error"})]
           /\ \A w \in Stmts \ {s} : replies'[w] = replies[w]
           /\ ending[s] = "noReply" => replies'[s] = <<>> /\ Len(replies'[s]) = 0
           /\ ending[s] # "noReply" => replies'[s] # <<>> /\ Len(replies'[s]) = 1 /\ Head(replies'[s]) = r
<1>1. replies[s] = <<>> /\ replies \in [Stmts -> Seq(Values \cup {"error"})]
  BY NoReplyYet DEF IInv, TypeOK
<1>2. Append(<<>>, r) = <<r>> /\ <<r>> \in Seq(Values \cup {"error"}) /\ Len(<<r>>) = 1 /\ Head(<<r>>) = r /\ <<r>> # <<>>
  OBVIOUS
<1> QED
  BY <1>1, <1>2 DEF Replies

\* The message that is handled is the first one.
LEMMA NextFacts ==
    ASSUME IInv, NEW s \in Stmts, NextMessage(s)
    PROVE  /\ server[s] = "none" /\ sent[s] = 1
           /\ Len(inbox) \in Nat \ {0} /\ inbox[1] = s
           /\ inbox' \in Seq(Stmts) /\ Len(inbox') = Len(inbox) - 1
           /\ \A i \in 1 .. Len(inbox) - 1 : inbox'[i] = inbox[i + 1]
<1>1. inbox \in Seq(Stmts) /\ inbox # <<>> /\ inbox' = Tail(inbox) /\ s = Head(inbox)
  BY DEF IInv, TypeOK, NextMessage
<1>2. s = inbox[1] /\ Len(inbox) \in Nat \ {0}
  BY <1>1, TailFacts
<1>3. server[s] = "none" /\ sent[s] = 1
  BY <1>2 DEF IInv, InboxOK
<1> QED
  BY <1>1, <1>2, <1>3, TailFacts

\* The inbox stays in order as long as no message that waits is handled.
LEMMA InboxKept ==
    ASSUME IInv, UNCHANGED <<inbox, sent, before>>,
           \A w \in Stmts : server'[w] = "none" <=> server[w] = "none"
    PROVE  InboxOK'
<1>1. inbox \in Seq(Stmts)
  BY DEF IInv, TypeOK
<1>2. \A i \in 1 .. Len(inbox) : inbox[i] \in Stmts
  BY <1>1
<1>3. InboxOK
  BY DEF IInv
<1> QED
  BY <1>2, <1>3 DEF InboxOK

\* Handling the next message keeps the order of those that wait.
LEMMA HandledInOrder ==
    ASSUME IInv, NEW s \in Stmts, NextMessage(s), NEW e, e # "none",
           server' = [server EXCEPT ![s] = e], UNCHANGED <<sent, before>>
    PROVE  InboxOK'
<1> USE NextFacts
<1> DEFINE n == Len(inbox)
<1>1. \A i, j \in 1 .. n : inbox[i] = inbox[j] => i = j
  BY DEF IInv, InboxOK
<1>2. server \in [Stmts -> {"none", "deferred", "returned", "threw", "dropped", "told"}]
  BY DEF IInv, TypeOK
<1>3. \A i \in 1 .. n - 1 : inbox'[i] = inbox[i + 1] /\ inbox'[i] # s /\ inbox'[i] \in Stmts
  <2> SUFFICES ASSUME NEW i \in 1 .. n - 1
               PROVE  inbox'[i] = inbox[i + 1] /\ inbox[i + 1] # s /\ inbox[i + 1] \in Stmts
    OBVIOUS
  <2>1. i + 1 \in 1 .. n /\ 1 \in 1 .. n /\ i + 1 # 1
    OBVIOUS
  <2>2. inbox \in Seq(Stmts) /\ inbox[1] = s /\ inbox'[i] = inbox[i + 1]
    BY DEF IInv, TypeOK
  <2>3. inbox[i + 1] \in Stmts
    BY <2>1, <2>2
  <2>4. inbox[i + 1] # inbox[1]
    BY <1>1, <2>1
  <2> QED
    BY <2>2, <2>3, <2>4
<1>4. (\A i, j \in 1 .. Len(inbox) : inbox[i] = inbox[j] => i = j)'
  BY <1>1, <1>3
<1>5. (\A i \in 1 .. Len(inbox) : sent[inbox[i]] = 1 /\ server[inbox[i]] = "none")'
  <2> SUFFICES ASSUME NEW i \in 1 .. Len(inbox')
               PROVE  sent'[inbox'[i]] = 1 /\ server'[inbox'[i]] = "none"
    OBVIOUS
  <2>1. i \in 1 .. n - 1 /\ i + 1 \in 1 .. n
    OBVIOUS
  <2>2. inbox'[i] = inbox[i + 1] /\ inbox'[i] # s /\ inbox'[i] \in Stmts
    BY <1>3, <2>1
  <2>3. sent[inbox[i + 1]] = 1 /\ server[inbox[i + 1]] = "none"
    BY <2>1 DEF IInv, InboxOK
  <2> QED
    BY <1>2, <2>2, <2>3
<1>6. (\A w \in Stmts : sent[w] = 1 /\ server[w] = "none" => \E i \in 1 .. Len(inbox) : inbox[i] = w)'
  <2> SUFFICES ASSUME NEW w \in Stmts, sent[w] = 1, server'[w] = "none"
               PROVE  \E i \in 1 .. n - 1 : inbox'[i] = w
    OBVIOUS
  <2>1. w # s /\ server[w] = "none"
    BY <1>2
  <2>2. PICK i \in 1 .. n : inbox[i] = w
    BY <2>1 DEF IInv, InboxOK
  <2>3. i # 1
    BY <2>1, <2>2
  <2>4. i - 1 \in 1 .. n - 1 /\ inbox'[i - 1] = inbox[i]
    BY <2>3, <1>3
  <2> QED
    BY <2>2, <2>4
<1>7. (\A w \in Stmts : server[w] # "none" => sent[w] = 1)'
  BY <1>2 DEF IInv, InboxOK
<1>8. (\A g \in Stmts : \A w \in before[g] :
          /\ sent[w] = 1 /\ g # w
          /\ \A i, j \in 1 .. Len(inbox) : inbox[i] = w /\ inbox[j] = g => i < j)'
  <2> SUFFICES ASSUME NEW g \in Stmts, NEW w \in before[g]
               PROVE  /\ sent[w] = 1 /\ g # w
                      /\ \A i, j \in 1 .. n - 1 : inbox'[i] = w /\ inbox'[j] = g => i < j
    <3>1. before' = before /\ sent' = sent /\ Len(inbox') = n - 1
      OBVIOUS
    <3> HIDE DEF n
    <3> QED
      BY <3>1
  <2>1. \A i, j \in 1 .. n : inbox[i] = w /\ inbox[j] = g => i < j
    BY DEF IInv, InboxOK
  <2>2. \A i, j \in 1 .. n - 1 : inbox'[i] = w /\ inbox'[j] = g => i < j
    <3> TAKE i, j \in 1 .. n - 1
    <3>1. /\ i + 1 \in 1 .. n /\ j + 1 \in 1 .. n
          /\ inbox'[i] = inbox[i + 1] /\ inbox'[j] = inbox[j + 1]
      BY <1>3
    <3>2. inbox[i + 1] = w /\ inbox[j + 1] = g => i + 1 < j + 1
      BY <2>1, <3>1
    <3> QED
      BY <3>2
  <2> QED
    BY <2>2 DEF IInv, InboxOK
<1> QED
  BY <1>4, <1>5, <1>6, <1>7, <1>8 DEF InboxOK

-----------------------------------------------------------------------------
(* What a step of the server leaves behind.                                 *)

Servers == {"none", "deferred", "returned", "threw", "dropped", "told"}
Answers == Seq(Values \cup {"error"})
Answered(s) == server'[s] \in {"returned", "threw"} /\ ending[s] # "noReply" /\ verb[s] # "signal"

Handled(s) ==
    /\ UNCHANGED <<chain, sent, outcome, hist>>
    /\ server[s] \in {"none", "deferred"} /\ replies[s] = <<>>
    /\ server' \in [Stmts -> Servers] /\ server'[s] # "none"
    /\ server'[s] = "deferred" => verb[s] = "method"
    /\ replies' \in [Stmts -> Answers]
    /\ \A w \in Stmts \ {s} : server'[w] = server[w] /\ replies'[w] = replies[w]
    /\ Answered(s) => /\ replies'[s] # <<>> /\ Len(replies'[s]) = 1
                      /\ Head(replies'[s]) = IF server'[s] = "threw" THEN "error" ELSE Result(s)
    /\ ~Answered(s) => replies'[s] = <<>> /\ Len(replies'[s]) = 0
    /\ property' = IF verb[s] = "set" /\ server'[s] = "returned" THEN s ELSE property

\* What the service answers with is a value.
LEMMA ResultTyped == ASSUME IInv, NEW s \in Stmts PROVE Result(s) \in Values
BY DEF IInv, TypeOK, Result, Values

\* A step of the service handles a message that was not handled, and answers it once.
LEMMA ServerFacts == ASSUME IInv, NEW s \in Stmts, ServerStep(s) PROVE Handled(s)
<1> USE DEF Set, chain, hist, Servers, Answers, Answered
<1>1. server \in [Stmts -> Servers] /\ replies \in [Stmts -> Answers] /\ Len(<<>>) = 0
  BY DEF IInv, TypeOK
<1>2. "error" \in Values \cup {"error"} /\ Nothing \in Values \cup {"error"} /\ Result(s) \in Values \cup {"error"}
  BY ResultTyped DEF Values
<1>3. CASE HandlerReturns(s)
  <2>1. server[s] = "none" /\ replies[s] = <<>>
    BY <1>3, NextFacts, NoReplyYet DEF HandlerReturns
  <2>2. Replies(s, Result(s)) /\ verb[s] # "signal" /\ server' = [server EXCEPT ![s] = "returned"]
    BY <1>3 DEF HandlerReturns
  <2>3. /\ replies' \in [Stmts -> Answers] /\ \A w \in Stmts \ {s} : replies'[w] = replies[w]
        /\ ending[s] = "noReply" => replies'[s] = <<>> /\ Len(replies'[s]) = 0
        /\ ending[s] # "noReply" => replies'[s] # <<>> /\ Len(replies'[s]) = 1 /\ Head(replies'[s]) = Result(s)
    BY <1>2, <2>1, <2>2, RepliesFacts
  <2> QED
    BY <1>1, <1>3, <2>1, <2>2, <2>3 DEF HandlerReturns, Handled
<1>4. CASE HandlerThrows(s)
  <2>1. server[s] = "none" /\ replies[s] = <<>>
    BY <1>4, NextFacts, NoReplyYet DEF HandlerThrows
  <2>2. Replies(s, "error") /\ verb[s] # "signal" /\ server' = [server EXCEPT ![s] = "threw"]
    BY <1>4 DEF HandlerThrows
  <2>3. /\ replies' \in [Stmts -> Answers] /\ \A w \in Stmts \ {s} : replies'[w] = replies[w]
        /\ ending[s] = "noReply" => replies'[s] = <<>> /\ Len(replies'[s]) = 0
        /\ ending[s] # "noReply" => replies'[s] # <<>> /\ Len(replies'[s]) = 1 /\ Head(replies'[s]) = "error"
    BY <1>2, <2>1, <2>2, RepliesFacts
  <2> QED
    BY <1>1, <1>4, <2>1, <2>2, <2>3 DEF HandlerThrows, Handled
<1>5. CASE HandlerDefers(s)
  <2>1. server[s] = "none" /\ replies[s] = <<>>
    BY <1>5, NextFacts, NoReplyYet DEF HandlerDefers
  <2> QED
    BY <1>1, <1>5, <2>1 DEF HandlerDefers, Handled
<1>6. CASE ReturnResults(s)
  <2>1. server[s] = "deferred" /\ replies[s] = <<>>
    BY <1>6, NoReplyYet DEF ReturnResults
  <2>2. verb[s] = "method" /\ Result(s) = Nothing
    BY <2>1 DEF IInv, RepliesOK, Result
  <2>3. ASSUME NEW e \in {"returned", "threw"}, NEW r \in Values \cup {"error"},
               server' = [server EXCEPT ![s] = e], Replies(s, r),
               r = IF e = "threw" THEN "error" ELSE Nothing
        PROVE  Handled(s)
    <3>1. /\ replies' \in [Stmts -> Answers] /\ \A w \in Stmts \ {s} : replies'[w] = replies[w]
          /\ ending[s] = "noReply" => replies'[s] = <<>> /\ Len(replies'[s]) = 0
          /\ ending[s] # "noReply" => replies'[s] # <<>> /\ Len(replies'[s]) = 1 /\ Head(replies'[s]) = r
      BY <2>1, <2>3, RepliesFacts
    <3> QED
      BY <1>1, <1>6, <2>1, <2>2, <2>3, <3>1 DEF ReturnResults, Handled
  <2>4. CASE server' = [server EXCEPT ![s] = "dropped"] /\ UNCHANGED replies
    BY <1>1, <1>6, <2>1, <2>2, <2>4 DEF ReturnResults, Handled
  <2> QED
    BY <1>2, <1>6, <2>3, <2>4 DEF ReturnResults
<1>7. CASE SignalHandler(s)
  <2>1. server[s] = "none" /\ replies[s] = <<>>
    BY <1>7, NextFacts, NoReplyYet DEF SignalHandler
  <2> QED
    BY <1>1, <1>7, <2>1 DEF SignalHandler, Handled
<1> QED
  BY <1>3, <1>4, <1>5, <1>6, <1>7 DEF ServerStep

-----------------------------------------------------------------------------
(* The client.                                                              *)

\* A statement under way has thrown nothing yet, and may throw.
LEMMA FlyingFacts ==
    ASSUME IInv, NEW s \in Stmts, stage[s] \in {"chain", "send", "wait", "decode"}
    PROVE  flying[s] \in 0 .. 1 /\ flying[s] + 1 \in 0 .. 2 /\ flying[s] + 1 # saved[s]
<1>1. saved[s] \in 0 .. 1
  BY DEF IInv, TypeOK
<1>2. flying[s] = saved[s]
  BY DEF IInv, StagesOK, Steady
<1> QED
  BY <1>1, <1>2

\* A call that fails keeps the types.
LEMMA FailsTyped ==
    ASSUME IInv, NEW s \in Stmts, stage[s] \in {"wait", "decode"}, Fails(s)
    PROVE  /\ outcome' \in [Stmts -> Values \cup {"none", "error", "void"}]
           /\ flying' \in [Stmts -> 0 .. 2]
           /\ stage' \in [Stmts -> {"new", "chain", "send", "wait", "decode", "destroy", "done"}]
<1>1. flying[s] + 1 \in 0 .. 2
  BY FlyingFacts
<1> QED
  BY <1>1 DEF IInv, TypeOK, Fails, Set, Goto

\* A statement sends one message or none.
LEMMA SentOnce == ASSUME IInv, NEW s \in Stmts PROVE sent[s] \in {0, 1}
<1>1. stage[s] \in {"new", "chain", "send", "wait", "decode", "destroy", "done"}
  BY DEF IInv, TypeOK
<1> QED
  BY <1>1 DEF IInv, StagesOK

\* Statements keep their types.
LEMMA TypingStep == IInv /\ [Next]_vars => TypeOK'
<1> SUFFICES ASSUME IInv, [Next]_vars PROVE TypeOK'
  OBVIOUS
<1> USE StatementsAssumption DEF IInv, TypeOK, Values, Set, Goto, chain, wire, hist, StagesOK, Steady
<1>1. ASSUME NEW s \in Stmts, Begin(s) PROVE TypeOK'
  BY <1>1 DEF Begin
<1>2. ASSUME NEW s \in Stmts, ChainThrows(s) PROVE TypeOK'
  <2>1. flying' \in [Stmts -> 0 .. 2]
    BY <1>2, FlyingFacts DEF ChainThrows
  <2>2. stage' \in [Stmts -> {"new", "chain", "send", "wait", "decode", "destroy", "done"}]
    BY <1>2 DEF ChainThrows
  <2>3. outcome' \in [Stmts -> Values \cup {"none", "error", "void"}]
    BY <1>2 DEF ChainThrows
  <2> QED
    BY <1>2, <2>1, <2>2, <2>3 DEF ChainThrows
<1>3. ASSUME NEW s \in Stmts, ChainEnds(s) PROVE TypeOK'
  BY <1>3 DEF ChainEnds
<1>4. ASSUME NEW s \in Stmts, Destructor(s) PROVE TypeOK'
  BY <1>4 DEF Destructor
<1>5. ASSUME NEW s \in Stmts, Send(s) PROVE TypeOK'
  <2>1. sent' \in [Stmts -> 0 .. 2]
    BY <1>5 DEF Send
  <2>2. inbox' \in Seq(Stmts)
    BY <1>5 DEF Send
  <2>3. stage' \in [Stmts -> {"new", "chain", "send", "wait", "decode", "destroy", "done"}]
    <3>1. stage' = [stage EXCEPT ![s] = "done"] \/ stage' = [stage EXCEPT ![s] = "wait"]
      BY <1>5 DEF Send
    <3> QED
      BY <3>1
  <2>4. outcome' \in [Stmts -> Values \cup {"none", "error", "void"}]
    BY <1>5 DEF Send
  <2> QED
    BY <1>5, <2>1, <2>2, <2>3, <2>4 DEF Send
<1>6. ASSUME NEW s \in Stmts, SendFails(s) PROVE TypeOK'
  <2>1. flying' \in [Stmts -> 0 .. 2]
    BY <1>6, FlyingFacts DEF SendFails
  <2>2. stage' \in [Stmts -> {"new", "chain", "send", "wait", "decode", "destroy", "done"}]
    BY <1>6 DEF SendFails
  <2>3. outcome' \in [Stmts -> Values \cup {"none", "error", "void"}]
    BY <1>6 DEF SendFails
  <2> QED
    BY <1>6, <2>1, <2>2, <2>3 DEF SendFails
<1>7. ASSUME NEW s \in Stmts, ReplyArrives(s) PROVE TypeOK'
  <2>1. CASE Head(replies[s]) = "error"
    <3>1. Fails(s) /\ stage[s] = "wait" /\ UNCHANGED called
      BY <1>7, <2>1 DEF ReplyArrives
    <3> QED
      BY <1>7, <3>1, FailsTyped DEF ReplyArrives
  <2>2. CASE Head(replies[s]) # "error"
    <3>1. /\ called' = [called EXCEPT ![s] = (ending[s] = "results")]
          /\ stage' = [stage EXCEPT ![s] = "decode"] /\ UNCHANGED <<flying, outcome>>
      BY <1>7, <2>2 DEF ReplyArrives
    <3>2. called' \in [Stmts -> BOOLEAN]
      BY <3>1
    <3>3. stage' \in [Stmts -> {"new", "chain", "send", "wait", "decode", "destroy", "done"}]
      BY <3>1
    <3> QED
      BY <1>7, <3>1, <3>2, <3>3 DEF ReplyArrives
  <2> QED
    BY <2>1, <2>2
<1>8. ASSUME NEW s \in Stmts, Timeout(s) PROVE TypeOK'
  <2>1. Fails(s) /\ stage[s] = "wait"
    BY <1>8 DEF Timeout
  <2> QED
    BY <1>8, <2>1, FailsTyped DEF Timeout
<1>9. ASSUME NEW s \in Stmts, Decode(s) PROVE TypeOK'
  <2>1. CASE Fails(s)
    BY <1>9, <2>1, FailsTyped DEF Decode
  <2>2. CASE ~Fails(s)
    <3>1. outcome' \in [Stmts -> Values \cup {"none", "error", "void"}]
      <4>1. Head(replies[s]) \in Values
        BY <1>9 DEF Decode
      <4>2. \E v \in Values \cup {"void"} : outcome' = [outcome EXCEPT ![s] = v]
        BY <1>9, <2>2, <4>1 DEF Decode
      <4> QED
        BY <4>2
    <3>2. stage' \in [Stmts -> {"new", "chain", "send", "wait", "decode", "destroy", "done"}]
      BY <1>9, <2>2 DEF Decode
    <3> QED
      BY <1>9, <2>2, <3>1, <3>2 DEF Decode
  <2> QED
    BY <2>1, <2>2
<1>10. ASSUME NEW s \in Stmts, ServerStep(s) PROVE TypeOK'
  <2>1. Handled(s)
    BY <1>10, ServerFacts
  <2>2. inbox' \in Seq(Stmts)
    <3>1. CASE NextMessage(s)
      BY <3>1, NextFacts
    <3>2. CASE UNCHANGED inbox
      BY <3>2
    <3> QED
      BY <1>10, <3>1, <3>2 DEF ServerStep, HandlerReturns, HandlerThrows, HandlerDefers,
         ReturnResults, SignalHandler
  <2>3. property' \in Stmts \cup {Initial}
    BY <2>1 DEF Handled
  <2> QED
    BY <2>1, <2>2, <2>3 DEF Handled, Servers, Answers
<1>11. CASE UNCHANGED vars
  BY <1>11 DEF vars
<1> QED
  BY <1>1, <1>2, <1>3, <1>4, <1>5, <1>6, <1>7, <1>8, <1>9, <1>10, <1>11
     DEF Next, ClientStep

\* Statements go through their stages.
LEMMA StagesStep == IInv /\ [Next]_vars => StagesOK'
<1> SUFFICES ASSUME IInv, [Next]_vars PROVE StagesOK'
  OBVIOUS
<1> USE StatementsAssumption DEF IInv, TypeOK, Values, Set, Goto, chain, wire, hist, StagesOK, Steady,
           RepliesOK, OneReply
<1>1. ASSUME NEW s \in Stmts, Begin(s) PROVE StagesOK'
  BY <1>1 DEF Begin
<1>2. ASSUME NEW s \in Stmts, ChainThrows(s) PROVE StagesOK'
  BY <1>2 DEF ChainThrows
<1>3. ASSUME NEW s \in Stmts, ChainEnds(s) PROVE StagesOK'
  BY <1>3 DEF ChainEnds
<1>4. ASSUME NEW s \in Stmts, Destructor(s) PROVE StagesOK'
  <2>1. \A w \in Stmts \ {s} : stage'[w] = stage[w]
    BY <1>4 DEF Destructor
  <2>2. stage[s] = "destroy" /\ UNCHANGED <<flying, saved, called, sent, broken, replies, ending>>
    BY <1>4 DEF Destructor
  <2>3. CASE called[s] \/ flying[s] # saved[s]
    <3>1. stage'[s] = "done"
      BY <1>4, <2>3 DEF Destructor
    <3>2. sent[s] = IF s \in broken THEN 0 ELSE 1
      BY <2>2, <2>3
    <3> QED
      BY <2>1, <2>2, <3>1, <3>2
  <2>4. CASE ~called[s] /\ flying[s] = saved[s]
    <3>1. stage'[s] = "send"
      BY <1>4, <2>4 DEF Destructor
    <3>2. flying[s] # saved[s] + 1
      <4>1. saved[s] \in 0 .. 1
        OBVIOUS
      <4> QED
        BY <2>4, <4>1
    <3>3. sent[s] = 0 /\ Steady(s)
      BY <2>2, <2>4, <3>2
    <3> QED
      BY <2>1, <2>2, <3>1, <3>3
  <2> QED
    BY <2>3, <2>4
<1>5. ASSUME NEW s \in Stmts, Send(s) PROVE StagesOK'
  BY <1>5 DEF Send
<1>6. ASSUME NEW s \in Stmts, SendFails(s) PROVE StagesOK'
  BY <1>6 DEF SendFails
<1>7. ASSUME NEW s \in Stmts, ReplyArrives(s) PROVE StagesOK'
  <2>1. Len(replies[s]) = 1 /\ server[s] \in {"returned", "threw"}
    BY <1>7 DEF ReplyArrives
  <2> QED
    BY <1>7, <2>1 DEF ReplyArrives, Fails
<1>8. ASSUME NEW s \in Stmts, Timeout(s) PROVE StagesOK'
  BY <1>8 DEF Timeout, Fails
<1>9. ASSUME NEW s \in Stmts, Decode(s) PROVE StagesOK'
  BY <1>9 DEF Decode, Fails
<1>10. ASSUME NEW s \in Stmts, ServerStep(s) PROVE StagesOK'
  BY <1>10, ServerFacts DEF Handled, Servers, Answers, Answered
<1>11. CASE UNCHANGED vars
  BY <1>11 DEF vars
<1> QED
  BY <1>1, <1>2, <1>3, <1>4, <1>5, <1>6, <1>7, <1>8, <1>9, <1>10, <1>11
     DEF Next, ClientStep

\* Messages are queued and handled in order.
LEMMA InboxStep == IInv /\ [Next]_vars => InboxOK'
<1> SUFFICES ASSUME IInv, [Next]_vars PROVE InboxOK'
  OBVIOUS
<1> USE StatementsAssumption DEF IInv, TypeOK, Values, Set, Goto, chain, wire, hist, StagesOK, Steady, InboxOK
<1>1. ASSUME NEW s \in Stmts, Begin(s) PROVE InboxOK'
  <2>1. UNCHANGED <<inbox, sent, server>>
    BY <1>1 DEF Begin
  <2>2. \A g \in Stmts : before'[g] = IF g = s THEN {w \in Stmts : sent[w] > 0} ELSE before[g]
    BY <1>1 DEF Begin
  <2>3. \A w \in before'[s] : sent[w] = 1 /\ w # s /\ w \in Stmts
    <3>1. sent[s] = 0
      BY <1>1 DEF Begin
    <3>2. \A w \in Stmts : sent[w] > 0 => sent[w] = 1
      BY SentOnce
    <3>3. before'[s] = {w \in Stmts : sent[w] > 0}
      BY <2>2
    <3> QED
      BY <3>1, <3>2, <3>3
  <2>4. \A i \in 1 .. Len(inbox) : inbox[i] # s
    BY <1>1 DEF Begin
  <2>5. (\A g \in Stmts : \A w \in before[g] :
            /\ sent[w] = 1 /\ g # w
            /\ \A i, j \in 1 .. Len(inbox) : inbox[i] = w /\ inbox[j] = g => i < j)'
    <3> SUFFICES ASSUME NEW g \in Stmts, NEW w \in before'[g]
                 PROVE  /\ sent[w] = 1 /\ g # w
                        /\ \A i, j \in 1 .. Len(inbox) : inbox[i] = w /\ inbox[j] = g => i < j
      BY <2>1
    <3>1. CASE g = s
      BY <2>3, <2>4, <3>1
    <3>2. CASE g # s
      <4>1. w \in before[g]
        BY <2>2, <3>2
      <4>2. \A i, j \in 1 .. Len(inbox) : inbox[i] = w /\ inbox[j] = g => i < j
        BY <4>1
      <4> QED
        BY <4>1, <4>2
    <3> QED
      BY <3>1, <3>2
  <2> QED
    BY <2>1, <2>5
<1>2. ASSUME NEW s \in Stmts, ChainThrows(s) PROVE InboxOK'
  <2>1. UNCHANGED <<inbox, sent, server, before>>
    BY <1>2 DEF ChainThrows
  <2> QED
    BY <2>1
<1>3. ASSUME NEW s \in Stmts, ChainEnds(s) PROVE InboxOK'
  <2>1. UNCHANGED <<inbox, sent, server, before>>
    BY <1>3 DEF ChainEnds
  <2> QED
    BY <2>1
<1>4. ASSUME NEW s \in Stmts, Destructor(s) PROVE InboxOK'
  <2>1. UNCHANGED <<inbox, sent, server, before>>
    BY <1>4 DEF Destructor
  <2> QED
    BY <2>1
<1>5. ASSUME NEW s \in Stmts, Send(s) PROVE InboxOK'
  <2> DEFINE n == Len(inbox)
  <2>1. /\ sent[s] = 0 /\ server[s] = "none" /\ UNCHANGED <<server, before>>
        /\ sent' = [sent EXCEPT ![s] = 1]
    <3>1. sent[s] = 0 /\ sent[s] + 1 = 1
      BY <1>5 DEF Send
    <3> QED
      BY <1>5, <3>1 DEF Send
  <2>2. /\ inbox' \in Seq(Stmts) /\ n \in Nat /\ Len(inbox') = n + 1 /\ inbox'[n + 1] = s
        /\ \A i \in 1 .. n : inbox'[i] = inbox[i] /\ inbox[i] \in Stmts
    BY <1>5, AppendFacts DEF Send
  <2>3. \A i \in 1 .. n : inbox[i] # s
    BY <2>1
  <2> HIDE DEF n
  <2>0. \A i \in 1 .. n + 1 : i \in 1 .. n \/ i = n + 1
    BY <2>2
  <2>4. (\A i, j \in 1 .. Len(inbox) : inbox[i] = inbox[j] => i = j)'
    <3> SUFFICES ASSUME NEW i \in 1 .. n + 1, NEW j \in 1 .. n + 1, inbox'[i] = inbox'[j] PROVE i = j
      BY <2>2
    <3>1. CASE i \in 1 .. n /\ j \in 1 .. n
      BY <2>2, <3>1 DEF n
    <3>2. CASE i = n + 1 \/ j = n + 1
      BY <2>0, <2>2, <2>3, <3>2
    <3> QED
      BY <2>0, <3>1, <3>2
  <2>5. (\A i \in 1 .. Len(inbox) : sent[inbox[i]] = 1 /\ server[inbox[i]] = "none")'
    <3> SUFFICES ASSUME NEW i \in 1 .. n + 1 PROVE sent'[inbox'[i]] = 1 /\ server[inbox'[i]] = "none"
      BY <2>1, <2>2
    <3>1. CASE i \in 1 .. n
      BY <2>1, <2>2, <2>3, <3>1 DEF n
    <3>2. CASE i = n + 1
      BY <2>1, <2>2, <3>2
    <3> QED
      BY <2>2, <3>1, <3>2
  <2>6. (\A w \in Stmts : sent[w] = 1 /\ server[w] = "none" => \E i \in 1 .. Len(inbox) : inbox[i] = w)'
    <3> SUFFICES ASSUME NEW w \in Stmts, sent'[w] = 1, server[w] = "none"
                 PROVE  \E i \in 1 .. n + 1 : inbox'[i] = w
      BY <2>1, <2>2
    <3>1. CASE w = s
      BY <2>2, <3>1
    <3>2. CASE w # s
      <4>1. PICK i \in 1 .. n : inbox[i] = w
        BY <2>1, <3>2 DEF n
      <4> QED
        BY <2>2, <4>1
    <3> QED
      BY <3>1, <3>2
  <2>7. (\A w \in Stmts : server[w] # "none" => sent[w] = 1)'
    BY <2>1
  <2>8. (\A g \in Stmts : \A w \in before[g] :
            /\ sent[w] = 1 /\ g # w
            /\ \A i, j \in 1 .. Len(inbox) : inbox[i] = w /\ inbox[j] = g => i < j)'
    <3> SUFFICES ASSUME NEW g \in Stmts, NEW w \in before[g]
                 PROVE  /\ sent'[w] = 1 /\ g # w
                        /\ \A i, j \in 1 .. n + 1 : inbox'[i] = w /\ inbox'[j] = g => i < j
      BY <2>1, <2>2
    <3>1. sent[w] = 1 /\ g # w /\ w # s /\ w \in Stmts
      BY <2>1
    <3>2. ASSUME NEW i \in 1 .. n + 1, NEW j \in 1 .. n + 1, inbox'[i] = w, inbox'[j] = g PROVE i < j
      <4>1. i \in 1 .. n /\ inbox[i] = w
        BY <2>2, <3>1, <3>2
      <4>2. CASE j = n + 1
        BY <2>2, <4>1, <4>2
      <4>3. CASE j \in 1 .. n
        <5>1. inbox[j] = g
          BY <2>2, <3>2, <4>3
        <5>2. \A l, m \in 1 .. n : inbox[l] = w /\ inbox[m] = g => l < m
          BY DEF n
        <5> QED
          BY <4>1, <4>3, <5>1, <5>2
      <4> QED
        BY <2>2, <4>2, <4>3
    <3> QED
      BY <2>1, <3>1, <3>2
  <2> QED
    BY <2>4, <2>5, <2>6, <2>7, <2>8
<1>6. ASSUME NEW s \in Stmts, SendFails(s) PROVE InboxOK'
  <2>1. UNCHANGED <<inbox, sent, server, before>>
    BY <1>6 DEF SendFails
  <2> QED
    BY <2>1
<1>7. ASSUME NEW s \in Stmts, ReplyArrives(s) PROVE InboxOK'
  <2>1. UNCHANGED <<inbox, sent, server, before>>
    BY <1>7 DEF ReplyArrives
  <2> QED
    BY <2>1
<1>8. ASSUME NEW s \in Stmts, Timeout(s) PROVE InboxOK'
  <2>1. UNCHANGED <<inbox, sent, server, before>>
    BY <1>8 DEF Timeout
  <2> QED
    BY <2>1
<1>9. ASSUME NEW s \in Stmts, Decode(s) PROVE InboxOK'
  <2>1. UNCHANGED <<inbox, sent, server, before>>
    BY <1>9 DEF Decode
  <2> QED
    BY <2>1
<1>10. ASSUME NEW s \in Stmts, ServerStep(s) PROVE InboxOK'
  <2>1. CASE NextMessage(s)
    <3>1. PICK e \in {"deferred", "returned", "threw", "told"} : server' = [server EXCEPT ![s] = e]
      BY <1>10, <2>1, NextFacts DEF ServerStep, HandlerReturns, HandlerThrows, HandlerDefers,
         ReturnResults, SignalHandler
    <3>2. UNCHANGED <<sent, before>>
      BY <1>10, ServerFacts DEF Handled
    <3> QED
      BY <2>1, <3>1, <3>2, HandledInOrder
  <2>2. CASE ReturnResults(s)
    <3>1. UNCHANGED <<inbox, sent, before>> /\ server[s] = "deferred" /\ Handled(s)
      BY <1>10, <2>2, ServerFacts DEF ReturnResults
    <3>2. \A w \in Stmts : server'[w] = "none" <=> server[w] = "none"
      BY <3>1 DEF Handled
    <3> QED
      BY <3>1, <3>2, InboxKept
  <2> QED
    BY <1>10, <2>1, <2>2 DEF ServerStep, HandlerReturns, HandlerThrows, HandlerDefers, SignalHandler
<1>11. CASE UNCHANGED vars
  <2>1. UNCHANGED <<inbox, sent, server, before>>
    BY <1>11 DEF vars
  <2> QED
    BY <2>1
<1> QED
  BY <1>1, <1>2, <1>3, <1>4, <1>5, <1>6, <1>7, <1>8, <1>9, <1>10, <1>11
     DEF Next, ClientStep

\* A reply is sent once, by the handler whose outcome it tells.
LEMMA RepliesStep == IInv /\ [Next]_vars => (OneReply /\ RepliesOK)'
<1> SUFFICES ASSUME IInv, [Next]_vars PROVE (OneReply /\ RepliesOK)'
  OBVIOUS
<1> USE StatementsAssumption DEF IInv, TypeOK, Values, Set, Goto, chain, wire, hist, OneReply, RepliesOK,
           InboxOK
<1>1. ASSUME NEW s \in Stmts, Begin(s) PROVE (OneReply /\ RepliesOK)'
  BY <1>1 DEF Begin
<1>2. ASSUME NEW s \in Stmts, ChainThrows(s) PROVE (OneReply /\ RepliesOK)'
  BY <1>2 DEF ChainThrows
<1>3. ASSUME NEW s \in Stmts, ChainEnds(s) PROVE (OneReply /\ RepliesOK)'
  BY <1>3 DEF ChainEnds
<1>4. ASSUME NEW s \in Stmts, Destructor(s) PROVE (OneReply /\ RepliesOK)'
  BY <1>4 DEF Destructor
<1>5. ASSUME NEW s \in Stmts, Send(s) PROVE (OneReply /\ RepliesOK)'
  BY <1>5 DEF Send
<1>6. ASSUME NEW s \in Stmts, SendFails(s) PROVE (OneReply /\ RepliesOK)'
  BY <1>6 DEF SendFails
<1>7. ASSUME NEW s \in Stmts, ReplyArrives(s) PROVE (OneReply /\ RepliesOK)'
  BY <1>7 DEF ReplyArrives, Fails
<1>8. ASSUME NEW s \in Stmts, Timeout(s) PROVE (OneReply /\ RepliesOK)'
  BY <1>8 DEF Timeout, Fails
<1>9. ASSUME NEW s \in Stmts, Decode(s) PROVE (OneReply /\ RepliesOK)'
  BY <1>9 DEF Decode, Fails
<1>10. ASSUME NEW s \in Stmts, ServerStep(s) PROVE (OneReply /\ RepliesOK)'
  <2>1. Handled(s)
    BY <1>10, ServerFacts
  <2>2. UNCHANGED <<verb, ending>>
    BY <2>1 DEF Handled
  <2>3. ASSUME NEW w \in Stmts \ {s}
        PROVE  server'[w] = server[w] /\ replies'[w] = replies[w]
    BY <2>1 DEF Handled
  <2>4. Len(replies'[s]) = IF Answered(s) THEN 1 ELSE 0
    BY <2>1 DEF Handled
  <2>5. OneReply'
    <3> SUFFICES ASSUME NEW w \in Stmts
                 PROVE  Len(replies'[w]) =
                            IF server'[w] \in {"returned", "threw"} /\ ending[w] # "noReply"
                               /\ verb[w] # "signal" THEN 1 ELSE 0
      BY <2>2
    <3>1. CASE w = s
      BY <2>4, <3>1 DEF Answered
    <3>2. CASE w # s
      <4>1. server'[w] = server[w] /\ replies'[w] = replies[w]
        BY <2>3, <3>2
      <4>2. Len(replies[w]) = IF server[w] \in {"returned", "threw"} /\ ending[w] # "noReply"
                                 /\ verb[w] # "signal" THEN 1 ELSE 0
        OBVIOUS
      <4> HIDE DEF IInv, TypeOK, OneReply, RepliesOK, InboxOK
      <4> QED
        BY <4>1, <4>2
    <3> QED
      BY <3>1, <3>2
  <2>6. Result(s) \in Values
    BY ResultTyped
  <2>7. RepliesOK'
    <3>1. server'[s] = "deferred" => verb[s] = "method"
      BY <2>1 DEF Handled
    <3>2. replies'[s] # <<>> => Answered(s)
      BY <2>1 DEF Handled
    <3>3. Answered(s) => Head(replies'[s]) = IF server'[s] = "threw" THEN "error" ELSE Result(s)
      BY <2>1 DEF Handled
    <3> HIDE DEF Values
    <3> QED
      BY <2>2, <2>3, <2>6, <3>1, <3>2, <3>3
  <2> QED
    BY <2>5, <2>7
<1>11. CASE UNCHANGED vars
  BY <1>11 DEF vars
<1> QED
  BY <1>1, <1>2, <1>3, <1>4, <1>5, <1>6, <1>7, <1>8, <1>9, <1>10, <1>11
     DEF Next, ClientStep

\* What the caller gets is what the reply holds.
LEMMA OutcomesStep == IInv /\ [Next]_vars => OutcomesOK'
<1> SUFFICES ASSUME IInv, [Next]_vars PROVE OutcomesOK'
  OBVIOUS
<1> USE StatementsAssumption DEF IInv, TypeOK, Values, Set, Goto, chain, wire, hist, OutcomesOK, StagesOK,
           Steady, OneReply, RepliesOK
<1>1. ASSUME NEW s \in Stmts, Begin(s) PROVE OutcomesOK'
  BY <1>1 DEF Begin
<1>2. ASSUME NEW s \in Stmts, ChainThrows(s) PROVE OutcomesOK'
  BY <1>2 DEF ChainThrows
<1>3. ASSUME NEW s \in Stmts, ChainEnds(s) PROVE OutcomesOK'
  BY <1>3 DEF ChainEnds
<1>4. ASSUME NEW s \in Stmts, Destructor(s) PROVE OutcomesOK'
  BY <1>4 DEF Destructor
<1>5. ASSUME NEW s \in Stmts, Send(s) PROVE OutcomesOK'
  BY <1>5 DEF Send
<1>6. ASSUME NEW s \in Stmts, SendFails(s) PROVE OutcomesOK'
  BY <1>6 DEF SendFails
<1>7. ASSUME NEW s \in Stmts, ReplyArrives(s) PROVE OutcomesOK'
  BY <1>7 DEF ReplyArrives, Fails
<1>8. ASSUME NEW s \in Stmts, Timeout(s) PROVE OutcomesOK'
  BY <1>8 DEF Timeout, Fails
<1>9. ASSUME NEW s \in Stmts, Decode(s) PROVE OutcomesOK'
  BY <1>9 DEF Decode, Fails
<1>10. ASSUME NEW s \in Stmts, ServerStep(s) PROVE OutcomesOK'
  <2>1. Handled(s) /\ outcome' = outcome
    BY <1>10, ServerFacts DEF Handled
  <2>2. outcome[s] \notin Values /\ ~(outcome[s] = "void" /\ ending[s] = "destructor" /\ verb[s] # "signal")
    BY <2>1 DEF Handled
  <2>3. outcome[s] # "error" \/ s \in broken \cup timedOut \cup garbled
    BY <2>1 DEF Handled
  <2> QED
    BY <2>1, <2>2, <2>3 DEF Handled
<1>11. CASE UNCHANGED vars
  BY <1>11 DEF vars
<1> QED
  BY <1>1, <1>2, <1>3, <1>4, <1>5, <1>6, <1>7, <1>8, <1>9, <1>10, <1>11
     DEF Next, ClientStep

\* The outcome is told last.
LEMMA UndecidedStep == IInv /\ [Next]_vars => UndecidedOK'
<1> SUFFICES ASSUME IInv, [Next]_vars PROVE UndecidedOK'
  OBVIOUS
<1> USE DEF IInv, TypeOK, Set, Goto, chain, wire, hist, UndecidedOK, StagesOK, Steady
<1>1. ASSUME NEW s \in Stmts, Begin(s) PROVE UndecidedOK'
  BY <1>1 DEF Begin
<1>2. ASSUME NEW s \in Stmts, ChainThrows(s) PROVE UndecidedOK'
  <2>1. flying[s] + 1 # saved[s]
    BY <1>2, FlyingFacts DEF ChainThrows
  <2> QED
    BY <1>2, <2>1 DEF ChainThrows
<1>3. ASSUME NEW s \in Stmts, ChainEnds(s) PROVE UndecidedOK'
  BY <1>3 DEF ChainEnds
<1>4. ASSUME NEW s \in Stmts, Destructor(s) PROVE UndecidedOK'
  BY <1>4 DEF Destructor
<1>5. ASSUME NEW s \in Stmts, Send(s) PROVE UndecidedOK'
  BY <1>5 DEF Send
<1>6. ASSUME NEW s \in Stmts, SendFails(s) PROVE UndecidedOK'
  <2>1. flying[s] + 1 # saved[s]
    BY <1>6, FlyingFacts DEF SendFails
  <2> QED
    BY <1>6, <2>1 DEF SendFails
<1>7. ASSUME NEW s \in Stmts, ReplyArrives(s) PROVE UndecidedOK'
  <2>1. flying[s] + 1 # saved[s]
    BY <1>7, FlyingFacts DEF ReplyArrives
  <2> QED
    BY <1>7, <2>1 DEF ReplyArrives, Fails
<1>8. ASSUME NEW s \in Stmts, Timeout(s) PROVE UndecidedOK'
  <2>1. flying[s] + 1 # saved[s]
    BY <1>8, FlyingFacts DEF Timeout
  <2> QED
    BY <1>8, <2>1 DEF Timeout, Fails
<1>9. ASSUME NEW s \in Stmts, Decode(s) PROVE UndecidedOK'
  <2>1. flying[s] + 1 # saved[s]
    BY <1>9, FlyingFacts DEF Decode
  <2>2. CASE Fails(s)
    BY <1>9, <2>1, <2>2 DEF Decode, Fails
  <2>3. CASE ~Fails(s)
    <3>1. stage'[s] = "done" \/ (stage'[s] = "destroy" /\ called'[s])
      BY <1>9, <2>3 DEF Decode
    <3>2. \A w \in Stmts \ {s} : stage'[w] = stage[w] /\ outcome'[w] = outcome[w]
      BY <1>9, <2>3 DEF Decode
    <3> QED
      BY <1>9, <2>3, <3>1, <3>2 DEF Decode
  <2> QED
    BY <1>9, <2>2, <2>3 DEF Decode
<1>10. ASSUME NEW s \in Stmts, ServerStep(s) PROVE UndecidedOK'
  BY <1>10, ServerFacts DEF Handled
<1>11. CASE UNCHANGED vars
  BY <1>11 DEF vars
<1> QED
  BY <1>1, <1>2, <1>3, <1>4, <1>5, <1>6, <1>7, <1>8, <1>9, <1>10, <1>11
     DEF Next, ClientStep

\* A Get is handled after the Set calls it follows.
LEMMA PropertyStep == IInv /\ [Next]_vars => PropertyOK'
<1> SUFFICES ASSUME IInv, [Next]_vars PROVE PropertyOK'
  OBVIOUS
<1>0. \A s \in Stmts : NextMessage(s) => 1 \in 1 .. Len(inbox) /\ inbox[1] = s
  BY NextFacts
<1> USE StatementsAssumption DEF IInv, TypeOK, Values, Set, Goto, chain, wire, hist, PropertyOK, StagesOK,
           InboxOK, RepliesOK
<1>1. ASSUME NEW s \in Stmts, Begin(s) PROVE PropertyOK'
  <2>1. server[s] = "none"
    BY <1>1 DEF Begin, InboxOK
  <2>2. replies[s] = <<>>
    BY <2>1, NoReplyYet
  <2>3. \A g \in Stmts \ {s} : before'[g] = before[g]
    BY <1>1 DEF Begin
  <2> QED
    BY <1>1, <2>1, <2>2, <2>3 DEF Begin
<1>2. ASSUME NEW s \in Stmts, ChainThrows(s) PROVE PropertyOK'
  BY <1>2 DEF ChainThrows
<1>3. ASSUME NEW s \in Stmts, ChainEnds(s) PROVE PropertyOK'
  BY <1>3 DEF ChainEnds
<1>4. ASSUME NEW s \in Stmts, Destructor(s) PROVE PropertyOK'
  BY <1>4 DEF Destructor
<1>5. ASSUME NEW s \in Stmts, Send(s) PROVE PropertyOK'
  BY <1>5 DEF Send
<1>6. ASSUME NEW s \in Stmts, SendFails(s) PROVE PropertyOK'
  BY <1>6 DEF SendFails
<1>7. ASSUME NEW s \in Stmts, ReplyArrives(s) PROVE PropertyOK'
  BY <1>7 DEF ReplyArrives, Fails
<1>8. ASSUME NEW s \in Stmts, Timeout(s) PROVE PropertyOK'
  BY <1>8 DEF Timeout, Fails
<1>9. ASSUME NEW s \in Stmts, Decode(s) PROVE PropertyOK'
  BY <1>9 DEF Decode, Fails
<1>10. ASSUME NEW s \in Stmts, ServerStep(s) PROVE PropertyOK'
  <2>1. Handled(s)
    BY <1>10, ServerFacts
  <2>2. (\A w \in Stmts : verb[w] = "set" /\ server[w] = "returned" =>
            property \notin {Initial} \cup before[w])'
    <3> SUFFICES ASSUME NEW w \in Stmts, verb[w] = "set", server'[w] = "returned"
                 PROVE  property' \notin {Initial} \cup before[w]
      BY <2>1 DEF Handled
    <3>1. CASE property' = property
      <4>1. CASE w = s
        BY <2>1, <3>1, <4>1 DEF Handled
      <4>2. CASE w # s
        BY <2>1, <3>1, <4>2 DEF Handled
      <4> QED
        BY <4>1, <4>2
    <3>2. CASE property' = s /\ verb[s] = "set"
      <4>1. server[s] = "none"
        BY <2>1, <3>2 DEF Handled
      <4>2. w # s => server[w] # "none"
        BY <2>1 DEF Handled
      <4>3. s \notin before[w]
        BY <4>1, <4>2
      <4> QED
        BY <3>2, <4>3
    <3> QED
      BY <2>1, <3>1, <3>2 DEF Handled
  <2>3. \A w \in before[s] : server[w] # "none"
    <3>1. CASE NextMessage(s)
      <4> SUFFICES ASSUME NEW w \in before[s], server[w] = "none" PROVE FALSE
        OBVIOUS
      <4>1. PICK i \in 1 .. Len(inbox) : inbox[i] = w
        BY DEF InboxOK
      <4>2. 1 \in 1 .. Len(inbox) /\ inbox[1] = s
        BY <1>0, <3>1
      <4>3. i < 1
        BY <4>1, <4>2 DEF InboxOK
      <4> QED
        BY <4>3
    <3>2. CASE server[s] # "none"
      BY <3>2
    <3> QED
      BY <1>10, <3>1, <3>2 DEF ServerStep, HandlerReturns, HandlerThrows, HandlerDefers,
         ReturnResults, SignalHandler
  <2>4. (\A g \in Stmts : \A w \in before[g] : server[g] # "none" => server[w] # "none")'
    <3> SUFFICES ASSUME NEW g \in Stmts, NEW w \in before[g], server'[g] # "none"
                 PROVE  server'[w] # "none"
      BY <2>1 DEF Handled
    <3>1. w \in Stmts
      OBVIOUS
    <3>2. CASE server[w] # "none"
      BY <2>1, <3>1, <3>2 DEF Handled
    <3>3. CASE server[w] = "none"
      BY <2>1, <2>3, <3>1, <3>3 DEF Handled
    <3> QED
      BY <3>2, <3>3
  <2>5. (\A g \in Stmts : \A w \in before[g] :
            /\ verb[g] \in {"get", "getAll"} /\ replies[g] # <<>>
            /\ verb[w] = "set" /\ server[w] = "returned"
            => Head(replies[g]) \notin {Initial} \cup before[w])'
    <3> SUFFICES ASSUME NEW g \in Stmts, NEW w \in before[g],
                        verb[g] \in {"get", "getAll"}, replies'[g] # <<>>,
                        verb[w] = "set", server'[w] = "returned"
                 PROVE  Head(replies'[g]) \notin {Initial} \cup before[w]
      BY <2>1 DEF Handled
    <3>1. CASE g = s
      <4>1. server'[w] = server[w]
        BY <2>1, <3>1 DEF Handled, InboxOK
      <4>2. property \notin {Initial} \cup before[w] /\ "error" \notin {Initial} \cup before[w]
        BY <4>1
      <4>3. Answered(s) /\ Head(replies'[s]) \in {"error", property}
        BY <2>1, <3>1 DEF Handled, Result
      <4> QED
        BY <3>1, <4>2, <4>3
    <3>2. CASE g # s
      <4>1. replies'[g] = replies[g]
        BY <2>1, <3>2 DEF Handled
      <4>2. CASE w = s
        <5>1. server[s] = "none"
          BY <2>1, <4>2 DEF Handled, RepliesOK
        <5>2. server[g] = "none"
          BY <5>1, <4>2
        <5>3. replies[g] = <<>>
          BY <5>2, NoReplyYet
        <5> QED
          BY <4>1, <5>3
      <4>3. CASE w # s
        BY <2>1, <4>1, <4>3 DEF Handled
      <4> QED
        BY <4>2, <4>3
    <3> QED
      BY <3>1, <3>2
  <2> QED
    BY <2>2, <2>4, <2>5
<1>11. CASE UNCHANGED vars
  BY <1>11 DEF vars
<1> QED
  BY <1>1, <1>2, <1>3, <1>4, <1>5, <1>6, <1>7, <1>8, <1>9, <1>10, <1>11
     DEF Next, ClientStep

-----------------------------------------------------------------------------
\* The invariant of the statements: how far each one is, its message, its replies
\* and what its caller sees, at every step.
THEOREM StatementsInvariant == Spec => []IInv
<1>1. Init => IInv
  <2> SUFFICES ASSUME Init PROVE IInv
    OBVIOUS
  <2> USE StatementsAssumption DEF Init, Values
  <2>1. PICK c \in [Stmts -> Chains] :
            verb = [s \in Stmts |-> c[s].verb] /\ ending = [s \in Stmts |-> c[s].ending]
    OBVIOUS
  <2>2. /\ verb \in [Stmts -> {"method", "get", "getAll", "set", "signal"}]
        /\ ending \in [Stmts -> {"results", "destructor", "noReply", "async"}]
    BY <2>1 DEF Chains, MethodChains, GetChains, GetAllChains, SetChains, SignalChains
  <2>3. <<>> \in Seq(Stmts) /\ <<>> \in Seq(Values \cup {"error"}) /\ Len(<<>>) = 0
    OBVIOUS
  <2>4. TypeOK
    BY <2>2, <2>3 DEF TypeOK
  <2> QED
    BY <2>3, <2>4 DEF IInv, StagesOK, InboxOK, OneReply, RepliesOK, OutcomesOK, UndecidedOK,
       PropertyOK
<1>2. IInv /\ [Next]_vars => IInv'
  BY TypingStep, StagesStep, InboxStep, RepliesStep, OutcomesStep, UndecidedStep, PropertyStep
     DEF IInv
<1> QED
  BY <1>1, <1>2, PTL DEF Spec

\* A statement sends its message once, unless a step of it has thrown before.
THEOREM StatementsSendOnce == Spec => []OneMessage
<1>1. IInv => OneMessage
  BY DEF IInv, StagesOK, OneMessage
<1> QED
  BY <1>1, StatementsInvariant, PTL

\* A call is answered once, by the handler that has it or by its Result.
THEOREM CallsAnsweredOnce == Spec => []OneReply
<1>1. IInv => OneReply
  BY DEF IInv
<1> QED
  BY <1>1, StatementsInvariant, PTL

\* Results and errors that a caller gets are those of the handler.
THEOREM CallersNotMisled == Spec => []Truthful
<1>1. IInv => Truthful
  BY DEF IInv, OutcomesOK, Truthful
<1> QED
  BY <1>1, StatementsInvariant, PTL

\* A Get returns no value older than the Set calls sent before it began: not the
\* initial one, nor that of a Set sent before one of these began.
THEOREM ReadsFollowWrites == Spec => []ReadsLatest
<1>1. IInv => ReadsLatest
  BY DEF IInv, PropertyOK, OutcomesOK, ReadsLatest
<1> QED
  BY <1>1, StatementsInvariant, PTL

-----------------------------------------------------------------------------
(* Statements implement RemoteCalls.                                        *)

Life   == [s \in Stmts |-> LifeOf(s)]
Results == [s \in Stmts |-> ResultOf(s)]
Kind   == [s \in Stmts |-> KindOf(s)]
OneWays == [s \in Stmts |-> OneWay(s)]

\* What is read off a statement depends on that statement only.
LEMMA ReadOff ==
    ASSUME NEW s \in Stmts,
           \A w \in Stmts \ {s} :
                sent'[w] = sent[w] /\ server'[w] = server[w] /\ replies'[w] = replies[w]
    PROVE  /\ Life' = [Life EXCEPT ![s] = LifeOf(s)']
           /\ Results' = [Results EXCEPT ![s] = ResultOf(s)']
<1>1. \A w \in Stmts \ {s} : LifeOf(w)' = LifeOf(w)
  BY DEF LifeOf
<1>2. \A w \in Stmts \ {s} : ResultOf(w)' = ResultOf(w)
  BY DEF ResultOf
<1> QED
  BY <1>1, <1>2 DEF Life, Results

\* As long as nothing is sent or handled, the operations stay what they are.
LEMMA ReadOffSame ==
    ASSUME UNCHANGED <<sent, server, replies>>
    PROVE  Life' = Life /\ Results' = Results
BY DEF Life, Results, LifeOf, ResultOf

\* A reply that is decoded is the result of a handler that has returned.
LEMMA DecodedResult ==
    ASSUME IInv, NEW s \in Stmts, stage[s] = "decode"
    PROVE  Life[s] = "performed" /\ Results[s] = Head(replies[s])
<1>1. sent[s] = 1 /\ replies[s] # <<>> /\ Head(replies[s]) \in Values
  BY DEF IInv, StagesOK
<1>2. replies[s] \in Answers
  BY DEF IInv, TypeOK, Answers
<1>3. Len(replies[s]) # 0
  BY <1>1, <1>2 DEF Answers
<1>4. server[s] \in {"returned", "threw"}
  BY <1>3 DEF IInv, OneReply
<1>5. server[s] # "threw"
  BY <1>1, StatementsAssumption DEF IInv, RepliesOK, Values
<1> QED
  BY <1>1, <1>4, <1>5 DEF Life, LifeOf, Results, ResultOf

\* A step of a client issues an operation, reports its result or its failure, or
\* is not seen.
LEMMA ClientImplements ==
    ASSUME IInv, NEW s \in Stmts, ClientStep(s)
    PROVE  \/ Abstract!Next
           \/ UNCHANGED <<Kind, OneWays, Life, property, Results, outcome>>
<1> USE DEF Set, Goto, chain, wire, hist, Abstract!Move, Abstract!Tell
<1>1. Kind' = Kind /\ OneWays' = OneWays
  <2>1. UNCHANGED <<verb, ending>>
    BY DEF ClientStep, Begin, ChainThrows, ChainEnds, Destructor, Send, SendFails, ReplyArrives,
       Timeout, Decode
  <2> QED
    BY <2>1 DEF Kind, OneWays, KindOf, OneWay
<1>2. stage[s] \in {"chain", "send", "wait", "decode"} => outcome[s] = "none"
  BY DEF IInv, UndecidedOK
<1>3. CASE Begin(s) \/ ChainEnds(s) \/ Destructor(s)
  BY <1>1, <1>3, ReadOffSame DEF Begin, ChainEnds, Destructor
<1>4. ASSUME UNCHANGED <<sent, server, replies, property>>, outcome[s] = "none",
             outcome' = [outcome EXCEPT ![s] = "error"]
      PROVE  Abstract!Next
  <2>1. Abstract!GiveUp(s)
    BY <1>4, ReadOffSame DEF Abstract!GiveUp, Life, Results
  <2> QED
    BY <1>1, <2>1 DEF Abstract!Next, Kind, OneWays
<1>5. CASE ChainThrows(s) \/ SendFails(s) \/ Timeout(s)
  BY <1>2, <1>4, <1>5 DEF ChainThrows, SendFails, Timeout, Fails
<1>6. CASE ReplyArrives(s)
  <2>1. CASE outcome' = outcome
    BY <1>1, <1>6, <2>1, ReadOffSame DEF ReplyArrives
  <2>2. CASE Fails(s)
    BY <1>2, <1>4, <1>6, <2>2 DEF ReplyArrives, Fails
  <2> QED
    BY <1>6, <2>1, <2>2 DEF ReplyArrives
<1>7. CASE Decode(s)
  <2>1. CASE Fails(s)
    BY <1>2, <1>4, <1>7, <2>1 DEF Decode, Fails
  <2>2. CASE ~Fails(s)
    <3>1. Life[s] = "performed" /\ Results[s] = Head(replies[s])
      BY <1>7, DecodedResult DEF Decode
    <3>2. UNCHANGED <<sent, server, replies, property, Life, Results>> /\ outcome[s] = "none"
      BY <1>2, <1>7, ReadOffSame DEF Decode
    <3>3. outcome' = [outcome EXCEPT ![s] = "void"] \/ outcome' = [outcome EXCEPT ![s] = Results[s]]
      BY <1>7, <2>2, <3>1 DEF Decode
    <3>4. Abstract!Succeed(s)
      BY <3>1, <3>2, <3>3 DEF Abstract!Succeed, Life, Results
    <3> QED
      BY <1>1, <3>4 DEF Abstract!Next, Kind, OneWays
  <2> QED
    BY <2>1, <2>2
<1>8. CASE Send(s)
  <2>1. stage[s] = "send" /\ sent[s] = 0 /\ server[s] = "none" /\ outcome[s] = "none"
    BY <1>2, <1>8 DEF Send, IInv, TypeOK, StagesOK, InboxOK
  <2>2. sent'[s] = 1 /\ UNCHANGED <<server, replies, property>> /\ \A w \in Stmts \ {s} : sent'[w] = sent[w]
    BY <1>8, <2>1 DEF Send, IInv, TypeOK
  <2>3. LifeOf(s) = "new" /\ LifeOf(s)' = "issued" /\ ResultOf(s)' = ResultOf(s)
    BY <2>1, <2>2 DEF LifeOf, ResultOf
  <2>4. Life[s] = "new" /\ Life' = [Life EXCEPT ![s] = "issued"]
    BY <2>2, <2>3, ReadOff DEF Life
  <2>5. Results' = Results
    BY <2>2 DEF Results, ResultOf
  <2>6. outcome' = IF OneWays[s] THEN [outcome EXCEPT ![s] = "void"] ELSE outcome
    BY <1>8 DEF Send, OneWays, OneWay
  <2>7. Abstract!Issue(s)
    BY <2>1, <2>2, <2>4, <2>5, <2>6 DEF Abstract!Issue, Life, Results, OneWays
  <2> QED
    BY <1>1, <2>7 DEF Abstract!Next, Kind, OneWays
<1> QED
  BY <1>3, <1>5, <1>6, <1>7, <1>8 DEF ClientStep

\* A step of the server is the instant of an operation, or leaves it for later.
LEMMA ServerImplements ==
    ASSUME IInv, IInv', NEW s \in Stmts, ServerStep(s)
    PROVE  \/ Abstract!Next
           \/ UNCHANGED <<Kind, OneWays, Life, property, Results, outcome>>
<1> USE DEF chain, hist, Abstract!Move
<1>1. Handled(s)
  BY ServerFacts
<1>2. Kind' = Kind /\ OneWays' = OneWays
  BY <1>1 DEF Handled, Kind, OneWays, KindOf, OneWay
<1>3. sent[s] # 0 /\ sent' = sent
  BY <1>1 DEF Handled, IInv, InboxOK
<1>4. LifeOf(s) = "issued" /\ ResultOf(s) = "none"
  BY <1>1, <1>3 DEF Handled, LifeOf, ResultOf
<1>5. /\ Life[s] = "issued" /\ Life' = [Life EXCEPT ![s] = LifeOf(s)']
      /\ Results[s] = "none" /\ Results' = [Results EXCEPT ![s] = ResultOf(s)']
  BY <1>1, <1>3, <1>4, ReadOff DEF Handled, Life, Results
<1>6. CASE server'[s] = "deferred"
  <2>1. LifeOf(s)' = "issued" /\ ResultOf(s)' = "none"
    BY <1>3, <1>6 DEF LifeOf, ResultOf
  <2>2. Life' = Life /\ Results' = Results
    BY <1>5, <2>1 DEF Life, Results
  <2> QED
    BY <1>1, <1>2, <1>6, <2>2 DEF Handled
<1>7. CASE server'[s] = "returned"
  <2>1. LifeOf(s)' = "performed"
    BY <1>3, <1>7 DEF LifeOf
  <2>2. property' = IF Kind[s] = "write" THEN s ELSE property
    BY <1>1, <1>7 DEF Handled, Kind, KindOf
  <2>3. CASE OneWays[s]
    <3>1. ResultOf(s)' = "none"
      BY <1>1, <1>7, <2>3 DEF Handled, Answered, ResultOf, OneWays, OneWay
    <3>2. Results' = Results
      BY <1>5, <3>1 DEF Results
    <3>3. Abstract!Perform(s)
      BY <1>1, <1>5, <2>1, <2>2, <2>3, <3>2 DEF Handled, Abstract!Perform, Life, Results, Kind, OneWays
    <3> QED
      BY <1>2, <3>3 DEF Abstract!Next, Kind, OneWays
  <2>4. CASE ~OneWays[s]
    <3>1. ResultOf(s)' = Result(s)
      BY <1>1, <1>7, <2>4 DEF Handled, Answered, ResultOf, OneWays, OneWay
    <3>2. Result(s) = IF Kind[s] = "read" THEN property ELSE Nothing
      BY DEF Result, Kind, KindOf
    <3>3. Abstract!Perform(s)
      BY <1>1, <1>5, <2>1, <2>2, <2>4, <3>1, <3>2
         DEF Handled, Abstract!Perform, Life, Results, Kind, OneWays
    <3> QED
      BY <1>2, <3>3 DEF Abstract!Next, Kind, OneWays
  <2> QED
    BY <2>3, <2>4
<1>8. CASE server'[s] \in {"threw", "dropped", "told"}
  <2>1. LifeOf(s)' = "failed" /\ ResultOf(s)' = "none"
    BY <1>3, <1>8 DEF LifeOf, ResultOf
  <2>2. Results' = Results
    BY <1>5, <2>1 DEF Results
  <2>3. Abstract!Refuse(s)
    BY <1>1, <1>5, <1>8, <2>1, <2>2 DEF Handled, Abstract!Refuse, Life, Results
  <2> QED
    BY <1>2, <2>3 DEF Abstract!Next, Kind, OneWays
<1> QED
  BY <1>1, <1>6, <1>7, <1>8 DEF Handled, Servers

\* Each statement takes effect at one instant, once at most, and tells its caller
\* what happened at that instant or that it has failed (RemoteCalls).
THEOREM StatementsAreAtomic == Spec => Implements
<1>1. Init => Abstract!Init
  <2> SUFFICES ASSUME Init PROVE Abstract!Init
    OBVIOUS
  <2>1. \A s \in Stmts : LifeOf(s) = "new" /\ ResultOf(s) = "none"
    BY DEF Init, LifeOf, ResultOf
  <2>2. \A s \in Stmts : KindOf(s) \in {"read", "write", "call"} /\ OneWay(s) \in BOOLEAN
    BY DEF KindOf, OneWay
  <2> QED
    BY <2>1, <2>2 DEF Init, Abstract!Init
<1>2. IInv /\ IInv' /\ [Next]_vars =>
          [Abstract!Next]_<<Kind, OneWays, Life, property, Results, outcome>>
  <2> SUFFICES ASSUME IInv, IInv', [Next]_vars
               PROVE  \/ Abstract!Next
                      \/ UNCHANGED <<Kind, OneWays, Life, property, Results, outcome>>
    OBVIOUS
  <2>1. CASE UNCHANGED vars
    BY <2>1, ReadOffSame DEF vars, chain, wire, Kind, OneWays, KindOf, OneWay
  <2> QED
    BY <2>1, ClientImplements, ServerImplements DEF Next
<1> QED
  BY <1>1, <1>2, StatementsInvariant, PTL
     DEF Spec, Implements, Abstract!Spec, Kind, OneWays, Life, Results
=============================================================================
