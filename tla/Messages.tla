------------------------------ MODULE Messages ------------------------------
(***************************************************************************)
(* The C++ handles of D-Bus messages and of file descriptors.              *)
(*                                                                         *)
(* A Message is a handle of a reference-counted sd-bus message: copying,    *)
(* moving, sending and replying pass references between handles and sd-bus, *)
(* each under sdbusMutex_, an assignment in two steps. Each handle is used  *)
(* by one thread at a time. A UnixFd owns a file descriptor; a message owns *)
(* the duplicates of the descriptors appended to it.                       *)
(***************************************************************************)
EXTENDS Naturals, FiniteSets

CONSTANTS
    Threads,  \* threads that work on messages, the event loop thread included
    Handles,  \* C++ objects of the Message classes
    Msgs,     \* sd-bus messages
    UnixFds,  \* C++ objects of class UnixFd
    Fds,      \* the descriptor table of the process
    None      \* the null pointer, descriptor -1

ASSUME MessagesAssumption ==
    /\ IsFiniteSet(Handles) /\ Handles \cap UnixFds = {}
    /\ None # "none" /\ {None, "none"} \cap (Msgs \cup Fds \cup Handles \cup UnixFds) = {}

VARIABLES
    handle,   \* what each handle refers to: "none" before and after its life
    kind,     \* "free"; being built: "call", "silent" (expects no reply), "reply";
              \* sealed: "sent", "incoming" (a call), "received" (a reply)
    refs,     \* the reference count of each sd-bus message
    queue,    \* messages that sd-bus holds itself: on their way or in dispatch
    fdIn,     \* the descriptor in each message
    fd,       \* fd_ of each UnixFd: "none" before and after its life
    open,     \* open descriptors
    raw,      \* descriptors the application owns outside of any UnixFd
    torn,     \* UnixFds whose fd_ has been closed: a copy into them has failed
    op,       \* per thread: an assignment or a credentials query under way
    creds     \* threads that hold a reference to credentials

messages == <<handle, kind, refs, queue>>
fds      == <<fd, open, raw, torn>>
vars     == <<messages, fdIn, fds, op, creds>>

Idle == [name |-> "idle", dst |-> None, src |-> None]

TypeOK ==
    /\ handle \in [Handles -> Msgs \cup {None, "none"}]
    /\ kind \in [Msgs -> {"free", "call", "silent", "reply", "sent", "incoming", "received"}]
    /\ refs \in [Msgs -> Nat] /\ \A m \in Msgs : refs[m] = 0 <=> kind[m] = "free"
    /\ queue \subseteq Msgs
    /\ fdIn \in [Msgs -> Fds \cup {None}]
    /\ fd \in [UnixFds -> Fds \cup {None, "none"}]
    /\ open \subseteq Fds /\ raw \subseteq Fds /\ torn \subseteq UnixFds
    /\ op \in [Threads -> [name : {"idle", "assign", "creds", "copyfd"},
                           dst : Handles \cup UnixFds \cup {None}, src : Handles \cup UnixFds \cup {None}]]
    /\ creds \subseteq Threads

Init ==
    /\ handle = [h \in Handles |-> "none"]
    /\ kind = [m \in Msgs |-> "free"] /\ refs = [m \in Msgs |-> 0] /\ queue = {}
    /\ fdIn = [m \in Msgs |-> None]
    /\ fd = [f \in UnixFds |-> "none"] /\ open = {} /\ raw = {} /\ torn = {}
    /\ op = [t \in Threads |-> Idle] /\ creds = {}

-----------------------------------------------------------------------------
InUse(x)  == \E t \in Threads : x \in {op[t].dst, op[t].src}
Valid(h)  == handle[h] \in Msgs          \* Message::isValid
Ready(t)  == op[t] = Idle
Kinds(h, ks) == Valid(h) /\ kind[handle[h]] \in ks

\* sd_bus_message_unref: the last reference closes the descriptors in it.
Unreferenced(m) ==
    /\ refs' = [refs EXCEPT ![m] = @ - 1]
    /\ kind' = IF refs[m] = 1 THEN [kind EXCEPT ![m] = "free"] ELSE kind
    /\ open' = IF refs[m] = 1 THEN open \ {fdIn[m]} ELSE open
    /\ fdIn' = IF refs[m] = 1 THEN [fdIn EXCEPT ![m] = None] ELSE fdIn

\* A new sd-bus message comes with one reference, which the handle adopts.
Adopts(h, m, k) ==
    /\ handle[h] = "none" /\ kind[m] = "free"
    /\ handle' = [handle EXCEPT ![h] = m]
    /\ kind' = [kind EXCEPT ![m] = k]
    /\ refs' = [refs EXCEPT ![m] = 1]

-----------------------------------------------------------------------------
(* Creating, copying, moving and destroying handles.                        *)

\* Connection::createMethodCall.
CreateMethodCall(t, h, m) ==
    /\ Ready(t) /\ Adopts(h, m, "call")
    /\ UNCHANGED <<queue, fdIn, fds, op, creds>>

\* Message(msg, connection): the callbacks wrap the message in dispatch.
Wrap(t, h, m) ==
    /\ Ready(t) /\ handle[h] = "none"
    /\ m \in queue /\ kind[m] = "incoming"
    /\ handle' = [handle EXCEPT ![h] = m]
    /\ refs' = [refs EXCEPT ![m] = @ + 1]
    /\ UNCHANGED <<kind, queue, fdIn, fds, op, creds>>

\* Copy construction and copy assignment, first half: the target lets go of
\* what it had. The source must be valid: its connection is dereferenced.
CopyAssign(t, h, from) ==
    /\ Ready(t) /\ h # from /\ Valid(from) /\ ~InUse(h)
    /\ IF Valid(h) THEN Unreferenced(handle[h]) ELSE UNCHANGED <<refs, kind, open, fdIn>>
    /\ handle' = [handle EXCEPT ![h] = None]
    /\ op' = [op EXCEPT ![t] = [name |-> "assign", dst |-> h, src |-> from]]
    /\ UNCHANGED <<queue, fd, raw, torn, creds>>

\* Mutant: a copy takes no reference.
CopyTakes_NoRef(t) ==
    /\ op[t].name = "assign"
    /\ handle' = [handle EXCEPT ![op[t].dst] = handle[op[t].src]]
    /\ op' = [op EXCEPT ![t] = Idle]
    /\ UNCHANGED <<kind, refs, queue, fdIn, fds, creds>>

\* Second half: it takes the source's message and a reference of its own.
CopyTakes(t) ==
    /\ op[t].name = "assign"
    /\ LET m == handle[op[t].src] IN
       /\ handle' = [handle EXCEPT ![op[t].dst] = m]
       /\ refs' = [refs EXCEPT ![m] = @ + 1]
    /\ op' = [op EXCEPT ![t] = Idle]
    /\ UNCHANGED <<kind, queue, fdIn, fds, creds>>

\* Move construction and move assignment, onto itself too: the reference
\* changes hands, the source is left empty.
MoveAssign(t, h, from) ==
    /\ Ready(t) /\ ~InUse(h) /\ ~InUse(from) /\ handle[from] # "none"
    /\ IF Valid(h) THEN Unreferenced(handle[h]) ELSE UNCHANGED <<refs, kind, open, fdIn>>
    /\ handle' = [handle EXCEPT ![h] = IF h = from THEN None ELSE handle[from], ![from] = None]
    /\ UNCHANGED <<queue, fd, raw, torn, op, creds>>

Destruct(t, h) ==
    /\ Ready(t) /\ ~InUse(h) /\ handle[h] # "none"
    /\ IF Valid(h) THEN Unreferenced(handle[h]) ELSE UNCHANGED <<refs, kind, open, fdIn>>
    /\ handle' = [handle EXCEPT ![h] = "none"]
    /\ UNCHANGED <<queue, fd, raw, torn, op, creds>>

-----------------------------------------------------------------------------
(* Sending and replying.                                                    *)

DontExpectReply(t, h) ==
    /\ Ready(t) /\ ~InUse(h) /\ Kinds(h, {"call"})
    /\ kind' = [kind EXCEPT ![handle[h]] = "silent"]
    /\ UNCHANGED <<handle, refs, queue, fdIn, fds, op, creds>>

Queued(m) ==
    /\ queue' = queue \cup {m}
    /\ refs' = [refs EXCEPT ![m] = @ + 1]
    /\ kind' = [kind EXCEPT ![m] = "sent"]

\* MethodCall::send: a call that expects a reply returns one, which the result
\* adopts, or throws; another one is handed to sd-bus, its result is empty.
SendCall(t, h, result, m) ==
    /\ Ready(t) /\ ~InUse(h) /\ handle[result] = "none"
    /\ \/ /\ Kinds(h, {"call"}) /\ kind[m] = "free"
          /\ kind' = [kind EXCEPT ![handle[h]] = "sent", ![m] = "received"]
          /\ handle' = [handle EXCEPT ![result] = m]
          /\ refs' = [refs EXCEPT ![m] = 1]
          /\ UNCHANGED queue
       \/ /\ Kinds(h, {"silent"}) /\ m = handle[h]
          /\ handle' = [handle EXCEPT ![result] = None]
          /\ Queued(m)
    /\ UNCHANGED <<fdIn, fds, op, creds>>

\* MethodReply::send, Signal::send and the async MethodCall::send.
SendMessage(t, h) ==
    /\ Ready(t) /\ ~InUse(h) /\ Kinds(h, {"call", "silent", "reply"})
    /\ Queued(handle[h])
    /\ UNCHANGED <<handle, fdIn, fds, op, creds>>

\* createReply and createErrorReply.
CreateReply(t, h, result, m) ==
    /\ Ready(t) /\ ~InUse(h) /\ Kinds(h, {"incoming"})
    /\ Adopts(result, m, "reply")
    /\ UNCHANGED <<queue, fdIn, fds, op, creds>>

\* sd-bus reads a call, with or without a descriptor, and dispatches it ...
Receives(m, n) ==
    /\ kind[m] = "free" /\ n \in (Fds \ open) \cup {None}
    /\ kind' = [kind EXCEPT ![m] = "incoming"]
    /\ refs' = [refs EXCEPT ![m] = 1]
    /\ queue' = queue \cup {m}
    /\ fdIn' = [fdIn EXCEPT ![m] = n]
    /\ open' = open \cup ({n} \cap Fds)
    /\ UNCHANGED <<handle, fd, raw, torn, op, creds>>

\* ... and lets go of a message when it is written or the callbacks are through.
Releases(m) ==
    /\ m \in queue
    /\ queue' = queue \ {m}
    /\ Unreferenced(m)
    /\ UNCHANGED <<handle, fd, raw, torn, op, creds>>

-----------------------------------------------------------------------------
(* getCredsPid and the other getters of the sender's credentials.           *)

\* The query may fail and give nothing.
QueryCreds(t, h) ==
    /\ Ready(t) /\ Kinds(h, {"incoming"}) /\ ~InUse(h)
    /\ op' = [op EXCEPT ![t] = [name |-> "creds", dst |-> None, src |-> h]]
    /\ creds' \in {creds, creds \cup {t}}
    /\ UNCHANGED <<messages, fdIn, fds>>

\* SCOPE_EXIT: whether the value is there or an Error is thrown.
ReturnCreds(t) ==
    /\ op[t].name = "creds"
    /\ creds' = creds \ {t}
    /\ op' = [op EXCEPT ![t] = Idle]
    /\ UNCHANGED <<messages, fdIn, fds>>

-----------------------------------------------------------------------------
(* File descriptors. A descriptor is duplicated to the first free number;    *)
(* the table may be full.                                                   *)

MayChange(f) == f \notin torn /\ ~InUse(f)
Usable(f)    == MayChange(f) /\ fd[f] # "none"
Closes(f)    == {fd[f]} \cap Fds

AppOpens(n) ==
    /\ n \notin open
    /\ open' = open \cup {n} /\ raw' = raw \cup {n}
    /\ UNCHANGED <<messages, fdIn, fd, torn, op, creds>>

AppCloses(n) ==
    /\ n \in raw
    /\ open' = open \ {n} /\ raw' = raw \ {n}
    /\ UNCHANGED <<messages, fdIn, fd, torn, op, creds>>

\* UnixFd{fd, adopt_fd}, reset(fd, adopt_fd), the default constructor and
\* reset(): what it had is closed.
Adopt(f, n) ==
    /\ MayChange(f) /\ n \in raw \cup {None}
    /\ fd' = [fd EXCEPT ![f] = n]
    /\ raw' = raw \ {n}
    /\ open' = open \ Closes(f)
    /\ UNCHANGED <<messages, fdIn, torn, op, creds>>

\* UnixFd{fd} and reset(fd): the duplicate is made first, an Error leaves all
\* as it was.
Dup(f, n, new) ==
    /\ MayChange(f) /\ n \in raw /\ new \notin open
    /\ fd' = [fd EXCEPT ![f] = new]
    /\ open' = (open \cup {new}) \ Closes(f)
    /\ UNCHANGED <<messages, fdIn, raw, torn, op, creds>>

\* Copy construction and copy assignment, first half: what f had is closed.
CopyFd(t, f, from) ==
    /\ Ready(t) /\ f # from /\ MayChange(f) /\ Usable(from)
    /\ open' = open \ Closes(f)
    /\ op' = [op EXCEPT ![t] = [name |-> "copyfd", dst |-> f, src |-> from]]
    /\ UNCHANGED <<messages, fdIn, fd, raw, torn, creds>>

\* Second half: the duplicate, or the Error when another thread has filled the
\* table; it leaves no object, or one with the number that was closed.
CopyFdDup(t, new) ==
    /\ op[t].name = "copyfd"
    /\ LET f == op[t].dst  from == op[t].src IN
       \/ /\ fd[from] = None /\ new = None
          /\ fd' = [fd EXCEPT ![f] = None]
          /\ UNCHANGED <<open, torn>>
       \/ /\ fd[from] \in Fds /\ new \in Fds \ open
          /\ fd' = [fd EXCEPT ![f] = new]
          /\ open' = open \cup {new} /\ UNCHANGED torn
       \/ /\ fd[from] \in Fds /\ open = Fds /\ new = None
          /\ torn' = IF fd[f] \in Fds THEN torn \cup {f} ELSE torn
          /\ UNCHANGED <<fd, open>>
    /\ op' = [op EXCEPT ![t] = Idle]
    /\ UNCHANGED <<messages, fdIn, raw, creds>>

MoveFd(f, from) ==
    /\ f # from /\ MayChange(f) /\ Usable(from)
    /\ fd' = [fd EXCEPT ![f] = fd[from], ![from] = None]
    /\ open' = open \ Closes(f)
    /\ UNCHANGED <<messages, fdIn, raw, torn, op, creds>>

ReleaseFd(f) ==
    /\ Usable(f) /\ fd[f] \in Fds
    /\ raw' = raw \cup {fd[f]}
    /\ fd' = [fd EXCEPT ![f] = None]
    /\ UNCHANGED <<messages, fdIn, open, torn, op, creds>>

DestructFd(f) ==
    /\ Usable(f)
    /\ fd' = [fd EXCEPT ![f] = "none"]
    /\ open' = open \ Closes(f)
    /\ UNCHANGED <<messages, fdIn, raw, torn, op, creds>>

\* operator<<: sd-bus keeps a duplicate of its own.
AppendFd(t, h, f, new) ==
    /\ Ready(t) /\ ~InUse(h) /\ Kinds(h, {"call", "silent", "reply"})
    /\ fdIn[handle[h]] = None
    /\ Usable(f) /\ fd[f] \in Fds /\ new \notin open
    /\ fdIn' = [fdIn EXCEPT ![handle[h]] = new]
    /\ open' = open \cup {new}
    /\ UNCHANGED <<messages, fd, raw, torn, op, creds>>

\* Mutant: the descriptor of the message is adopted.
ReadFd_Adopts(t, h, f, new) ==
    /\ Ready(t) /\ ~InUse(h) /\ Kinds(h, {"incoming"}) /\ Usable(f)
    /\ fdIn[handle[h]] # None /\ new = fdIn[handle[h]]
    /\ fd' = [fd EXCEPT ![f] = new]
    /\ open' = open \ Closes(f)
    /\ UNCHANGED <<messages, fdIn, raw, torn, op, creds>>

\* operator>>: the message keeps its descriptor, the UnixFd gets a duplicate.
ReadFd(t, h, f, new) ==
    /\ Ready(t) /\ ~InUse(h) /\ Kinds(h, {"incoming"}) /\ Usable(f)
    /\ fdIn[handle[h]] # None /\ new \notin open
    /\ fd' = [fd EXCEPT ![f] = new]
    /\ open' = (open \cup {new}) \ Closes(f)
    /\ UNCHANGED <<messages, fdIn, raw, torn, op, creds>>

-----------------------------------------------------------------------------
HandleOps(t) ==
    \/ \E h \in Handles : Destruct(t, h) \/ DontExpectReply(t, h) \/ SendMessage(t, h) \/ QueryCreds(t, h)
    \/ \E h \in Handles, m \in Msgs : CreateMethodCall(t, h, m) \/ Wrap(t, h, m)
    \/ \E h, from \in Handles : CopyAssign(t, h, from) \/ MoveAssign(t, h, from)
    \/ \E h, result \in Handles, m \in Msgs : SendCall(t, h, result, m) \/ CreateReply(t, h, result, m)
    \/ CopyTakes(t) \/ ReturnCreds(t)

FdOps ==
    \/ \E n \in Fds : AppOpens(n) \/ AppCloses(n)
    \/ \E f \in UnixFds, n \in Fds \cup {None} : Adopt(f, n)
    \/ \E f \in UnixFds, n, new \in Fds : Dup(f, n, new)
    \/ \E t \in Threads, f, from \in UnixFds : CopyFd(t, f, from)
    \/ \E t \in Threads, new \in Fds \cup {None} : CopyFdDup(t, new)
    \/ \E f, from \in UnixFds : MoveFd(f, from)
    \/ \E f \in UnixFds : ReleaseFd(f) \/ DestructFd(f)
    \/ \E t \in Threads, h \in Handles, f \in UnixFds, new \in Fds : AppendFd(t, h, f, new) \/ ReadFd(t, h, f, new)

Next ==
    \/ \E t \in Threads : HandleOps(t)
    \/ \E m \in Msgs : Releases(m) \/ \E n \in Fds \cup {None} : Receives(m, n)
    \/ FdOps

Spec == Init /\ [][Next]_vars

-----------------------------------------------------------------------------
(* Properties.                                                              *)

\* Between the two halves of every assignment, on every thread, the references
\* to a message are those of its handles and of sd-bus: a message is freed when
\* the last of them goes, neither before nor never.
RefsCounted ==
    \A m \in Msgs :
        refs[m] = Cardinality({h \in Handles : handle[h] = m}) + (IF m \in queue THEN 1 ELSE 0)

\* An open descriptor belongs to one UnixFd, one message or the application, a
\* closed one to none: nothing is closed twice or leaked. The exception is a
\* UnixFd that is being copied to, or that a failed copy has left as it was then.
Closed == torn \cup {op[t].dst : t \in {u \in Threads : op[u].name = "copyfd"}}

OwnersOf(n) ==
    Cardinality({f \in UnixFds \ Closed : fd[f] = n}) + Cardinality({m \in Msgs : fdIn[m] = n})
    + Cardinality(raw \cap {n})

FdOwnedOnce == \A n \in Fds : OwnersOf(n) = IF n \in open THEN 1 ELSE 0

\* Credentials are given back on every path out of a getter.
CredsReturned == \A t \in creds : op[t].name = "creds"

-----------------------------------------------------------------------------
(* What makes these invariants inductive.                                   *)

\* An assignment under way has its target to itself, and a source that lives.
OpsOK ==
    \A t \in Threads :
        /\ op[t].name = "idle" => op[t] = Idle
        /\ op[t].name = "assign" =>
              /\ op[t].dst \in Handles /\ op[t].src \in Handles
              /\ handle[op[t].dst] = None /\ Valid(op[t].src)
        /\ op[t].name = "copyfd" =>
              op[t].dst \in UnixFds \ torn /\ op[t].src \in UnixFds \ torn /\ op[t].dst # op[t].src
        /\ op[t].name = "creds" => op[t].dst = None /\ op[t].src \in Handles
        /\ op[t].name \in {"assign", "copyfd"} =>
              \A u \in Threads \ {t} : op[t].dst \notin {op[u].dst, op[u].src}

\* sd-bus holds messages that are sealed; a freed message has no descriptor.
KindsOK ==
    /\ \A m \in queue : kind[m] \in {"sent", "incoming"}
    /\ \A m \in Msgs : kind[m] = "free" => fdIn[m] = None

\* FdOwnedOnce, owner by owner.
DescriptorsOK ==
    /\ \A f \in UnixFds \ Closed : fd[f] \in Fds =>
          /\ fd[f] \in open /\ fd[f] \notin raw
          /\ \A g \in UnixFds \ (Closed \cup {f}) : fd[g] # fd[f]
          /\ \A m \in Msgs : fdIn[m] # fd[f]
    /\ \A m \in Msgs : fdIn[m] \in Fds =>
          /\ fdIn[m] \in open /\ fdIn[m] \notin raw
          /\ \A k \in Msgs \ {m} : fdIn[k] # fdIn[m]
    /\ raw \subseteq open
    /\ \A n \in open :
          n \in raw \/ (\E f \in UnixFds \ Closed : fd[f] = n) \/ \E m \in Msgs : fdIn[m] = n

IInv == TypeOK /\ OpsOK /\ KindsOK /\ RefsCounted /\ DescriptorsOK /\ CredsReturned
=============================================================================
