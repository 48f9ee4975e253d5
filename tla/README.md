# sdbus-c++ in TLA+

sdbus-c++ is a C++ binding of sd-bus. Almost every call ends in libsystemd. What the
library adds, and what is hard to get right and to test, is of two kinds: the code that
makes one `sd_bus` object usable from several threads (a recursive mutex around
libsystemd, an event loop thread that sleeps in `poll()` and has to be told when to look
again, C++ objects whose raw pointers sd-bus keeps and calls back with), and the
conversions (C++ types to D-Bus signatures and values, interface descriptions to C++).
These modules model that code, check it with TLC and prove the central invariants with
TLAPS.

Paths below are relative to the repository, which is `src/`; `Connection.cpp` and the
like stand for `src/src/Connection.cpp`, `Awaitable.h` and the like for
`src/include/sdbus-c++/Awaitable.h`.

## 1. The system

| component | state | operations | modules |
|---|---|---|---|
| `Connection`, event loop and wake-up (Connection.cpp 165-203, 668-717, 783-880, 928-954) | `asyncLoopThread_`, `eventFd_`, `loopExitFd_`, queues and timers inside sd-bus | enter, leave, process one event, wait for the next, notify; sync and async calls, send, emit, as far as they touch the loop | `EventLoop` |
| `Connection`, sd-event and foreign loops (290-462) | four event sources | attach, detach, prepare, timer, I/O and wake-up callbacks; `getEventLoopPollData`, `processPendingEvent` | `ExternalLoop` |
| `Proxy`, async calls (Proxy.cpp 130-160, 256-309, 324-393) | `floatingAsyncCallSlots_` with `mutex_`, `AsyncCallInfo` (shared, weak and raw pointers) | call, store, reply handler, `cancel`, `isPending`, `unregister`, destructor, release of an owned `Slot` | `AsyncCalls`, `PendingCalls` |
| futures and `Awaitable` (Awaitable.h, Proxy.cpp 162-209) | an atomic status, a handle and a result shared by coroutine and reply handler; promises | await, complete, resume, drop | `Results` |
| `Proxy` signal handlers, `Object` vtables, `Connection` match rules | `floatingSignalSlots_`, `vtables_`, `floatingMatchRules_` and the info objects in them | register, unregister, release, dispatch, install callback, destructors up to the connection's | `Slots`, `Registrations` |
| `Message`, `UnixFd` (Message.cpp, Types.h) | a reference to an `sd_bus_message`, `ok_`; a descriptor | copy, move, send, reply, credentials; adopt, duplicate, release | `Messages` |
| serialization (Message.h, TypeTraits.h, `Variant` in Types.h) | the read cursor of a message, `ok_` | `signature_of`, `<<`, `>>`, `Variant::get` | `TypeTraits`, `Serialization`, `Conversions` |
| convenience API (ConvenienceApiClasses.inl) with the callbacks of `Object` (Object.cpp) and `Result` | invokers that act in their destructor; a property; replies | build and send one message, handle it, reply at once or later | `Statements` |
| vtable tables (VTableItems.inl, Object.cpp 60-86, 176-398, Flags.cpp, VTableUtils.c) | items, sorted tables, the rows of sd-bus | describe, assemble, sort, register, look up by name, call back | `VTables` |
| poll timeouts (Connection.cpp 960-982) | - | absolute to relative, to `int` milliseconds, polled for | `PollTimeouts` |
| `xml2cpp` (tools/xml2cpp-codegen) | - | generate adaptors and proxies from a description | `CodeGen`, `Conversions` |
| `SdBus` (SdBus.cpp) | `sdbusMutex_`, recursive | one forwarder per libsystemd function; most take the mutex, `sd_bus_process` holds it through the user's callback, `sd_bus_call` until the reply | part of the others |
| flags, errors, names; adaptor and proxy base classes, standard interfaces | - | forwarding and conversions | see section 6 |

What is hard: API threads and the loop thread interleave between critical sections of
one mutex, so every "look, then sleep" and "look, call, look again" is a race; sd-bus
calls back with raw pointers while other threads release what they point to; two mutexes
are taken in both nesting contexts; a coroutine and its reply handler race for one atomic;
operations fail half-way by exception, with destructors that send messages; handles,
references and descriptors change hands in several steps; a reader that meets another
type than it expects leaves a cursor behind. What makes each component correct:

* event loop: it never sleeps over something it should do unless a wake-up is on its
  way; a leave ends it; calls with a timeout time out.
* calls and registrations: a callback never runs on freed data, nor after whoever ended
  the call or registration got control back; nothing stays in a container for ever;
  every operation returns.
* results: an awaiting coroutine is resumed by exactly one thread, after its result is
  there, and a future is always answered; seen from outside, a result is handed over in one step.
* statements: one statement, one message; one call, one reply; the caller is told the
  truth; seen from outside, a statement takes effect at one instant or not at all.
* libsystemd: one thread at a time, through blocking calls and callbacks.
* poll timeouts: no poll gives up before the deadline it was made from, nor long after.
* vtables: a call by name reaches what was registered under that name.
* messages: as many references as holders; each open descriptor has one owner.
* conversions: what is written is what is read, by generated code, too.

`PROJECT.json` lists every component, and every hazard with its line and its properties.

## 2. Modules and the code

| module | what it is |
|---|---|
| `EventLoop`, `MCEventLoop`, `EventLoopProofs` | the wake-up protocol of a connection with its own loop thread |
| `ExternalLoop` | the same connection under an sd-event loop or a loop of the application (extends `EventLoop`); its proofs are the last section of `EventLoopProofs` |
| `PendingCalls` | abstract: what a proxy promises about an asynchronous call |
| `AsyncCalls`, `MCAsyncCalls`, `AsyncCallsProofs` | the async calls of `Proxy`; implement `PendingCalls` |
| `Handovers` | abstract: what a future or an awaitable promises about a result |
| `Results`, `ResultsProofs` | futures and awaitables on top of `PendingCalls` (which they instantiate for the calls); implement `Handovers` |
| `Registrations` | abstract: what a `Slot` promises |
| `Slots`, `SlotsProofs` | signal handlers, vtables and match rules; implement `Registrations` |
| `Messages`, `MCMessages`, `MessagesProofs` | message references and file descriptors |
| `RemoteCalls` | abstract: what the convenience API promises about an operation on a remote object |
| `Statements`, `StatementsProofs` | the convenience API from client to server and back; implement `RemoteCalls` |
| `PollTimeouts`, `PollTimeoutsProofs` | how a loop gets from a deadline of sd-bus to a `poll()` and back |
| `VTables`, `VTablesProofs` | the members of an interface: described, put into tables, sorted, registered, called by name |
| `TypeTraits`, `Serialization`, `CodeGen` | pure operators: signatures, `<<` and `>>`, generated code |
| `Conversions`, `MCConversions` | behaviours over these operators: each writes, reads or generates; for TLC, those of `VTables` and `PollTimeouts` with them |

Composition: `ExternalLoop` reuses the actions of `EventLoop`; `Results` runs on
`PendingCalls!Issue`, `Deliver`, `Return` and `Cancel`, the promise that `AsyncCalls` is
shown to keep; `Conversions` puts the generated proxy, the generated adaptor and the
serialization of both sides together.

### EventLoop and ExternalLoop

One step is one critical section of `sdbusMutex_`, one eventfd access or one `poll()`;
nothing coarser would show the races. The loop thread is the variable `loop`:

    process --(sd_bus_process)--> callback | pollData | drained
    drained --(eventFd_.clear, r == 0)--> pollData
    pollData --(getEventLoopPollData)--> poll
    poll --> clearEvent | clearExit | process
    clearEvent --> pollData      (waitForNextEvent calls itself)
    clearExit --> exited

An API thread `t` (or the loop thread inside a callback) runs an operation along
`pc[t]`; its message is `call[t]`. `callMethodAsync` is `ReadTimeoutBefore`,
`CallAsync`, `ReadTimeoutAfter`, then `CheckQueues`/`NotifyEvent`. `callMethod`,
`requestName` and `releaseName` are the messages of `BlockingCalls`; `addMatch` and
`registerSignalHandler`, which do not wake the loop, are `SilentCalls`; `sendMessage`
is `Sends`, the `emit*` functions, which do not wake it either, `SilentSends`. While a
blocking call waits for its reply it holds the mutex and moves whatever else arrives to
the read queue (`StashMessage`). A message is an identifier; the reply to call `c` is
written `c`. Timeouts are absolute, `Forever` stands for `UINT64_MAX` and for poll's -1.

sd-bus, the kernel, the peers and the clock are modelled as far as the code relies on
them: a read queue filled only by blocking calls, a write queue filled when the socket
does not take a message, one message or timeout per `sd_bus_process`, timeouts before
the write queue before messages, `sd_bus_get_timeout` = 0 while the read queue is not
empty, POLLOUT while the write queue is not empty.

Two history variables name the gaps that the code has, so that the invariants can be
stated exactly: `lossy` (an operation ended without looking at queues that were not
empty: Connection.cpp:678, a sync call that throws skips the wake-up) and `raced` (the
loop re-read its poll data between `timeoutBefore` and the call, finding 1).

`ExternalLoop` replaces the polling. In the style `sd_event` a round is `Prepare` (fresh
poll data, set on the I/O and timer sources), `SdEventPolls`, one `SdEventDispatches` per
pending source; a source whose setting changes is not pending any more. In the style
`custom`, as IConnection.h documents it, every wake-up is answered with
`processPendingEvent`, which is the only thing that takes a notification back.

`mutex` is the recursive `sdbusMutex_`. Within a callback the loop thread has it, and
keeps it through the calls the callback makes (`Unlock`). `InBus` says who is in sd-bus
by what it is doing, not by the mutex, so that `Serialized` is a statement about the
threads: it relates a step to what other threads were in the middle of.

### PollTimeouts

The clock is read in nanoseconds (Utils.h:87-94), a deadline of sd-bus is in microseconds,
`poll()` takes milliseconds in an `int`; `NsPerUs`, `UsPerMs` and `MaxInt` are constants.
`GetPollTimeout` is `getEventLoopPollData` with `getPollTimeout` on what it returned,
`EnterPoll` comes any time later, since the thread may be preempted in between; then the
poll times out (`PollTimesOut`, no earlier than it was told) or a descriptor ends it. The
`duration_cast` of Connection.cpp:971 drops the fraction of a microsecond, so a poll may
time out less than a microsecond early; sd-bus then has nothing to process, and the loop
polls once more with the deadline in front of it. `NeverEarly` bounds this error: it does
not grow with the time waited. A time left beyond `MaxInt` milliseconds is cut
(Connection.cpp:981); `Fits` says when it is not.

### AsyncCalls and PendingCalls

The `AsyncCallInfo` of each call is `memory[c]`: none, alive, dying (the last strong
reference is gone, its destructor has started), freed. Strong references are held by
`slots` (the deque) and by locals (`local[t]`), sd-bus's raw pointer is `registered`. The
destructor first releases the sd-bus slot, which takes `sdbusMutex_` (`Release`): that is
where it waits for a handler in progress. Each operation is a walk through stages:

    callMethodAsync:          CallMethodAsync, PushBack (or ReturnSlot)
    cancel, reply handler:    Erase, Unlock, Drop, Release
    unregister, destructor:   Clear, Unlock, Drop, Release for each call
    owned Slot:               ReleaseSlot, Release

`Erase`, `Clear` and `PushBack` take `mutex_`; `Unlock` is a step of its own because the
order of unlocking and dropping is what avoids the deadlock described in the code's
comments. Callbacks may call anything, including cancel, unregister and the destruction
of the proxy. A reply, an error and a timeout are the same `Dispatch`. Application threads
do not use the proxy while one destroys it (docs/using-sdbus-c++.md:220); their
`PendingAsyncCall` handles and slots they may use at any time.

`PendingCalls` is the promise: new -> pending -> running -> done or pending -> done, at
most one handler at a time, and a call is `closed` only when it is done. The refinement
mapping reads the state of a call off `memory`, `registered` and `current`; `closed` are
the calls whose ending operation returned (`ended`), minus calls released by their own
callback, minus calls that another thread is still in the middle of ending. The exceptions
of `NoUseAfterFree` are finding 2 and a cancel that had locked its weak pointer before
the proxy went (Proxy.cpp:381: it then uses the container of a destroyed proxy).

### Results

A coroutine is `at[k]`: where each of the two threads is in it, so that running it on
both at once is a state of the model. `await_ready`, the store of the handle, the
compare-exchange of `await_suspend` and `await_resume` are one step each, as are the store
of the result, the exchange and the resumption in the reply handler. A resumed coroutine
may await the next call on the loop thread, within the handler of the one before. A
cancelled call has no handler: its promise breaks (`DropPromise`), its awaiter stays
suspended, which is what the code does.

The model has one awaiter per `Awaitable` and no `future.get()` on the loop thread.
`Handovers` is the promise: cells that are set once, consumers that ask for a cell, take
what is in it or go to sleep, and are woken by the step that sets it. A cell of an
awaitable counts as set from the exchange of `status` on, a coroutine as asleep when
neither thread is in it; `Set` is the exchange, or the promise's `set_value`.

IProxy.h:685-686 says that the continuation runs on the event loop thread; it runs on the
awaiting one when `await_ready` is true or the compare-exchange fails.

### Slots and Registrations

`SignalInfo`, `VTable` and `MatchInfo` are one thing: an info object in `memory`, known
to sd-bus by its raw pointer (`registered`), owned by the vector of a proxy, object or
connection (`container`), by a `Slot` of the application (`held`) or by the thread at
work on it (`work`). Deleting it is two steps: `Unref` releases the sd-bus slot under
`sdbusMutex_`, which waits for a handler that runs; `DestroyInfo` destroys the
callbacks. Matches have, in addition, an install callback that comes as the reply to
AddMatch. The destructor of the connection leaves the loop, releases the match rules and
closes the bus, in the order in which its members are declared.

The model takes the application at the word of docs/using-sdbus-c++.md:213-220: one
thread at a time uses a proxy or object (line 440 calls the connection thread-safe, but
`floatingMatchRules_`, Connection.cpp:243, is a plain vector, too); Slots of the
application go before their owner; a connection is not destroyed on its own loop thread.
A handler that releases its own Slot destroys the `std::function` that executes: the
history variable `selfReleased` names this, and the properties except it.

`CanGoOn` spells out what the next step of an operation needs: `sdbusMutex_`, unless it is
the handler's own thread that asks for it, the end of the handler for `leaveEventLoop`, and
an info object that is still there to be deleted. `NoDeadlock` is a statement about it.

`Registrations` is the promise: new -> active -> ended, a handler only on an active
registration, one at a time, `closed` only when no handler runs or will run.

### Messages

A handle refers to nothing, to `None` (empty, moved from) or to a message. An assignment
is two steps (`CopyAssign` lets go of the old message, `CopyTakes` references the new
one, Message.cpp:76-111), between which other threads act; so is a copy of a
`UnixFd` (`CopyFd`, `CopyFdDup`: the descriptor is closed, then the other one is
duplicated, and the table may have filled up in between). `kind` tells what a message may
be used for; the last `Unreferenced` closes the descriptors in it. A handle or a `UnixFd`
is used by one thread at a time. `CopyAssign` requires a valid source, since the code
dereferences its connection (Message.cpp:94). A `UnixFd` whose copy assignment failed
(Types.h:345-346) keeps the closed number and closes it again later: `torn` names it,
and `FdOwnedOnce` excepts it.

### Statements

A statement is a chain of calls on a temporary, `stage` by `stage`; its message is sent by
`storeResultsTo` or `uponReplyInvoke`, or by the destructor, which compares
`std::uncaught_exceptions()` (`flying`) with what it was at construction (`saved`). Any
step may throw. The server takes messages in order; its handlers return, throw, or keep a
`Result` for another thread, which uses or drops it. Invokers are temporaries, as the
source asks for (a named invoker whose `storeResultsTo` threw would call again in its
destructor), and a handler that has moved its `Result` away throws nothing (it would be
answered twice).

`RemoteCalls` is the promise: an operation is issued once, performed or refused at one
instant of the server, a read returns the register of that instant, and the caller is
told the result of the instant or an error. What a statement stands for is read off
`sent`, `server` and `replies`; a Result kept for later counts when it is used. An
operation whose caller was told of a timeout may still be performed, not once more.

### Conversions

A type is a term, a value a number, sequence or function, a message a sequence of items.
`Serialization` gives `<<` (`Put`) and `>>` (`Extract`) over an explicit reader state: a
stack of entered containers with a position each, `ok_`, and an exception. `Variant` is a
message of its own whose cursor every `get` rewinds. `CodeGen` gives the types, arguments,
annotations and statement endings of generated code. `Conversions` puts them to work, one
topic per behaviour; `MCConversions` adds the members of `VTables` and the deadlines of
`PollTimeouts` as topics of their own. The recursion over types is in these modules, which
hold no theorem.

A list of elements that are trivial on the wire is converted in one step (`IsFast`), enums
of such types included, since `signature_of` of an enum is that of its underlying type. `bool` is left
out by name (Message.h:407, 571) and an enum of `bool` is not: sd-bus refuses to append an
array of 'b' in one step, so a list of these cannot be sent. None is among the types of the run.

### VTables

    describing --(addVTable)--> writing --> sorted --> served | refused
    served --(sd-bus calls back)--> searching --> answered --> searching ...

The application describes members (`Describe`, `SetFlag`), in any order, with names that
may come twice and callbacks that may be missing. `AddVTable` starts the passes of
Object.cpp:67-86: `WriteRecord` puts one item into the table of its kind or refuses it,
`SortRecords` is the three `std::sort`, which are not stable: any ordered permutation will
do. `Register` makes the rows and hands them to sd-bus, which refuses a name that comes
twice and may fail for other reasons. sd-bus then calls the same three static callbacks for
every row, with a name and nothing else (`Call`); `Bisect` is an iteration of
`std::lower_bound`, `Answer` what `findMethod` or `findProperty` makes of where it ends.
Names are integers, compared as `operator<` compares strings. `shown` is a history variable:
the update behaviour that was set last. `ServedByName` says that what runs is what the
application gave for that name, and that what peers may see and do is what it asked for.

## 3. Runs

One run per question. State counts and times are those of a machine with two workers.

| run | instance | what it shows |
|---|---|---|
| `event_loop` | two application threads and callbacks; an async call with a timeout, a sync call without a wake-up (`addMatch`), a send, a silent emit; clock 0..1 (5.5 million states, 1 min); a sync call with a wake-up is in `progress` and `external_loop` | `QueuesAnnounced`, `DeadlinesAnnounced`: the loop sleeps over no queued message and past no deadline without a wake-up on its way; `ExitNotLost`: an exit notification reaches the loop; `Serialized`: one thread at a time in sd-bus, which the loop neither processes nor asks for poll data meanwhile, and nothing is sent in between |
| `progress` | one application thread and callbacks; an async and a sync call, a signal; clock 0..1 | `MessagesDispatched`, `CallsExpire`, `LeaveReturns`, under fair scheduling |
| `external_loop` | as `progress`, both styles of loop (345 thousand states, 2 min) | the two liveness properties for foreign loops; `NotificationsCleared`: eventFd_ does not stay readable |
| `async_calls` | two application threads; two floating calls, one owned Slot | memory safety, no callback after the end, no deadlock, and the refinement of `PendingCalls` |
| `results` | two coroutines, two awaitable calls, one future (176 thousand states) | `OneThread`, `ResultsTrue`, that awaiters and futures are answered, and the refinement of `Handovers` |
| `slots` | two application threads; one signal handler, one vtable, one match (125 thousand states) | memory safety, one owner, a clean end, no deadlock, that operations return, and the refinement of `Registrations` |
| `messages` | two threads; three handles, two messages, two UnixFds, three descriptors (141 thousand states) | `RefsCounted`, `FdOwnedOnce` |
| `statements` | two statements of every verb and ending, with and without an exception in flight (324 thousand states) | one message, one reply, truthful outcomes, reads after writes, every statement ends, and the refinement of `RemoteCalls` |
| `conversions` | nineteen written types, twenty-five read ones, descriptions with every annotation, interfaces of up to three members, each out of ten, with three of the flags; three nanoseconds to a microsecond, four microseconds to a millisecond, an int of two bits, eight deadlines, the clock up to 46 (1.2 million states, 1 min) | `ReadBack`, `VariantConst`, `GeneratedAgree`, `ServedByName`; `NeverEarly`, `NeverLate` |
| `deadline_gap` | two application threads, two async calls, clock 0..2 | finding 1: `LoopKnowsDeadlines` fails |
| `self_cancel` | one thread, one call | finding 2: `RemovedAfterCallback` fails |
| `variant_get` | a list read as a list and as an array that is too small | finding 3: `VariantUnharmed` fails |

Bounds, and why they are enough. A lost wake-up needs one thread that looks, one that
changes and one that sleeps: two API threads and the loop. `MaxTime` bounds the clock: with 1 a
deadline is in the past, now or never; 2, with two async calls, is needed for one
deadline to hide another, which is `deadline_gap` (`DeadlinesAnnounced` is proved for every
`MaxTime` and every set of calls). A message is issued at most once, so the message sets
bound the number of operations; there is one message for each path through the code. In
`AsyncCalls` two floating calls are needed for the container to shift under an erase, and
every call may be cancelled, cleared and unregistered any number of times. In `Results`
one coroutine awaits call after call while the other one does, too, on the same loop
thread. In `Slots` there is one registration of each kind, because two of one kind differ
only by name, and the owners meet in the destructor of the connection. In `Messages` three
handles are the two of an assignment and one that holds on to the old message; three
descriptors are an original, a duplicate and one to fill the table. In `Statements` two
statements make an order of messages; what `ReadsLatest` says of a Set before another Set
takes a third one, and is proved for any number. `Conversions` nests types three deep, which is
where an inner container ends inside an outer one. In `VTables` three members of one kind
let a bisection go either way; the proof is for any number. In `PollTimeouts` the deadlines are 0,
one at, one before and one after a whole millisecond, and some that do not fit into the
int; the clock goes on past the last of them, through every fraction of a microsecond.

Deadlock is checked where the system cannot stop: `EventLoop` (a loop can always be
entered, left or interrupted) and `Messages`. It is off in `AsyncCalls`, `Results`,
`Slots` and `Statements`, where everything may be over, in `ExternalLoop`, where the
loop may be detached with nothing left to do, and in `Conversions`, where a behaviour ends
with its topic. What matters there, that nobody is stuck in the middle of an operation, is
a property: `NoDeadlock`, `OperationsReturn`, `StatementsEnd`.

Symmetry (permuting calls, handles, descriptors) is used only in runs without liveness
properties.

Fairness, and why the code justifies it. The operating system schedules every thread that
can run: weak fairness of the loop, of each operation in progress and of each handler. A
callback of the user returns, however many API calls it makes (strong fairness of its
end). A blocking or asynchronous call ends because sd-bus gives it a timeout (25 s by
default): weak fairness of its end in `EventLoop`, of the client in `Statements`; in
`Results` strong fairness of "delivered or cancelled", because the loop serves one handler
at a time, so that the end of a call is enabled only again and again. Time passes and the
kernel drains its buffer. In `Slots`, nobody is kept out of a mutex for ever by threads that take
it again and again (strong fairness of an operation in progress). A loop of the
application keeps running its rounds. Nobody has to start an operation, no peer has to
answer, no interrupted `poll()` has to happen.

Each property of a passing run has a mutant, an operator next to the definition it
replaces whose comment says what is wrong with it (a dropped check, a wrong descriptor, a
stale poll, a reference dropped or not taken, a swapped order, a lost rewind), which TLC
must find under the run's own configuration.

## 4. Findings

1. `deadline_gap` (Connection.cpp:695): a lost wake-up when the loop re-reads its poll
   data in the middle of `callMethodAsync`.
2. `self_cancel` (Proxy.cpp:289): a callback that cancels its own call makes the handler write to freed
   memory.
3. `variant_get` (Types.h:97): a `get` that fails inside of the value makes later, correct
   ones fail, because `rewind(false)` does not leave the nested container.

Behaviour met while modelling that no document contradicts, or that the documentation
leaves to the application, and that the models take in, name or exclude:

* Event loop: a sync call that throws leaves what it has queued without a wake-up
  (Connection.cpp:678; `lossy`); a leave without a loop is remembered and ends the next loop
  (188, 785); an exception at 819 ends the process, since the loop thread does not catch.
* Async calls: `isPending` (Proxy.cpp:392) is false while the callback runs once a cancel
  waits for it; `cancel` racing with the destruction of its proxy (381); `unregister` returns before
  a call is released that another thread is in the middle of cancelling.
* `SdBus`: the forwarders for opening, starting, flushing and closing a bus and
  `sd_bus_get_current_message` do not lock. A wake-up that throws after a
  successful `sd_bus_call` or `sd_bus_call_async` leaks the reply or slot.
* Connection: openBus does not close a bus that fails to flush (742-751); openPseudoBus
  checks the result of `sd_bus_new` twice (753-768); a Slot that outlives its connection
  uses a destroyed one.
* Object: the error of a write-only property's getter makes GetAll fail as a whole;
  `toSdBusInterfaceFlags` (Flags.cpp:33-52) ignores METHOD_NO_REPLY; a member that is not found by
  name only meets an assertion.
* Serialization: a `std::variant` that is read at the end of an array, or where a basic
  value is, compares a null signature (Message.h:504-527, Types.h:134 alike); `>>` into a
  `Variant` takes whatever is there, and a missing argument gives an empty one; reading into a
  sealed `Variant` throws; copies of a `Variant` or `Message` share one cursor, also across threads.
* xml2cpp: an async method annotated with NoReply calls `dontExpectReply()`, which
  AsyncMethodInvoker does not have, so the code does not compile; arguments without direction are
  dropped; an unknown EmitsChangedSignal value is ignored; an unbalanced signature is cut short.
* Poll timeouts of more than 2^31-1 ms are cut to `int` (Connection.cpp:981), and may come
  out negative, which is for ever.

## 5. Proofs

All theorems hold for every value of the constants, under the named assumption of the
module, which only keeps names apart and, in `Messages`, the number of handles finite; in
`VTables` it says that names are integers, ordered as strings are, and that only properties
have setters, in `PollTimeouts` that the units are positive and the deadlines natural numbers.
Each proof has the shape: an inductive invariant, one lemma for each of its parts, one step
for each action in it, and the theorems as consequences.

| module | obligations | theorems |
|---|---|---|
| `EventLoopProofs` | 1034 | `TypeCorrect`, `NoSleepOverMessages`, `NoSleepOverDeadlines`, `LeaveIsSeen`, `BusIsSerialized`, `ExternalWakeInvariant`, `ExternalNoSleepOverMessages`, `ExternalNoSleepOverDeadlines`, `ExternalBusIsSerialized` |
| `AsyncCallsProofs` | 1131 | `TypeCorrect`, `LifeInvariant`, `SdBusPointersValid`, `NothingStuck`, `MemorySafe`, `EndMeansEnd`, `LocksAreOrdered`, `Refinement` |
| `ResultsProofs` | 718 | `ResultsInvariant`, `CoroutineOnOneThread`, `ResultsAreTrue`, `HandlersResumeAwaiters`, `ResultsAreHandedOver` |
| `SlotsProofs` | 788 | `SlotsInvariant`, `HandlersOnLiveObjects`, `NothingDeadlocks`, `ClosingIsClean`, `InfosHaveOneOwner`, `SlotsImplementRegistrations` |
| `StatementsProofs` | 1206 | `StatementsInvariant`, `StatementsSendOnce`, `CallsAnsweredOnce`, `CallersNotMisled`, `ReadsFollowWrites`, `StatementsAreAtomic` |
| `MessagesProofs` | 1321 | `MessagesInvariant`, `MessageReferencesCounted`, `CredentialsReturned`, `DescriptorsOwnedOnce` |
| `VTablesProofs` | 688 | `TablesInvariant`, `TablesTypeCorrect`, `MembersServedByName` |
| `PollTimeoutsProofs` | 333 | `TypesOK`, `PollsAreNeverEarly`, `PollsAreNeverLate` |

**EventLoop.** `QueuesAnnounced` and `DeadlinesAnnounced` are not inductive. The invariant
is `TypeOK /\ WakeInv`; `WakeInv` adds `CallsOK` (an operation works on a message nobody
else works on; no timer without a pending call) and `BaseFresh`: while the loop sleeps,
the `timeoutBefore` of a thread about to issue its call is no earlier than what the loop
sleeps on, or a wake-up is on its way, or the thread is in `raced`. That is the argument
behind the comparison `timeoutAfter < timeoutBefore` at Connection.cpp:703, and `raced`
is precisely where it breaks. `PromiseStays` and `CoveredStays` say that a thread on its
way to notify stays on its way until eventFd_ is set. **ExternalLoop** needs no new
invariant: a step of a foreign loop is a step of `EventLoop!Next` or leaves all that
`WakeInv` is about alone (`XStepIsStep`, `RoundsKeep`), because a foreign loop, too, reads
fresh poll data right before it polls.

`Serialized` is about pairs of states. Its invariant is `MutexOK`: the mutex names exactly
the thread that is in a blocking call, or the loop thread in a callback, and the loop
thread calls the API from callbacks only. It is inductive because a nested blocking call
gives the mutex back to the callback it was made from. `MutexHandedOver`: from a thread the
mutex goes to nobody, never straight to another thread; `SerialStep`: a step of anybody
else leaves the thread in sd-bus its reply, and all steps but those that only notify need the
mutex, those included that leave every thread where it is: a silent emit, which is seen by
the message it issues, and the reading of the poll data.
Under a foreign loop the same two lemmas apply, as its own rounds begin and end outside of
callbacks and leave the processing to the connection (`Rounds`).

**AsyncCalls.** An info is alive exactly while somebody refers to it (`RefsOK`), so the
last `Drop` is seen by one thread only and a dying info has one destructor
(`DyingOK`). The destructor takes `sdbusMutex_`, which the loop thread holds through a
handler (`HandlerOK`): when it frees the info, sd-bus has forgotten it, and no handler works
on it unless that handler ran the destructor itself (`FreedOK`). A `push_back` that comes
after the handler finds `finished` set (`FinishedOK`). What an operation is to end is out
of the container when it unlocks and cannot come back (`EndedOK`), so a closed call is
freed (`ClosedFacts`), which gives `NoCallbackAfterEnd` and the closing half of the refinement.
`ProxyOK`: the destructor of the proxy leaves an empty container, and nobody fills it again.

`NoDeadlock` says that waiting is well-founded: in every set of threads somebody waits for
nobody in it (`WaitsFor`). Who holds `mutex_` is about to release it, waits for nothing
(`SlotsMutexOK`), and that is so because `Unlock` comes before `Drop`; `sdbusMutex_` is
held across steps by the loop thread only, for its handler (`HandlerOK`). So a thread
waits for the holder of `mutex_`, or for the loop thread, and the loop thread for the
holder of `mutex_` only (`WaitsAreOrdered`).

**Results.** Whoever loses the race on `status` finds the work of the other: when the
status is "Waiting" the coroutine in `handle` is suspended in this very call
(`StatusOK`, `Parked`), so the handler may resume it; when the compare-exchange fails the result is
there (`HandlersOK`, `CoroutinesOK`). A handle has one coroutine, a coroutine one call. For the refinement of
`Handovers` that is not enough: `SuspendedOK` adds the converse, that a coroutine which is
suspended in a call has its handle there and either is "Waiting" or is about to be resumed.
Hence the exchange is the step that wakes (`CallImplements`), and no step of await_suspend
puts a coroutine to sleep after it (`CoroutineImplements`); that every other step is a
stutter follows from `ModeAfter` and `HandlerUnseen`.

**Slots.** sd-bus knows exactly the info objects that are alive (`MemoryOK`); a freed one
is nowhere, a living one in one place (`PlacesOK`); a thread that clears a vector has its
contents in hand and has the object to itself, except for releases of Slots, which are
not in the vector (`ThreadsOK`, `ApartOK`). Objects that are gone have left nothing
(`OwnersOK`). The refinement reads the abstract status off `registered` and `memory`.
`NoDeadlock`: what a thread has in hand to delete is alive or dying (`PlacesOK`), so it
waits for `sdbusMutex_` or for the loop to end, that is for a handler (`WaitsForHandler`);
the handler's thread has the mutex, and it never joins itself (`LoopStays`, an invariant of
its own).

**VTables.** `WrittenOK` gives every item that is written a place in the table of its kind,
its own, and leaves no place without an item. Sorting moves the items, so the places are
moved by the inverse of the permutation (`SortedFacts`); they are all that is left of the
application's order. When sd-bus has accepted the rows no name comes twice in a table of
methods or properties (`RowsOK`). `SearchOK` is the invariant of the bisection: the names
below the range are smaller than the one that is wanted, those from its end on are not. With
an empty range the row that sd-bus called back for is where it stands (`SearchFacts`), the
item in it has a callback, since `WriteRecord` refuses those that have none, and no other
item has its name. `DescribedOK` keeps one update behaviour per item, the last one set.

**Statements.** `StagesOK` ties the stage to the number of messages sent and to the
exceptions in flight: at the destructor either one more than at construction, or the
message is sent, or nothing is. `InboxOK`: messages are handled in the order in which they
were sent, a statement's own behind those it began after. So the property, once a Set has
taken effect, never again holds the initial value or that of a Set from before it
(`PropertyOK`), nor does a Get from after it return one: `ReadsLatest`. `RepliesOK` and `OutcomesOK` follow a reply to the caller. The refinement of
`RemoteCalls` has the sending of the message for `Issue`, the return or the error of the
handler, or of whoever keeps its Result, for `Perform` and `Refuse`, and the end of the
statement for `Succeed` and `GiveUp`; `UndecidedOK` says that nothing is told before.
`DecodedResult`: what is decoded is the result of a handler that has returned.

**Messages.** `RefsCounted` is inductive together with `KindsOK` and `OpsOK` (an
assignment under way has its target to itself and a source that lives); `Recount` says how
the number of handles moves with one handle. For descriptors the number is replaced by
owners: `DescriptorsOK` is `FdOwnedOnce` owner by owner, restated as `Owned` over what
each UnixFd owns (`Where`), with one lemma for each way in which an owner changes.

**PollTimeouts.** `Converted`, the added part of the invariant, keeps the argument of
`poll()` tied to the deadline and to the instant at which it was converted, whatever the
clock has done since. The arithmetic is in lemmas of its own (`Ceiling`, `TimeLeft`,
`CastToInt`), which add up to `PollTimeoutIsRight`: rounded down to microseconds, then up to
milliseconds, the time left is reached to within a microsecond and exceeded by less than
a millisecond.

Proved, but not named by a run: `UserDataAlive`, which `NoUseAfterFree` includes;
`ResumesAwaiter`, which the refinement of `Handovers` implies; `CredsReturned`; and for
foreign loops `QueuesAnnounced`, `DeadlinesAnnounced` and `Serialized`, which `event_loop`
checks.

Only model-checked: the liveness properties, since TLAPS does not handle ENABLED and
fairness (`MessagesDispatched`, `CallsExpire`, `LeaveReturns`, `NotificationsCleared`,
`AwaitersResumed`, `FuturesAnswered`, `OperationsReturn`, `StatementsEnd`); `ReadBack`,
`VariantConst` and `GeneratedAgree` of `Conversions`, whose operators recurse over types and
messages: what they compute for every input takes an induction over data, out of the
provers' reach; and the violations, which are counterexamples. Each inductive invariant was
checked by TLC on a small instance before it was proved.

## 6. Not modelled, and why

* Adaptor and proxy base classes, standard interfaces: templates that forward.
* The pseudo-connection behind plain messages (Message.cpp:926-956), re-created when its
  owner is gone, in exit handlers only, and not thread-safe by its own comment (923).
* Opening a bus: a chain of libsystemd calls whose first failure throws. Request and
  release of a name are blocking calls of `EventLoop`.
* Interface flags, error names, the string types; names, timeouts and layout in generated code,
  the XML parser.
* Errors of `poll()`, `eventfd` and `sd_bus_process`, which end the process; exceptions
  through the C callbacks of sd-event; attaching while attached; two application threads
  entering and leaving the loop at once.
* Use that the documentation rules out, listed with each module in section 2.
