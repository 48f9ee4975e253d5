------------------------------ MODULE PollTimeouts ------------------------------
(***************************************************************************)
(* How an event loop waits for a deadline of sd-bus: it asks for the poll    *)
(* data, converts the absolute deadline into what poll() takes, polls, and   *)
(* processes, over and over, while the clock goes on.  Three resolutions     *)
(* meet here: the clock is read in nanoseconds (Utils.h), the deadline of    *)
(* sd-bus is in microseconds, poll() counts milliseconds in an int.          *)
(***************************************************************************)
EXTENDS Integers

CONSTANTS
    NsPerUs,    \* nanoseconds in a microsecond
    UsPerMs,    \* microseconds in a millisecond
    MaxInt,     \* of the int that poll() takes
    Deadlines,  \* that sd-bus may answer with, in microseconds of the clock;
                \* 0 is its request to be processed at once
    MaxClock    \* bound on the clock, in nanoseconds

ASSUME ClockAssumption ==
    /\ NsPerUs \in Nat \ {0} /\ UsPerMs \in Nat \ {0}
    /\ MaxInt \in Nat /\ MaxClock \in Nat
    /\ Deadlines \subseteq Nat

Infinite == -1

VARIABLES
    clock,    \* CLOCK_MONOTONIC
    stage,    \* "process", "ready" to poll, "polling", or "expired"
    deadline, \* of the last poll data
    read,     \* when it was converted
    ms,       \* into this argument for poll()
    entered   \* when poll() was entered

vars == <<clock, stage, deadline, read, ms, entered>>

Init ==
    /\ clock = 0 /\ stage = "process"
    /\ deadline = Infinite /\ read = 0 /\ ms = -1 /\ entered = 0

-----------------------------------------------------------------------------
\* Mutant: the clock is subtracted in milliseconds of its own.
RelativeTimeout_WholeClock(timeout, now) ==
    IF timeout \in {0, Infinite} THEN timeout
    ELSE LET started == (now \div (NsPerUs * UsPerMs)) * UsPerMs
         IN  IF timeout > started THEN timeout - started ELSE 0

\* getRelativeTimeout: duration_cast drops the fraction of a microsecond.
RelativeTimeout(timeout, now) ==
    IF timeout \in {0, Infinite} THEN timeout
    ELSE IF timeout * NsPerUs > now THEN (timeout * NsPerUs - now) \div NsPerUs
    ELSE 0

\* A conversion to int keeps the low bits.
AsInt(n) == ((n + MaxInt + 1) % (2 * (MaxInt + 1))) - (MaxInt + 1)

\* Mutant: the fraction of a millisecond is dropped, too.
PollTimeout_Floor(timeout, now) ==
    LET relative == RelativeTimeout(timeout, now)
    IN  IF relative = Infinite THEN -1 ELSE AsInt(relative \div UsPerMs)

\* getPollTimeout.
PollTimeout(timeout, now) ==
    LET relative == RelativeTimeout(timeout, now)
    IN  IF relative = Infinite THEN -1
        ELSE AsInt((relative + UsPerMs - 1) \div UsPerMs)

-----------------------------------------------------------------------------
Tick ==
    /\ clock < MaxClock /\ clock' = clock + 1
    /\ UNCHANGED <<stage, deadline, read, ms, entered>>

\* processPendingEvent until nothing is left; then getEventLoopPollData and, on
\* what it returns, getPollTimeout.
GetPollTimeout ==
    /\ stage = "process"
    /\ deadline' \in Deadlines \cup {Infinite}
    /\ read' = clock
    /\ ms' = PollTimeout(deadline', clock)
    /\ stage' = "ready"
    /\ UNCHANGED <<clock, entered>>

\* The loop has been preempted, or has built its array of descriptors.
EnterPoll ==
    /\ stage = "ready"
    /\ stage' = "polling" /\ entered' = clock
    /\ UNCHANGED <<clock, deadline, read, ms>>

\* When poll() that does not see any event gives up; a negative timeout never.
Ends == entered + ms * UsPerMs * NsPerUs

PollTimesOut ==
    /\ stage = "polling" /\ ms >= 0 /\ clock >= Ends
    /\ stage' = "expired"
    /\ UNCHANGED <<clock, deadline, read, ms, entered>>

\* A descriptor is ready.
PollReturns ==
    /\ stage = "polling"
    /\ stage' = "process"
    /\ UNCHANGED <<clock, deadline, read, ms, entered>>

Process ==
    /\ stage = "expired"
    /\ stage' = "process"
    /\ UNCHANGED <<clock, deadline, read, ms, entered>>

Next == Tick \/ GetPollTimeout \/ EnterPoll \/ PollTimesOut \/ PollReturns \/ Process

Spec == Init /\ [][Next]_vars
-----------------------------------------------------------------------------
TypeOK ==
    /\ clock \in 0..MaxClock
    /\ stage \in {"process", "ready", "polling", "expired"}
    /\ deadline \in Deadlines \cup {Infinite}
    /\ read \in 0..clock /\ entered \in 0..clock
    /\ ms \in -(MaxInt + 1)..MaxInt

\* The time left is not more than an int holds in milliseconds; later deadlines
\* are cut to int, and may come out negative.
Fits == deadline * NsPerUs - read <= MaxInt * UsPerMs * NsPerUs

\* A poll that has timed out has not done so early, so that sd-bus has something
\* to process: its deadline is over, or over within the current microsecond.  In
\* between, the loop may have been preempted (PollData::getPollTimeout; "the I/O
\* call should block for that up to the returned PollData::timeout").
NeverEarly ==
    stage = "expired" /\ Fits => clock + NsPerUs > deadline * NsPerUs

\* poll() waits for ever only if there is no deadline, and otherwise gives up
\* less than a millisecond after the deadline, or after it was entered if the
\* deadline was over by then; time lost between the conversion and the poll comes
\* on top.
NeverLate ==
    stage = "polling" =>
        /\ deadline = Infinite => ms = -1
        /\ deadline # Infinite /\ Fits =>
            /\ ms >= 0
            /\ deadline * NsPerUs <= read => ms = 0
            /\ deadline * NsPerUs > read =>
                Ends < deadline * NsPerUs + UsPerMs * NsPerUs + (entered - read)
=============================================================================
