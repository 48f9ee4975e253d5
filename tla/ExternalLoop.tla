---------------------------- MODULE ExternalLoop ----------------------------
(***************************************************************************)
(* A Connection driven by somebody else's event loop, in one of two styles: *)
(* attached to an sd-event loop, or polled by a loop of the application that *)
(* follows the documentation of getEventLoopPollData and processPendingEvent.*)
(*                                                                         *)
(* The operations of the other threads and sd_bus_process are those of      *)
(* EventLoop. What differs is who polls, on which descriptors, and how a    *)
(* notification on eventFd_ is taken back.                                  *)
(***************************************************************************)
EXTENDS EventLoop

VARIABLES
    style,   \* "sd_event" or "custom"
    ready    \* event sources that are pending, not yet dispatched

xvars == <<vars, style, ready>>

Sources == {"io", "timer", "internal"}

\* loop is "dispatch" while an sd-event loop has sources to dispatch; only such
\* a loop, and no detached connection, has sources that are pending.
XTypeOK ==
    /\ style \in {"sd_event", "custom"}
    /\ ready \subseteq Sources
    /\ loop \in {"none", "process", "callback", "drained", "pollData", "poll", "dispatch", "clearEvent"}
    /\ ~exitFd
    /\ loop = "dispatch" => ready # {}
    /\ ready # {} => style = "sd_event" /\ loop # "none"

XInit == Init /\ style \in {"sd_event", "custom"} /\ ready = {}

Same == UNCHANGED <<style, ready>>

-----------------------------------------------------------------------------
\* attachSdEventLoop, or the first round of a custom loop.
Attach ==
    /\ loop = "none"
    /\ loop' = "pollData"
    /\ UNCHANGED <<bus, mutex, fds, pollTimeout, pollOut, api, hist, style, ready>>

\* detachSdEventLoop, from the thread of the loop and from no callback.
Detach ==
    /\ loop = "pollData"
    /\ loop' = "none" /\ ready' = {}
    /\ UNCHANGED <<bus, mutex, fds, pollTimeout, pollOut, api, hist, style>>

\* Mutant: the timer source keeps the time it had.
Prepare_KeepsTimer ==
    /\ loop = "pollData" /\ Free(Loop)
    /\ pollOut' = (wqueue # {})
    /\ loop' = "poll"
    /\ raced' = {t \in Callers : pc[t] = "callAsync"}
    /\ lossy' = FALSE
    /\ ready' = ready \ (IF pollOut' # pollOut THEN {"io"} ELSE {})
    /\ UNCHANGED <<bus, mutex, fds, api, pollTimeout, style>>

\* onSdEventPrepare: fresh poll data before every poll, set on the sources; a
\* source whose setting changes is no longer pending, the timer never is.
Prepare ==
    /\ ReadPollData
    /\ ready' = ready \ ({"timer"} \cup (IF pollOut' # pollOut THEN {"io"} ELSE {}))
    /\ UNCHANGED style

\* The timer source is off when the timeout is infinite.
Fires(s) ==
    CASE s = "io"       -> socket # {} \/ (pollOut /\ writable)
      [] s = "timer"    -> now >= pollTimeout
      [] s = "internal" -> eventFd

\* The loop does not sleep with a source pending from an earlier round.
SdEventPolls ==
    /\ style = "sd_event" /\ loop = "poll"
    /\ ready' = ready \cup {s \in Sources : Fires(s)} /\ ready' # {}
    /\ loop' = "dispatch"
    /\ UNCHANGED <<bus, mutex, fds, pollTimeout, pollOut, api, hist, style>>

\* Mutant: the timer callback only wakes the loop up.
SdEventDispatches_TimerIdle(s) ==
    /\ loop = "dispatch" /\ s \in ready
    /\ ready' = ready \ {s}
    /\ loop' = CASE s = "internal" -> "clearEvent" [] s = "timer" -> "pollData" [] OTHER -> "process"
    /\ UNCHANGED <<bus, mutex, fds, pollTimeout, pollOut, api, hist, style>>

\* One source a round, whichever: onSdIoEvent and onSdTimerEvent call
\* processPendingEvent, onSdInternalEvent clears eventFd_.
SdEventDispatches(s) ==
    /\ loop = "dispatch" /\ s \in ready
    /\ ready' = ready \ {s}
    /\ loop' = IF s = "internal" THEN "clearEvent" ELSE "process"
    /\ UNCHANGED <<bus, mutex, fds, pollTimeout, pollOut, api, hist, style>>

\* A custom loop calls processPendingEvent whatever woke it up; this is the
\* only way it has to clear eventFd_.
CustomPolls ==
    /\ style = "custom" /\ loop = "poll"
    /\ \E s \in Sources : Fires(s)
    /\ loop' = "process"
    /\ UNCHANGED <<bus, mutex, fds, pollTimeout, pollOut, api, hist>> /\ Same

\* A signal interrupts a poll that would sleep.
PollEndsEarly ==
    /\ loop = "poll" /\ ready = {} /\ \A s \in Sources : ~Fires(s)
    /\ loop' = IF style = "custom" THEN "process" ELSE "pollData"
    /\ UNCHANGED <<bus, mutex, fds, pollTimeout, pollOut, api, hist>> /\ Same

\* sd_bus_process and its callbacks, as in EventLoop.
Process ==
    /\ \/ \E c \in AsyncCalls : DispatchTimeout(c)
       \/ DispatchWriteQueue
       \/ \E m \in Incoming : DispatchMessage(m)
       \/ CallbackReturns
       \/ NothingToProcess
       \/ ClearEventFd
       \/ AcknowledgeEvent
    /\ Same

ExternalStep ==
    \/ Prepare
    \/ SdEventPolls
    \/ \E s \in Sources : SdEventDispatches(s)
    \/ CustomPolls
    \/ Process

\* The operations of the other threads, but for leaveEventLoop.
ApiStep(t) ==
    /\ \/ \E m \in Sends : SendMessage(t, m)
       \/ \E m \in SilentSends : EmitSilently(t, m)
       \/ \E c \in Blocking : CallMethod(t, c)
       \/ \E c \in AsyncCalls : ReadTimeoutBefore(t, c) \/ ReleaseSlot(t, c)
       \/ Continues(t)
    /\ Same

Around ==
    /\ \/ \E m \in Signals : PeerSignals(m)
       \/ \E c \in Calls : PeerReplies(c)
       \/ KernelDrains
       \/ Tick
    /\ Same

XNext ==
    \/ Attach \/ Detach
    \/ ExternalStep
    \/ PollEndsEarly
    \/ \E t \in Callers : ApiStep(t)
    \/ Around

XSpec == XInit /\ [][XNext]_xvars

\* The loop of the application keeps running; the rest is as in EventLoop.
XFairSpec ==
    /\ XSpec
    /\ WF_xvars(ExternalStep)
    /\ SF_xvars(CallbackReturns /\ Same)
    /\ \A t \in Callers : WF_xvars(Continues(t) /\ Same)
    /\ \A t \in Callers : WF_xvars((CallSucceeds(t) \/ CallFails(t)) /\ Same)
    /\ WF_xvars(KernelDrains /\ Same)
    /\ WF_xvars(Tick /\ Same)

-----------------------------------------------------------------------------
(* Properties. QueuesAnnounced, DeadlinesAnnounced, MessagesDispatched and  *)
(* CallsExpire of EventLoop are asked of these loops, too.                  *)

\* A notification is taken back: eventFd_ does not stay readable, which would
\* make the loop spin, although nothing but processPendingEvent returning false
\* clears it in a custom loop.
NotificationsCleared == eventFd ~> (~eventFd \/ ~Running)
=============================================================================
