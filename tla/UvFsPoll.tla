------------------------------- MODULE UvFsPoll -------------------------------
(***************************************************************************)
(* A uv_fs_poll_t handle of libuv (src/fs-poll.c): it stats a path, waits  *)
(* for a timer, stats it again, and so on.  Every start makes a context    *)
(* with a timer and a request of its own; a context whose request is under *)
(* way, or whose timer is due, outlives the stop, so that contexts of      *)
(* several starts hang on the handle's list, newest first, and the handle  *)
(* is closed with the last.                                                *)
(***************************************************************************)
EXTENDS Naturals, UvQueue

CONSTANT MaxStarts     \* bound: how often the handle is started

ASSUME FsPollAssumption == MaxStarts \in Nat

VARIABLES
  contexts,     \* handle->poll_ctx and its previous: contexts by number
  context,      \* what each does: its request, its timer
  pollActive,   \* uv_is_active(handle)
  pollClosing, pollPending, pollClosed,   \* CLOSING, in closing_handles, CLOSED
  polls,        \* the context whose poll_cb() is in user code
  starts,       \* counter of the bound: the number of the newest context
  overlapped    \* history: the handle was started while the request of an older
                \* context was under way or its timer due

pollEnd == <<pollClosing, pollPending, pollClosed>>
fsPollVars == <<contexts, context, pollActive, pollEnd, polls, starts, overlapped>>

Contexts == 1..MaxStarts

\* "timer": its timer is in the heap; "due": uv__run_timers() has taken it out, which
\* makes it inactive, and is yet to call it.
ContextStates == {"none", "stat", "timer", "due", "timerClosing", "freed"}

FsPollTypeOK ==
  /\ contexts \in Seq(Contexts)
  /\ context \in [Contexts -> ContextStates]
  /\ pollActive \in BOOLEAN /\ overlapped \in BOOLEAN
  /\ pollClosing \in BOOLEAN /\ pollPending \in BOOLEAN /\ pollClosed \in BOOLEAN
  /\ polls \in Contexts \cup {0} /\ starts \in 0..MaxStarts

FsPollInit ==
  /\ contexts = <<>> /\ context = [c \in Contexts |-> "none"]
  /\ pollActive = FALSE
  /\ pollClosing = FALSE /\ pollPending = FALSE /\ pollClosed = FALSE
  /\ polls = 0 /\ starts = 0 /\ overlapped = FALSE

Becomes(c, state) == context' = [context EXCEPT ![c] = state]

\* uv_fs_poll_start()
StartPolling ==
  /\ ~pollActive /\ ~pollClosing /\ starts < MaxStarts
  /\ starts' = starts + 1
  /\ contexts' = <<starts'>> \o contexts
  /\ Becomes(starts', "stat")
  /\ pollActive' = TRUE
  /\ overlapped' = (overlapped \/ \E c \in Contexts : context[c] \in {"stat", "due"})
  /\ UNCHANGED <<pollEnd, polls>>

\* uv_fs_poll_stop() closes the timer if it is active.  It is not while the request of
\* the context is under way, nor when it is due: then it is left to fire.
PollingStops ==
  /\ pollActive' = FALSE
  /\ context' = IF pollActive /\ context[Head(contexts)] = "timer"
                THEN [context EXCEPT ![Head(contexts)] = "timerClosing"]
                ELSE context

StopPolling ==
  /\ pollActive /\ PollingStops
  /\ UNCHANGED <<contexts, pollEnd, polls, starts, overlapped>>

\* uv_close(), uv__fs_poll_close()
ClosePolling ==
  /\ ~pollClosing /\ PollingStops
  /\ pollClosing' = TRUE
  /\ pollPending' = (contexts = <<>>)
  /\ UNCHANGED <<contexts, pollClosed, polls, starts, overlapped>>

Live == pollActive /\ ~pollClosing

\* The end of poll_cb(): another round, or the end of the context.
EndsPoll(c) == Becomes(c, IF Live THEN "timer" ELSE "timerClosing")

\* uv__run_timers() calls all that are due before the loop does anything else.
NoneDue == \A c \in Contexts : context[c] # "due"

\* poll_cb(): the request is answered; if something has changed the user is told.
StatReturns(c) ==
  /\ polls = 0 /\ NoneDue /\ context[c] = "stat"
  /\ \/ Live /\ polls' = c /\ UNCHANGED context
     \/ EndsPoll(c) /\ UNCHANGED polls
  /\ UNCHANGED <<contexts, pollActive, pollEnd, starts, overlapped>>

UserReturns ==
  /\ polls # 0
  /\ EndsPoll(polls) /\ polls' = 0
  /\ UNCHANGED <<contexts, pollActive, pollEnd, starts, overlapped>>

\* uv__run_timers() first takes every timer that is due out of the heap.
TimersDue ==
  /\ polls = 0 /\ NoneDue
  /\ \E due \in (SUBSET {c \in Contexts : context[c] = "timer"}) \ {{}} :
       context' = [c \in Contexts |-> IF c \in due THEN "due" ELSE context[c]]
  /\ UNCHANGED <<contexts, pollActive, pollEnd, polls, starts, overlapped>>

\* timer_cb(), in a build where an assertion that fails does not end the program.
TimerFires(c) ==
  /\ context[c] = "due"
  /\ Becomes(c, "stat")
  /\ UNCHANGED <<contexts, pollActive, pollEnd, polls, starts, overlapped>>

\* timer_close_cb() takes the context off the list; with the last one of a handle
\* that is being closed, its close callback becomes due.
TimerClosed(c) ==
  /\ polls = 0 /\ NoneDue /\ context[c] = "timerClosing"
  /\ Becomes(c, "freed")
  /\ contexts' = Unlink(c, contexts)
  /\ pollPending' = (pollPending \/ (contexts' = <<>> /\ pollClosing))
  /\ UNCHANGED <<pollActive, pollClosing, pollClosed, polls, starts, overlapped>>

FinishesPoll ==
  /\ polls = 0 /\ NoneDue /\ pollPending /\ ~pollClosed
  /\ pollClosed' = TRUE
  /\ UNCHANGED <<contexts, context, pollActive, pollClosing, pollPending, polls, starts,
                 overlapped>>

FsPollLoop == \/ UserReturns \/ TimersDue \/ FinishesPoll
              \/ \E c \in Contexts : StatReturns(c) \/ TimerFires(c) \/ TimerClosed(c)

FsPollNext == StartPolling \/ StopPolling \/ ClosePolling \/ FsPollLoop

FsPollSpec == FsPollInit /\ [][FsPollNext]_fsPollVars

-----------------------------------------------------------------------------
\* Properties.

\* The list holds the contexts that exist, newest first, and a handle is not closed
\* before the last of them is freed: each refers to the handle.
ContextsAreListed ==
  /\ ToSet(contexts) = {c \in Contexts : context[c] \notin {"none", "freed"}}
  /\ \A i, j \in DOMAIN contexts : i < j => contexts[i] > contexts[j]
  /\ pollPending => pollClosing /\ contexts = <<>>

\* A timer in the heap is that of the newest context of an active handle, and one that
\* is due that of the newest context, which timer_cb() asserts, though the handle may
\* have been stopped by a callback before it.  Both hold only for a handle that was
\* never started while an older context had its request under way or its timer due:
\* the older one would find the handle active and go on beside the new one, and the
\* assertion fails.
TimersAreCurrent ==
  ~overlapped => \A c \in Contexts :
                   /\ context[c] = "timer" => pollActive /\ c = Head(contexts)
                   /\ context[c] = "due" => c = Head(contexts)

\* A handle that is being closed has yet to be called.
PollIsOwed == pollClosing /\ ~pollClosed
=============================================================================
