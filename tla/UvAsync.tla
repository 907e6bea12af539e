------------------------------- MODULE UvAsync -------------------------------
(***************************************************************************)
(* Waking the event loop from another thread: uv_async_send(), the loop's  *)
(* uv__async_io() and uv_close() of an async handle (libuv 1.48,           *)
(* src/unix/async.c), which the miner's core is linked with.  Senders run  *)
(* beside the loop without a lock; an action is one access to a variable   *)
(* they share.                                                             *)
(***************************************************************************)
EXTENDS Naturals, FiniteSets

CONSTANTS Asyncs,     \* the async handles of the loop
          Senders,    \* the threads that call uv_async_send()
          NoAsync,
          PipeSize    \* bytes the wakeup pipe holds

ASSUME AsyncAssumption == /\ NoAsync \notin Asyncs
                          /\ PipeSize \in Nat \ {0}
                          /\ IsFiniteSet(Senders)

VARIABLES
  pending,      \* handle->pending
  busy,         \* handle->u.fd: senders inside the section that close waits for
  sender,       \* where each sender is, and with which handle
  wakeups,      \* bytes in the loop's pipe
  asyncHandles, \* loop->async_handles: its order makes no difference
  asyncLeft,    \* the handles uv__async_io() has still to look at
  asyncCalled,  \* the handle whose callback runs
  closing,      \* the handle uv__async_spin() waits for
  gone          \* handles that are closed

asyncVars == <<pending, busy, sender, wakeups, asyncHandles, asyncLeft,
               asyncCalled, closing, gone>>

SenderStates == {"out", "entering", "marking", "waking", "leaving"}

AsyncTypeOK ==
  /\ pending \in [Asyncs -> BOOLEAN]
  /\ busy \in [Asyncs -> Nat]
  /\ sender \in [Senders -> [at : SenderStates, to : Asyncs \cup {NoAsync}]]
  /\ wakeups \in 0..PipeSize
  /\ asyncHandles \in SUBSET Asyncs /\ asyncLeft \in SUBSET Asyncs
  /\ asyncCalled \in Asyncs \cup {NoAsync}
  /\ closing \in Asyncs \cup {NoAsync}
  /\ gone \in SUBSET Asyncs

Out == [at |-> "out", to |-> NoAsync]

AsyncInit ==
  /\ pending = [h \in Asyncs |-> FALSE]
  /\ busy = [h \in Asyncs |-> 0]
  /\ sender = [p \in Senders |-> Out]
  /\ wakeups = 0
  /\ asyncHandles = Asyncs /\ asyncLeft = {}
  /\ asyncCalled = NoAsync /\ closing = NoAsync /\ gone = {}

-----------------------------------------------------------------------------
\* uv_async_send(), access by access.

At(p, h, place) == sender[p] = [at |-> place, to |-> h]
Go(p, h, place) == sender' = [sender EXCEPT ![p] = [at |-> place, to |-> h]]

loopVars == <<asyncHandles, asyncLeft, asyncCalled, closing, gone>>

\* The cheap read, of a handle that the application has not closed.
SendReads(p, h) ==
  /\ sender[p] = Out /\ h \notin gone /\ closing # h
  /\ ~pending[h]
  /\ Go(p, h, "entering")
  /\ UNCHANGED <<pending, busy, wakeups, loopVars>>

SendEnters(p, h) ==
  /\ At(p, h, "entering")
  /\ busy' = [busy EXCEPT ![h] = @ + 1]
  /\ Go(p, h, "marking")
  /\ UNCHANGED <<pending, wakeups, loopVars>>

\* atomic_exchange(pending, 1): only the one that finds it clear wakes the loop.
SendMarks(p, h) ==
  /\ At(p, h, "marking")
  /\ pending' = [pending EXCEPT ![h] = TRUE]
  /\ Go(p, h, IF pending[h] THEN "leaving" ELSE "waking")
  /\ UNCHANGED <<busy, wakeups, loopVars>>

\* uv__async_send(): a write to a full pipe is let go.
SendWakes(p, h) ==
  /\ At(p, h, "waking")
  /\ wakeups' = IF wakeups < PipeSize THEN wakeups + 1 ELSE wakeups
  /\ Go(p, h, "leaving")
  /\ UNCHANGED <<pending, busy, loopVars>>

SendLeaves(p, h) ==
  /\ At(p, h, "leaving")
  /\ busy' = [busy EXCEPT ![h] = @ - 1]
  /\ sender' = [sender EXCEPT ![p] = Out]
  /\ UNCHANGED <<pending, wakeups, loopVars>>

-----------------------------------------------------------------------------
\* The loop thread.

sendVars == <<busy, sender>>

\* uv__async_io() empties the pipe, then takes the list of handles.
AsyncDrains ==
  /\ wakeups > 0 /\ asyncLeft = {} /\ asyncCalled = NoAsync /\ closing = NoAsync
  /\ wakeups' = 0
  /\ asyncLeft' = asyncHandles /\ asyncHandles' = {}
  /\ UNCHANGED <<pending, sendVars, asyncCalled, closing, gone>>

\* Mutant: the pipe is emptied after the flags have been looked at.
AsyncTakesThenDrains(h) ==
  /\ h \in asyncLeft /\ asyncCalled = NoAsync /\ closing = NoAsync
  /\ asyncLeft' = asyncLeft \ {h}
  /\ asyncHandles' = asyncHandles \cup {h}
  /\ pending' = [pending EXCEPT ![h] = FALSE]
  /\ asyncCalled' = IF pending[h] THEN h ELSE NoAsync
  /\ wakeups' = IF asyncLeft = {h} THEN 0 ELSE wakeups
  /\ UNCHANGED <<sendVars, closing, gone>>

\* ... and looks at each of them: its callback runs if its flag was set.
AsyncTakes(h) ==
  /\ h \in asyncLeft /\ asyncCalled = NoAsync /\ closing = NoAsync
  /\ asyncLeft' = asyncLeft \ {h}
  /\ asyncHandles' = asyncHandles \cup {h}
  /\ pending' = [pending EXCEPT ![h] = FALSE]
  /\ asyncCalled' = IF pending[h] THEN h ELSE NoAsync
  /\ UNCHANGED <<sendVars, wakeups, closing, gone>>

\* The callback returns.
AsyncReturns ==
  /\ asyncCalled # NoAsync /\ closing = NoAsync
  /\ asyncCalled' = NoAsync
  /\ UNCHANGED <<pending, sendVars, wakeups, asyncHandles, asyncLeft, closing, gone>>

\* Mutant: the flag is left as it is while uv__async_spin() waits.
AsyncClosesOpen(h) ==
  /\ closing = NoAsync /\ h \notin gone
  /\ asyncLeft = {} \/ asyncCalled # NoAsync
  /\ closing' = h
  /\ UNCHANGED <<pending, sendVars, wakeups, asyncHandles, asyncLeft, asyncCalled,
                 gone>>

\* uv_close() of a handle by the loop thread, in a callback or between polls:
\* the flag is set for good, then uv__async_spin() waits for the senders inside.
AsyncCloses(h) ==
  /\ closing = NoAsync /\ h \notin gone
  /\ asyncLeft = {} \/ asyncCalled # NoAsync
  /\ closing' = h
  /\ pending' = [pending EXCEPT ![h] = TRUE]
  /\ UNCHANGED <<sendVars, wakeups, asyncHandles, asyncLeft, asyncCalled, gone>>

\* The handle leaves whichever list it is on.
AsyncClosed ==
  /\ closing # NoAsync /\ busy[closing] = 0
  /\ gone' = gone \cup {closing} /\ closing' = NoAsync
  /\ asyncHandles' = asyncHandles \ {closing}
  /\ asyncLeft' = asyncLeft \ {closing}
  /\ UNCHANGED <<pending, sendVars, wakeups, asyncCalled>>

Send(p) == \E h \in Asyncs : \/ SendReads(p, h) \/ SendEnters(p, h)
                             \/ SendMarks(p, h) \/ SendWakes(p, h)
                             \/ SendLeaves(p, h)

AsyncLoop == \/ AsyncDrains \/ AsyncReturns \/ AsyncClosed
             \/ \E h \in Asyncs : AsyncTakes(h)

AsyncNext == \/ \E p \in Senders : Send(p)
             \/ AsyncLoop
             \/ \E h \in Asyncs : AsyncCloses(h)

AsyncSpec == AsyncInit /\ [][AsyncNext]_asyncVars

-----------------------------------------------------------------------------
\* Properties.

\* A flag that is set is one the loop will find: a wakeup is in the pipe or on
\* its way there, or the loop is on its way to the handle.
NoSendIsLost ==
  \A h \in Asyncs \ gone :
    pending[h] /\ closing # h =>
      \/ wakeups > 0
      \/ \E p \in Senders : At(p, h, "waking")
      \/ h \in asyncLeft

\* Once uv_close() has returned nobody wakes the loop for the handle any more,
\* its memory may be reused: a sender that still enters finds the flag set.
NoWakeAfterClose ==
  \A h \in gone : /\ \A p \in Senders : ~At(p, h, "waking")
                  /\ h \notin asyncLeft
=============================================================================
