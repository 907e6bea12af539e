------------------------------- MODULE UvSignal -------------------------------
(***************************************************************************)
(* Signal handles of libuv (src/unix/signal.c, and the part of             *)
(* uv__finish_close() in src/unix/core.c that waits for them).  The signal *)
(* handler runs on any thread, takes a lock and writes a message for every *)
(* handle to the loop's pipe; the loop reads the messages without the lock *)
(* and starts, stops and closes handles with it.  The loop blocks signals  *)
(* while it holds the lock and does not wait in between, so that what it   *)
(* does there is one action.                                               *)
(***************************************************************************)
EXTENDS Naturals, Sequences, FiniteSets, SequencesExt

CONSTANTS Signals,        \* uv_signal_t handles of the loop
          NoSignal,
          Numbers,        \* signal numbers
          NoNumber,       \* signum of a handle that is stopped: 0
          SignalPipeSize, \* messages the pipe holds
          MaxArrivals,    \* bound: signals that arrive
          MaxSignalUses   \* bound: calls of the user

ASSUME SignalAssumption ==
  /\ NoSignal \notin Signals /\ NoNumber \notin Numbers
  /\ SignalPipeSize \in Nat \ {0}
  /\ MaxArrivals \in Nat /\ MaxSignalUses \in Nat
  /\ IsFiniteSet(Signals)

VARIABLES
  signum,       \* handle->signum; the tree holds the handles that have one
  oneShot,      \* handles with UV_SIGNAL_ONE_SHOT: nothing takes the flag away
  disposition,  \* what sigaction() was told: "default", "catch", or "once"
  arrived,      \* numbers whose handler has been entered and waits for the lock
  handling,     \* the number whose handler holds the lock
  toNotify,     \* the handles it has still to write a message for
  wrote,        \* the handle it has written one for and has not yet counted
  messages,     \* loop->signal_pipefd
  reading,      \* the messages uv__signal_event() has read
  signalRuns,   \* the handle whose callback runs
  caught, dispatched,     \* handle->caught_signals, dispatched_signals
  signalClosing, signalClosed,
  heard,       \* history: handles called since they were started
  unheard,      \* history: handles whose start or signal went by unheard
  arrivals, signalUses    \* counters of the bounds

treeVars == <<signum, oneShot, disposition>>
handlerVars == <<arrived, handling, toNotify, wrote>>
dispatchVars == <<messages, reading, signalRuns>>
signalCounts == <<caught, dispatched>>
signalClose == <<signalClosing, signalClosed>>
signalHistory == <<heard, unheard>>
signalVars == <<treeVars, handlerVars, dispatchVars, signalCounts, signalClose,
                signalHistory, arrivals, signalUses>>

Messages == [to : Signals, number : Numbers]

SignalTypeOK ==
  /\ signum \in [Signals -> Numbers \cup {NoNumber}] /\ oneShot \in SUBSET Signals
  /\ disposition \in [Numbers -> {"default", "catch", "once"}]
  /\ arrived \in SUBSET Numbers /\ handling \in Numbers \cup {NoNumber}
  /\ toNotify \in SUBSET Signals /\ wrote \in Signals \cup {NoSignal}
  /\ messages \in Seq(Messages) /\ Len(messages) <= SignalPipeSize
  /\ reading \in Seq(Messages) /\ signalRuns \in Signals \cup {NoSignal}
  /\ caught \in [Signals -> 0..MaxArrivals] /\ dispatched \in [Signals -> 0..MaxArrivals]
  /\ signalClosing \in SUBSET Signals /\ signalClosed \in SUBSET signalClosing
  /\ heard \in SUBSET Signals /\ unheard \in SUBSET Signals
  /\ arrivals \in 0..MaxArrivals /\ signalUses \in 0..MaxSignalUses

SignalInit ==
  /\ signum = [h \in Signals |-> NoNumber] /\ oneShot = {}
  /\ disposition = [n \in Numbers |-> "default"]
  /\ arrived = {} /\ handling = NoNumber /\ toNotify = {} /\ wrote = NoSignal
  /\ messages = <<>> /\ reading = <<>> /\ signalRuns = NoSignal
  /\ caught = [h \in Signals |-> 0] /\ dispatched = [h \in Signals |-> 0]
  /\ signalClosing = {} /\ signalClosed = {}
  /\ heard = {} /\ unheard = {}
  /\ arrivals = 0 /\ signalUses = 0

Watching(n) == {h \in Signals : signum[h] = n}

-----------------------------------------------------------------------------
\* uv__signal_handler(), on whatever thread.

\* The kernel calls it; a handler set for once is reset at this moment.
SignalArrives(n) ==
  /\ arrivals < MaxArrivals /\ arrivals' = arrivals + 1
  /\ disposition[n] # "default" /\ n \notin arrived /\ handling # n
  /\ arrived' = arrived \cup {n}
  /\ disposition' = [disposition EXCEPT ![n] = IF @ = "once" THEN "default" ELSE @]
  /\ UNCHANGED <<signum, oneShot, handling, toNotify, wrote, dispatchVars, signalCounts,
                 signalClose, signalHistory, signalUses>>

HandlerLocks(n) ==
  /\ n \in arrived /\ handling = NoNumber
  /\ arrived' = arrived \ {n}
  /\ handling' = n /\ toNotify' = Watching(n)
  /\ UNCHANGED <<treeVars, wrote, dispatchVars, signalCounts, signalClose,
                 signalHistory, arrivals, signalUses>>

\* A message for the next handle; if the pipe is full "the user is out of luck".
HandlerWrites(h) ==
  /\ h \in toNotify /\ wrote = NoSignal
  /\ toNotify' = toNotify \ {h}
  /\ IF Len(messages) < SignalPipeSize
     THEN /\ messages' = Append(messages, [to |-> h, number |-> handling])
          /\ wrote' = h /\ UNCHANGED unheard
     ELSE unheard' = unheard \cup {h} /\ UNCHANGED <<messages, wrote>>
  /\ UNCHANGED <<treeVars, arrived, handling, reading, signalRuns, signalCounts,
                 signalClose, heard, arrivals, signalUses>>

HandlerCounts ==
  /\ wrote # NoSignal
  /\ caught' = [caught EXCEPT ![wrote] = @ + 1]
  /\ wrote' = NoSignal
  /\ UNCHANGED <<treeVars, arrived, handling, toNotify, dispatchVars, dispatched,
                 signalClose, signalHistory, arrivals, signalUses>>

HandlerUnlocks ==
  /\ handling # NoNumber /\ toNotify = {} /\ wrote = NoSignal
  /\ handling' = NoNumber
  /\ UNCHANGED <<treeVars, arrived, toNotify, wrote, dispatchVars, signalCounts,
                 signalClose, signalHistory, arrivals, signalUses>>

HandlerStep == \/ \E n \in Numbers : HandlerLocks(n)
               \/ \E h \in Signals : HandlerWrites(h)
               \/ HandlerCounts \/ HandlerUnlocks

-----------------------------------------------------------------------------
\* Starting and stopping.

LockIsFree == handling = NoNumber

\* User code runs in a callback, or while no message is being dispatched.
SignalUser == /\ signalRuns # NoSignal \/ reading = <<>>
              /\ signalUses < MaxSignalUses /\ signalUses' = signalUses + 1

\* The tree has the handles without the flag first, so that one look tells.
OnlyOneShots(watching) == watching \subseteq oneShot

\* uv_signal_start() and uv_signal_start_oneshot() of a handle that is stopped (one
\* that watches another number is stopped first): the handler is registered if
\* nobody watches the number, or if only one-shot handles do and this is not one.
StartSignal(h, n, once) ==
  /\ SignalUser /\ h \notin signalClosing /\ signum[h] = NoNumber /\ LockIsFree
  /\ LET registers == \/ Watching(n) = {}
                      \/ ~once /\ OnlyOneShots(Watching(n))
     IN
     /\ disposition' = IF registers
                       THEN [disposition EXCEPT ![n] = IF once THEN "once" ELSE "catch"]
                       ELSE disposition
     /\ unheard' = IF registers THEN unheard \ (Watching(n) \cup {h})
                   ELSE IF disposition[n] = "default" THEN unheard \cup {h}
                   ELSE unheard \ {h}
  /\ signum' = [signum EXCEPT ![h] = n]
  /\ oneShot' = IF once THEN oneShot \cup {h} ELSE oneShot
  /\ heard' = heard \ {h}
  /\ UNCHANGED <<handlerVars, dispatchVars, signalCounts, signalClose, arrivals>>

\* uv__signal_stop(), of a handle that is stopped already or with the lock: the
\* handler goes with the last handle, and is set for once if the last regular one goes.
SignalStops(h) ==
  IF signum[h] = NoNumber THEN UNCHANGED <<signum, disposition>>
  ELSE LET n == signum[h]
           others == Watching(n) \ {h}
       IN  /\ LockIsFree
           /\ signum' = [signum EXCEPT ![h] = NoNumber]
           /\ disposition' =
                IF others = {} THEN [disposition EXCEPT ![n] = "default"]
                ELSE IF OnlyOneShots(others) /\ h \notin oneShot
                THEN [disposition EXCEPT ![n] = "once"]
                ELSE disposition

StopSignal(h) ==
  /\ SignalUser /\ h \notin signalClosing /\ signum[h] # NoNumber
  /\ SignalStops(h)
  /\ UNCHANGED <<oneShot, handlerVars, dispatchVars, signalCounts, signalClose,
                 signalHistory, arrivals>>

\* uv_close(), uv__signal_close()
CloseSignal(h) ==
  /\ SignalUser /\ h \notin signalClosing
  /\ SignalStops(h)
  /\ signalClosing' = signalClosing \cup {h}
  /\ UNCHANGED <<oneShot, handlerVars, dispatchVars, signalCounts, signalClosed,
                 signalHistory, arrivals>>

-----------------------------------------------------------------------------
\* The loop.

\* uv__signal_event() reads what fits its buffer of 32 messages, and reads again when
\* those are dispatched: here, any part of what the pipe holds, the oldest first.
ReadsMessages ==
  /\ reading = <<>>
  /\ \E n \in 1..Len(messages) : /\ reading' = SubSeq(messages, 1, n)
                                 /\ messages' = SubSeq(messages, n + 1, Len(messages))
  /\ UNCHANGED <<treeVars, handlerVars, signalRuns, signalCounts, signalClose,
                 signalHistory, arrivals, signalUses>>

IsCurrent(m) == signum[m.to] = m.number

CallsSignal ==
  /\ reading # <<>> /\ signalRuns = NoSignal /\ IsCurrent(Head(reading))
  /\ signalRuns' = Head(reading).to /\ heard' = heard \cup {Head(reading).to}
  /\ UNCHANGED <<treeVars, handlerVars, messages, reading, signalCounts, signalClose,
                 unheard, arrivals, signalUses>>

\* The callback has returned, or there was none because the handle watches nothing
\* or another number now: the message is counted, and a one-shot handle stopped.
DispatchesMessage ==
  /\ reading # <<>>
  /\ signalRuns = Head(reading).to \/ (signalRuns = NoSignal /\ ~IsCurrent(Head(reading)))
  /\ LET h == Head(reading).to IN
       /\ dispatched' = [dispatched EXCEPT ![h] = @ + 1]
       /\ IF h \in oneShot THEN SignalStops(h) ELSE UNCHANGED <<signum, disposition>>
  /\ reading' = Tail(reading) /\ signalRuns' = NoSignal
  /\ UNCHANGED <<oneShot, handlerVars, messages, caught, signalClose, signalHistory,
                 arrivals, signalUses>>

\* uv__finish_close() at the end of an iteration: messages that are on their way
\* put the close callback off.
FinishesSignal(h) ==
  /\ reading = <<>> /\ h \in signalClosing \ signalClosed
  /\ caught[h] <= dispatched[h]
  /\ signalClosed' = signalClosed \cup {h}
  /\ UNCHANGED <<treeVars, handlerVars, dispatchVars, signalCounts, signalClosing,
                 signalHistory, arrivals, signalUses>>

SignalLoop == \/ ReadsMessages \/ CallsSignal \/ DispatchesMessage
              \/ \E h \in Signals : FinishesSignal(h)

SignalNext ==
  \/ \E n \in Numbers : SignalArrives(n)
  \/ HandlerStep \/ SignalLoop
  \/ \E h \in Signals : \/ StopSignal(h) \/ CloseSignal(h)
                        \/ \E n \in Numbers, once \in BOOLEAN : StartSignal(h, n, once)

SignalSpec == SignalInit /\ [][SignalNext]_signalVars

-----------------------------------------------------------------------------
\* Properties.

Underway == reading \o messages

MessagesTo(h) == {i \in DOMAIN Underway : Underway[i].to = h}

\* The two counters of a handle differ by the messages that are on their way to it,
\* whatever the loop and a signal handler do at once; what a closed handle was is
\* not touched any more, and no callback is about a handle that is being closed.
SignalsAreAccounted ==
  /\ \A h \in Signals :
       caught[h] + (IF wrote = h THEN 1 ELSE 0) = dispatched[h] + Cardinality(MessagesTo(h))
  /\ \A h \in signalClosed : MessagesTo(h) = {} /\ h \notin toNotify /\ wrote # h
  /\ \A i \in DOMAIN Underway : IsCurrent(Underway[i]) => Underway[i].to \notin signalClosing

\* The process handles a number that someone watches, or those who do are about to
\* be told.  Left out are the handles whose message the pipe had no room for, and
\* one-shot handles started when a signal had reset the handler and an earlier
\* one-shot handle had not yet been stopped: the code takes that for a handler.
WatchedIsHandled ==
  \A h \in Signals \ unheard :
    signum[h] # NoNumber /\ disposition[signum[h]] = "default" =>
      \/ signum[h] \in arrived
      \/ handling = signum[h] /\ h \in toNotify
      \/ \E i \in MessagesTo(h) : IsCurrent(Underway[i])

\* A one-shot handle is called at most once for each start, however many messages
\* other handles of the number have had written for it.
OneShotIsCalledOnce ==
  [][signalRuns' \in oneShot /\ signalRuns # signalRuns' =>
       signalRuns' \notin heard]_signalVars

\* Messages have to be dispatched, and closed handles to be called.
SignalIsOwed == Underway # <<>> \/ signalClosing # signalClosed
=============================================================================
