-------------------------------- MODULE UvPoll --------------------------------
(***************************************************************************)
(* The I/O watchers of a libuv loop (src/unix/core.c, uv__io_start() to    *)
(* uv__io_feed()) and the poll that calls them (src/unix/kqueue.c, the     *)
(* backend of iOS).  The users of a watcher are the streams                *)
(* (src/unix/stream.c): they start and stop reading in any callback, start *)
(* writing in any callback, and stop writing in the callback of their own  *)
(* descriptor.  A callback is user code: it does any of this, to any       *)
(* watcher, any number of times.  Descriptors are numbered as the kernel   *)
(* does: the lowest free number is used again.                             *)
(***************************************************************************)
EXTENDS Naturals

CONSTANTS Watchers,
          NoWatcher,
          SignalWatcher,  \* loop->signal_io_watcher, one of the watchers or none
          MaxFd,
          NoFd,
          MaxOps,         \* bound: calls made by callbacks
          MaxRounds       \* rounds of pending callbacks after a poll (8)

ASSUME PollAssumption == /\ NoWatcher \notin Watchers
                         /\ MaxFd \in Nat /\ MaxOps \in Nat /\ MaxRounds \in Nat
                         /\ NoFd \notin Nat

Fds == 0..MaxFd
Filters == {"in", "out"}

VARIABLES
  fd,           \* w->fd
  pevents,      \* what the user wants to be told of
  events,       \* what the kernel was last told of
  table,        \* loop->watchers
  queued,       \* loop->watcher_queue: its order makes no difference
  fed,          \* loop->pending_queue, in no order as those that follow
  feeding,      \* the part of it that uv__run_pending() has still to call
  rounds,       \* rounds of it after the poll
  armed,        \* the kernel: the filters of each descriptor
  batch,        \* the events kevent() returned and uv__io_poll() has yet to see
  anyEvent,     \* nevents > 0
  haveSignals,
  place,        \* where the loop is
  called,       \* the watcher whose callback runs
  reason,       \* history: for whom the event of that callback was reported
  closed,       \* watchers that were closed
  ops           \* counter of the bound

ioVars == <<fd, pevents, events, table, queued>>
pendingVars == <<fed, feeding, rounds>>
batchVars == <<armed, batch, anyEvent, haveSignals>>
whereVars == <<place, called, reason>>
pollVars == <<ioVars, pendingVars, batchVars, whereVars, closed, ops>>

\* "other": the rest of the iteration, where timers and others call user code.
Places == {"other", "pending", "poll", "events", "after"}

Event == [ident : Fds, filter : Filters, for : Watchers]

PollTypeOK ==
  /\ fd \in [Watchers -> Fds \cup {NoFd}]
  /\ pevents \in [Watchers -> SUBSET Filters]
  /\ events \in [Watchers -> SUBSET Filters]
  /\ table \in [Fds -> Watchers \cup {NoWatcher}]
  /\ queued \in SUBSET Watchers
  /\ fed \in SUBSET Watchers /\ feeding \in SUBSET Watchers
  /\ rounds \in 0..MaxRounds
  /\ armed \in [Fds -> SUBSET Filters]
  /\ batch \in SUBSET Event
  /\ anyEvent \in BOOLEAN /\ haveSignals \in BOOLEAN
  /\ place \in Places
  /\ called \in Watchers \cup {NoWatcher} /\ reason \in Watchers \cup {NoWatcher}
  /\ closed \in SUBSET Watchers
  /\ ops \in 0..MaxOps

PollInit ==
  /\ fd = [w \in Watchers |-> NoFd]
  /\ pevents = [w \in Watchers |-> {}] /\ events = [w \in Watchers |-> {}]
  /\ table = [n \in Fds |-> NoWatcher]
  /\ queued = {} /\ fed = {} /\ feeding = {} /\ rounds = 0
  /\ armed = [n \in Fds |-> {}]
  /\ batch = {} /\ anyEvent = FALSE /\ haveSignals = FALSE
  /\ place = "other" /\ called = NoWatcher /\ reason = NoWatcher
  /\ closed = {} /\ ops = 0

-----------------------------------------------------------------------------
\* What callbacks do.

InCallback == place = "other" \/ called # NoWatcher

Call == InCallback /\ ops < MaxOps /\ ops' = ops + 1

IsOpen(w) == fd[w] # NoFd

FreeFds == {n \in Fds : \A w \in Watchers : fd[w] # n}

\* A new descriptor, and uv__io_init().
Open(w) ==
  /\ Call /\ ~IsOpen(w) /\ w \notin closed
  /\ \E n \in FreeFds : /\ \A m \in FreeFds : n <= m
                        /\ fd' = [fd EXCEPT ![w] = n]
  /\ UNCHANGED <<pevents, events, table, queued, pendingVars, batchVars, whereVars,
                 closed>>

\* uv__io_start(): nothing to tell the kernel if it was told of the same events.
IoStart(w, filter) ==
  LET wanted == pevents[w] \cup {filter} IN
  /\ pevents' = [pevents EXCEPT ![w] = wanted]
  /\ IF events[w] = wanted
     THEN UNCHANGED <<queued, table>>
     ELSE /\ queued' = queued \cup {w}
          /\ table' = IF table[fd[w]] = NoWatcher THEN [table EXCEPT ![fd[w]] = w]
                                                  ELSE table
  /\ UNCHANGED <<fd, events>>

\* Mutant: a watcher that wants nothing any more stays queued.
IoStopQueued(w, filters) ==
  LET wanted == pevents[w] \ filters IN
  /\ pevents' = [pevents EXCEPT ![w] = wanted]
  /\ events' = [events EXCEPT ![w] = IF wanted = {} THEN {} ELSE @]
  /\ table' = IF wanted = {} /\ table[fd[w]] = w
              THEN [table EXCEPT ![fd[w]] = NoWatcher] ELSE table
  /\ queued' = queued \cup {w}

\* The part of uv__io_stop() that follows its early returns.
IoStop(w, filters) ==
  LET wanted == pevents[w] \ filters IN
  /\ pevents' = [pevents EXCEPT ![w] = wanted]
  /\ IF wanted = {}
     THEN /\ queued' = queued \ {w}
          /\ events' = [events EXCEPT ![w] = {}]
          /\ table' = IF table[fd[w]] = w THEN [table EXCEPT ![fd[w]] = NoWatcher]
                                          ELSE table
     ELSE queued' = queued \cup {w} /\ UNCHANGED <<events, table>>

\* uv_read_start(), and a write that could not be finished at once.
Start(w, filter) ==
  /\ Call /\ IsOpen(w) /\ filter \notin pevents[w]
  /\ IoStart(w, filter)
  /\ UNCHANGED <<pendingVars, batchVars, whereVars, closed>>

\* uv_read_stop(), and uv__drain() in the watcher's own callback.
Stop(w, filter) ==
  /\ Call /\ IsOpen(w) /\ filter \in pevents[w]
  /\ filter = "out" => called = w
  /\ IoStop(w, {filter})
  /\ UNCHANGED <<fd, pendingVars, batchVars, whereVars, closed>>

\* uv__io_feed()
Feed(w) ==
  /\ Call /\ IsOpen(w)
  /\ fed' = IF w \in feeding THEN fed ELSE fed \cup {w}
  /\ UNCHANGED <<ioVars, feeding, rounds, batchVars, whereVars, closed>>

\* uv__platform_invalidate_fd(): the events of a descriptor will be skipped.
Invalidated(n) == {e \in batch : e.ident # n}

\* Mutant: the events that were reported for the descriptor stay.
CloseStale(w) ==
  /\ Call /\ IsOpen(w)
  /\ IoStop(w, Filters)
  /\ fed' = fed \ {w} /\ feeding' = feeding \ {w}
  /\ armed' = [armed EXCEPT ![fd[w]] = {}]
  /\ fd' = [fd EXCEPT ![w] = NoFd]
  /\ closed' = closed \cup {w}
  /\ UNCHANGED <<batch, rounds, anyEvent, haveSignals, whereVars>>

\* Mutant: a watcher that was fed stays on the list of pending callbacks.
CloseFed(w) ==
  /\ Call /\ IsOpen(w)
  /\ IoStop(w, Filters)
  /\ batch' = Invalidated(fd[w])
  /\ armed' = [armed EXCEPT ![fd[w]] = {}]
  /\ fd' = [fd EXCEPT ![w] = NoFd]
  /\ closed' = closed \cup {w}
  /\ UNCHANGED <<pendingVars, anyEvent, haveSignals, whereVars>>

\* uv__io_close(), and close() of the descriptor: its filters go with it.
Close(w) ==
  /\ Call /\ IsOpen(w)
  /\ IoStop(w, Filters)
  /\ fed' = fed \ {w} /\ feeding' = feeding \ {w}
  /\ batch' = Invalidated(fd[w])
  /\ armed' = [armed EXCEPT ![fd[w]] = {}]
  /\ fd' = [fd EXCEPT ![w] = NoFd]
  /\ closed' = closed \cup {w}
  /\ UNCHANGED <<rounds, anyEvent, haveSignals, whereVars>>

\* The signal watcher belongs to the loop, which only reads with it.
Use(w) == \/ Open(w) \/ Start(w, "in")
          \/ w # SignalWatcher /\ (Feed(w) \/ Close(w) \/ Start(w, "out"))
          \/ w # SignalWatcher /\ \E filter \in Filters : Stop(w, filter)

-----------------------------------------------------------------------------
\* The loop.

Quiet == called = NoWatcher

quietVars == <<fd, pevents, table, closed, ops>>

\* uv__run_pending() takes the list as it is, before the poll ...
TakesPending ==
  /\ place = "other" /\ Quiet
  /\ place' = "pending"
  /\ feeding' = fed /\ fed' = {}
  /\ UNCHANGED <<ioVars, rounds, batchVars, called, reason, closed, ops>>

\* ... and calls each watcher on it.
CallsPending(w) ==
  /\ place \in {"pending", "after"} /\ Quiet /\ w \in feeding
  /\ called' = w /\ reason' = w
  /\ feeding' = feeding \ {w}
  /\ UNCHANGED <<ioVars, fed, rounds, batchVars, place, closed, ops>>

EntersPoll ==
  /\ place = "pending" /\ Quiet /\ feeding = {}
  /\ place' = "poll"
  /\ UNCHANGED <<ioVars, pendingVars, batchVars, called, reason, closed, ops>>

\* The kernel is told of every queued watcher: filters are only ever added.
Registers ==
  /\ armed' = [n \in Fds |->
       armed[n] \cup UNION {pevents[w] \ events[w] : w \in {v \in queued : fd[v] = n}}]
  /\ events' = [w \in Watchers |-> IF w \in queued THEN pevents[w] ELSE events[w]]
  /\ queued' = {}

Reported(n, filter) == [ident |-> n, filter |-> filter,
                        for |-> CHOOSE w \in Watchers : fd[w] = n]

\* kevent() returns some of the filters that are armed, in any order; there is
\* nothing to wait for if no watcher is in the table.
PollReports ==
  /\ place = "poll" /\ \E n \in Fds : table[n] # NoWatcher
  /\ Registers
  /\ \E ready \in SUBSET {e \in Fds \X Filters : e[2] \in armed'[e[1]]} \ {{}} :
       batch' = {Reported(e[1], e[2]) : e \in ready}
  /\ anyEvent' = FALSE /\ haveSignals' = FALSE
  /\ place' = "events"
  /\ UNCHANGED <<quietVars, pendingVars, called, reason>>

AfterPoll == /\ place' = "after"
             /\ rounds' = 0
             /\ UNCHANGED <<fed, feeding>>

\* The time is over, or there is no watcher.
PollTimesOut ==
  /\ place = "poll"
  /\ IF \A n \in Fds : table[n] = NoWatcher
     THEN UNCHANGED <<armed, events, queued>>
     ELSE Registers
  /\ AfterPoll
  /\ UNCHANGED <<quietVars, batch, anyEvent, haveSignals, called, reason>>

\* The next event of the batch: one that nobody wants is disarmed, that of the
\* signal watcher is put off.
SeesEvent(e) ==
  /\ place = "events" /\ Quiet /\ e \in batch
  /\ LET w == table[e.ident]
         wanted == w # NoWatcher /\ e.filter \in pevents[w]
     IN  /\ armed' = IF wanted THEN armed
                     ELSE [armed EXCEPT ![e.ident] = @ \ {e.filter}]
         /\ haveSignals' = (haveSignals \/ (wanted /\ w = SignalWatcher))
         /\ anyEvent' = (anyEvent \/ wanted)
         /\ IF wanted /\ w # SignalWatcher
            THEN called' = w /\ reason' = e.for
            ELSE UNCHANGED <<called, reason>>
  /\ batch' = batch \ {e}
  /\ UNCHANGED <<ioVars, pendingVars, place, closed, ops>>

CallsSignals ==
  /\ place = "events" /\ Quiet /\ batch = {} /\ haveSignals
  /\ called' = SignalWatcher /\ reason' = SignalWatcher
  /\ haveSignals' = FALSE
  /\ UNCHANGED <<ioVars, pendingVars, armed, batch, anyEvent, place, closed, ops>>

\* The batch is done; if it held nothing of interest and time is left, the
\* kernel is asked again.
EndsBatch ==
  /\ place = "events" /\ Quiet /\ batch = {} /\ ~haveSignals
  /\ \/ AfterPoll
     \/ ~anyEvent /\ fed = {} /\ place' = "poll" /\ UNCHANGED pendingVars
  /\ UNCHANGED <<ioVars, batchVars, called, reason, closed, ops>>

\* Callbacks that were fed in the meantime, a fixed number of times.
PendingRound ==
  /\ place = "after" /\ Quiet /\ feeding = {} /\ fed # {} /\ rounds < MaxRounds
  /\ rounds' = rounds + 1
  /\ feeding' = fed /\ fed' = {}
  /\ UNCHANGED <<ioVars, batchVars, whereVars, closed, ops>>

EndsIteration ==
  /\ place = "after" /\ Quiet /\ feeding = {}
  /\ fed = {} \/ rounds = MaxRounds
  /\ place' = "other"
  /\ UNCHANGED <<ioVars, pendingVars, batchVars, called, reason, closed, ops>>

Returns ==
  /\ called # NoWatcher
  /\ called' = NoWatcher /\ reason' = NoWatcher
  /\ UNCHANGED <<ioVars, pendingVars, batchVars, place, closed, ops>>

PollLoop == \/ \E w \in Watchers : CallsPending(w)
            \/ \E e \in batch : SeesEvent(e)
            \/ TakesPending \/ EntersPoll \/ CallsSignals \/ EndsBatch
            \/ PendingRound \/ EndsIteration \/ Returns

PollNext == \/ \E w \in Watchers : Use(w)
            \/ PollLoop \/ PollReports \/ PollTimesOut

PollSpec == PollInit /\ [][PollNext]_pollVars

-----------------------------------------------------------------------------
\* Properties.

\* The assertions of uv__io_poll(): a queued watcher is open, wants something,
\* and is the one the table has for its descriptor, so that a loop without
\* watchers has none queued; and one whose wishes the kernel does not know is
\* queued.
PollAsserts ==
  \A w \in Watchers :
    /\ w \in queued \/ pevents[w] # events[w] => /\ IsOpen(w)
                                                 /\ pevents[w] # {}
                                                 /\ table[fd[w]] = w
    /\ pevents[w] # events[w] => w \in queued

\* An event is told to the watcher it was reported for, even if its descriptor
\* was closed and its number was used again in the same batch.
EventReachesItsOwner == called # NoWatcher => reason = called

\* Once uv__io_close() has been called the watcher is not called any more: its
\* memory may be gone after the close callback.
NoCallAfterClose == [][\A w \in closed : called' # w \/ called = w]_pollVars

\* What was fed has yet to be called.
FedIsOwed == fed # {} \/ feeding # {}

\* As stream.rst has it: once reading is started the callback "will be made
\* several times until there is no more data to read or uv_read_stop() is
\* called".  Between polls, what a watcher wants is what the kernel reports.
StartedIsArmed ==
  place = "poll" => \A w \in Watchers \ queued : IsOpen(w) => pevents[w] \subseteq armed[fd[w]]
=============================================================================
