--------------------------- MODULE UvLoop_proofs -----------------------------
(***************************************************************************)
(* What the loop waits for: its watchers, and the phases of an iteration.  *)
(***************************************************************************)
EXTENDS UvPoll, UvLoop, UvHeap, UvThreads_proofs, WellFoundedInduction

-----------------------------------------------------------------------------
(***************************************************************************)
(* For any number of watchers, descriptors and calls: the assertions of    *)
(* uv__io_poll() hold, an event is told to the watcher it was reported     *)
(* for, and a watcher that was closed is not called.                       *)
(*                                                                         *)
(* IoInv ties the loop's table and queue to the watchers.  What makes the  *)
(* early return of uv__io_start() safe is its last part: the kernel has    *)
(* been told of events only for a watcher that wants some, which is in the *)
(* table.  EventsOwned says whose the events of the batch and the filters  *)
(* in the kernel are: of watchers that have the descriptor open, so that   *)
(* its number is not used again before they are gone.  ClosedIsOut says    *)
(* that a closed watcher is in none of the loop's lists.                   *)
(***************************************************************************)

IoTypes == /\ fd \in [Watchers -> Fds \cup {NoFd}]
           /\ pevents \in [Watchers -> SUBSET Filters]
           /\ events \in [Watchers -> SUBSET Filters]
           /\ table \in [Fds -> Watchers \cup {NoWatcher}]
           /\ queued \in SUBSET Watchers

OneOwner == \A v, w \in Watchers : fd[v] = fd[w] /\ IsOpen(v) => v = w

InTable == /\ \A n \in Fds : table[n] # NoWatcher => fd[table[n]] = n
           /\ \A w \in Watchers : pevents[w] # {} => IsOpen(w) /\ table[fd[w]] = w

Known == \A w \in Watchers : /\ w \in queued => pevents[w] # {}
                             /\ pevents[w] # events[w] => w \in queued
                             /\ events[w] # {} => pevents[w] # {}

IoInv == IoTypes /\ OneOwner /\ InTable /\ Known

BatchTypes == batch \in SUBSET Event /\ armed \in [Fds -> SUBSET Filters]

EventsOwned == /\ \A e \in batch : fd[e.for] = e.ident
               /\ \A n \in Fds : armed[n] # {} => \E w \in Watchers : fd[w] = n

ClosedIsOut == \A w \in closed : ~IsOpen(w) /\ w \notin fed /\ w \notin feeding
                                 /\ w # SignalWatcher

PollInv == /\ IoInv /\ BatchTypes /\ EventsOwned
           /\ fed \subseteq Watchers /\ feeding \subseteq Watchers
           /\ closed \subseteq Watchers /\ ClosedIsOut
           /\ EventReachesItsOwner

-----------------------------------------------------------------------------
\* What uv__io_start() and uv__io_stop() do to the table and the queue.

LEMMA IoStartKeeps ==
  ASSUME IoInv, NEW w \in Watchers, NEW filter \in Filters, IsOpen(w), IoStart(w, filter)
  PROVE  IoInv'
<1> DEFINE wanted == pevents[w] \cup {filter}
<1> USE PollAssumption DEF IoInv, IsOpen
<1>0. fd[w] \in Fds /\ wanted \in SUBSET Filters /\ wanted # {}
  BY DEF IoTypes
<1>1. pevents' = [pevents EXCEPT ![w] = wanted] /\ UNCHANGED <<fd, events>>
  BY DEF IoStart
<1>2. OneOwner'
  BY <1>1 DEF OneOwner
<1>3. CASE events[w] = wanted
  <2>1. UNCHANGED <<queued, table>>
    BY <1>3 DEF IoStart
  <2>2. IoTypes'
    BY <1>0, <1>1, <2>1 DEF IoTypes
  <2>3. InTable'
    BY <1>0, <1>1, <1>3, <2>1 DEF InTable, Known, IoTypes
  <2>4. Known'
    BY <1>0, <1>1, <1>3, <2>1 DEF Known, IoTypes
  <2> QED
    BY <1>2, <2>2, <2>3, <2>4
<1>4. CASE events[w] # wanted
  <2>1. /\ queued' = queued \cup {w}
        /\ table' = IF table[fd[w]] = NoWatcher THEN [table EXCEPT ![fd[w]] = w]
                                                ELSE table
    BY <1>4 DEF IoStart
  <2>2. IoTypes'
    BY <1>0, <1>1, <2>1 DEF IoTypes
  <2>3. table[fd[w]] \in {NoWatcher, w}
    BY <1>0 DEF InTable, OneOwner, IoTypes
  <2>4. InTable'
    BY <1>0, <1>1, <2>1, <2>3 DEF InTable, OneOwner, IoTypes
  <2>5. Known'
    BY <1>0, <1>1, <2>1 DEF Known, IoTypes
  <2> QED
    BY <1>2, <2>2, <2>4, <2>5
<1> QED
  BY <1>3, <1>4

\* The descriptor may be closed with the last filter (uv__io_close()).
LEMMA IoStopKeeps ==
  ASSUME IoInv, NEW w \in Watchers, NEW filters \in SUBSET Filters, IsOpen(w),
         IoStop(w, filters),
         \/ UNCHANGED fd
         \/ filters = Filters /\ fd' = [fd EXCEPT ![w] = NoFd]
  PROVE  IoInv'
<1> DEFINE wanted == pevents[w] \ filters
<1> USE PollAssumption DEF IoInv, IsOpen
<1>0. fd[w] \in Fds /\ wanted \in SUBSET Filters
  BY DEF IoTypes
<1>1. pevents' = [pevents EXCEPT ![w] = wanted]
  BY DEF IoStop
<1>2. fd' \in [Watchers -> Fds \cup {NoFd}] /\ OneOwner'
  BY DEF OneOwner, IoTypes
<1>3. CASE wanted = {}
  <2>1. /\ queued' = queued \ {w} /\ events' = [events EXCEPT ![w] = {}]
        /\ table' = IF table[fd[w]] = w THEN [table EXCEPT ![fd[w]] = NoWatcher]
                                        ELSE table
    BY <1>3 DEF IoStop
  <2>2. IoTypes'
    BY <1>0, <1>1, <1>2, <2>1 DEF IoTypes
  <2>3. \A v \in Watchers \ {w} : fd'[v] = fd[v] /\ fd[v] # fd[w]
    BY <1>0 DEF OneOwner, IoTypes
  <2>4. \A n \in Fds : table'[n] # NoWatcher => table'[n] = table[n] /\ table[n] # w
    BY <1>0, <2>1 DEF InTable, IoTypes
  <2>5. InTable'
    BY <1>0, <1>1, <1>3, <2>1, <2>3, <2>4 DEF InTable, IoTypes
  <2>6. Known'
    BY <1>1, <1>3, <2>1 DEF Known, IoTypes
  <2> QED
    BY <1>2, <2>2, <2>5, <2>6
<1>4. CASE wanted # {}
  <2>1. queued' = queued \cup {w} /\ UNCHANGED <<fd, events, table>>
    BY <1>4 DEF IoStop, IoTypes
  <2>2. IoTypes'
    BY <1>0, <1>1, <2>1 DEF IoTypes
  <2>3. InTable' /\ Known'
    BY <1>0, <1>1, <1>4, <2>1 DEF InTable, Known, IoTypes
  <2> QED
    BY <1>2, <2>2, <2>3
<1> QED
  BY <1>3, <1>4

LEMMA RegistersKeeps ==
  ASSUME IoInv, armed \in [Fds -> SUBSET Filters], Registers,
         UNCHANGED <<fd, pevents, table>>
  PROVE  /\ IoInv'
         /\ armed' \in [Fds -> SUBSET Filters]
         /\ \A n \in Fds : armed'[n] # {} =>
              armed[n] # {} \/ \E w \in Watchers : fd[w] = n
<1> USE DEF Registers, IoInv
<1>1. IoTypes'
  BY DEF IoTypes
<1>2. OneOwner' /\ InTable'
  BY DEF OneOwner, InTable, IsOpen
<1>3. Known'
  BY DEF Known, IoTypes
<1>4. \A n \in Fds : \A x \in armed'[n] :
        x \in armed[n] \/ \E w \in queued : fd[w] = n /\ x \in pevents[w]
  OBVIOUS
<1>5. armed' \in [Fds -> SUBSET Filters]
  BY <1>4 DEF IoTypes
<1> QED
  BY <1>1, <1>2, <1>3, <1>4, <1>5 DEF IoTypes

-----------------------------------------------------------------------------
\* Callbacks: what they call keeps the invariant.

LEMMA OpenStep == ASSUME PollInv, NEW w \in Watchers, Open(w) PROVE PollInv'
<1> USE PollAssumption DEF PollInv, Open, IsOpen, pendingVars, batchVars, whereVars
<1>1. PICK n \in Fds : fd' = [fd EXCEPT ![w] = n] /\ \A v \in Watchers : fd[v] # n
  BY DEF FreeFds
<1>2. fd[w] = NoFd /\ w \notin closed
  OBVIOUS
<1>3. fd' \in [Watchers -> Fds \cup {NoFd}] /\ fd'[w] = n
      /\ \A v \in Watchers \ {w} : fd'[v] = fd[v]
  BY <1>1 DEF IoInv, IoTypes
<1>4. IoInv'
  <2>1. OneOwner'
    BY <1>1, <1>3 DEF IoInv, OneOwner
  <2>2. IoTypes' /\ InTable'
    BY <1>1, <1>2, <1>3 DEF IoInv, IoTypes, InTable, Fds
  <2>3. Known'
    BY DEF IoInv, Known
  <2> QED
    BY <2>1, <2>2, <2>3 DEF IoInv
<1>5. EventsOwned'
  <2>1. \A e \in batch : e.for \in Watchers /\ e.ident \in Fds
    BY DEF BatchTypes, Event
  <2>2. \A e \in batch : e.for # w
    BY <1>2, <2>1 DEF EventsOwned, Fds
  <2>3. \A v \in Watchers : fd[v] \in Fds => fd'[v] = fd[v]
    BY <1>2, <1>3 DEF Fds
  <2> QED
    BY <1>3, <2>1, <2>2, <2>3 DEF EventsOwned
<1>6. BatchTypes' /\ ClosedIsOut' /\ EventReachesItsOwner'
  BY <1>2, <1>3 DEF BatchTypes, ClosedIsOut, EventReachesItsOwner
<1> QED
  BY <1>4, <1>5, <1>6

LEMMA FeedStep == ASSUME PollInv, NEW w \in Watchers, Feed(w) PROVE PollInv'
<1> USE DEF PollInv, Feed, ioVars, batchVars, whereVars
<1>1. IoInv'
  BY DEF IoInv, IoTypes, OneOwner, InTable, Known, IsOpen
<1>2. BatchTypes' /\ EventsOwned' /\ EventReachesItsOwner'
  BY DEF BatchTypes, EventsOwned, EventReachesItsOwner
<1>3. fed' \subseteq Watchers /\ ClosedIsOut'
  BY DEF ClosedIsOut, IsOpen
<1> QED
  BY <1>1, <1>2, <1>3

\* Reading and writing are started and stopped.
LEMMA WatchStep ==
  ASSUME PollInv, NEW w \in Watchers, NEW filter \in Filters,
         Start(w, filter) \/ Stop(w, filter)
  PROVE  PollInv'
<1> USE DEF PollInv, pendingVars, batchVars, whereVars
<1>1. IoInv' /\ UNCHANGED <<fd, pendingVars, batchVars, whereVars, closed>>
  <2>1. CASE Start(w, filter)
    BY <2>1, IoStartKeeps DEF Start, IoStart
  <2>2. CASE Stop(w, filter)
    BY <2>2, IoStopKeeps DEF Stop
  <2> QED
    BY <2>1, <2>2
<1>2. BatchTypes' /\ EventsOwned' /\ EventReachesItsOwner' /\ ClosedIsOut'
  BY <1>1 DEF BatchTypes, EventsOwned, EventReachesItsOwner, ClosedIsOut, IsOpen
<1> QED
  BY <1>1, <1>2

LEMMA CloseStep ==
  ASSUME PollInv, NEW w \in Watchers, w # SignalWatcher, Close(w)
  PROVE  PollInv'
<1> USE PollAssumption DEF PollInv, Close, IsOpen, whereVars
<1>1. IoInv'
  BY IoStopKeeps
<1>2. fd[w] \in Fds /\ fd' = [fd EXCEPT ![w] = NoFd] /\ fd \in [Watchers -> Fds \cup {NoFd}]
  BY DEF IoInv, IoTypes
<1>3. BatchTypes'
  BY <1>2 DEF BatchTypes, Invalidated
<1>4. EventsOwned'
  <2>1. \A e \in batch' : e \in batch /\ e.ident # fd[w] /\ e.for \in Watchers
    BY DEF Invalidated, BatchTypes, Event
  <2>2. \A e \in batch' : fd'[e.for] = e.ident
    BY <1>2, <2>1 DEF EventsOwned
  <2>3. \A n \in Fds : armed'[n] # {} => n # fd[w] /\ armed[n] # {}
    BY <1>2 DEF BatchTypes
  <2>4. \A n \in Fds : armed'[n] # {} => \E v \in Watchers : fd'[v] = n
    BY <1>2, <2>3 DEF EventsOwned
  <2> QED
    BY <2>2, <2>4 DEF EventsOwned
<1>5. ClosedIsOut' /\ EventReachesItsOwner'
  BY <1>2 DEF ClosedIsOut, EventReachesItsOwner
<1> QED
  BY <1>1, <1>3, <1>4, <1>5

-----------------------------------------------------------------------------
\* The loop.

LEMMA LoopKeepsIo ==
  ASSUME IoInv, UNCHANGED ioVars PROVE IoInv'
BY DEF ioVars, IoInv, IoTypes, OneOwner, InTable, Known, IsOpen

\* The lists of watchers that were fed.
LEMMA PendingStep ==
  ASSUME PollInv,
         \/ TakesPending \/ EntersPoll \/ PendingRound \/ EndsIteration \/ Returns
         \/ CallsSignals \/ EndsBatch \/ \E w \in Watchers : CallsPending(w)
  PROVE  PollInv'
<1> USE DEF PollInv, pendingVars, batchVars, whereVars, AfterPoll
<1> USE DEF TakesPending, EntersPoll, PendingRound, EndsIteration, Returns, CallsSignals,
            EndsBatch, CallsPending
<1>1. IoInv' /\ UNCHANGED <<fd, armed, batch, closed>>
  BY LoopKeepsIo DEF ioVars
<1>2. BatchTypes' /\ EventsOwned'
  BY <1>1 DEF BatchTypes, EventsOwned
<1>3. fed' \subseteq fed /\ feeding' \subseteq fed \cup feeding
  OBVIOUS
<1>4. ClosedIsOut'
  BY <1>1, <1>3 DEF ClosedIsOut, IsOpen
<1>5. EventReachesItsOwner'
  BY DEF EventReachesItsOwner
<1> QED
  BY <1>1, <1>2, <1>3, <1>4, <1>5

LEMMA EventStep == ASSUME PollInv, NEW e \in batch, SeesEvent(e) PROVE PollInv'
<1> USE DEF PollInv, SeesEvent, pendingVars
<1> DEFINE w == table[e.ident]
           wanted == w # NoWatcher /\ e.filter \in pevents[w]
<1>1. IoInv' /\ UNCHANGED fd
  BY LoopKeepsIo DEF ioVars
<1>2. e \in Event /\ e.ident \in Fds /\ e.for \in Watchers /\ fd[e.for] = e.ident
  BY DEF BatchTypes, Event, EventsOwned
<1>3. w # NoWatcher => w = e.for
  BY <1>2, PollAssumption DEF IoInv, InTable, OneOwner, IsOpen, IoTypes, Fds
<1>4. /\ armed' \in [Fds -> SUBSET Filters] /\ batch' \subseteq batch
      /\ \A n \in Fds : armed'[n] \subseteq armed[n]
  BY <1>2 DEF BatchTypes
<1>5. BatchTypes' /\ EventsOwned' /\ ClosedIsOut'
  BY <1>1, <1>4 DEF BatchTypes, EventsOwned, ClosedIsOut, IsOpen, ioVars
<1>6. EventReachesItsOwner'
  <2>1. CASE wanted /\ w # SignalWatcher
    BY <1>3, <2>1 DEF EventReachesItsOwner
  <2>2. CASE ~(wanted /\ w # SignalWatcher)
    BY <2>2 DEF EventReachesItsOwner
  <2> QED
    BY <2>1, <2>2
<1> QED
  BY <1>1, <1>5, <1>6

\* The poll itself.
LEMMA PollStep == ASSUME PollInv, PollReports \/ PollTimesOut PROVE PollInv'
<1> USE DEF PollInv, pendingVars, quietVars, AfterPoll
<1>1. /\ UNCHANGED <<fd, pevents, table, closed, called, reason, feeding, fed>>
      /\ Registers \/ UNCHANGED <<armed, events, queued>>
  BY DEF PollReports, PollTimesOut
<1>2. /\ IoInv' /\ armed' \in [Fds -> SUBSET Filters]
      /\ \A n \in Fds : armed'[n] # {} => \E w \in Watchers : fd'[w] = n
  <2>1. CASE Registers
    BY <1>1, <2>1, RegistersKeeps DEF BatchTypes, EventsOwned
  <2>2. CASE UNCHANGED <<armed, events, queued>>
    BY <1>1, <2>2, LoopKeepsIo DEF BatchTypes, EventsOwned, ioVars
  <2> QED
    BY <1>1, <2>1, <2>2
<1>3. \A e \in batch' : e \in Event /\ fd'[e.for] = e.ident
  <2>1. CASE PollTimesOut
    BY <1>1, <2>1 DEF PollTimesOut, BatchTypes, EventsOwned
  <2>2. CASE PollReports
    <3>1. ASSUME NEW e \in batch' PROVE e \in Event /\ fd'[e.for] = e.ident
      <4>1. PICK n \in Fds, filter \in Filters :
              filter \in armed'[n] /\ e = Reported(n, filter)
        BY <2>2, <3>1 DEF PollReports
      <4>2. \E w \in Watchers : fd[w] = n
        BY <1>1, <1>2, <4>1
      <4>3. e.for \in Watchers /\ fd[e.for] = n
        BY <4>1, <4>2 DEF Reported
      <4> QED
        BY <1>1, <4>1, <4>3 DEF Reported, Event
    <3> QED
      BY <3>1
  <2> QED
    BY <2>1, <2>2
<1>4. BatchTypes' /\ EventsOwned'
  BY <1>2, <1>3 DEF BatchTypes, EventsOwned
<1>5. ClosedIsOut' /\ EventReachesItsOwner'
  BY <1>1 DEF ClosedIsOut, IsOpen, EventReachesItsOwner
<1> QED
  BY <1>1, <1>2, <1>4, <1>5

-----------------------------------------------------------------------------

LEMMA PollStart == PollInit => PollInv
BY PollAssumption DEF PollInit, PollInv, IoInv, IoTypes, OneOwner, InTable, Known,
   IsOpen, BatchTypes, EventsOwned, ClosedIsOut, EventReachesItsOwner

LEMMA PollStays == ASSUME PollInv, UNCHANGED pollVars PROVE PollInv'
BY LoopKeepsIo DEF pollVars, ioVars, pendingVars, batchVars, whereVars, PollInv,
   BatchTypes, EventsOwned, ClosedIsOut, IsOpen, EventReachesItsOwner

LEMMA PollInductive == PollInv /\ [PollNext]_pollVars => PollInv'
<1> SUFFICES ASSUME PollInv, [PollNext]_pollVars PROVE PollInv'
  OBVIOUS
<1>1. ASSUME NEW w \in Watchers, Use(w) PROVE PollInv'
  BY <1>1, OpenStep, FeedStep, WatchStep, CloseStep DEF Use, Filters
<1>2. CASE PollLoop
  BY <1>2, PendingStep, EventStep DEF PollLoop
<1>3. CASE PollReports \/ PollTimesOut
  BY <1>3, PollStep
<1>4. CASE UNCHANGED pollVars
  BY <1>4, PollStays
<1> QED
  BY <1>1, <1>2, <1>3, <1>4 DEF PollNext

LEMMA PollConcludes == PollInv => PollAsserts /\ EventReachesItsOwner
<1>1. PollInv => PollAsserts
  BY DEF PollInv, IoInv, InTable, Known, PollAsserts
<1>2. PollInv => EventReachesItsOwner
  BY DEF PollInv
<1> QED
  BY <1>1, <1>2

LEMMA PollAlways == PollSpec => []PollInv
  BY PollStart, PollInductive, PTL DEF PollSpec

(* The types.  PollInv has those of the watchers, the table and the batch; *)
(* the signals of a batch are put off only if there is a watcher for them. *)
PollTypes == PollTypeOK /\ (haveSignals => SignalWatcher \in Watchers)

LEMMA PollTypesStart == PollInit => PollTypes
<1> SUFFICES ASSUME PollInit PROVE PollTypes
  OBVIOUS
<1> USE DEF PollInit
<1>1. 0 \in 0..MaxRounds /\ 0 \in 0..MaxOps
  BY PollAssumption
<1>2. /\ rounds \in 0..MaxRounds /\ ops \in 0..MaxOps
      /\ anyEvent \in BOOLEAN /\ haveSignals \in BOOLEAN /\ ~haveSignals
      /\ place \in Places
      /\ called \in Watchers \cup {NoWatcher} /\ reason \in Watchers \cup {NoWatcher}
      /\ closed \in SUBSET Watchers /\ fed \in SUBSET Watchers /\ feeding \in SUBSET Watchers
  BY <1>1 DEF Places
<1>3. IoTypes /\ BatchTypes
  BY DEF IoTypes, BatchTypes
<1> QED
  BY <1>2, <1>3 DEF PollTypes, PollTypeOK, IoTypes, BatchTypes

\* Calls are counted up to their bound.
LEMMA CallCounts == ASSUME ops \in 0..MaxOps, Call PROVE ops' \in 0..MaxOps
BY PollAssumption DEF Call

LEMMA PollTypesStep == PollInv /\ PollTypes /\ [PollNext]_pollVars => PollTypes'
<1> SUFFICES ASSUME PollInv, PollTypes, [PollNext]_pollVars PROVE PollTypes'
  OBVIOUS
<1>0. PollInv'
  BY PollInductive
<1> DEFINE rest == /\ rounds \in 0..MaxRounds
                   /\ anyEvent \in BOOLEAN /\ haveSignals \in BOOLEAN
                   /\ place \in Places
                   /\ called \in Watchers \cup {NoWatcher}
                   /\ reason \in Watchers \cup {NoWatcher}
                   /\ ops \in 0..MaxOps
                   /\ haveSignals => SignalWatcher \in Watchers
<1>1. rest
  BY DEF PollTypes, PollTypeOK
<1>2. rest'
  <2> USE DEF pendingVars, batchVars, whereVars
  <2>1. ASSUME NEW w \in Watchers, Use(w) PROVE rest'
    <3>1. UNCHANGED <<rounds, anyEvent, haveSignals, place, called, reason>> /\ Call
      BY <2>1 DEF Use, Open, Feed, Close, Start, Stop
    <3> QED
      BY <1>1, <3>1, CallCounts
  <2>2. CASE PollLoop
    <3>1. ASSUME NEW w \in Watchers, CallsPending(w) PROVE rest'
      BY <1>1, <3>1 DEF CallsPending
    <3>2. ASSUME NEW e \in batch, SeesEvent(e) PROVE rest'
      <4>1. e.for \in Watchers /\ e.ident \in Fds
        BY DEF PollInv, BatchTypes, Event
      <4>2. table[e.ident] \in Watchers \cup {NoWatcher}
        BY <4>1 DEF PollInv, IoInv, IoTypes
      <4>3. UNCHANGED <<rounds, place, ops>>
        BY <3>2 DEF SeesEvent
      <4>4. called' \in Watchers \cup {NoWatcher} /\ reason' \in Watchers \cup {NoWatcher}
        BY <1>1, <3>2, <4>1, <4>2 DEF SeesEvent
      <4>5. /\ anyEvent' \in BOOLEAN /\ haveSignals' \in BOOLEAN
            /\ haveSignals' => SignalWatcher \in Watchers
        BY <1>1, <3>2, <4>2 DEF SeesEvent
      <4> QED
        BY <1>1, <4>3, <4>4, <4>5
    <3>3. CASE TakesPending \/ EntersPoll \/ EndsIteration
      BY <1>1, <3>3 DEF TakesPending, EntersPoll, EndsIteration, Places
    <3>4. CASE CallsSignals \/ Returns
      <4>1. UNCHANGED <<rounds, anyEvent, place, ops>>
        BY <3>4 DEF CallsSignals, Returns
      <4>2. called' \in Watchers \cup {NoWatcher} /\ reason' \in Watchers \cup {NoWatcher}
        BY <1>1, <3>4 DEF CallsSignals, Returns
      <4>3. haveSignals' = FALSE \/ haveSignals' = haveSignals
        BY <3>4 DEF CallsSignals, Returns
      <4>4. haveSignals' \in BOOLEAN /\ (haveSignals' => SignalWatcher \in Watchers)
        <5>1. CASE haveSignals' = FALSE
          BY <5>1
        <5>2. CASE haveSignals' = haveSignals
          <6>1. haveSignals \in BOOLEAN /\ (haveSignals => SignalWatcher \in Watchers)
            BY <1>1
          <6> QED BY <5>2, <6>1, Zenon
        <5> QED BY <4>3, <5>1, <5>2
      <4> QED
        BY <1>1, <4>1, <4>2, <4>4
    <3>5. CASE EndsBatch
      BY <1>1, <3>5, PollAssumption DEF EndsBatch, AfterPoll, Places
    <3>6. CASE PendingRound
      <4>1. rounds' = rounds + 1 /\ rounds < MaxRounds
        BY <3>6 DEF PendingRound
      <4>2. rounds' \in 0..MaxRounds
        BY <1>1, <4>1, PollAssumption
      <4> QED
        BY <1>1, <3>6, <4>2 DEF PendingRound
    <3> QED
      BY <2>2, <3>1, <3>2, <3>3, <3>4, <3>5, <3>6 DEF PollLoop
  <2>3. CASE PollReports
    BY <1>1, <2>3 DEF PollReports, quietVars, Places
  <2>4. CASE PollTimesOut
    BY <1>1, <2>4, PollAssumption DEF PollTimesOut, AfterPoll, quietVars, Places
  <2>5. CASE UNCHANGED pollVars
    BY <1>1, <2>5 DEF pollVars
  <2> QED
    BY <2>1, <2>2, <2>3, <2>4, <2>5 DEF PollNext
<1> QED
  BY <1>0, <1>2 DEF PollInv, IoInv, IoTypes, BatchTypes, PollTypes, PollTypeOK

-----------------------------------------------------------------------------
\* The results.

\* The assertions of uv__io_poll() hold whatever callbacks start, stop and close,
\* in whatever order: a queued watcher is open, wants something and is in the table.
THEOREM AssertsHold == PollSpec => []PollAsserts
  BY PollAlways, PollConcludes, PTL

\* No event reaches a watcher it was not reported for, although descriptors are
\* closed and their numbers used again while a batch is being worked off.
THEOREM EventsReachOwners == PollSpec => []EventReachesItsOwner
  BY PollAlways, PollConcludes, PTL

LEMMA ClosedStays ==
  PollInv /\ [PollNext]_pollVars => [\A w \in closed : called' # w \/ called = w]_pollVars
<1> SUFFICES ASSUME PollInv, [PollNext]_pollVars, NEW w \in closed, called' = w
             PROVE  called = w
  OBVIOUS
<1>1. w \in Watchers /\ w # SignalWatcher /\ w # NoWatcher /\ w \notin feeding
  BY PollAssumption DEF PollInv, ClosedIsOut
<1>2. \A e \in batch : e.ident \in Fds /\ table[e.ident] # w
  BY <1>1, PollAssumption DEF PollInv, IoInv, InTable, ClosedIsOut, IsOpen, BatchTypes,
     Event, Fds
<1>3. ASSUME NEW v \in Watchers, Use(v) PROVE called' = called
  BY <1>3 DEF Use, Open, Feed, Close, Start, Stop, whereVars
<1>4. CASE PollLoop
  <2>1. ASSUME NEW v \in Watchers, CallsPending(v) PROVE called = w
    BY <1>1, <2>1 DEF CallsPending
  <2>2. ASSUME NEW e \in batch, SeesEvent(e) PROVE called = w
    BY <1>1, <1>2, <2>2 DEF SeesEvent
  <2>3. CASE CallsSignals \/ Returns
    BY <1>1, <2>3 DEF CallsSignals, Returns
  <2>4. CASE TakesPending \/ EntersPoll \/ EndsBatch \/ PendingRound \/ EndsIteration
    BY <2>4 DEF TakesPending, EntersPoll, EndsBatch, PendingRound, EndsIteration, whereVars
  <2> QED
    BY <1>4, <2>1, <2>2, <2>3, <2>4 DEF PollLoop
<1>5. CASE PollReports \/ PollTimesOut
  BY <1>5 DEF PollReports, PollTimesOut
<1>6. CASE UNCHANGED pollVars
  BY <1>6 DEF pollVars, whereVars
<1> QED
  BY <1>3, <1>4, <1>5, <1>6 DEF PollNext

\* A watcher that has been closed is not called any more, be it by a list of pending
\* callbacks that is being worked off, or by the events of the batch.
THEOREM ClosedIsNotCalled == PollSpec => NoCallAfterClose
  BY PollAlways, ClosedStays, PTL DEF PollSpec, NoCallAfterClose

-----------------------------------------------------------------------------
(* The iteration.  A handle that is active is in the heap or in the list   *)
(* of its kind, or it is its turn; a handle that is being closed is not    *)
(* active, and waits, once, for its close callback.                        *)

Kinds == {"idle", "prepare", "check"}

Of(kind) == {h \in Hooks : KindOf(h) = kind}

ForTimers == {"entered", "timers"}

Turning(p) == IF phase = p THEN ToSet(turn) ELSE {}

TurnHolds ==
  /\ IsInjective(turn)
  /\ phase \in {"out", "poll", "polled"} => ToSet(turn) = {}
  /\ phase \in ForTimers =>
       ToSet(turn) \subseteq Timers \ (active \cup closingSet) /\ IsInOrder(turn)

HooksInLine == \A k \in Kinds :
  /\ IsInjective(hookQueue[k])
  /\ ToSet(hookQueue[k]) \cap Turning(k) = {}
  /\ ToSet(hookQueue[k]) \cup Turning(k) = active \cap Of(k)

ClosingInLine ==
  /\ IsInjective(closingHandles)
  /\ ToSet(closingHandles) \cap Turning("closing") = {}
  /\ ToSet(closingHandles) \cup Turning("closing") = closingSet \ closedSet
  /\ active \cap closingSet = {}

PromisedIsDue ==
  promised = (active \cap Timers) \cup (IF phase \in ForTimers THEN ToSet(turn) ELSE {})

StartsDiffer == \A t \in active \cap Timers :
  /\ startId[t] < timerCounter
  /\ \A u \in active \cap Timers : t # u => startId[t] # startId[u]

\* The types without the bound of the count, which follows from the rest.
LoopShape ==
  /\ phase \in Phases /\ mode \in Modes /\ canSleep \in BOOLEAN
  /\ turn \in Seq(Handles) /\ running \in Handles \cup {NoHandle, Io}
  /\ clock \in 0..MaxClock /\ now \in 0..MaxClock
  /\ timeout \in [Timers -> 0..MaxClock + MaxDelay + 1] /\ repeat \in [Timers -> 0..1]
  /\ startId \in [Timers -> Nat] /\ timerCounter \in Nat
  /\ hookQueue \in [Kinds -> Seq(Hooks)]
  /\ active \in SUBSET Handles /\ refd \in SUBSET Handles
  /\ activeReqs \in 0..MaxReqs
  /\ closingHandles \in Seq(Handles)
  /\ closingSet \in SUBSET Handles /\ closedSet \in SUBSET closingSet
  /\ stopFlag \in BOOLEAN
  /\ promised \in SUBSET Timers
  /\ uses \in 0..MaxUses

LoopParts == /\ LoopShape /\ TurnHolds /\ HooksInLine /\ ClosingInLine
             /\ PromisedIsDue /\ StartsDiffer /\ ActiveCount

LoopInv == LoopTypeOK /\ LoopParts

LEMMA LeastNatural ==
  ASSUME NEW T, T \subseteq Nat, T # {}
  PROVE  \E x \in T : \A y \in T : x <= y
  <1>1. PICK x \in T : \A y \in T : ~(<<y, x>> \in OpToRel(<, Nat))
    BY WFMin, NatLessThanWellFounded
  <1>2. \A y \in T : ~(y < x)
    BY <1>1 DEF OpToRel
  <1> QED BY <1>2

(* Of the timers that are active one is the next.                          *)
LEMMA NextIsTimer ==
  ASSUME LoopParts, active \cap Timers # {}
  PROVE  NextTimer \in Timers
  <1> DEFINE A == active \cap Timers
  <1>1. \A t \in A : timeout[t] \in Nat /\ startId[t] \in Nat
    BY LoopAssumption DEF LoopParts, LoopShape
  <1>2. PICK t1 \in A : \A u \in A : timeout[t1] <= timeout[u]
    <2> DEFINE T == {timeout[t] : t \in A}
    <2>1. T \subseteq Nat /\ T # {}
      BY <1>1
    <2>2. PICK x \in T : \A y \in T : x <= y
      BY <2>1, LeastNatural
    <2> QED BY <2>2
  <1> DEFINE B == {t \in A : timeout[t] = timeout[t1]}
  <1>3. PICK t2 \in B : \A u \in B : startId[t2] <= startId[u]
    <2> DEFINE T == {startId[t] : t \in B}
    <2>1. T \subseteq Nat /\ T # {}
      BY <1>1
    <2>2. PICK x \in T : \A y \in T : x <= y
      BY <2>1, LeastNatural
    <2> QED BY <2>2
  <1>4. \A u \in A \ {t2} : Earlier(t2, u)
    <2> SUFFICES ASSUME NEW u \in A, u # t2 PROVE Earlier(t2, u)
      OBVIOUS
    <2>1. startId[t2] # startId[u]
      BY DEF LoopParts, StartsDiffer
    <2>2. CASE timeout[u] = timeout[t1]
      BY <1>1, <1>3, <2>1, <2>2 DEF Earlier
    <2>3. CASE timeout[u] # timeout[t1]
      BY <1>1, <1>2, <1>3, <2>3 DEF Earlier
    <2> QED BY <2>2, <2>3
  <1> QED BY <1>4 DEF NextTimer

(* Before and after a step.                                                *)
LEMMA LoopBounds ==
  /\ LoopParts => LoopInv
  /\ LoopParts' => LoopInv'
  <1>1. ASSUME LoopParts PROVE activeHandles \in 0..Cardinality(Handles)
    <2>1. active \cap refd \in SUBSET Handles
      BY <1>1 DEF LoopParts, LoopShape
    <2>2. /\ Cardinality(active \cap refd) <= Cardinality(Handles)
          /\ Cardinality(active \cap refd) \in Nat /\ Cardinality(Handles) \in Nat
      BY <2>1, LoopAssumption, FS_Subset, FS_CardinalityType
    <2> QED BY <1>1, <2>2 DEF LoopParts, ActiveCount
  <1>2. ASSUME LoopParts' PROVE activeHandles' \in 0..Cardinality(Handles)
    <2>1. active' \cap refd' \in SUBSET Handles
      BY <1>2 DEF LoopParts, LoopShape
    <2>2. /\ Cardinality(active' \cap refd') <= Cardinality(Handles)
          /\ Cardinality(active' \cap refd') \in Nat /\ Cardinality(Handles) \in Nat
      BY <2>1, LoopAssumption, FS_Subset, FS_CardinalityType
    <2> QED BY <1>2, <2>2 DEF LoopParts, ActiveCount
  <1>3. LoopParts => LoopTypeOK
    BY <1>1 DEF LoopParts, LoopShape, LoopTypeOK, Kinds
  <1>4. LoopParts' => LoopTypeOK'
    BY <1>2 DEF LoopParts, LoopShape, LoopTypeOK, Kinds
  <1> QED BY <1>3, <1>4 DEF LoopInv

LEMMA LoopStart == LoopInit => LoopInv
  <1> SUFFICES ASSUME LoopInit PROVE LoopParts
    BY LoopBounds
  <1> USE DEF LoopInit
  <1>1. \A S : <<>> \in Seq(S)
    BY EmptySeq
  <1>2. LoopShape
    <2>1. turn \in Seq(Handles) /\ closingHandles \in Seq(Handles)
      BY <1>1
    <2>2. hookQueue \in [Kinds -> Seq(Hooks)]
      BY <1>1 DEF Kinds
    <2>3. phase \in Phases /\ mode \in Modes /\ running \in Handles \cup {NoHandle, Io}
      BY LoopAssumption DEF Phases
    <2>4. /\ clock \in 0..MaxClock /\ now \in 0..MaxClock
          /\ activeReqs \in 0..MaxReqs /\ uses \in 0..MaxUses
      BY LoopAssumption
    <2>5. /\ timeout \in [Timers -> 0..MaxClock + MaxDelay + 1] /\ repeat \in [Timers -> 0..1]
          /\ startId \in [Timers -> Nat] /\ timerCounter \in Nat
      BY LoopAssumption
    <2>6. /\ active \in SUBSET Handles /\ refd \in SUBSET Handles /\ stopFlag \in BOOLEAN
          /\ closingSet \in SUBSET Handles /\ closedSet \in SUBSET closingSet
          /\ promised \in SUBSET Timers /\ canSleep \in BOOLEAN
      OBVIOUS
    <2> QED BY <2>1, <2>2, <2>3, <2>4, <2>5, <2>6 DEF LoopShape
  <1>3. ToSet(<<>>) = {} /\ IsInjective(<<>>)
    BY EmptyRest
  <1>4. TurnHolds
    BY <1>3 DEF TurnHolds, ForTimers
  <1>5. HooksInLine /\ ClosingInLine /\ PromisedIsDue /\ StartsDiffer
    BY <1>3 DEF HooksInLine, ClosingInLine, PromisedIsDue, StartsDiffer, Kinds, Turning, ForTimers
  <1>6. ActiveCount
    BY FS_EmptySet DEF ActiveCount
  <1> QED BY <1>2, <1>4, <1>5, <1>6 DEF LoopParts

(* The count of the active handles.                                        *)
LEMMA CountStart ==
  ASSUME LoopParts, NEW h \in Handles, HandleStart(h), UNCHANGED refd
  PROVE  ActiveCount'
  <1> DEFINE A == active \cap refd
  <1>1. IsFiniteSet(A) /\ activeHandles = Cardinality(A) /\ Cardinality(A) \in Nat
    <2>1. A \in SUBSET Handles
      BY DEF LoopParts, LoopShape
    <2> QED BY <2>1, LoopAssumption, FS_Subset, FS_CardinalityType DEF LoopParts, ActiveCount
  <1>2. active' \cap refd' = IF h \in refd THEN A \cup {h} ELSE A
    BY DEF HandleStart
  <1>3. h \in A <=> h \in active /\ h \in refd
    OBVIOUS
  <1> HIDE DEF A
  <1>4. /\ activeHandles' = IF h \in active THEN activeHandles ELSE activeHandles + Counted(h)
        /\ Counted(h) = IF h \in refd THEN 1 ELSE 0
    BY DEF HandleStart, Counted
  <1>5. Cardinality(A \cup {h}) = IF h \in A THEN Cardinality(A) ELSE Cardinality(A) + 1
    BY <1>1, FS_AddElement
  <1>6. activeHandles' = Cardinality(active' \cap refd')
    <2>1. CASE h \notin refd
      BY <1>1, <1>2, <1>3, <1>4, <1>5, <2>1
    <2>2. CASE h \in refd /\ h \in active
      BY <1>1, <1>2, <1>3, <1>4, <1>5, <2>2
    <2>3. CASE h \in refd /\ h \notin active
      BY <1>1, <1>2, <1>3, <1>4, <1>5, <2>3
    <2> QED BY <2>1, <2>2, <2>3
  <1> QED BY <1>6 DEF ActiveCount

LEMMA CountStop ==
  ASSUME LoopParts, NEW h \in Handles, HandleStop(h), UNCHANGED refd
  PROVE  ActiveCount'
  <1> DEFINE A == active \cap refd
  <1>1. IsFiniteSet(A) /\ activeHandles = Cardinality(A) /\ Cardinality(A) \in Nat
    <2>1. A \in SUBSET Handles
      BY DEF LoopParts, LoopShape
    <2> QED BY <2>1, LoopAssumption, FS_Subset, FS_CardinalityType DEF LoopParts, ActiveCount
  <1>2. active' \cap refd' = A \ {h}
    BY DEF HandleStop
  <1>3. h \in A <=> h \in active /\ h \in refd
    OBVIOUS
  <1> HIDE DEF A
  <1>4. /\ activeHandles' = IF h \in active THEN activeHandles - Counted(h) ELSE activeHandles
        /\ Counted(h) = IF h \in refd THEN 1 ELSE 0
    BY DEF HandleStop, Counted
  <1>5. Cardinality(A \ {h}) = IF h \in A THEN Cardinality(A) - 1 ELSE Cardinality(A)
    BY <1>1, FS_RemoveElement
  <1>6. activeHandles' = Cardinality(active' \cap refd')
    <2>1. CASE h \notin refd
      BY <1>1, <1>2, <1>3, <1>4, <1>5, <2>1
    <2>2. CASE h \in refd /\ h \in active
      BY <1>1, <1>2, <1>3, <1>4, <1>5, <2>2
    <2>3. CASE h \in refd /\ h \notin active
      BY <1>1, <1>2, <1>3, <1>4, <1>5, <2>3
    <2> QED BY <2>1, <2>2, <2>3
  <1> QED BY <1>6 DEF ActiveCount

(* The turn without a handle.                                              *)
Less(h) ==
  /\ turn' \in Seq(Handles) /\ IsInjective(turn')
  /\ ToSet(turn') = IF phase = "closing" THEN ToSet(turn) ELSE ToSet(turn) \ {h}
  /\ phase \in ForTimers =>
       \A i, j \in DOMAIN turn' : i < j => Earlier(turn'[i], turn'[j])

LEMMA LessSame ==
  ASSUME LoopParts, NEW h, turn' = turn, phase = "closing" \/ h \notin ToSet(turn)
  PROVE  Less(h)
  BY DEF Less, LoopParts, LoopShape, TurnHolds, IsInOrder

LEMMA LessWithout ==
  ASSUME LoopParts, NEW h, turn' = TurnWithout(h)
  PROVE  Less(h)
  <1>1. turn \in Seq(Handles) /\ IsInjective(turn) /\ (phase \in ForTimers => IsInOrder(turn))
    BY DEF LoopParts, LoopShape, TurnHolds
  <1>2. CASE phase = "closing"
    BY <1>2, LessSame DEF TurnWithout
  <1>3. CASE phase # "closing"
    <2> DEFINE q == Unlink(h, turn)
    <2>1. turn' = q
      BY <1>3 DEF TurnWithout
    <2>2. /\ q \in Seq(Handles) /\ IsInjective(q) /\ ToSet(q) = ToSet(turn) \ {h}
          /\ \A i, j \in DOMAIN q : i < j =>
               \E m, n \in DOMAIN turn : m < n /\ q[i] = turn[m] /\ q[j] = turn[n]
      BY <1>1, UnlinkRest
    <2> HIDE DEF q
    <2>3. phase \in ForTimers => \A i, j \in DOMAIN q : i < j => Earlier(q[i], q[j])
      BY <1>1, <2>2 DEF IsInOrder
    <2> QED BY <1>3, <2>1, <2>2, <2>3 DEF Less
  <1> QED BY <1>2, <1>3

LEMMA LessTail ==
  ASSUME LoopParts, turn # <<>>, phase # "closing", turn' = Tail(turn)
  PROVE  Less(Head(turn)) /\ Head(turn) \in Handles /\ Head(turn) \in ToSet(turn)
  <1> DEFINE q == Tail(turn)
             x == Head(turn)
  <1>1. turn \in Seq(Handles) /\ IsInjective(turn) /\ (phase \in ForTimers => IsInOrder(turn))
    BY DEF LoopParts, LoopShape, TurnHolds
  <1>2. /\ x \in Handles /\ x \in ToSet(turn) /\ q \in Seq(Handles) /\ IsInjective(q)
        /\ ToSet(turn) = ToSet(q) \cup {x} /\ x \notin ToSet(q)
        /\ DOMAIN q = 1..Len(turn) - 1 /\ \A i \in 1..Len(turn) - 1 : q[i] = turn[i + 1]
    BY <1>1, TailRest
  <1>3. Len(turn) \in Nat /\ DOMAIN turn = 1..Len(turn)
    BY <1>1, EmptyLen
  <1>4. turn' = q
    OBVIOUS
  <1> HIDE DEF q, x
  <1>5. \A i, j \in DOMAIN q : i < j => i + 1 \in DOMAIN turn /\ j + 1 \in DOMAIN turn /\ i + 1 < j + 1
    BY <1>2, <1>3
  <1>6. phase \in ForTimers => \A i, j \in DOMAIN q : i < j => Earlier(q[i], q[j])
    BY <1>1, <1>2, <1>5 DEF IsInOrder
  <1>7. ToSet(q) = ToSet(turn) \ {x}
    BY <1>2
  <1> QED BY <1>2, <1>4, <1>6, <1>7 DEF Less, x

LEMMA KindsApart ==
  /\ \A h \in Hooks : KindOf(h) \in Kinds /\ h \in Of(KindOf(h))
  /\ \A k \in Kinds : \A h \in Of(k) : h \in Hooks /\ h \notin Timers /\ k = KindOf(h)
  BY LoopAssumption DEF KindOf, Kinds, Of

(* Whose turn it may be, by the phase.                                     *)
LEMMA TurnIsOf ==
  ASSUME LoopParts
  PROVE  /\ phase \in ForTimers \cup Kinds \cup {"out", "poll", "polled", "closing"}
         /\ phase \in Kinds => ToSet(turn) \subseteq active \cap Of(phase)
         /\ phase = "closing" => ToSet(turn) \subseteq closingSet \ closedSet
         /\ \A h \in Timers : phase \in Kinds => h \notin ToSet(turn)
         /\ \A h \in Handles : h \in active /\ h \in Timers /\ phase # "closing" =>
              h \notin ToSet(turn)
         /\ \A h \in Hooks : h \notin active /\ phase # "closing" => h \notin ToSet(turn)
         /\ active \cap closingSet = {}
  <1>1. phase \in ForTimers \cup Kinds \cup {"out", "poll", "polled", "closing"}
    BY DEF LoopParts, LoopShape, Phases, ForTimers, Kinds
  <1>2. phase \in Kinds => ToSet(turn) \subseteq active \cap Of(phase)
    BY DEF LoopParts, HooksInLine, Turning
  <1>3. phase = "closing" => ToSet(turn) \subseteq closingSet \ closedSet
    BY DEF LoopParts, ClosingInLine, Turning
  <1>4. \A h \in Timers : phase \in Kinds => h \notin ToSet(turn)
    BY <1>2, KindsApart
  <1>5. \A h \in Handles : h \in active /\ h \in Timers /\ phase # "closing" => h \notin ToSet(turn)
    BY <1>1, <1>4 DEF LoopParts, TurnHolds
  <1>6. \A h \in Hooks : h \notin active /\ phase # "closing" => h \notin ToSet(turn)
    BY <1>1, <1>2, LoopAssumption DEF LoopParts, TurnHolds
  <1> QED BY <1>1, <1>2, <1>3, <1>4, <1>5, <1>6 DEF LoopParts, ClosingInLine

(* A timer is put into the heap, another number and time with it.          *)
LEMMA ScheduledKeeps ==
  ASSUME LoopParts, NEW t \in Timers \ closingSet, NEW delay \in 0..MaxDelay + 1,
         NEW again \in 0..1, Scheduled(t, delay, again), Less(t),
         UNCHANGED <<phase, now, hookQueue, refd, closingHandles, closingSet, closedSet>>
  PROVE  /\ timeout' \in [Timers -> 0..MaxClock + MaxDelay + 1] /\ repeat' \in [Timers -> 0..1]
         /\ startId' \in [Timers -> Nat] /\ timerCounter' \in Nat
         /\ active' \in SUBSET Handles /\ promised' \in SUBSET Timers /\ turn' \in Seq(Handles)
         /\ TurnHolds' /\ HooksInLine' /\ ClosingInLine' /\ PromisedIsDue' /\ StartsDiffer'
         /\ ActiveCount'
  <1>0. LoopShape /\ t \in Handles
    BY DEF LoopParts, Handles
  <1>1. /\ timeout' \in [Timers -> 0..MaxClock + MaxDelay + 1] /\ repeat' \in [Timers -> 0..1]
        /\ startId' \in [Timers -> Nat] /\ timerCounter' \in Nat
    <2>1. now + delay \in 0..MaxClock + MaxDelay + 1
      BY <1>0, LoopAssumption DEF LoopShape
    <2> QED BY <1>0, <2>1 DEF LoopShape, Scheduled
  <1>2. /\ active' = active \cup {t} /\ promised' = promised \cup {t}
        /\ timerCounter' = timerCounter + 1
        /\ startId'[t] = timerCounter
        /\ \A u \in Timers \ {t} : startId'[u] = startId[u] /\ timeout'[u] = timeout[u]
    BY <1>0 DEF LoopShape, Scheduled, HandleStart
  <1>3. active' \in SUBSET Handles /\ promised' \in SUBSET Timers /\ turn' \in Seq(Handles)
    BY <1>0, <1>2 DEF LoopShape, Less
  <1>4. ActiveCount'
    BY <1>0, CountStart DEF Scheduled
  <1>5. TurnHolds'
    <2>1. phase \in ForTimers => ToSet(turn') \subseteq Timers \ (active' \cup closingSet')
      BY <1>2 DEF LoopParts, TurnHolds, Less, ForTimers
    <2>2. phase \in ForTimers => IsInOrder(turn)'
      <3> SUFFICES ASSUME phase \in ForTimers, NEW i \in DOMAIN turn', NEW j \in DOMAIN turn',
                          i < j
                   PROVE  \/ timeout'[turn'[i]] < timeout'[turn'[j]]
                          \/ /\ timeout'[turn'[i]] = timeout'[turn'[j]]
                             /\ startId'[turn'[i]] < startId'[turn'[j]]
        BY DEF IsInOrder, Earlier
      <3>1. turn'[i] \in ToSet(turn') /\ turn'[j] \in ToSet(turn')
        BY DEF ToSet
      <3>2. turn'[i] \in Timers \ {t} /\ turn'[j] \in Timers \ {t}
        BY <3>1 DEF LoopParts, TurnHolds, Less, ForTimers
      <3>3. Earlier(turn'[i], turn'[j])
        BY DEF Less
      <3> QED BY <1>2, <3>2, <3>3 DEF Earlier
    <2>3. phase' \in {"out", "poll", "polled"} => ToSet(turn') = {}
      BY DEF LoopParts, TurnHolds, Less
    <2> QED BY <2>1, <2>2, <2>3 DEF TurnHolds, Less
  <1>6. ASSUME NEW k \in Kinds PROVE Turning(k)' = Turning(k) /\ active' \cap Of(k) = active \cap Of(k)
    <2>1. active' \cap Of(k) = active \cap Of(k)
      BY <1>2, KindsApart
    <2>2. k # "closing"
      BY DEF Kinds
    <2>3. phase = k => t \notin ToSet(turn)
      BY TurnIsOf
    <2> QED BY <2>1, <2>2, <2>3 DEF Turning, Less
  <1>7. HooksInLine'
    BY <1>6 DEF LoopParts, HooksInLine
  <1>8. ClosingInLine'
    BY <1>2 DEF LoopParts, ClosingInLine, Turning, Less
  <1>9. PromisedIsDue'
    BY <1>2 DEF LoopParts, PromisedIsDue, Less, ForTimers
  <1>10. StartsDiffer'
    <2>1. \A u \in (active \cap Timers) \ {t} :
            startId'[u] = startId[u] /\ startId[u] < timerCounter /\ startId[u] \in Nat
      BY <1>0, <1>2 DEF LoopParts, StartsDiffer, LoopShape
    <2> SUFFICES ASSUME NEW a \in active' \cap Timers
                 PROVE  /\ startId'[a] < timerCounter'
                        /\ \A u \in active' \cap Timers : a # u => startId'[a] # startId'[u]
      BY DEF StartsDiffer
    <2>2. timerCounter \in Nat
      BY <1>0 DEF LoopShape
    <2>3. CASE a = t
      BY <1>2, <2>1, <2>2, <2>3
    <2>4. CASE a # t
      BY <1>2, <2>1, <2>2, <2>4 DEF LoopParts, StartsDiffer
    <2> QED BY <2>3, <2>4
  <1> QED BY <1>1, <1>3, <1>4, <1>5, <1>7, <1>8, <1>9, <1>10

(* A timer is stopped, or a handle of another kind; if it is closed too    *)
(* the queue of those is another matter.                                   *)
LEMMA StopTimerKeeps ==
  ASSUME LoopParts, NEW t \in Timers, HandleStop(t), promised' = promised \ {t}, Less(t),
         UNCHANGED <<phase, timeout, startId, timerCounter, hookQueue, refd>>,
         closingSet' \subseteq closingSet \cup {t}
  PROVE  /\ active' \in SUBSET Handles /\ promised' \in SUBSET Timers /\ turn' \in Seq(Handles)
         /\ TurnHolds' /\ HooksInLine' /\ PromisedIsDue' /\ StartsDiffer' /\ ActiveCount'
  <1>0. LoopShape /\ t \in Handles /\ active' = active \ {t}
    BY DEF LoopParts, Handles, HandleStop
  <1>1. active' \in SUBSET Handles /\ promised' \in SUBSET Timers /\ turn' \in Seq(Handles)
    BY <1>0 DEF LoopShape, Less
  <1>2. ActiveCount'
    BY <1>0, CountStop
  <1>3. TurnHolds'
    <2>1. phase \in ForTimers => ToSet(turn') \subseteq Timers \ (active' \cup closingSet')
      BY <1>0 DEF LoopParts, TurnHolds, Less, ForTimers
    <2>2. phase \in ForTimers => IsInOrder(turn)'
      BY DEF Less, IsInOrder, Earlier
    <2>3. phase' \in {"out", "poll", "polled"} => ToSet(turn') = {}
      BY DEF LoopParts, TurnHolds, Less
    <2> QED BY <2>1, <2>2, <2>3 DEF TurnHolds, Less
  <1>4. ASSUME NEW k \in Kinds PROVE Turning(k)' = Turning(k) /\ active' \cap Of(k) = active \cap Of(k)
    <2>1. active' \cap Of(k) = active \cap Of(k)
      BY <1>0, KindsApart
    <2>2. k # "closing"
      BY DEF Kinds
    <2>3. phase = k => t \notin ToSet(turn)
      BY TurnIsOf
    <2> QED BY <2>1, <2>2, <2>3 DEF Turning, Less
  <1>5. HooksInLine'
    BY <1>4 DEF LoopParts, HooksInLine
  <1>6. PromisedIsDue'
    BY <1>0 DEF LoopParts, PromisedIsDue, Less, ForTimers
  <1>7. StartsDiffer'
    BY <1>0 DEF LoopParts, StartsDiffer
  <1> QED BY <1>1, <1>2, <1>3, <1>5, <1>6, <1>7

LEMMA StopHookKeeps ==
  ASSUME LoopParts, NEW h \in Hooks, HookStops(h), UNCHANGED promised,
         UNCHANGED <<phase, timeout, startId, timerCounter, refd>>,
         closingSet' \subseteq closingSet \cup {h}
  PROVE  /\ active' \in SUBSET Handles /\ hookQueue' \in [Kinds -> Seq(Hooks)]
         /\ turn' \in Seq(Handles) /\ active' = active \ {h} /\ Less(h)
         /\ TurnHolds' /\ HooksInLine' /\ PromisedIsDue' /\ StartsDiffer' /\ ActiveCount'
  <1>0. LoopShape /\ h \in Handles /\ h \notin Timers /\ active' = active \ {h}
    BY LoopAssumption DEF LoopParts, Handles, HandleStop, HookStops
  <1>1. Less(h)
    <2>1. CASE h \in active
      BY <2>1, LessWithout DEF HookStops
    <2>2. CASE h \notin active
      <3>1. turn' = turn /\ (phase = "closing" \/ h \notin ToSet(turn))
        BY <2>2, TurnIsOf DEF HookStops
      <3> QED BY <3>1, LessSame
    <2> QED BY <2>1, <2>2
  <1>2. ActiveCount'
    BY <1>0, CountStop DEF HookStops
  <1>3. TurnHolds'
    <2>1. phase \in ForTimers => ToSet(turn') \subseteq Timers \ (active' \cup closingSet')
      BY <1>0, <1>1 DEF LoopParts, TurnHolds, Less, ForTimers
    <2>2. phase \in ForTimers => IsInOrder(turn)'
      BY <1>1 DEF Less, IsInOrder, Earlier
    <2>3. phase' \in {"out", "poll", "polled"} => ToSet(turn') = {}
      BY <1>1 DEF LoopParts, TurnHolds, Less
    <2> QED BY <1>1, <2>1, <2>2, <2>3 DEF TurnHolds, Less
  <1>4. \A k \in Kinds : hookQueue[k] \in Seq(Hooks) /\ IsInjective(hookQueue[k])
    BY <1>0 DEF LoopParts, LoopShape, HooksInLine
  <1>5. ASSUME h \in active PROVE hookQueue' \in [Kinds -> Seq(Hooks)] /\ HooksInLine'
    <2> DEFINE K == KindOf(h)
               q == Unlink(h, hookQueue[K])
    <2>1. K \in Kinds /\ h \in Of(K) /\ \A k \in Kinds : h \in Of(k) => k = K
      BY KindsApart
    <2>2. q \in Seq(Hooks) /\ IsInjective(q) /\ ToSet(q) = ToSet(hookQueue[K]) \ {h}
      BY <1>4, <2>1, UnlinkRest
    <2>3. hookQueue' = [hookQueue EXCEPT ![K] = q]
      BY <1>5 DEF HookStops
    <2> HIDE DEF q, K
    <2>4. hookQueue' \in [Kinds -> Seq(Hooks)]
      BY <1>0, <2>1, <2>2, <2>3 DEF LoopShape
    <2>5. HooksInLine'
      <3> SUFFICES ASSUME NEW k \in Kinds
                   PROVE  /\ IsInjective(hookQueue'[k])
                          /\ ToSet(hookQueue'[k]) \cap Turning(k)' = {}
                          /\ ToSet(hookQueue'[k]) \cup Turning(k)' = active' \cap Of(k)
        BY DEF HooksInLine
      <3>1. k # "closing"
        BY DEF Kinds
      <3>2. Turning(k)' = Turning(k) \ {h}
        BY <1>1, <3>1 DEF Turning, Less
      <3>3. /\ IsInjective(hookQueue[k]) /\ ToSet(hookQueue[k]) \cap Turning(k) = {}
            /\ ToSet(hookQueue[k]) \cup Turning(k) = active \cap Of(k)
        BY DEF LoopParts, HooksInLine
      <3>4. CASE k = K
        <4>1. hookQueue'[k] = q
          BY <1>0, <2>1, <2>3, <3>4 DEF LoopShape
        <4> QED BY <1>0, <2>2, <3>2, <3>3, <3>4, <4>1
      <3>5. CASE k # K
        <4>1. hookQueue'[k] = hookQueue[k] /\ h \notin Of(k)
          BY <1>0, <2>1, <2>3, <3>5 DEF LoopShape
        <4> QED BY <1>0, <3>2, <3>3, <4>1
      <3> QED BY <3>4, <3>5
    <2> QED BY <2>4, <2>5
  <1>6. ASSUME h \notin active PROVE hookQueue' \in [Kinds -> Seq(Hooks)] /\ HooksInLine'
    <2>1. hookQueue' = hookQueue /\ turn' = turn /\ active' = active
      BY <1>0, <1>6 DEF HookStops
    <2> QED BY <1>0, <2>1 DEF LoopParts, LoopShape, HooksInLine, Turning
  <1>7. PromisedIsDue'
    BY <1>0, <1>1 DEF LoopParts, PromisedIsDue, TurnHolds, Less, ForTimers
  <1>8. StartsDiffer'
    BY <1>0 DEF LoopParts, StartsDiffer
  <1> QED BY <1>0, <1>1, <1>2, <1>3, <1>5, <1>6, <1>7, <1>8 DEF LoopShape, Less

(* The user: references, and the calls that change no handle.              *)
LEMMA RefKeeps ==
  ASSUME LoopInv, NEW h \in Handles, Ref(h) \/ Unref(h)
  PROVE  LoopInv'
  <1> USE DEF Ref, Unref, Uses, runVars, timeVars, timerVars, closeVars
  <1>1. LoopParts /\ LoopShape /\ active \cap closingSet = {}
    BY TurnIsOf DEF LoopInv, LoopParts
  <1>2. LoopShape'
    BY <1>1, LoopAssumption DEF LoopShape
  <1>3. TurnHolds' /\ HooksInLine' /\ ClosingInLine' /\ PromisedIsDue' /\ StartsDiffer'
    BY <1>1 DEF LoopParts, TurnHolds, IsInOrder, Earlier, HooksInLine, Turning, ClosingInLine,
                PromisedIsDue, StartsDiffer
  <1>4. ActiveCount'
    <2> DEFINE A == active \cap refd
    <2>1. IsFiniteSet(A) /\ activeHandles = Cardinality(A) /\ Cardinality(A) \in Nat
      <3>1. A \in SUBSET Handles
        BY <1>1 DEF LoopShape
      <3> QED BY <1>1, <3>1, LoopAssumption, FS_Subset, FS_CardinalityType
              DEF LoopParts, ActiveCount
    <2>2. CASE Ref(h)
      <3>1. active' \cap refd' = IF h \in active THEN A \cup {h} ELSE A
        BY <2>2
      <3>2. h \notin A /\ activeHandles' = IF h \in active THEN activeHandles + 1 ELSE activeHandles
        BY <1>1, <2>2
      <3> HIDE DEF A
      <3>3. Cardinality(A \cup {h}) = Cardinality(A) + 1
        BY <2>1, <3>2, FS_AddElement
      <3> QED BY <2>1, <3>1, <3>2, <3>3 DEF ActiveCount
    <2>3. CASE Unref(h)
      <3>1. active' \cap refd' = A \ {h}
        BY <2>3
      <3>2. /\ h \in A <=> h \in active
            /\ activeHandles' = IF h \in active THEN activeHandles - 1 ELSE activeHandles
        BY <1>1, <2>3
      <3> HIDE DEF A
      <3>3. Cardinality(A \ {h}) = IF h \in A THEN Cardinality(A) - 1 ELSE Cardinality(A)
        BY <2>1, FS_RemoveElement
      <3>4. activeHandles' = Cardinality(active' \cap refd')
        BY <2>1, <3>1, <3>2, <3>3
      <3> QED BY <3>4 DEF ActiveCount
    <2> QED BY <2>2, <2>3
  <1> QED BY <1>2, <1>3, <1>4, LoopBounds DEF LoopParts

LEMMA LoopQuietKeeps ==
  ASSUME LoopInv,
         \/ StopLoop \/ StartReq \/ TimePasses \/ UpdateTime \/ CallbackReturns
         \/ UNCHANGED loopVarsAll
  PROVE  LoopInv'
  <1> USE DEF StopLoop, StartReq, TimePasses, UpdateTime, CallbackReturns, Uses, loopVarsAll,
              runVars, timeVars, timerVars, countVars, closeVars
  <1>1. LoopParts /\ LoopShape
    BY DEF LoopInv, LoopParts
  <1>2. LoopShape'
    <2>1. clock' \in 0..MaxClock /\ now' \in 0..MaxClock
      BY <1>1, LoopAssumption DEF LoopShape
    <2>2. activeReqs' \in 0..MaxReqs /\ uses' \in 0..MaxUses
      BY <1>1, LoopAssumption DEF LoopShape
    <2>3. stopFlag' \in BOOLEAN /\ running' \in Handles \cup {NoHandle, Io}
      BY <1>1 DEF LoopShape
    <2>4. UNCHANGED <<phase, mode, canSleep, turn, timerVars, hookQueue, countVars, closeVars,
                     promised>>
      OBVIOUS
    <2> QED BY <1>1, <2>1, <2>2, <2>3, <2>4 DEF LoopShape
  <1>3. TurnHolds' /\ HooksInLine' /\ ClosingInLine' /\ PromisedIsDue' /\ StartsDiffer'
    BY <1>1 DEF LoopParts, TurnHolds, IsInOrder, Earlier, HooksInLine, Turning, ClosingInLine,
                PromisedIsDue, StartsDiffer
  <1>4. ActiveCount'
    BY <1>1 DEF LoopParts, ActiveCount
  <1> QED BY <1>2, <1>3, <1>4, LoopBounds DEF LoopParts

(* The user: timers.                                                       *)
LEMMA TimerStartKeeps ==
  ASSUME LoopInv, NEW t \in Timers, NEW delay \in 0..MaxDelay + 1, NEW again \in 0..1,
         Uses, t \notin closingSet, Scheduled(t, delay, again),
         turn' = IF t \in active THEN turn ELSE TurnWithout(t),
         UNCHANGED <<phase, mode, canSleep, running, timeVars, hookQueue, refd, activeReqs,
                     closeVars, stopFlag>>
  PROVE  LoopInv'
  <1>1. LoopParts /\ LoopShape /\ t \in Handles
    BY DEF LoopInv, LoopParts, Handles
  <1>2. Less(t)
    <2>1. CASE t \in active
      <3>1. turn' = turn /\ (phase = "closing" \/ t \notin ToSet(turn))
        BY <1>1, <2>1, TurnIsOf
      <3> QED BY <1>1, <3>1, LessSame
    <2>2. CASE t \notin active
      BY <1>1, <2>2, LessWithout
    <2> QED BY <2>1, <2>2
  <1>3. /\ timeout' \in [Timers -> 0..MaxClock + MaxDelay + 1] /\ repeat' \in [Timers -> 0..1]
        /\ startId' \in [Timers -> Nat] /\ timerCounter' \in Nat
        /\ active' \in SUBSET Handles /\ promised' \in SUBSET Timers /\ turn' \in Seq(Handles)
        /\ TurnHolds' /\ HooksInLine' /\ ClosingInLine' /\ PromisedIsDue' /\ StartsDiffer'
        /\ ActiveCount'
    BY <1>1, <1>2, ScheduledKeeps DEF timeVars, closeVars
  <1>4. LoopShape'
    BY <1>1, <1>3, LoopAssumption DEF LoopShape, Uses, timeVars, closeVars
  <1> QED BY <1>3, <1>4, LoopBounds DEF LoopParts

LEMMA LessStopped ==
  ASSUME LoopParts, NEW t \in Timers, TimerStops(t)
  PROVE  Less(t) /\ HandleStop(t) /\ promised' = promised \ {t}
  <1>1. CASE t \in active
    <2>1. turn' = turn /\ (phase = "closing" \/ t \notin ToSet(turn))
      BY <1>1, TurnIsOf DEF TimerStops, Handles
    <2> QED BY <2>1, LessSame DEF TimerStops
  <1>2. CASE t \notin active
    BY <1>2, LessWithout DEF TimerStops
  <1> QED BY <1>1, <1>2

LEMMA TimerStopKeeps ==
  ASSUME LoopInv, NEW t \in Timers, Uses, TimerStops(t),
         UNCHANGED <<phase, mode, canSleep, running, timeVars, timerVars, hookQueue, refd,
                     activeReqs, closeVars, stopFlag>>
  PROVE  LoopInv'
  <1>1. LoopParts /\ LoopShape /\ t \in Handles
    BY DEF LoopInv, LoopParts, Handles
  <1>2. Less(t) /\ HandleStop(t) /\ promised' = promised \ {t}
    BY <1>1, LessStopped
  <1>3. /\ active' \in SUBSET Handles /\ promised' \in SUBSET Timers /\ turn' \in Seq(Handles)
        /\ TurnHolds' /\ HooksInLine' /\ PromisedIsDue' /\ StartsDiffer' /\ ActiveCount'
    <2>1. /\ closingSet' \subseteq closingSet \cup {t}
          /\ UNCHANGED <<phase, timeout, startId, timerCounter, hookQueue, refd>>
      BY DEF timerVars, closeVars
    <2> QED BY <1>1, <1>2, <2>1, StopTimerKeeps
  <1>4. ClosingInLine'
    BY <1>1, <1>2 DEF LoopParts, ClosingInLine, Turning, Less, HandleStop, closeVars
  <1>5. LoopShape'
    BY <1>1, <1>3, LoopAssumption DEF LoopShape, Uses, timeVars, timerVars, closeVars
  <1> QED BY <1>3, <1>4, <1>5, LoopBounds DEF LoopParts

LEMMA TimerUserKeeps ==
  ASSUME LoopInv, NEW t \in Timers,
         \/ TimerStop(t) \/ TimerAgain(t)
         \/ \E delay \in 0..MaxDelay, again \in 0..1 : TimerStart(t, delay, again)
  PROVE  LoopInv'
  <1>1. CASE TimerStop(t)
    BY <1>1, TimerStopKeeps DEF TimerStop
  <1>2. CASE TimerAgain(t) /\ t \in closingSet
    BY <1>2, TimerStopKeeps DEF TimerAgain
  <1>3. CASE TimerAgain(t) /\ t \notin closingSet
    <2>1. repeat[t] \in 0..1 /\ repeat[t] \in 0..MaxDelay + 1
      BY LoopAssumption DEF LoopInv, LoopParts, LoopShape
    <2>2. /\ Uses /\ Scheduled(t, repeat[t], repeat[t])
          /\ turn' = IF t \in active THEN turn ELSE TurnWithout(t)
          /\ UNCHANGED <<phase, mode, canSleep, running, timeVars, hookQueue, refd, activeReqs,
                         closeVars, stopFlag>>
      BY <1>3 DEF TimerAgain
    <2> QED BY <1>3, <2>1, <2>2, TimerStartKeeps
  <1>4. ASSUME NEW delay \in 0..MaxDelay, NEW again \in 0..1, TimerStart(t, delay, again)
        PROVE  LoopInv'
    <2>1. delay \in 0..MaxDelay + 1
      BY LoopAssumption
    <2> QED BY <1>4, <2>1, TimerStartKeeps DEF TimerStart
  <1> QED BY <1>1, <1>2, <1>3, <1>4

(* The user: hooks.                                                        *)
LEMMA HookStartKeeps == ASSUME LoopInv, NEW h \in Hooks, HookStart(h) PROVE LoopInv'
  <1> USE DEF HookStart, Uses, runVars, timeVars, timerVars, closeVars
  <1>1. LoopParts /\ LoopShape /\ h \in Handles /\ h \notin Timers /\ active' = active \cup {h}
    BY LoopAssumption DEF LoopInv, LoopParts, Handles, HandleStart
  <1> DEFINE K == KindOf(h)
             q == <<h>> \o hookQueue[K]
  <1>2. hookQueue' = [hookQueue EXCEPT ![K] = q]
    OBVIOUS
  <1>3. /\ K \in Kinds /\ h \in Of(K) /\ \A k \in Kinds : h \in Of(k) => k = K
        /\ K \in Kinds => hookQueue[K] \in Seq(Hooks) /\ IsInjective(hookQueue[K])
    BY <1>1, KindsApart DEF LoopParts, LoopShape, HooksInLine
  <1>4. h \notin ToSet(hookQueue[K]) /\ \A k \in Kinds : h \notin Turning(k)
    BY <1>3 DEF LoopInv, LoopParts, HooksInLine
  <1>5. q \in Seq(Hooks) /\ IsInjective(q) /\ ToSet(q) = ToSet(hookQueue[K]) \cup {h}
    BY <1>3, <1>4, PrependRest
  <1> HIDE DEF q, K
  <1>6. LoopShape'
    <2>1. hookQueue' \in [Kinds -> Seq(Hooks)]
      BY <1>1, <1>2, <1>3, <1>5 DEF LoopShape
    <2> QED BY <1>1, <2>1, LoopAssumption DEF LoopShape
  <1>7. HooksInLine'
    <2> SUFFICES ASSUME NEW k \in Kinds
                 PROVE  /\ IsInjective(hookQueue'[k])
                        /\ ToSet(hookQueue'[k]) \cap Turning(k)' = {}
                        /\ ToSet(hookQueue'[k]) \cup Turning(k)' = active' \cap Of(k)
      BY DEF HooksInLine
    <2>1. Turning(k)' = Turning(k)
      BY DEF Turning
    <2>2. /\ IsInjective(hookQueue[k]) /\ ToSet(hookQueue[k]) \cap Turning(k) = {}
          /\ ToSet(hookQueue[k]) \cup Turning(k) = active \cap Of(k)
      BY <1>1 DEF LoopParts, HooksInLine
    <2>3. CASE k = K
      <3>1. hookQueue'[k] = q
        BY <1>1, <1>2, <1>3, <2>3 DEF LoopShape
      <3>2. ToSet(hookQueue'[k]) = ToSet(hookQueue[k]) \cup {h} /\ IsInjective(hookQueue'[k])
        BY <1>5, <2>3, <3>1
      <3>3. h \notin Turning(k) /\ h \in Of(k)
        BY <1>3, <1>4, <2>3
      <3> QED BY <1>1, <2>1, <2>2, <3>2, <3>3
    <2>4. CASE k # K
      <3>1. hookQueue'[k] = hookQueue[k] /\ h \notin Of(k)
        BY <1>1, <1>2, <1>3, <2>4 DEF LoopShape
      <3> QED BY <1>1, <2>1, <2>2, <3>1
    <2> QED BY <2>3, <2>4
  <1>8. TurnHolds'
    BY <1>1 DEF LoopParts, TurnHolds, IsInOrder, Earlier
  <1>9. ClosingInLine' /\ PromisedIsDue' /\ StartsDiffer'
    BY <1>1 DEF LoopParts, ClosingInLine, Turning, PromisedIsDue, StartsDiffer
  <1>10. ActiveCount'
    BY <1>1, CountStart
  <1> QED BY <1>6, <1>7, <1>8, <1>9, <1>10, LoopBounds DEF LoopParts

LEMMA HookStopKeeps == ASSUME LoopInv, NEW h \in Hooks, HookStop(h) PROVE LoopInv'
  <1> USE DEF HookStop, Uses, timeVars, timerVars, closeVars
  <1>1. LoopParts /\ LoopShape
    BY DEF LoopInv, LoopParts
  <1>2. /\ active' \in SUBSET Handles /\ hookQueue' \in [Kinds -> Seq(Hooks)]
        /\ turn' \in Seq(Handles) /\ active' = active \ {h} /\ Less(h)
        /\ TurnHolds' /\ HooksInLine' /\ PromisedIsDue' /\ StartsDiffer' /\ ActiveCount'
    BY <1>1, StopHookKeeps
  <1>3. ClosingInLine'
    BY <1>1, <1>2 DEF LoopParts, ClosingInLine, Turning, Less
  <1>4. LoopShape'
    BY <1>1, <1>2, LoopAssumption DEF LoopShape
  <1> QED BY <1>2, <1>3, <1>4, LoopBounds DEF LoopParts

LEMMA CloseKeeps == ASSUME LoopInv, NEW h \in Handles, CloseHandle(h) PROVE LoopInv'
  <1> USE DEF CloseHandle, Uses, timeVars, timerVars
  <1>1. LoopParts /\ LoopShape /\ closingSet' = closingSet \cup {h} /\ h \notin closingSet
    BY DEF LoopInv, LoopParts
  <1>2. /\ active' \in SUBSET Handles /\ hookQueue' \in [Kinds -> Seq(Hooks)]
        /\ turn' \in Seq(Handles) /\ promised' \in SUBSET Timers
        /\ active' = active \ {h} /\ Less(h)
        /\ TurnHolds' /\ HooksInLine' /\ PromisedIsDue' /\ StartsDiffer' /\ ActiveCount'
    <2>1. CASE h \in Timers
      <3>1. Less(h) /\ HandleStop(h) /\ promised' = promised \ {h}
        BY <1>1, <2>1, LessStopped
      <3>2. /\ hookQueue' = hookQueue
            /\ UNCHANGED <<phase, timeout, startId, timerCounter, hookQueue, refd>>
            /\ closingSet' \subseteq closingSet \cup {h}
        BY <2>1
      <3> QED BY <1>1, <2>1, <3>1, <3>2, StopTimerKeeps DEF LoopShape, HandleStop
    <2>2. CASE h \notin Timers
      <3>1. /\ h \in Hooks /\ HookStops(h) /\ UNCHANGED promised
            /\ UNCHANGED <<phase, timeout, startId, timerCounter, refd>>
            /\ closingSet' \subseteq closingSet \cup {h}
        BY <2>2 DEF Handles
      <3> QED BY <1>1, <3>1, StopHookKeeps DEF LoopShape
    <2> QED BY <2>1, <2>2
  <1>3. /\ closingHandles' \in Seq(Handles)
        /\ ToSet(closingHandles') = ToSet(closingHandles) \cup {h} /\ IsInjective(closingHandles')
    <2>1. /\ closingHandles \in Seq(Handles) /\ IsInjective(closingHandles)
          /\ h \notin ToSet(closingHandles)
      BY <1>1 DEF LoopParts, LoopShape, ClosingInLine
    <2>2. closingHandles' = <<h>> \o closingHandles
      BY DEF MakeClosePending
    <2> QED BY <2>1, <2>2, PrependRest
  <1>4. LoopShape'
    BY <1>1, <1>2, <1>3, LoopAssumption DEF LoopShape
  <1>5. ClosingInLine'
    <2>1. Turning("closing")' = Turning("closing")
      BY <1>2 DEF Turning, Less
    <2>2. h \notin closedSet /\ h \notin Turning("closing")
      BY <1>1 DEF LoopParts, LoopShape, ClosingInLine
    <2> QED BY <1>1, <1>2, <1>3, <2>1, <2>2 DEF LoopParts, ClosingInLine
  <1> QED BY <1>2, <1>4, <1>5, LoopBounds DEF LoopParts

(* uv_run(): a step to another phase, with nobody whose turn it is.        *)
LEMMA PhaseKeeps ==
  ASSUME LoopParts, ToSet(turn) = {},
         UNCHANGED <<turn, timerVars, hookQueue, countVars, closeVars, promised>>
  PROVE  /\ TurnHolds' /\ HooksInLine' /\ ClosingInLine' /\ PromisedIsDue' /\ StartsDiffer'
         /\ ActiveCount'
  <1> USE DEF timerVars, countVars, closeVars
  <1>1. \A p : Turning(p) = {} /\ Turning(p)' = {}
    BY DEF Turning
  <1>2. TurnHolds'
    <2>1. \A i \in DOMAIN turn : FALSE
      BY DEF ToSet
    <2>2. IsInOrder(turn)'
      BY <2>1 DEF IsInOrder
    <2> QED BY <2>2 DEF LoopParts, TurnHolds
  <1>3. HooksInLine' /\ ClosingInLine'
    BY <1>1 DEF LoopParts, HooksInLine, ClosingInLine
  <1>4. PromisedIsDue' /\ StartsDiffer' /\ ActiveCount'
    BY DEF LoopParts, PromisedIsDue, StartsDiffer, ActiveCount
  <1> QED BY <1>2, <1>3, <1>4

(* The turn of those on a queue.                                           *)
LEMMA TurnsKeeps ==
  ASSUME LoopParts, ToSet(turn) = {}, NEW k \in Kinds, TurnsTo(k, k),
         UNCHANGED <<timerVars, countVars, closeVars, promised>>
  PROVE  /\ turn' \in Seq(Handles) /\ hookQueue' \in [Kinds -> Seq(Hooks)]
         /\ TurnHolds' /\ HooksInLine' /\ ClosingInLine' /\ PromisedIsDue' /\ StartsDiffer'
         /\ ActiveCount'
  <1> USE DEF timerVars, countVars, closeVars
  <1>1. \A p : Turning(p) = {}
    BY DEF Turning
  <1>2. LoopShape /\ hookQueue[k] \in Seq(Hooks) /\ IsInjective(hookQueue[k])
    BY DEF LoopParts, LoopShape, HooksInLine
  <1>3. /\ phase' = k /\ turn' = hookQueue[k] /\ hookQueue' \in [Kinds -> Seq(Hooks)]
        /\ hookQueue'[k] = <<>> /\ \A p \in Kinds \ {k} : hookQueue'[p] = hookQueue[p]
    <2>1. <<>> \in Seq(Hooks)
      BY EmptySeq
    <2> QED BY <1>2, <2>1 DEF TurnsTo, LoopShape
  <1>4. turn' \in Seq(Handles)
    <2>1. \A q \in Seq(Hooks) : q \in Seq(Handles)
      BY DEF Handles
    <2> QED BY <1>2, <1>3, <2>1
  <1>5. k \notin ForTimers /\ k \notin {"out", "poll", "polled", "closing"}
    BY DEF Kinds, ForTimers
  <1>6. TurnHolds'
    BY <1>2, <1>3, <1>5 DEF TurnHolds
  <1>7. HooksInLine'
    <2> SUFFICES ASSUME NEW p \in Kinds
                 PROVE  /\ IsInjective(hookQueue'[p])
                        /\ ToSet(hookQueue'[p]) \cap Turning(p)' = {}
                        /\ ToSet(hookQueue'[p]) \cup Turning(p)' = active' \cap Of(p)
      BY DEF HooksInLine
    <2>1. /\ IsInjective(hookQueue[p]) /\ ToSet(hookQueue[p]) = active \cap Of(p)
      BY <1>1 DEF LoopParts, HooksInLine
    <2>2. CASE p = k
      BY <1>3, <2>1, <2>2, EmptyRest DEF Turning
    <2>3. CASE p # k
      BY <1>3, <2>1, <2>3 DEF Turning
    <2> QED BY <2>2, <2>3
  <1>8. ClosingInLine'
    BY <1>1, <1>3, <1>5 DEF LoopParts, ClosingInLine, Turning
  <1>9. PromisedIsDue' /\ StartsDiffer' /\ ActiveCount'
    BY <1>3, <1>5 DEF LoopParts, PromisedIsDue, StartsDiffer, ActiveCount
  <1> QED BY <1>3, <1>4, <1>6, <1>7, <1>8, <1>9

(* The timers that are due leave the heap, in the order of their times.    *)
LEMMA TakesKeeps ==
  ASSUME LoopParts, ToSet(turn) = {}, phase' \in ForTimers, TakesTimers,
         UNCHANGED <<timerVars, hookQueue, refd, closeVars, promised>>
  PROVE  /\ turn' \in Seq(Handles) /\ active' \in SUBSET Handles
         /\ TurnHolds' /\ HooksInLine' /\ ClosingInLine' /\ PromisedIsDue' /\ StartsDiffer'
         /\ ActiveCount'
  <1> USE DEF timerVars, closeVars
  <1> DEFINE due == {t \in active \cap Timers : timeout[t] <= now'}
  <1>1. LoopShape /\ \A p : Turning(p) = {}
    BY DEF LoopParts, Turning
  <1>2. due \subseteq active \cap Timers /\ IsFiniteSet(due)
    <2>1. due \in SUBSET Handles
      BY <1>1 DEF LoopShape
    <2> QED BY <2>1, LoopAssumption, FS_Subset
  <1>3. /\ turn' \in {q \in SetToSeqs(due) : IsInOrder(q)}
        /\ active' = active \ due
        /\ activeHandles' = activeHandles - Cardinality(due \cap refd)
    BY DEF TakesTimers
  <1> HIDE DEF due
  <1>4. PICK q : q = turn' /\ q \in SetToSeqs(due) /\ IsInOrder(q)
    BY <1>3
  <1>5. q \in Seq(due) /\ IsInjective(q) /\ ToSet(q) = due
    <2>1. Cardinality(due) \in Nat
      BY <1>2, FS_CardinalityType
    <2>2. q \in [1..Cardinality(due) -> due] /\ \A i, j \in 1..Cardinality(due) : i # j => q[i] # q[j]
      BY <1>4 DEF SetToSeqs
    <2>3. q \in Seq(due) /\ Len(q) = Cardinality(due)
      BY <2>1, <2>2
    <2>4. IsInjective(q)
      BY <2>2 DEF IsInjective
    <2>5. ToSet(q) \in SUBSET due /\ Cardinality(ToSet(q)) = Cardinality(due)
      <3>1. ToSet(q) \in SUBSET due
        BY <2>2 DEF ToSet
      <3> QED BY <2>3, <2>4, <3>1, QueueFinite
    <2>6. ToSet(q) = due
      BY <1>2, <2>5, FS_Subset
    <2> QED BY <2>3, <2>4, <2>6
  <1>6. turn' \in Seq(Handles) /\ active' \in SUBSET Handles
    <2>1. due \subseteq Handles
      BY <1>1, <1>2 DEF LoopShape
    <2>2. q \in Seq(Handles)
      BY <1>5, <2>1
    <2> QED BY <1>1, <1>3, <1>4, <2>2 DEF LoopShape
  <1>7. TurnHolds'
    <2>1. IsInOrder(turn)'
      BY <1>4 DEF IsInOrder, Earlier
    <2>2. ToSet(turn') \subseteq Timers \ (active' \cup closingSet')
      BY <1>2, <1>3, <1>4, <1>5 DEF LoopParts, ClosingInLine
    <2>3. IsInjective(turn') /\ phase' \notin {"out", "poll", "polled"}
      BY <1>4, <1>5 DEF ForTimers
    <2> QED BY <2>1, <2>2, <2>3 DEF TurnHolds
  <1>8. \A p \in Kinds \cup {"closing"} : Turning(p)' = {}
    BY DEF Turning, ForTimers, Kinds
  <1>9. HooksInLine'
    <2>1. \A k \in Kinds : active' \cap Of(k) = active \cap Of(k)
      BY <1>2, <1>3, KindsApart
    <2> QED BY <1>1, <1>8, <2>1 DEF LoopParts, HooksInLine
  <1>10. ClosingInLine'
    BY <1>1, <1>3, <1>8 DEF LoopParts, ClosingInLine
  <1>11. PromisedIsDue'
    BY <1>2, <1>3, <1>4, <1>5 DEF LoopParts, PromisedIsDue
  <1>12. StartsDiffer'
    BY <1>3 DEF LoopParts, StartsDiffer
  <1>13. ActiveCount'
    <2> DEFINE A == active \cap refd
               D == due \cap refd
    <2>1. IsFiniteSet(A) /\ activeHandles = Cardinality(A)
      <3>1. A \in SUBSET Handles
        BY <1>1 DEF LoopShape
      <3> QED BY <3>1, LoopAssumption, FS_Subset DEF LoopParts, ActiveCount
    <2>2. active' \cap refd' = A \ D /\ A \cap D = D
      BY <1>2, <1>3
    <2> HIDE DEF A, D
    <2>3. Cardinality(A \ D) = Cardinality(A) - Cardinality(D)
      BY <2>1, <2>2, FS_Difference
    <2>4. activeHandles' = Cardinality(A) - Cardinality(D)
      BY <1>3, <2>1 DEF D
    <2> QED BY <2>2, <2>3, <2>4 DEF ActiveCount
  <1> QED BY <1>6, <1>7, <1>9, <1>10, <1>11, <1>12, <1>13

LEMMA EntersKeeps == ASSUME LoopInv, EntersRun PROVE LoopInv'
  <1> USE DEF EntersRun, timerVars, closeVars
  <1>1. LoopParts /\ LoopShape /\ ToSet(turn) = {}
    BY DEF LoopInv, LoopParts, TurnHolds
  <1>2. now' \in 0..MaxClock
    BY <1>1 DEF LoopShape
  <1>3. CASE phase' = "entered" /\ now' = clock /\ TakesTimers
    <2>1. phase' \in ForTimers /\ phase' \in Phases
      BY <1>3 DEF ForTimers, Phases
    <2>2. /\ turn' \in Seq(Handles) /\ active' \in SUBSET Handles
          /\ TurnHolds' /\ HooksInLine' /\ ClosingInLine' /\ PromisedIsDue' /\ StartsDiffer'
          /\ ActiveCount'
      BY <1>1, <1>3, <2>1, TakesKeeps
    <2>3. stopFlag' \in BOOLEAN
      BY <1>1 DEF LoopShape
    <2>4. LoopShape'
      BY <1>1, <1>2, <2>1, <2>2, <2>3 DEF LoopShape
    <2> QED BY <2>2, <2>4, LoopBounds DEF LoopParts
  <1>4. CASE phase' \in Phases /\ UNCHANGED <<turn, active, activeHandles>>
    <2>1. /\ TurnHolds' /\ HooksInLine' /\ ClosingInLine' /\ PromisedIsDue' /\ StartsDiffer'
          /\ ActiveCount'
      BY <1>1, <1>4, PhaseKeeps DEF countVars
    <2>2. stopFlag' \in BOOLEAN
      BY <1>1 DEF LoopShape
    <2>3. LoopShape'
      BY <1>1, <1>2, <1>4, <2>2 DEF LoopShape
    <2> QED BY <2>1, <2>3, LoopBounds DEF LoopParts
  <1>5. \/ phase' = "entered" /\ now' = clock /\ TakesTimers
        \/ phase' \in Phases /\ UNCHANGED <<turn, active, activeHandles>>
    BY <1>1 DEF LoopShape, Phases
  <1> QED BY <1>3, <1>4, <1>5

LEMMA EndsClosingKeeps == ASSUME LoopInv, EndsClosing PROVE LoopInv'
  <1> USE DEF EndsClosing, timerVars, closeVars
  <1>1. LoopParts /\ LoopShape /\ ToSet(turn) = {}
    BY EmptyRest DEF LoopInv, LoopParts
  <1>2. phase' \in ForTimers /\ phase' \in Phases /\ now' \in 0..MaxClock
    BY <1>1 DEF ForTimers, Phases, LoopShape
  <1>3. /\ turn' \in Seq(Handles) /\ active' \in SUBSET Handles
        /\ TurnHolds' /\ HooksInLine' /\ ClosingInLine' /\ PromisedIsDue' /\ StartsDiffer'
        /\ ActiveCount'
    BY <1>1, <1>2, TakesKeeps
  <1>4. LoopShape'
    BY <1>1, <1>2, <1>3 DEF LoopShape
  <1> QED BY <1>3, <1>4, LoopBounds DEF LoopParts

LEMMA IteratesKeeps == ASSUME LoopInv, Iterates PROVE LoopInv'
  <1> USE DEF Iterates, timeVars, timerVars, countVars, closeVars
  <1>1. LoopParts /\ LoopShape /\ ToSet(turn) = {}
    BY EmptyRest DEF LoopInv, LoopParts
  <1>2. CASE LeavesRun
    <2>1. /\ TurnHolds' /\ HooksInLine' /\ ClosingInLine' /\ PromisedIsDue' /\ StartsDiffer'
          /\ ActiveCount'
      BY <1>1, <1>2, PhaseKeeps DEF LeavesRun
    <2>2. LoopShape'
      BY <1>1, <1>2 DEF LoopShape, LeavesRun, Phases
    <2> QED BY <2>1, <2>2, LoopBounds DEF LoopParts
  <1>3. CASE BeginsIteration
    <2>1. TurnsTo("idle", "idle") /\ "idle" \in Kinds
      BY <1>3 DEF BeginsIteration, TurnsTo, Kinds
    <2>2. /\ turn' \in Seq(Handles) /\ hookQueue' \in [Kinds -> Seq(Hooks)]
          /\ TurnHolds' /\ HooksInLine' /\ ClosingInLine' /\ PromisedIsDue' /\ StartsDiffer'
          /\ ActiveCount'
      BY <1>1, <2>1, TurnsKeeps
    <2>3. canSleep' \in BOOLEAN /\ phase' = "idle" /\ UNCHANGED stopFlag
      BY <1>3 DEF BeginsIteration
    <2>4. LoopShape'
      BY <1>1, <2>2, <2>3 DEF LoopShape, Phases
    <2> QED BY <2>2, <2>4, LoopBounds DEF LoopParts
  <1> QED BY <1>2, <1>3

LEMMA EndsHooksKeeps == ASSUME LoopInv, EndsHooks PROVE LoopInv'
  <1> USE DEF EndsHooks, timeVars, timerVars, countVars
  <1>1. LoopParts /\ LoopShape /\ ToSet(turn) = {}
    BY EmptyRest DEF LoopInv, LoopParts
  <1>2. ASSUME NEW k \in Kinds, TurnsTo(k, k), UNCHANGED closeVars PROVE LoopInv'
    <2>1. /\ turn' \in Seq(Handles) /\ hookQueue' \in [Kinds -> Seq(Hooks)]
          /\ TurnHolds' /\ HooksInLine' /\ ClosingInLine' /\ PromisedIsDue' /\ StartsDiffer'
          /\ ActiveCount'
      BY <1>1, <1>2, TurnsKeeps
    <2>2. phase' \in Phases
      BY <1>2 DEF TurnsTo, Kinds, Phases
    <2>3. LoopShape'
      BY <1>1, <1>2, <2>1, <2>2 DEF LoopShape, closeVars
    <2> QED BY <2>1, <2>3, LoopBounds DEF LoopParts
  <1>3. CASE phase = "prepare" /\ phase' = "poll" /\ UNCHANGED <<turn, hookQueue, closeVars>>
    <2>1. /\ TurnHolds' /\ HooksInLine' /\ ClosingInLine' /\ PromisedIsDue' /\ StartsDiffer'
          /\ ActiveCount'
      BY <1>1, <1>3, PhaseKeeps
    <2>2. LoopShape'
      BY <1>1, <1>3 DEF LoopShape, Phases, closeVars
    <2> QED BY <2>1, <2>2, LoopBounds DEF LoopParts
  <1>4. CASE /\ phase = "check" /\ phase' = "closing"
             /\ turn' = closingHandles /\ closingHandles' = <<>>
             /\ UNCHANGED <<hookQueue, closingSet, closedSet>>
    <2>1. <<>> \in Seq(Handles)
      BY EmptySeq
    <2>2. LoopShape'
      <3>1. turn' \in Seq(Handles) /\ closingHandles' \in Seq(Handles)
        BY <1>1, <1>4, <2>1 DEF LoopShape
      <3> QED BY <1>1, <1>4, <3>1 DEF LoopShape, Phases
    <2>3. /\ \A p : Turning(p) = {}
          /\ \A k \in Kinds : Turning(k)' = {}
          /\ Turning("closing")' = ToSet(closingHandles)
      BY <1>1, <1>4 DEF Turning, Kinds
    <2>4. TurnHolds'
      BY <1>1, <1>4 DEF LoopParts, TurnHolds, ClosingInLine, ForTimers
    <2>5. HooksInLine'
      BY <1>1, <1>4, <2>3 DEF LoopParts, HooksInLine
    <2>6. ClosingInLine'
      BY <1>1, <1>4, <2>3, EmptyRest DEF LoopParts, ClosingInLine
    <2>7. PromisedIsDue' /\ StartsDiffer' /\ ActiveCount'
      BY <1>1, <1>4 DEF LoopParts, PromisedIsDue, StartsDiffer, ActiveCount, ForTimers
    <2> QED BY <2>2, <2>4, <2>5, <2>6, <2>7, LoopBounds DEF LoopParts
  <1>5. "prepare" \in Kinds /\ "check" \in Kinds
    BY DEF Kinds
  <1>6. \/ TurnsTo("prepare", "prepare") /\ UNCHANGED closeVars
        \/ TurnsTo("check", "check") /\ UNCHANGED closeVars
        \/ phase = "prepare" /\ phase' = "poll" /\ UNCHANGED <<turn, hookQueue, closeVars>>
        \/ /\ phase = "check" /\ phase' = "closing"
           /\ turn' = closingHandles /\ closingHandles' = <<>>
           /\ UNCHANGED <<hookQueue, closingSet, closedSet>>
    OBVIOUS
  <1> HIDE DEF EndsHooks
  <1> QED BY <1>2, <1>3, <1>4, <1>5, <1>6

LEMMA PollKeeps == ASSUME LoopInv, PollEnds \/ PollReturnsReq PROVE LoopInv'
  <1>1. LoopParts /\ LoopShape /\ ToSet(turn) = {}
    BY DEF LoopInv, LoopParts, TurnHolds, PollEnds, PollReturnsReq
  <1>2. clock' \in 0..MaxClock /\ now' = clock'
    <2>1. CASE PollEnds
      <3>1. PICK late \in 0..1 :
              clock' = late + IF Sleeps /\ timeout[NextTimer] > clock THEN timeout[NextTimer]
                                                                      ELSE clock
        BY <2>1 DEF PollEnds
      <3>2. Sleeps => timeout[NextTimer] \in Nat
        <4>1. Sleeps => NextTimer \in Timers
          BY <1>1, <2>1, NextIsTimer DEF PollEnds
        <4> QED BY <1>1, <4>1, LoopAssumption DEF LoopShape
      <3>3. clock \in Nat
        BY <1>1 DEF LoopShape
      <3>4. clock' \in Nat
        BY <3>1, <3>2, <3>3
      <3>5. clock' <= MaxClock /\ now' = clock'
        BY <2>1 DEF PollEnds
      <3> QED BY <3>4, <3>5, LoopAssumption
    <2>2. CASE PollReturnsReq
      BY <1>1, <2>2, LoopAssumption DEF PollReturnsReq, LoopShape
    <2> QED BY <2>1, <2>2
  <1>3. /\ phase' = "polled" /\ activeReqs' \in 0..MaxReqs
        /\ running' \in Handles \cup {NoHandle, Io}
        /\ UNCHANGED <<mode, canSleep, turn, timerVars, hookQueue, countVars, closeVars,
                       stopFlag, promised, uses>>
    BY <1>1, LoopAssumption DEF PollEnds, PollReturnsReq, LoopShape
  <1>4. /\ TurnHolds' /\ HooksInLine' /\ ClosingInLine' /\ PromisedIsDue' /\ StartsDiffer'
        /\ ActiveCount'
    BY <1>1, <1>3, PhaseKeeps
  <1>5. LoopShape'
    BY <1>1, <1>2, <1>3 DEF LoopShape, Phases, timerVars, countVars, closeVars
  <1> QED BY <1>4, <1>5, LoopBounds DEF LoopParts

LEMMA RunsHookKeeps == ASSUME LoopInv, RunsHook PROVE LoopInv'
  <1> DEFINE x == Head(turn)
             q == Append(hookQueue[phase], x)
  <1> USE DEF RunsHook, timeVars, timerVars, countVars, closeVars
  <1>1. LoopParts /\ LoopShape /\ phase \in Kinds /\ phase # "closing" /\ phase \notin ForTimers
    BY DEF LoopInv, LoopParts, Kinds, ForTimers
  <1>2. Less(x) /\ x \in Handles /\ x \in ToSet(turn)
    BY <1>1, LessTail
  <1>3. x \in active \cap Of(phase) /\ x \in Hooks
    BY <1>1, <1>2, TurnIsOf, KindsApart
  <1>4. /\ hookQueue[phase] \in Seq(Hooks) /\ IsInjective(hookQueue[phase])
        /\ x \notin ToSet(hookQueue[phase])
    BY <1>1, <1>2 DEF LoopShape, LoopParts, HooksInLine, Turning
  <1>5. q \in Seq(Hooks) /\ IsInjective(q) /\ ToSet(q) = ToSet(hookQueue[phase]) \cup {x}
    BY <1>3, <1>4, AppendRest
  <1>6. hookQueue' = [hookQueue EXCEPT ![phase] = q] /\ running' = x /\ phase' = phase
    OBVIOUS
  <1> HIDE DEF q, x
  <1>7. LoopShape'
    <2>1. hookQueue' \in [Kinds -> Seq(Hooks)]
      BY <1>1, <1>5, <1>6 DEF LoopShape
    <2> QED BY <1>1, <1>2, <1>6, <2>1 DEF LoopShape, Less
  <1>8. TurnHolds'
    BY <1>1, <1>2, <1>6 DEF TurnHolds, Less, Kinds
  <1>9. HooksInLine'
    <2> SUFFICES ASSUME NEW k \in Kinds
                 PROVE  /\ IsInjective(hookQueue'[k])
                        /\ ToSet(hookQueue'[k]) \cap Turning(k)' = {}
                        /\ ToSet(hookQueue'[k]) \cup Turning(k)' = active' \cap Of(k)
      BY DEF HooksInLine
    <2>1. /\ IsInjective(hookQueue[k]) /\ ToSet(hookQueue[k]) \cap Turning(k) = {}
          /\ ToSet(hookQueue[k]) \cup Turning(k) = active \cap Of(k)
      BY <1>1 DEF LoopParts, HooksInLine
    <2>2. CASE k = phase
      <3>1. hookQueue'[k] = q
        BY <1>1, <1>6, <2>2 DEF LoopShape
      <3>2. Turning(k) = ToSet(turn) /\ Turning(k)' = ToSet(turn) \ {x}
        BY <1>1, <1>2, <1>6, <2>2 DEF Turning, Less
      <3>3. ToSet(hookQueue'[k]) = ToSet(hookQueue[k]) \cup {x} /\ IsInjective(hookQueue'[k])
        BY <1>5, <2>2, <3>1
      <3>4. active' = active /\ x \in ToSet(turn) /\ x \notin ToSet(hookQueue[k])
        BY <1>2, <1>4, <2>2
      <3> QED BY <2>1, <3>2, <3>3, <3>4
    <2>3. CASE k # phase
      <3>1. hookQueue'[k] = hookQueue[k]
        BY <1>1, <1>6, <2>3 DEF LoopShape
      <3>2. Turning(k) = {} /\ Turning(k)' = {}
        BY <1>6, <2>3 DEF Turning
      <3> QED BY <2>1, <3>1, <3>2
    <2> QED BY <2>2, <2>3
  <1>10. ClosingInLine' /\ PromisedIsDue' /\ StartsDiffer' /\ ActiveCount'
    BY <1>1, <1>6 DEF LoopParts, ClosingInLine, Turning, PromisedIsDue, StartsDiffer, ActiveCount
  <1> QED BY <1>7, <1>8, <1>9, <1>10, LoopBounds DEF LoopParts

LEMMA FinishesKeeps == ASSUME LoopInv, FinishesClose PROVE LoopInv'
  <1> DEFINE x == Head(turn)
             q == Tail(turn)
  <1> USE DEF FinishesClose, timeVars, timerVars
  <1>1. LoopParts /\ LoopShape /\ turn \in Seq(Handles) /\ IsInjective(turn)
    BY DEF LoopInv, LoopParts, LoopShape, TurnHolds
  <1>2. /\ x \in Handles /\ x \in ToSet(turn) /\ q \in Seq(Handles) /\ IsInjective(q)
        /\ ToSet(turn) = ToSet(q) \cup {x} /\ x \notin ToSet(q)
    BY <1>1, TailRest
  <1>3. /\ x \in closingSet \ closedSet /\ x \notin active /\ x \notin ToSet(closingHandles)
    BY <1>1, <1>2 DEF LoopParts, ClosingInLine, Turning
  <1>4. /\ turn' = q /\ running' = x /\ closedSet' = closedSet \cup {x} /\ refd' = refd \ {x}
        /\ phase' = phase /\ UNCHANGED <<active, activeHandles, closingHandles, closingSet>>
    OBVIOUS
  <1> HIDE DEF x, q
  <1>5. LoopShape'
    BY <1>1, <1>2, <1>3, <1>4 DEF LoopShape
  <1>6. TurnHolds'
    BY <1>2, <1>4 DEF TurnHolds, ForTimers
  <1>7. HooksInLine'
    BY <1>1, <1>4 DEF LoopParts, HooksInLine, Turning, Kinds
  <1>8. ClosingInLine'
    <2>1. Turning("closing") = ToSet(turn) /\ Turning("closing")' = ToSet(q)
      BY <1>4 DEF Turning
    <2> QED BY <1>1, <1>2, <1>3, <1>4, <2>1 DEF LoopParts, ClosingInLine
  <1>9. PromisedIsDue' /\ StartsDiffer'
    BY <1>1, <1>4 DEF LoopParts, PromisedIsDue, StartsDiffer, ForTimers
  <1>10. ActiveCount'
    <2>1. active' \cap refd' = active \cap refd
      BY <1>3, <1>4
    <2> QED BY <1>1, <1>4, <2>1 DEF LoopParts, ActiveCount
  <1> QED BY <1>5, <1>6, <1>7, <1>8, <1>9, <1>10, LoopBounds DEF LoopParts

LEMMA RunsTimerKeeps == ASSUME LoopInv, RunsTimer PROVE LoopInv'
  <1> DEFINE t == Head(turn)
  <1> USE DEF RunsTimer, timeVars, closeVars
  <1>1. LoopParts /\ LoopShape /\ phase \in ForTimers /\ phase # "closing"
    BY DEF LoopInv, LoopParts, ForTimers
  <1>2. Less(t) /\ t \in ToSet(turn)
    BY <1>1, LessTail
  <1>3. t \in Timers \ closingSet /\ t \in Handles /\ t \notin active
    BY <1>1, <1>2 DEF LoopParts, TurnHolds, Handles
  <1>4. CASE repeat[t] # 0
    <2>1. repeat[t] \in 0..1 /\ repeat[t] \in 0..MaxDelay + 1
      BY <1>1, <1>3, LoopAssumption DEF LoopShape
    <2>2. Scheduled(t, repeat[t], repeat[t]) /\ running' = t
      BY <1>4
    <2>3. UNCHANGED <<phase, now, hookQueue, refd, closingHandles, closingSet, closedSet>>
      OBVIOUS
    <2>4. UNCHANGED <<mode, canSleep, clock, activeReqs, stopFlag, uses>>
      OBVIOUS
    <2> HIDE DEF t, RunsTimer
    <2>5. /\ timeout' \in [Timers -> 0..MaxClock + MaxDelay + 1] /\ repeat' \in [Timers -> 0..1]
          /\ startId' \in [Timers -> Nat] /\ timerCounter' \in Nat
          /\ active' \in SUBSET Handles /\ promised' \in SUBSET Timers /\ turn' \in Seq(Handles)
          /\ TurnHolds' /\ HooksInLine' /\ ClosingInLine' /\ PromisedIsDue' /\ StartsDiffer'
          /\ ActiveCount'
      BY <1>1, <1>2, <1>3, <2>1, <2>2, <2>3, ScheduledKeeps
    <2>6. LoopShape'
      BY <1>1, <1>3, <2>2, <2>3, <2>4, <2>5 DEF LoopShape
    <2> QED BY <2>5, <2>6, LoopBounds DEF LoopParts
  <1>5. CASE repeat[t] = 0
    <2>1. /\ promised' = promised \ {t} /\ UNCHANGED <<timerVars, active, activeHandles>>
          /\ running' = t
      BY <1>5
    <2> HIDE DEF t
    <2> USE DEF timerVars
    <2>2. LoopShape'
      BY <1>1, <1>2, <1>3, <2>1 DEF LoopShape, Less
    <2>3. TurnHolds'
      BY <1>1, <1>2, <2>1 DEF LoopParts, TurnHolds, Less, IsInOrder, Earlier, ForTimers
    <2>4. HooksInLine' /\ ClosingInLine'
      BY <1>1, <2>1 DEF LoopParts, HooksInLine, ClosingInLine, Turning, ForTimers, Kinds
    <2>5. PromisedIsDue' /\ StartsDiffer' /\ ActiveCount'
      BY <1>1, <1>2, <1>3, <2>1
      DEF LoopParts, PromisedIsDue, StartsDiffer, ActiveCount, Less
    <2> QED BY <2>2, <2>3, <2>4, <2>5, LoopBounds DEF LoopParts
  <1> QED BY <1>4, <1>5

LEMMA LoopKeeps == LoopInv /\ [LoopNext]_loopVarsAll => LoopInv'
  BY RefKeeps, LoopQuietKeeps, TimerUserKeeps, HookStartKeeps, HookStopKeeps, CloseKeeps,
     EntersKeeps, EndsClosingKeeps, IteratesKeeps, EndsHooksKeeps, PollKeeps, RunsHookKeeps,
     FinishesKeeps, RunsTimerKeeps
  DEF LoopNext, RunStep, User

LEMMA LoopConcludes == LoopInv => LoopTypeOK /\ ActiveCount /\ TurnIsDue
  <1> SUFFICES ASSUME LoopInv PROVE TurnIsDue
    BY DEF LoopInv, LoopParts
  <1>1. LoopParts
    BY DEF LoopInv
  <1>2. phase \in ForTimers => IsInOrder(turn) /\ ToSet(turn) \subseteq Timers \ closingSet
    BY <1>1 DEF LoopParts, TurnHolds
  <1>3. phase \notin ForTimers => (ToSet(turn) \cap Timers) \ closingSet = {}
    BY <1>1, TurnIsOf DEF LoopParts, TurnHolds
  <1>4. phase \in Kinds => ToSet(turn) \subseteq active
    BY <1>1, TurnIsOf
  <1>5. promised = (active \cap Timers) \cup ((ToSet(turn) \cap Timers) \ closingSet)
    BY <1>1, <1>2, <1>3 DEF LoopParts, PromisedIsDue
  <1> QED BY <1>2, <1>4, <1>5 DEF TurnIsDue, ForTimers, Kinds

LEMMA LoopClosesOnce ==
  LoopInv /\ [LoopNext]_loopVarsAll =>
    [\A h \in closingSet : running' = h /\ running # h =>
       phase = "closing" /\ h \notin closedSet]_loopVarsAll
  <1> SUFFICES ASSUME LoopInv, LoopNext, NEW h \in closingSet, running' = h, running # h
               PROVE  phase = "closing" /\ h \notin closedSet
    OBVIOUS
  <1>1. LoopParts /\ LoopShape /\ h \in Handles
    BY DEF LoopInv, LoopParts, LoopShape
  <1>2. h # NoHandle /\ h # Io
    BY <1>1, LoopAssumption
  <1>3. RunsHook \/ FinishesClose \/ RunsTimer
    BY <1>2 DEF LoopNext, RunStep, User, Ref, Unref, CloseHandle, TimerStop, TimerAgain, TimerStart,
       HookStart, HookStop, StopLoop, StartReq, TimePasses, UpdateTime, Iterates, EndsHooks,
       PollEnds, EndsClosing, CallbackReturns, PollReturnsReq, EntersRun, runVars
  <1>4. h = Head(turn) /\ turn # <<>>
    BY <1>3 DEF RunsHook, FinishesClose, RunsTimer
  <1>5. h \in ToSet(turn)
    BY <1>1, <1>4, TailRest DEF LoopShape
  <1>6. ~RunsHook
    BY <1>1, <1>5, TurnIsOf DEF RunsHook, Kinds
  <1>7. ~RunsTimer
    BY <1>1, <1>5 DEF RunsTimer, LoopParts, TurnHolds, ForTimers
  <1>8. FinishesClose /\ phase = "closing"
    BY <1>3, <1>6, <1>7 DEF FinishesClose
  <1> QED BY <1>1, <1>5, <1>8, TurnIsOf

LEMMA LoopLeavesNothing ==
  LoopInv /\ [LoopNext]_loopVarsAll =>
    [phase = "timers" /\ phase' = "out" /\ mode = "default" /\ ~stopFlag =>
       active \cap refd = {} /\ activeReqs = 0 /\ closingSet = closedSet]_loopVarsAll
  <1> SUFFICES ASSUME LoopInv, LoopNext, phase = "timers", phase' = "out", mode = "default",
                      ~stopFlag
               PROVE  active \cap refd = {} /\ activeReqs = 0 /\ closingSet = closedSet
    OBVIOUS
  <1>1. LoopParts /\ LoopShape
    BY DEF LoopInv, LoopParts
  <1>2. Iterates
    BY DEF LoopNext, RunStep, User, Ref, Unref, CloseHandle, TimerStop, TimerAgain, TimerStart,
       HookStart, HookStop, StopLoop, StartReq, TimePasses, UpdateTime, RunsHook, EndsHooks,
       PollEnds, FinishesClose, EndsClosing, RunsTimer, CallbackReturns, PollReturnsReq, EntersRun,
       runVars
  <1>3. ~Alive
    BY <1>2 DEF Iterates, BeginsIteration
  <1>4. activeHandles \in Nat /\ activeReqs \in Nat
    BY <1>1, LoopAssumption, FS_CardinalityType DEF LoopInv, LoopTypeOK, LoopShape
  <1>5. activeHandles = 0 /\ activeReqs = 0 /\ closingHandles = <<>>
    BY <1>3, <1>4 DEF Alive
  <1>6. active \cap refd = {}
    <2>1. active \cap refd \in SUBSET Handles
      BY <1>1 DEF LoopShape
    <2>2. IsFiniteSet(active \cap refd) /\ Cardinality(active \cap refd) = 0
      BY <1>1, <1>5, <2>1, LoopAssumption, FS_Subset DEF LoopParts, ActiveCount
    <2> QED BY <2>2, FS_EmptySet
  <1>7. closingSet = closedSet
    BY <1>1, <1>5, EmptyRest DEF LoopParts, LoopShape, ClosingInLine, Turning
  <1> QED BY <1>5, <1>6, <1>7

-----------------------------------------------------------------------------
(***************************************************************************)
(* The heap of the timers, for any number of keys: the least of its keys   *)
(* is at the root whenever no call is under way.                           *)
(*                                                                         *)
(* Between the steps of a call the heap is not in order.  HeapOrder says   *)
(* what holds nevertheless: only the node that walks may be out of order,  *)
(* with its parent, and, on its way down, with its children, which are     *)
(* greater than the parent it has.  So the node that took the place of a   *)
(* removed one is in order with its children when it turns to walk up.     *)
(***************************************************************************)

HeapTypes ==
  /\ heap \in Seq(1..MaxKey) /\ members \subseteq 1..MaxKey /\ node \in Nat
  /\ going \in {"no", "down", "up"}
  /\ IF going = "no" THEN node = 0 ELSE node \in DOMAIN heap

HeapHolds == ToSet(heap) = members /\ IsInjective(heap)

\* The node that walks may be less than its parent, and, on its way down, greater than its
\* children; around it its parent and its children are in order.
HeapOrder ==
  /\ \A i \in DOMAIN heap : i > 1 /\ i # node /\ (going = "down" => Parent(i) # node) =>
       heap[Parent(i)] < heap[i]
  /\ \A i \in DOMAIN heap : i > 1 /\ node > 1 /\ Parent(i) = node =>
       heap[Parent(node)] < heap[i]

HeapInv == HeapTypes /\ HeapHolds /\ HeapOrder

LEMMA Parents ==
  /\ \A i \in Nat : i > 1 => Parent(i) \in Nat /\ 1 <= Parent(i) /\ Parent(i) < i
  /\ \A i, j \in Nat : Parent(i) = j <=> i = 2 * j \/ i = 2 * j + 1
  BY DEF Parent

LEMMA HeapStart == HeapInit => HeapInv
  <1> SUFFICES ASSUME HeapInit PROVE HeapInv
    OBVIOUS
  <1>1. heap = <<>> /\ members = {} /\ node = 0 /\ going = "no"
    BY DEF HeapInit
  <1>2. DOMAIN heap = {}
    BY <1>1
  <1>3. HeapTypes
    BY <1>1 DEF HeapTypes
  <1>4. HeapHolds
    BY <1>1, <1>2 DEF HeapHolds, ToSet, IsInjective
  <1>5. HeapOrder
    BY <1>2 DEF HeapOrder
  <1> QED BY <1>3, <1>4, <1>5 DEF HeapInv

LEMMA HeapConcludes == HeapInv => HeapServesLeast
  <1> SUFFICES ASSUME HeapInv, going = "no", members # {}
               PROVE  heap[1] \in members /\ \A key \in members : heap[1] <= key
    BY DEF HeapInv, HeapHolds, HeapServesLeast
  <1>1. /\ heap \in Seq(1..MaxKey) /\ node = 0
        /\ members = {heap[i] : i \in DOMAIN heap}
        /\ \A i \in DOMAIN heap : i > 1 => heap[Parent(i)] < heap[i]
    <2>1. heap \in Seq(1..MaxKey) /\ node = 0 /\ members = {heap[i] : i \in DOMAIN heap}
      BY DEF HeapInv, HeapTypes, HeapHolds, ToSet
    <2>2. \A i \in DOMAIN heap : i \in Nat /\ i # 0
      BY <2>1
    <2> QED BY <2>1, <2>2 DEF HeapInv, HeapOrder
  <1>2. Len(heap) \in Nat /\ DOMAIN heap = 1..Len(heap) /\ \A i \in DOMAIN heap : heap[i] \in Nat
    BY <1>1, HeapAssumption
  <1>3. 1 \in DOMAIN heap
    <2>1. DOMAIN heap # {}
      BY <1>1
    <2> QED BY <2>1, <1>2
  <1>4. \A i \in DOMAIN heap : heap[1] <= heap[i]
    <2> DEFINE below == {i \in DOMAIN heap : heap[i] < heap[1]}
    <2> SUFFICES ASSUME below # {} PROVE FALSE
      BY <1>2, <1>3
    <2>1. below \in SUBSET Nat
      BY <1>2
    <2> HIDE DEF below
    <2>2. PICK n \in below : \A m \in below : n <= m
      BY <2>1, LeastNatural
    <2>3. n \in DOMAIN heap /\ heap[n] < heap[1] /\ n \in Nat
      BY <2>1, <2>2 DEF below
    <2>4. n > 1
      BY <1>2, <1>3, <2>3
    <2>5. Parent(n) \in DOMAIN heap /\ Parent(n) \in Nat /\ Parent(n) < n
      BY <1>2, <2>3, <2>4, Parents
    <2>6. heap[Parent(n)] < heap[1]
      BY <1>1, <1>2, <1>3, <2>3, <2>4, <2>5
    <2>7. Parent(n) \in below
      BY <2>5, <2>6 DEF below
    <2> QED BY <2>2, <2>3, <2>5, <2>7
  <1> QED BY <1>1, <1>3, <1>4

(* What the invariant says, ready for use.                                 *)
LEMMA HeapFacts ==
  ASSUME HeapInv
  PROVE  /\ heap \in Seq(1..MaxKey) /\ Len(heap) \in Nat /\ DOMAIN heap = 1..Len(heap)
         /\ \A i \in DOMAIN heap : heap[i] \in 1..MaxKey /\ heap[i] \in Nat /\ heap[i] \in members
         /\ \A i, j \in DOMAIN heap : heap[i] = heap[j] => i = j
         /\ members = {heap[i] : i \in DOMAIN heap}
  BY HeapAssumption DEF HeapInv, HeapTypes, HeapHolds, ToSet, IsInjective

(* An exchange moves two keys.                                             *)
LEMMA ExchangeMoves ==
  ASSUME HeapInv, going # "no", NEW i \in DOMAIN heap, Exchange(i)
  PROVE  /\ heap' \in Seq(1..MaxKey) /\ DOMAIN heap' = DOMAIN heap /\ node' = i
         /\ \A j \in DOMAIN heap :
              heap'[j] = IF j = i THEN heap[node] ELSE IF j = node THEN heap[i] ELSE heap[j]
         /\ ToSet(heap') = members /\ IsInjective(heap')
  <1>1. heap \in Seq(1..MaxKey) /\ node \in DOMAIN heap
    BY DEF HeapInv, HeapTypes
  <1>2. heap' = [heap EXCEPT ![node] = heap[i], ![i] = heap[node]] /\ node' = i
    BY DEF Exchange
  <1>3. heap' \in Seq(1..MaxKey) /\ DOMAIN heap' = DOMAIN heap
    BY <1>1, <1>2, HeapFacts
  <1>4. \A j \in DOMAIN heap :
          heap'[j] = IF j = i THEN heap[node] ELSE IF j = node THEN heap[i] ELSE heap[j]
    BY <1>1, <1>2
  <1>5. IsInjective(heap')
    BY <1>1, <1>3, <1>4, HeapFacts DEF IsInjective
  <1>6. \A j \in DOMAIN heap : heap'[j] \in members
    BY <1>1, <1>4, HeapFacts
  <1>7. \A j \in DOMAIN heap : \E k \in DOMAIN heap : heap'[k] = heap[j]
    <2> TAKE j \in DOMAIN heap
    <2>1. CASE j = i
      BY <2>1, <1>1, <1>4
    <2>2. CASE j = node
      BY <2>2, <1>1, <1>4
    <2>3. CASE j # i /\ j # node
      BY <2>3, <1>4
    <2> QED BY <2>1, <2>2, <2>3
  <1>8. ToSet(heap') = members
    <2>1. ToSet(heap') = {heap'[j] : j \in DOMAIN heap}
      BY <1>3 DEF ToSet
    <2>2. members = {heap[j] : j \in DOMAIN heap}
      BY HeapFacts
    <2> QED BY <2>1, <2>2, <1>6, <1>7
  <1> QED BY <1>2, <1>3, <1>4, <1>5, <1>8

LEMMA InsertKeeps ==
  ASSUME HeapInv, NEW key \in 1..MaxKey, HeapInsert(key)
  PROVE  HeapInv'
  <1> DEFINE n == Len(heap) + 1
  <1>1. /\ going = "no" /\ node = 0 /\ key \notin members
        /\ members' = members \cup {key} /\ node' = n /\ going' = "up"
    BY DEF HeapInsert, HeapInv, HeapTypes
  <1>2. heap' \in Seq(1..MaxKey) /\ Len(heap') = n /\ heap'[n] = key
        /\ \A j \in 1..Len(heap) : heap'[j] = heap[j]
    BY HeapFacts DEF HeapInsert
  <1>3. DOMAIN heap' = DOMAIN heap \cup {n} /\ n \notin DOMAIN heap /\ n \in Nat
    BY <1>2, HeapFacts
  <1> HIDE DEF n
  <1>4. HeapTypes'
    BY <1>1, <1>2, <1>3 DEF HeapInv, HeapTypes
  <1>5. \A j \in DOMAIN heap : heap'[j] = heap[j]
    BY <1>2, HeapFacts
  <1>6. HeapHolds'
    <2>1. ToSet(heap') = members \cup {key}
      BY <1>2, <1>3, <1>5, HeapFacts DEF ToSet
    <2>2. IsInjective(heap')
      BY <1>1, <1>2, <1>3, <1>5, HeapFacts DEF IsInjective
    <2> QED BY <1>1, <2>1, <2>2 DEF HeapHolds
  <1>7. ASSUME NEW j \in DOMAIN heap', j > 1
        PROVE  (j # n => heap'[Parent(j)] < heap'[j]) /\ Parent(j) # n
    <2>1. j \in Nat /\ j <= n /\ Parent(j) \in Nat /\ 1 <= Parent(j) /\ Parent(j) < j
      BY <1>2, <1>7, Parents DEF n
    <2>2. Parent(j) \in DOMAIN heap
      BY <2>1, HeapFacts DEF n
    <2>3. ASSUME j # n PROVE heap'[Parent(j)] < heap'[j]
      <3>1. j \in DOMAIN heap
        BY <1>3, <2>3
      <3>2. heap[Parent(j)] < heap[j]
        BY <1>1, <1>7, <2>1, <3>1 DEF HeapInv, HeapOrder
      <3> QED BY <1>5, <2>2, <3>1, <3>2
    <2> QED BY <2>1, <2>2, <2>3, <1>3
  <1>8. HeapOrder'
    BY <1>1, <1>7 DEF HeapOrder
  <1> QED BY <1>4, <1>6, <1>8 DEF HeapInv

LEMMA RemoveKeeps ==
  ASSUME HeapInv, NEW i \in DOMAIN heap, HeapRemove(i)
  PROVE  HeapInv'
  <1> DEFINE last == Len(heap)
  <1>1. /\ going = "no" /\ node = 0 /\ members' = members \ {heap[i]}
        /\ IF i = last THEN node' = 0 /\ going' = "no" ELSE node' = i /\ going' = "down"
    BY DEF HeapRemove, HeapInv, HeapTypes
  <1>2. last \in Nat /\ last > 0 /\ DOMAIN heap = 1..last /\ i \in 1..last
    BY HeapFacts
  <1>3. heap' = [j \in 1..last - 1 |-> IF j = i THEN heap[last] ELSE heap[j]]
    BY DEF HeapRemove
  <1> HIDE DEF last
  <1>4. /\ heap' \in Seq(1..MaxKey) /\ DOMAIN heap' = 1..last - 1
        /\ \A j \in 1..last - 1 : heap'[j] = IF j = i THEN heap[last] ELSE heap[j]
    <2>1. last - 1 \in Nat /\ \A j \in 1..last : heap[j] \in 1..MaxKey
      BY <1>2, HeapFacts
    <2>2. \A j \in 1..last - 1 : heap'[j] = IF j = i THEN heap[last] ELSE heap[j]
      BY <1>3
    <2>3. \A j \in 1..last - 1 : heap'[j] \in 1..MaxKey
      BY <1>2, <2>1, <2>2
    <2>4. heap' = [j \in 1..last - 1 |-> heap'[j]]
      BY <1>3
    <2>5. heap' \in [1..last - 1 -> 1..MaxKey]
      BY <2>3, <2>4
    <2>6. heap' \in Seq(1..MaxKey)
      BY <2>1, <2>5, SeqDef
    <2> QED BY <2>2, <2>4, <2>6
  <1>5. HeapTypes'
    <2>1. i # last => i \in 1..last - 1
      BY <1>2
    <2>2. /\ node' \in Nat /\ going' \in {"no", "down", "up"}
          /\ IF going' = "no" THEN node' = 0 ELSE node' \in DOMAIN heap'
      BY <1>1, <1>2, <1>4, <2>1
    <2>3. members' \subseteq 1..MaxKey
      BY <1>1 DEF HeapInv, HeapTypes
    <2> QED BY <1>4, <2>2, <2>3 DEF HeapTypes
  <1>6. HeapHolds'
    <2>1. IsInjective(heap')
      BY <1>2, <1>4, HeapFacts DEF IsInjective
    <2>2. \A j \in 1..last - 1 : heap'[j] \in members \ {heap[i]}
      <3> TAKE j \in 1..last - 1
      <3>1. j \in 1..last /\ last \in 1..last /\ j # last
        BY <1>2
      <3>2. CASE j = i
        BY <1>2, <1>4, <3>1, <3>2, HeapFacts
      <3>3. CASE j # i
        BY <1>2, <1>4, <3>1, <3>3, HeapFacts
      <3> QED BY <3>2, <3>3
    <2>3. \A k \in members \ {heap[i]} : \E j \in 1..last - 1 : heap'[j] = k
      <3> TAKE k \in members \ {heap[i]}
      <3>1. PICK j \in 1..last : heap[j] = k /\ j # i
        BY <1>2, HeapFacts
      <3>2. CASE j = last
        BY <1>2, <1>4, <3>1, <3>2
      <3>3. CASE j # last
        BY <1>2, <1>4, <3>1, <3>3
      <3> QED BY <3>2, <3>3
    <2>4. ToSet(heap') = {heap'[j] : j \in 1..last - 1}
      BY <1>4 DEF ToSet
    <2>5. ToSet(heap') = members \ {heap[i]}
      BY <2>2, <2>3, <2>4
    <2> QED BY <1>1, <2>1, <2>5 DEF HeapHolds
  <1>7. ASSUME NEW j \in 1..last - 1, j > 1
        PROVE  /\ Parent(j) \in 1..last - 1 /\ heap[Parent(j)] < heap[j] /\ j \in Nat
               /\ j \in DOMAIN heap /\ j # node /\ Parent(j) \in DOMAIN heap
    <2>1. j \in Nat /\ j \in DOMAIN heap /\ j # node
      BY <1>1, <1>2, <1>7
    <2>2. Parent(j) \in 1..last - 1 /\ Parent(j) \in DOMAIN heap
      BY <1>2, <1>7, <2>1, Parents
    <2>3. heap[Parent(j)] < heap[j]
      BY <1>1, <1>7, <2>1 DEF HeapInv, HeapOrder
    <2> QED BY <2>1, <2>2, <2>3
  <1>8. HeapOrder'
    <2>1. CASE i = last
      <3>1. \A j \in 1..last - 1 : heap'[j] = heap[j]
        BY <1>2, <1>4, <2>1
      <3>2. \A j \in DOMAIN heap' : j > 1 => heap'[Parent(j)] < heap'[j]
        BY <1>4, <1>7, <3>1
      <3> QED BY <1>1, <2>1, <3>2 DEF HeapOrder
    <2>2. CASE i # last
      <3>1. node' = i /\ going' = "down"
        BY <1>1, <2>2
      <3>2. \A j \in DOMAIN heap' : j > 1 /\ j # i /\ Parent(j) # i =>
                                       heap'[Parent(j)] < heap'[j]
        BY <1>4, <1>7
      <3>3. ASSUME NEW j \in DOMAIN heap', j > 1, i > 1, Parent(j) = i
            PROVE  heap'[Parent(i)] < heap'[j]
        <4>1. i \in 1..last - 1
          BY <1>4, <1>7, <3>3
        <4>2. heap[Parent(i)] < heap[i] /\ heap[i] < heap[j]
          BY <1>4, <1>7, <3>3, <4>1
        <4>3. Parent(i) # i /\ j # i /\ Parent(i) \in 1..last - 1
          BY <1>4, <1>7, <3>3, <4>1, Parents
        <4>4. heap'[Parent(i)] = heap[Parent(i)] /\ heap'[j] = heap[j]
          BY <1>4, <4>3
        <4>5. heap[Parent(i)] \in Nat /\ heap[i] \in Nat /\ heap[j] \in Nat
          BY <1>4, <1>7, <3>3, <4>1, HeapFacts
        <4> QED BY <4>2, <4>4, <4>5
      <3> QED BY <3>1, <3>2, <3>3 DEF HeapOrder
    <2> QED BY <2>1, <2>2
  <1> QED BY <1>5, <1>6, <1>8 DEF HeapInv

LEMMA DownKeeps == ASSUME HeapInv, WalksDown PROVE HeapInv'
  <1>1. /\ going = "down" /\ node \in DOMAIN heap /\ node \in Nat
        /\ UNCHANGED members
    BY DEF HeapInv, HeapTypes, WalksDown
  <1>2. /\ \A j \in DOMAIN heap : j > 1 /\ j # node /\ Parent(j) # node =>
                                   heap[Parent(j)] < heap[j]
        /\ \A j \in DOMAIN heap : j > 1 /\ node > 1 /\ Parent(j) = node =>
                                   heap[Parent(node)] < heap[j]
    BY <1>1 DEF HeapInv, HeapOrder
  <1>3. \A j \in DOMAIN heap : j > 1 /\ Parent(j) = node => j \in Children(node)
    <2> SUFFICES ASSUME NEW j \in DOMAIN heap, j > 1, Parent(j) = node
                 PROVE  j \in Children(node)
      OBVIOUS
    <2>1. j \in Nat
      BY HeapFacts
    <2>2. j = 2 * node \/ j = 2 * node + 1
      BY <1>1, <2>1, Parents
    <2> QED BY <2>2 DEF Children
  <1>4. \A j \in DOMAIN heap : j > 1 => Parent(j) \in DOMAIN heap /\ Parent(j) < j /\ j \in Nat
                                      /\ Parent(j) \in Nat
    BY HeapFacts, Parents
  <1>5. ASSUME NEW i \in Children(node), Exchange(i), going' = going,
               \A j \in Children(node) \cup {node} : heap[i] <= heap[j]
        PROVE  HeapInv'
    <2>1. i \in DOMAIN heap /\ i > 1 /\ Parent(i) = node /\ node < i /\ i \in Nat
      <3>1. i \in DOMAIN heap /\ i \in Nat /\ (i = 2 * node \/ i = 2 * node + 1)
        BY <1>1, <1>5, HeapFacts DEF Children
      <3>2. node >= 1
        BY <1>1, HeapFacts
      <3> QED BY <1>1, <3>1, <3>2, Parents
    <2>2. /\ heap' \in Seq(1..MaxKey) /\ DOMAIN heap' = DOMAIN heap /\ node' = i
          /\ \A j \in DOMAIN heap :
              heap'[j] = IF j = i THEN heap[node] ELSE IF j = node THEN heap[i] ELSE heap[j]
          /\ ToSet(heap') = members /\ IsInjective(heap')
      BY <1>1, <1>5, <2>1, ExchangeMoves
    <2>3. HeapTypes'
      BY <1>1, <1>5, <2>1, <2>2 DEF HeapInv, HeapTypes
    <2>4. HeapHolds'
      BY <1>1, <2>2 DEF HeapHolds
    <2>5. ASSUME NEW j \in DOMAIN heap, j > 1, j # i, Parent(j) # i
          PROVE  heap'[Parent(j)] < heap'[j]
      <3>1. CASE j = node
        <4>1. heap'[Parent(node)] = heap[Parent(node)] /\ heap'[node] = heap[i]
          BY <1>4, <2>1, <2>2, <2>5, <3>1
        <4> QED BY <1>2, <2>1, <2>5, <3>1, <4>1
      <3>2. CASE Parent(j) = node
        <4>1. heap'[node] = heap[i] /\ heap'[j] = heap[j] /\ heap[i] <= heap[j]
          BY <1>1, <1>3, <1>4, <1>5, <2>1, <2>2, <2>5, <3>2
        <4>2. heap[i] # heap[j] /\ heap[i] \in Nat /\ heap[j] \in Nat
          BY <2>1, <2>5, HeapFacts
        <4> QED BY <3>2, <4>1, <4>2
      <3>3. CASE j # node /\ Parent(j) # node
        <4>1. heap'[Parent(j)] = heap[Parent(j)] /\ heap'[j] = heap[j]
          BY <1>4, <2>2, <2>5, <3>3
        <4> QED BY <1>2, <2>5, <3>3, <4>1
      <3> QED BY <3>1, <3>2, <3>3
    <2>6. ASSUME NEW j \in DOMAIN heap, j > 1, Parent(j) = i
          PROVE  heap'[Parent(i)] < heap'[j]
      <3>1. j # i /\ j # node /\ Parent(j) # node
        BY <1>1, <1>4, <2>1, <2>6
      <3>2. heap'[node] = heap[i] /\ heap'[j] = heap[j]
        BY <1>1, <2>1, <2>2, <3>1
      <3> QED BY <1>2, <2>1, <2>6, <3>1, <3>2
    <2>7. HeapOrder'
      BY <1>1, <1>5, <2>2, <2>5, <2>6 DEF HeapOrder
    <2> QED BY <2>3, <2>4, <2>7 DEF HeapInv
  <1>6. ASSUME \A j \in Children(node) : heap[node] <= heap[j],
               going' = "up", UNCHANGED <<heap, members, node>>
        PROVE  HeapInv'
    <2>1. HeapTypes' /\ HeapHolds'
      BY <1>1, <1>6 DEF HeapInv, HeapTypes, HeapHolds
    <2>2. ASSUME NEW j \in DOMAIN heap, j > 1, j # node
          PROVE  heap[Parent(j)] < heap[j]
      <3>1. CASE Parent(j) = node
        <4>1. heap[node] <= heap[j]
          BY <1>3, <1>6, <2>2, <3>1
        <4>2. heap[node] # heap[j] /\ heap[node] \in Nat /\ heap[j] \in Nat
          BY <1>1, <2>2, HeapFacts
        <4> QED BY <3>1, <4>1, <4>2
      <3> QED BY <1>2, <2>2, <3>1
    <2>3. HeapOrder'
      BY <1>2, <1>6, <2>2 DEF HeapOrder
    <2> QED BY <2>1, <2>3 DEF HeapInv
  <1> QED BY <1>5, <1>6 DEF WalksDown

LEMMA UpKeeps == ASSUME HeapInv, WalksUp PROVE HeapInv'
  <1>1. /\ going = "up" /\ node \in DOMAIN heap /\ node \in Nat
        /\ UNCHANGED members
    BY DEF HeapInv, HeapTypes, WalksUp
  <1>2. /\ \A j \in DOMAIN heap : j > 1 /\ j # node => heap[Parent(j)] < heap[j]
        /\ \A j \in DOMAIN heap : j > 1 /\ node > 1 /\ Parent(j) = node =>
                                   heap[Parent(node)] < heap[j]
    BY <1>1 DEF HeapInv, HeapOrder
  <1>3. \A j \in DOMAIN heap : j > 1 => Parent(j) \in DOMAIN heap /\ Parent(j) < j /\ j \in Nat
                                      /\ Parent(j) \in Nat
    BY HeapFacts, Parents
  <1>4. ASSUME node > 1, heap[node] < heap[Parent(node)], Exchange(Parent(node)), going' = going
        PROVE  HeapInv'
    <2> DEFINE i == Parent(node)
    <2>1. i \in DOMAIN heap /\ i < node /\ i \in Nat
      BY <1>1, <1>3, <1>4
    <2>2. /\ heap' \in Seq(1..MaxKey) /\ DOMAIN heap' = DOMAIN heap /\ node' = i
          /\ \A j \in DOMAIN heap :
              heap'[j] = IF j = i THEN heap[node] ELSE IF j = node THEN heap[i] ELSE heap[j]
          /\ ToSet(heap') = members /\ IsInjective(heap')
      BY <1>1, <1>4, <2>1, ExchangeMoves
    <2>3. heap[node] < heap[i] /\ \A j \in DOMAIN heap : heap[j] \in Nat
      BY <1>4, HeapFacts
    <2>4. \A j \in DOMAIN heap : j > 1 /\ node > 1 /\ Parent(j) = node => heap[i] < heap[j]
      BY <1>2
    <2>5. Parent(node) = i
      OBVIOUS
    <2> HIDE DEF i
    <2>6. HeapTypes'
      BY <1>1, <1>4, <2>1, <2>2 DEF HeapInv, HeapTypes
    <2>7. HeapHolds'
      BY <1>1, <2>2 DEF HeapHolds
    <2>8. ASSUME NEW j \in DOMAIN heap, j > 1, j # i
          PROVE  heap'[Parent(j)] < heap'[j]
      <3>1. CASE j = node
        <4>1. heap'[i] = heap[node] /\ heap'[node] = heap[i]
          BY <1>1, <2>1, <2>2
        <4> QED BY <2>3, <2>5, <3>1, <4>1
      <3>2. CASE Parent(j) = node
        <4>1. heap'[node] = heap[i] /\ heap'[j] = heap[j]
          BY <1>1, <1>3, <2>1, <2>2, <2>8, <3>2
        <4> QED BY <1>4, <2>4, <2>8, <3>2, <4>1
      <3>3. CASE Parent(j) = i /\ j # node
        <4>1. heap'[i] = heap[node] /\ heap'[j] = heap[j] /\ heap[i] < heap[j]
          BY <1>1, <1>2, <2>1, <2>2, <2>8, <3>3
        <4> QED BY <1>1, <2>1, <2>3, <3>3, <4>1
      <3>4. CASE j # node /\ Parent(j) # node /\ Parent(j) # i
        <4>1. heap'[Parent(j)] = heap[Parent(j)] /\ heap'[j] = heap[j]
          BY <1>3, <2>2, <2>8, <3>4
        <4> QED BY <1>2, <2>8, <3>4, <4>1
      <3> QED BY <3>1, <3>2, <3>3, <3>4
    <2>9. ASSUME NEW j \in DOMAIN heap, j > 1, i > 1, Parent(j) = i
          PROVE  heap'[Parent(i)] < heap'[j]
      <3>1. heap[Parent(i)] < heap[i] /\ Parent(i) \in DOMAIN heap /\ Parent(i) < i
        BY <1>2, <1>3, <2>1, <2>9
      <3>2. heap'[Parent(i)] = heap[Parent(i)]
        BY <2>1, <2>2, <3>1
      <3>3. CASE j = node
        BY <1>1, <2>1, <2>2, <3>1, <3>2, <3>3
      <3>4. CASE j # node
        <4>1. heap[i] < heap[j] /\ heap'[j] = heap[j]
          BY <1>2, <1>3, <2>2, <2>9, <3>4
        <4> QED BY <2>1, <2>3, <3>1, <3>2, <4>1
      <3> QED BY <3>3, <3>4
    <2>10. HeapOrder'
      BY <1>1, <1>4, <2>2, <2>8, <2>9 DEF HeapOrder
    <2> QED BY <2>6, <2>7, <2>10 DEF HeapInv
  <1>5. ASSUME ~(node > 1 /\ heap[node] < heap[Parent(node)]),
               node' = 0, going' = "no", UNCHANGED heap
        PROVE  HeapInv'
    <2>1. HeapTypes' /\ HeapHolds'
      BY <1>1, <1>5 DEF HeapInv, HeapTypes, HeapHolds
    <2>2. ASSUME NEW j \in DOMAIN heap, j > 1
          PROVE  heap[Parent(j)] < heap[j]
      <3>1. CASE j = node
        <4>1. heap[j] # heap[Parent(j)] /\ heap[j] \in Nat /\ heap[Parent(j)] \in Nat
          BY <1>3, <2>2, HeapFacts
        <4> QED BY <1>5, <2>2, <3>1, <4>1
      <3> QED BY <1>2, <2>2, <3>1
    <2>3. HeapOrder'
      BY <1>5, <2>2 DEF HeapOrder
    <2> QED BY <2>1, <2>3 DEF HeapInv
  <1> QED BY <1>4, <1>5 DEF WalksUp

LEMMA HeapStep == HeapInv /\ [HeapNext]_heapVars => HeapInv'
  <1>1. HeapInv /\ UNCHANGED heapVars => HeapInv'
    BY DEF heapVars, HeapInv, HeapTypes, HeapHolds, HeapOrder
  <1> QED BY <1>1, InsertKeeps, RemoveKeeps, DownKeeps, UpKeeps DEF HeapNext

=============================================================================
