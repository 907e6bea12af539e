----------------------------- MODULE MCUv_proofs ------------------------------
(***************************************************************************)
(* The parts side by side: what the runs of MCUv check on a small instance *)
(* holds for any number of threads, requests, handles, descriptors and     *)
(* calls.  Each part has its own inductive invariant, and a step of the    *)
(* whole is, for each part, one of its steps or none; so their conjunction *)
(* is inductive.  The pool sends with the handles of UvAsync, and in the   *)
(* scene of the async handles alone it has not begun.                      *)
(***************************************************************************)
EXTENDS MCUv, UvLoop_proofs, UvHandles_proofs

PoolPart == IF scene = "pool" THEN PoolInv /\ WakeInv ELSE PoolInit

ThreadsInv == AsyncInv /\ PoolPart /\ BarrierInv
WaitingInv == PollInv /\ PollTypes /\ LoopInv /\ HeapInv
HandlesInv == StreamInv /\ ServerInv /\ UdpInv /\ SignalInv /\ FsPollInv

Inv == ThreadsInv /\ WaitingInv /\ HandlesInv

LEMMA InvStart == Init => Inv
  <1>1. Init => PoolPart
    BY PoolStart, WakeStart DEF Init, PoolPart
  <1>2. Init => ThreadsInv
    BY <1>1, AsyncStart, BarrierStart DEF Init, ThreadsInv
  <1>3. Init => WaitingInv
    BY PollStart, PollTypesStart, LoopStart, HeapStart DEF Init, WaitingInv
  <1>4. Init => HandlesInv
    BY StreamStart, ServerStart, UdpStart, SignalStart, FsPollStart DEF Init, HandlesInv
  <1> QED BY <1>2, <1>3, <1>4 DEF Inv

(* What a step of the whole is to each part.                               *)
LEMMA ThreadsStep ==
  ASSUME [Next]_vars
  PROVE  /\ scene' = scene
         /\ [AsyncNext]_asyncVars
         /\ IF scene = "pool" THEN [PoolNext]_<<poolVars, asyncVars>>
                              ELSE UNCHANGED poolVars
         /\ [BarrierNext]_barrierVars
  <1> USE DEF Next, vars, threads, asyncAndPool
  <1>1. scene' = scene
    OBVIOUS
  <1>2. [BarrierNext]_barrierVars
    OBVIOUS
  <1>3. IF scene = "pool" THEN [PoolNext]_<<poolVars, asyncVars>>
                          ELSE UNCHANGED poolVars
    OBVIOUS
  <1>4. [AsyncNext]_asyncVars
    <2>1. CASE scene = "pool"
      BY <1>3, <2>1, PoolSends
    <2>2. CASE scene # "pool"
      BY <2>2
    <2> QED BY <2>1, <2>2
  <1> QED BY <1>1, <1>2, <1>3, <1>4

LEMMA WaitingStep ==
  ASSUME [Next]_vars
  PROVE  [PollNext]_pollVars /\ [LoopNext]_loopVarsAll /\ [HeapNext]_heapVars
  <1> USE DEF Next, vars, waiting
  <1>1. [PollNext]_pollVars
    OBVIOUS
  <1>2. [LoopNext]_loopVarsAll
    OBVIOUS
  <1>3. [HeapNext]_heapVars
    OBVIOUS
  <1> QED BY <1>1, <1>2, <1>3

LEMMA HandlesStep ==
  ASSUME [Next]_vars
  PROVE  /\ [StreamNext]_streamVars /\ [ServerNext]_serverVars /\ [UdpNext]_udpVars
         /\ [SignalNext]_signalVars /\ [FsPollNext]_fsPollVars
  <1> USE DEF Next, vars, handles
  <1>1. [StreamNext]_streamVars
    OBVIOUS
  <1>2. [ServerNext]_serverVars
    OBVIOUS
  <1>3. [UdpNext]_udpVars
    OBVIOUS
  <1>4. [SignalNext]_signalVars
    OBVIOUS
  <1>5. [FsPollNext]_fsPollVars
    OBVIOUS
  <1> QED BY <1>1, <1>2, <1>3, <1>4, <1>5

LEMMA InvStep == Inv /\ [Next]_vars => Inv'
  <1> SUFFICES ASSUME Inv, [Next]_vars PROVE Inv'
    OBVIOUS
  <1>1. PoolPart'
    <2>1. CASE scene = "pool"
      BY <2>1, ThreadsStep, PoolStep, WakeStep DEF Inv, ThreadsInv, PoolPart
    <2>2. CASE scene # "pool"
      <3>1. PoolInit /\ UNCHANGED <<scene, poolVars>>
        BY <2>2, ThreadsStep DEF Inv, ThreadsInv, PoolPart
      <3>2. PoolInit'
        BY <3>1 DEF PoolInit, poolVars
      <3> QED BY <2>2, <3>1, <3>2 DEF PoolPart
    <2> QED BY <2>1, <2>2
  <1>2. AsyncInv' /\ BarrierInv'
    BY ThreadsStep, AsyncInductive, BarrierKeeps DEF Inv, ThreadsInv
  <1>3. WaitingInv'
    BY WaitingStep, PollInductive, PollTypesStep, LoopKeeps, HeapStep DEF Inv, WaitingInv
  <1>4. HandlesInv'
    BY HandlesStep, StreamStep, ServerStep, UdpStep, SignalStep, FsPollStep
    DEF Inv, HandlesInv
  <1> QED BY <1>1, <1>2, <1>3, <1>4 DEF Inv, ThreadsInv

LEMMA InvAlways == Spec => []Inv
  BY InvStart, InvStep, PTL DEF Spec

(* What the invariant says of the pool in any scene.                       *)
LEMMA PoolHolds == Inv => PoolInv /\ WakeInv
  BY PoolStart, WakeStart DEF Inv, ThreadsInv, PoolPart

-----------------------------------------------------------------------------
\* The invariants of the run.

\* Counters stay within what they count, queues hold what they are for, in every part.
THEOREM TypesAreOK == Spec => []TypesOK
  <1>1. Inv => AsyncTypeOK /\ PoolTypeOK /\ BarrierTypeOK
    BY PoolHolds, AsyncConcludes, PoolConcludes DEF Inv, ThreadsInv, BarrierInv
  <1>2. Inv => PollTypeOK /\ LoopTypeOK
    BY LoopConcludes DEF Inv, WaitingInv, PollTypes
  <1>3. Inv => StreamTypeOK /\ ServerTypeOK /\ UdpTypeOK /\ SignalTypeOK /\ FsPollTypeOK
    BY StreamConcludes, ServerConcludes, UdpConcludes, SignalConcludes, FsPollConcludes
    DEF Inv, HandlesInv
  <1>4. Inv => TypesOK
    BY <1>1, <1>2, <1>3 DEF TypesOK
  <1> QED BY <1>4, InvAlways, PTL

\* Neither a send to the loop, nor a request for a sleeping worker, nor a slow request
\* behind the threshold, nor a signal that a handle watches goes unnoticed.
THEOREM WakeupsArrive == Spec => []NoWakeupIsLost
  <1>1. Inv => NoSendIsLost /\ RequestsWakeWorkers /\ SlowAnnounced
    BY PoolHolds, AsyncConcludes, PoolConcludes DEF Inv, ThreadsInv
  <1>2. Inv => WatchedIsHandled
    BY SignalConcludes DEF Inv, HandlesInv
  <1>3. Inv => NoWakeupIsLost
    BY <1>1, <1>2 DEF NoWakeupIsLost
  <1> QED BY <1>3, InvAlways, PTL

\* uv__run_timers(), the hooks and uv__run_closing_handles() hold in their queue only
\* what is to be called; active_handles counts the active handles that are referenced;
\* unless a path was polled anew over an older request or a timer that was due, a timer of
\* its polls is that of the newest context, though callbacks stop or close the handle while
\* the timer is due; and whatever went into the heap and out of it, heap_min() is the least
\* of what is in it.
THEOREM TurnsAndCounts == Spec => []TurnAndCount
  <1>1. Inv => TurnIsDue /\ ActiveCount /\ HeapServesLeast
    BY LoopConcludes, HeapConcludes DEF Inv, WaitingInv
  <1>2. Inv => TimersAreCurrent
    BY FsPollConcludes DEF Inv, HandlesInv
  <1>3. Inv => TurnAndCount
    BY <1>1, <1>2 DEF TurnAndCount
  <1> QED BY <1>3, InvAlways, PTL

\* Writes, datagrams, connections, signal messages and contexts of polls are accounted
\* for, watched while they wait, and answered in the order in which they were asked.
THEOREM RequestsAccounted == Spec => []RequestsAreAccounted
  <1>1. Inv => /\ QueueSizeIsWaiting /\ WaitingIsWatched
               /\ AnsweredInOrder /\ ClosedAnswersAll
    BY StreamConcludes DEF Inv, HandlesInv
  <1>2. Inv => SendsAreWatched /\ DatagramsKeepOrder /\ ServerListens
    BY UdpConcludes, ServerConcludes DEF Inv, HandlesInv
  <1>3. Inv => SignalsAreAccounted /\ ContextsAreListed
    BY SignalConcludes, FsPollConcludes DEF Inv, HandlesInv
  <1>4. Inv => RequestsAreAccounted
    BY <1>1, <1>2, <1>3 DEF RequestsAreAccounted
  <1> QED BY <1>4, InvAlways, PTL

-----------------------------------------------------------------------------
\* The action properties of the run, and the promise of the pool.

\* A watcher that was closed is not called, a handle that is closing is called once and
\* by its close callback alone, and a one-shot signal handle is called once.
THEOREM ClosedStaysSilent == Spec => ClosedIsSilent
  <1>1. Inv /\ [Next]_vars => [\A w \in closed : called' # w \/ called = w]_pollVars
    BY WaitingStep, ClosedStays DEF Inv, WaitingInv
  <1>2. Inv /\ [Next]_vars => [\A h \in closingSet : running' = h /\ running # h =>
                                 phase = "closing" /\ h \notin closedSet]_loopVarsAll
    BY WaitingStep, LoopClosesOnce DEF Inv, WaitingInv
  <1>3. Inv /\ [Next]_vars => [signalRuns' \in oneShot /\ signalRuns # signalRuns' =>
                                 signalRuns' \notin heard]_signalVars
    BY HandlesStep, SignalCalledOnce DEF Inv, HandlesInv
  <1> QED BY <1>1, <1>2, <1>3, InvAlways, PTL
          DEF Spec, ClosedIsSilent, NoCallAfterClose, ClosedIsCalledOnce, OneShotIsCalledOnce

\* uv_run() by default returns when nothing keeps the loop alive, or after uv_stop().
THEOREM RunLeavesNothing == Spec => NothingIsLeftBehind
  <1>1. Inv /\ [Next]_vars =>
          [phase = "timers" /\ phase' = "out" /\ mode = "default" /\ ~stopFlag =>
             active \cap refd = {} /\ activeReqs = 0 /\ closingSet = closedSet]_loopVarsAll
    BY WaitingStep, LoopLeavesNothing DEF Inv, WaitingInv
  <1> QED BY <1>1, InvAlways, PTL DEF Spec, NothingIsLeftBehind

\* The pool keeps its promise to each request: run or cancelled, never both, answered
\* once, and no more slow requests at a time than the threshold.
THEOREM PoolKeepsPromise == Spec => WorkPromiseSpec
  <1>1. Init => Promised!Init
    BY PromiseStart DEF Init
  <1>2. Inv /\ [Next]_vars => [Promised!Next]_([w \in Works |-> Status(w)])
    <2> SUFFICES ASSUME Inv, [Next]_vars PROVE [Promised!Next]_([w \in Works |-> Status(w)])
      OBVIOUS
    <2>1. CASE scene = "pool"
      BY <2>1, ThreadsStep, PoolHolds, PromiseStep
    <2>2. CASE scene # "pool"
      BY <2>2, ThreadsStep, PromiseStays
    <2> QED BY <2>1, <2>2
  <1> QED BY <1>1, <1>2, InvAlways, PTL DEF Spec, WorkPromiseSpec, Promised!Spec

=============================================================================
