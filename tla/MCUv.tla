-------------------------------- MODULE MCUv --------------------------------
(***************************************************************************)
(* The parts of libuv side by side.  They share no state, so a behaviour   *)
(* is one of one part, the scene; the others stay as they were at first.   *)
(***************************************************************************)
EXTENDS UvThreadPool, UvPoll, UvLoop, UvStream, UvUdp, UvSignal, UvFsPoll,
        UvServer, UvBarrier, UvHeap

MCSenders == Workers \cup {Loop}

Scenes == {"async", "pool", "barrier", "poll", "loop", "stream", "server", "udp",
           "signal", "fspoll", "heap"}

VARIABLE scene

threads == <<asyncVars, poolVars, barrierVars>>
asyncAndPool == <<asyncVars, poolVars>>
waiting == <<pollVars, loopVarsAll, heapVars>>
handles == <<streamVars, serverVars, udpVars, signalVars, fsPollVars>>
vars == <<scene, threads, waiting, handles>>

Init == /\ scene \in Scenes
        /\ AsyncInit /\ PoolInit /\ BarrierInit /\ PollInit /\ LoopInit
        /\ HeapInit /\ StreamInit /\ ServerInit /\ UdpInit /\ SignalInit /\ FsPollInit
        /\ scene # "stream" => conn = "none"

Next ==
  /\ UNCHANGED scene
  /\ \* The loop thread cannot be overtaken by itself: here the others send.
     \/ scene = "async" /\ AsyncNext /\ sender'[Loop] = sender[Loop]
        /\ UNCHANGED <<poolVars, barrierVars, waiting, handles>>
     \/ scene = "pool" /\ PoolNext /\ UNCHANGED <<barrierVars, waiting, handles>>
     \/ scene = "barrier" /\ BarrierNext /\ UNCHANGED <<asyncAndPool, waiting, handles>>
     \/ scene = "poll" /\ PollNext
        /\ UNCHANGED <<threads, loopVarsAll, heapVars, handles>>
     \/ scene = "loop" /\ LoopNext
        /\ UNCHANGED <<threads, pollVars, heapVars, handles>>
     \/ scene = "heap" /\ HeapNext
        /\ UNCHANGED <<threads, pollVars, loopVarsAll, handles>>
     \/ scene = "stream" /\ StreamNext
        /\ UNCHANGED <<threads, waiting, serverVars, udpVars, signalVars, fsPollVars>>
     \/ scene = "server" /\ ServerNext
        /\ UNCHANGED <<threads, waiting, streamVars, udpVars, signalVars, fsPollVars>>
     \/ scene = "udp" /\ UdpNext
        /\ UNCHANGED <<threads, waiting, streamVars, serverVars, signalVars, fsPollVars>>
     \/ scene = "signal" /\ SignalNext
        /\ UNCHANGED <<threads, waiting, streamVars, serverVars, udpVars, fsPollVars>>
     \/ scene = "fspoll" /\ FsPollNext
        /\ UNCHANGED <<threads, waiting, streamVars, serverVars, udpVars, signalVars>>

\* Threads are scheduled, callbacks and requests run to their end, and time passes.
\* The loop calls a stream that was fed; a poll returns by itself only if callbacks
\* are pending; nothing says that the kernel reports anything.
Fairness ==
  /\ \A t \in Workers : WF_asyncAndPool(scene = "pool" /\ WorkerStep(t))
  /\ WF_asyncAndPool(scene = "pool" /\ LoopStep)
  /\ WF_pollVars(scene = "poll" /\ (PollLoop \/ (fed # {} /\ PollTimesOut)))
  /\ WF_loopVarsAll(scene = "loop" /\ RunStep)
  /\ SF_loopVarsAll(scene = "loop" /\ TimePasses)
  /\ WF_streamVars(scene = "stream" /\ (HandlerGoesOn \/ Destroys))
  /\ \A t \in Parties :
       WF_barrierVars(scene = "barrier" /\ (BarrierCall(t) \/ CallsBarrier(t)))
  /\ WF_udpVars(scene = "udp" /\ UdpGoesOn)
  /\ SF_udpVars(scene = "udp" /\ UdpRunsPending)
  /\ WF_signalVars(scene = "signal" /\ SignalLoop)
  /\ WF_signalVars(scene = "signal" /\ HandlerStep)
  /\ WF_fsPollVars(scene = "fspoll" /\ FsPollLoop)
  /\ SF_streamVars(scene = "stream" /\ fedStream /\ (StreamConnects \/ StreamWrites))

Spec == Init /\ [][Next]_vars /\ Fairness

-----------------------------------------------------------------------------
\* Properties that are about one thing in several parts, or several of one part.

\* The types of every part's state: counters stay within what they count.
TypesOK == /\ AsyncTypeOK /\ PoolTypeOK /\ PollTypeOK /\ LoopTypeOK
           /\ StreamTypeOK /\ ServerTypeOK /\ UdpTypeOK /\ SignalTypeOK
           /\ FsPollTypeOK /\ BarrierTypeOK

\* Neither a send to the loop, nor a request that can be run, nor a signal that a
\* handle watches goes unnoticed.
NoWakeupIsLost == /\ NoSendIsLost /\ RequestsWakeWorkers /\ SlowAnnounced
                  /\ WatchedIsHandled

\* The pool answers every request, and its threads end when they are told to.
PoolAnswers == RequestsAreAnswered /\ WorkersExit

\* A queue that is being run holds what is to be called, loop->active_handles counts
\* what keeps the loop alive, a timer of a poll of a path is that of its newest context
\* (unless a start overlapped an older request or a timer that was due), and the heap has
\* the timer that is due first at its root.
TurnAndCount == TurnIsDue /\ ActiveCount /\ TimersAreCurrent /\ HeapServesLeast

\* After uv_close() nothing but the close callback is called, and a one-shot signal
\* handle is called once.
ClosedIsSilent == NoCallAfterClose /\ ClosedIsCalledOnce /\ OneShotIsCalledOnce

\* The writes of a stream and the datagrams of a socket are counted, watched, and
\* answered in order; a server that listens is watched or has a connection parked;
\* the messages of a signal handle and the contexts of a poll of a path are accounted
\* for as long as they refer to the handle.
RequestsAreAccounted ==
  /\ QueueSizeIsWaiting /\ WaitingIsWatched /\ AnsweredInOrder /\ ClosedAnswersAll
  /\ SendsAreWatched /\ DatagramsKeepOrder /\ ServerListens
  /\ SignalsAreAccounted /\ ContextsAreListed

\* The callbacks that are due come: of handles that were closed, of timers, of
\* watchers that were fed, of requests that are done, of signals that arrived; and
\* the threads in a barrier come out.  The users stop in the end, by the bounds, so
\* that it suffices to say that at some time none is due.
CallbacksCome ==
  []<>~(\/ CloseIsOwed \/ TimerIsOwed \/ FedIsOwed \/ BarrierIsOwed
        \/ AnswerIsOwed \/ UdpIsOwed \/ SignalIsOwed \/ PollIsOwed)
=============================================================================
