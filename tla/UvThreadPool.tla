---------------------------- MODULE UvThreadPool ----------------------------
(***************************************************************************)
(* The thread pool of libuv (src/threadpool.c): the workers, the queue     *)
(* they share, uv_cancel(), and the loop that answers the requests.  An    *)
(* action is the code between two points where a thread can be overtaken:  *)
(* taking a lock, waiting, or an access of uv_async_send(), which is made  *)
(* without one.  One loop uses the pool; the requests it queues are the    *)
(* members of Works.                                                       *)
(***************************************************************************)
EXTENDS UvAsync, UvQueue

CONSTANTS Workers,     \* threads of the pool
          Loop,        \* the thread that runs the event loop
          NoThread,
          Works,       \* requests
          SlowWorks,   \* those of kind UV__WORK_SLOW_IO
          NoWork,
          SlowMessage, ExitMessage,
          WqAsync,     \* loop->wq_async
          MaxCalls     \* bound: how often requests are queued or cancelled

ASSUME PoolAssumption ==
  /\ Senders = Workers \cup {Loop} /\ Loop \notin Workers
  /\ NoThread \notin Senders
  /\ SlowWorks \subseteq Works
  /\ NoWork \notin Works /\ SlowMessage \notin Works /\ ExitMessage \notin Works
  /\ SlowMessage # ExitMessage
  /\ WqAsync \in Asyncs
  /\ MaxCalls \in Nat
  /\ IsFiniteSet(Workers)

VARIABLES
  wq,           \* the queue of the workers
  slowPending,  \* slow_io_pending_wq
  mutex,        \* who holds the pool's mutex
  idleThreads,  \* idle_threads
  slowRunning,  \* slow_io_work_running
  worker,       \* where each worker is
  task,         \* the request it runs
  work,         \* req->work: the function, NULL, or uv__cancelled
  loopWq,       \* loop->wq: requests to answer
  wqMutex,      \* who holds loop->wq_mutex
  answering,    \* the queue uv__work_done() has taken
  loopAt,       \* where the loop thread is
  backTo,       \* ... and where it was when it called uv_cancel()
  target,       \* the request uv_cancel() is about
  calls         \* how often requests were queued or cancelled

poolVars == <<wq, slowPending, mutex, idleThreads, slowRunning, worker, task, work,
              loopWq, wqMutex, answering, loopAt, backTo, target, calls>>

\* "taken": uv__work_done() between two callbacks; "callback": in one of them.
LoopStates == {"polling", "taken", "callback", "cancelling", "requeueing",
               "publishing", "sending", "shutdown"}

PoolTypeOK ==
  /\ wq \in Seq(Works \cup {SlowMessage, ExitMessage})
  /\ slowPending \in Seq(SlowWorks)
  /\ mutex \in Senders \cup {NoThread} /\ wqMutex \in Senders \cup {NoThread}
  /\ idleThreads \in 0..Cardinality(Workers)
  /\ slowRunning \in 0..Cardinality(Workers)
  /\ worker \in [Workers -> {"waiting", "woken", "ready", "locked", "running",
                             "publishing", "sending", "exited"}]
  /\ task \in [Workers -> Works \cup {NoWork}]
  /\ work \in [Works -> {"idle", "function", "null", "cancelled"}]
  /\ loopWq \in Seq(Works) /\ answering \in Seq(Works)
  /\ loopAt \in LoopStates /\ backTo \in {"polling", "callback"}
  /\ target \in Works \cup {NoWork}
  /\ calls \in 0..MaxCalls

PoolInit ==
  /\ wq = <<>> /\ slowPending = <<>>
  /\ mutex = NoThread /\ wqMutex = NoThread
  /\ idleThreads = 0 /\ slowRunning = 0
  /\ worker = [t \in Workers |-> "ready"]
  /\ task = [t \in Workers |-> NoWork]
  /\ work = [w \in Works |-> "idle"]
  /\ loopWq = <<>> /\ answering = <<>>
  /\ loopAt = "polling" /\ backTo = "polling" /\ target = NoWork
  /\ calls = 0

-----------------------------------------------------------------------------

\* slow_work_thread_threshold()
Threshold == (Cardinality(Workers) + 1) \div 2

AtThreshold == slowRunning >= Threshold

\* if (idle_threads > 0) uv_cond_signal(&cond): one of those that wait, if any
\* still does, is woken; those who were woken before still count as idle.
Signalled(others) ==
  LET waiting == {t \in Workers : others[t] = "waiting"} IN
  IF idleThreads = 0 \/ waiting = {} THEN {others}
  ELSE {[others EXCEPT ![t] = "woken"] : t \in waiting}

-----------------------------------------------------------------------------
\* The worker.

queueVars == <<wq, slowPending>>
cancelVars == <<backTo, target, calls>>
loopSide == <<work, loopWq, wqMutex, answering, loopAt, cancelVars, asyncVars>>

\* Mutant: a thread that is woken stays counted as idle.
WorkerLocksIdle(t) ==
  /\ worker[t] \in {"ready", "woken"} /\ mutex = NoThread
  /\ mutex' = t
  /\ worker' = [worker EXCEPT ![t] = "locked"]
  /\ slowRunning' = IF task[t] \in SlowWorks THEN slowRunning - 1 ELSE slowRunning
  /\ task' = [task EXCEPT ![t] = NoWork]
  /\ UNCHANGED <<queueVars, idleThreads, loopSide>>

\* It takes the mutex: at the start, after a request, or as uv_cond_wait() returns.
WorkerLocks(t) ==
  /\ worker[t] \in {"ready", "woken"} /\ mutex = NoThread
  /\ mutex' = t
  /\ worker' = [worker EXCEPT ![t] = "locked"]
  /\ idleThreads' = IF worker[t] = "woken" THEN idleThreads - 1 ELSE idleThreads
  /\ slowRunning' = IF task[t] \in SlowWorks THEN slowRunning - 1 ELSE slowRunning
  /\ task' = [task EXCEPT ![t] = NoWork]
  /\ UNCHANGED <<queueVars, loopSide>>

\* Nothing to run, or nothing but slow requests at their limit.
NothingToRun == \/ wq = <<>>
                \/ wq = <<SlowMessage>> /\ AtThreshold

WorkerWaits(t) ==
  /\ worker[t] = "locked" /\ NothingToRun
  /\ idleThreads' = idleThreads + 1
  /\ worker' = [worker EXCEPT ![t] = "waiting"]
  /\ mutex' = NoThread
  /\ UNCHANGED <<queueVars, slowRunning, task, loopSide>>

\* Mutant: a worker exits and wakes nobody.
WorkerExitsAlone(t) ==
  /\ worker[t] = "locked" /\ wq # <<>> /\ Head(wq) = ExitMessage
  /\ worker' = [worker EXCEPT ![t] = "exited"]
  /\ mutex' = NoThread
  /\ UNCHANGED <<queueVars, idleThreads, slowRunning, task, loopSide>>

\* The exit message stays where it is: every worker finds it and wakes the next.
WorkerExits(t) ==
  /\ worker[t] = "locked" /\ wq # <<>> /\ Head(wq) = ExitMessage
  /\ LET left == [worker EXCEPT ![t] = "exited"]
         waiting == {u \in Workers : left[u] = "waiting"}
     IN  worker' \in IF waiting = {} THEN {left}
                     ELSE {[left EXCEPT ![u] = "woken"] : u \in waiting}
  /\ mutex' = NoThread
  /\ UNCHANGED <<queueVars, idleThreads, slowRunning, task, loopSide>>

Runs(t, w) == /\ worker' = [worker EXCEPT ![t] = "running"]
              /\ task' = [task EXCEPT ![t] = w]
              /\ mutex' = NoThread

WorkerTakes(t) ==
  /\ worker[t] = "locked" /\ wq # <<>> /\ Head(wq) \in Works
  /\ Runs(t, Head(wq))
  /\ wq' = Tail(wq)
  /\ UNCHANGED <<slowPending, idleThreads, slowRunning, loopSide>>

\* Slow requests at their limit, and others behind them: the message goes last.
WorkerPostpones(t) ==
  /\ worker[t] = "locked" /\ wq # <<>> /\ Head(wq) = SlowMessage
  /\ AtThreshold /\ ~NothingToRun
  /\ wq' = Append(Tail(wq), SlowMessage)
  /\ UNCHANGED <<slowPending, mutex, idleThreads, slowRunning, worker, task, loopSide>>

\* The slow requests the message announced have been cancelled.
WorkerStartsOver(t) ==
  /\ worker[t] = "locked" /\ wq # <<>> /\ Head(wq) = SlowMessage
  /\ ~AtThreshold /\ slowPending = <<>>
  /\ wq' = Tail(wq)
  /\ UNCHANGED <<slowPending, mutex, idleThreads, slowRunning, worker, task, loopSide>>

WorkerTakesSlow(t) ==
  /\ worker[t] = "locked" /\ wq # <<>> /\ Head(wq) = SlowMessage
  /\ ~AtThreshold /\ slowPending # <<>>
  /\ slowRunning' = slowRunning + 1
  /\ slowPending' = Tail(slowPending)
  /\ task' = [task EXCEPT ![t] = Head(slowPending)]
  /\ mutex' = NoThread
  /\ LET taken == [worker EXCEPT ![t] = "running"] IN
     IF slowPending' = <<>>
     THEN wq' = Tail(wq) /\ worker' = taken
     ELSE wq' = Append(Tail(wq), SlowMessage) /\ worker' \in Signalled(taken)
  /\ UNCHANGED <<idleThreads, loopSide>>

poolSide == <<queueVars, mutex, idleThreads, slowRunning>>

\* The request has run: it is handed to the loop, under the loop's own mutex.
WorkerPublishes(t) ==
  /\ worker[t] = "running" /\ wqMutex = NoThread
  /\ wqMutex' = t
  /\ work' = [work EXCEPT ![task[t]] = "null"]
  /\ loopWq' = Append(loopWq, task[t])
  /\ worker' = [worker EXCEPT ![t] = "publishing"]
  /\ UNCHANGED <<poolSide, task, answering, loopAt, cancelVars, asyncVars>>

\* uv_async_send() to the loop, by whoever holds the loop's mutex; it is over
\* at once if the flag is set.
Announces(p) == /\ ~pending[WqAsync]
                /\ SendReads(p, WqAsync)
                /\ UNCHANGED wqMutex

NeedNotAnnounce == pending[WqAsync] /\ wqMutex' = NoThread /\ UNCHANGED asyncVars

Sending(p) == SendEnters(p, WqAsync) \/ SendMarks(p, WqAsync) \/ SendWakes(p, WqAsync)

Announced(p) == SendLeaves(p, WqAsync) /\ wqMutex' = NoThread

WorkerAnnounces(t) ==
  /\ \/ worker[t] = "publishing" /\ Announces(t)
        /\ worker' = [worker EXCEPT ![t] = "sending"]
     \/ worker[t] = "publishing" /\ NeedNotAnnounce
        /\ worker' = [worker EXCEPT ![t] = "ready"]
     \/ worker[t] = "sending" /\ Sending(t) /\ UNCHANGED <<worker, wqMutex>>
     \/ worker[t] = "sending" /\ Announced(t)
        /\ worker' = [worker EXCEPT ![t] = "ready"]
  /\ UNCHANGED <<poolSide, task, work, loopWq, answering, loopAt, cancelVars>>

WorkerStep(t) == \/ WorkerLocks(t) \/ WorkerWaits(t) \/ WorkerExits(t)
                 \/ WorkerTakes(t) \/ WorkerPostpones(t) \/ WorkerStartsOver(t)
                 \/ WorkerTakesSlow(t) \/ WorkerPublishes(t) \/ WorkerAnnounces(t)

-----------------------------------------------------------------------------
\* The loop thread.

\* post(), with the mutex free from begin to end.
Post(x) == /\ mutex = NoThread
           /\ wq' = Append(wq, x)
           /\ worker' \in Signalled(worker)

\* The loop runs a callback, of one of the requests or another one.
InUserCode == \/ loopAt = "callback"
              \/ loopAt = "polling" /\ asyncLeft = {} /\ asyncCalled = NoAsync

\* Mutant: nobody is told of a request that was queued.
SubmitQuietly(w) ==
  /\ InUserCode /\ work[w] = "idle" /\ calls < MaxCalls
  /\ mutex = NoThread
  /\ calls' = calls + 1
  /\ work' = [work EXCEPT ![w] = "function"]
  /\ IF w \in SlowWorks
     THEN /\ slowPending' = Append(slowPending, w)
          /\ wq' = IF In(SlowMessage, wq) THEN wq ELSE Append(wq, SlowMessage)
     ELSE wq' = Append(wq, w) /\ UNCHANGED slowPending
  /\ UNCHANGED <<mutex, idleThreads, slowRunning, worker, task, loopWq, wqMutex,
                 answering, loopAt, backTo, target, asyncVars>>

\* uv_queue_work(), or a request of another kind, in a callback.
Submit(w) ==
  /\ InUserCode /\ work[w] = "idle" /\ calls < MaxCalls
  /\ calls' = calls + 1
  /\ work' = [work EXCEPT ![w] = "function"]
  /\ IF w \in SlowWorks
     THEN /\ slowPending' = Append(slowPending, w)
          /\ IF In(SlowMessage, wq)
             THEN mutex = NoThread /\ UNCHANGED <<wq, worker>>
             ELSE Post(SlowMessage)
     ELSE Post(w) /\ UNCHANGED slowPending
  /\ UNCHANGED <<mutex, idleThreads, slowRunning, task, loopWq, wqMutex, answering,
                 loopAt, backTo, target, asyncVars>>

\* uv_cancel() of a request that has not been answered: first the pool's mutex ...
CancelLocks(w) ==
  /\ InUserCode /\ work[w] # "idle" /\ calls < MaxCalls /\ mutex = NoThread
  /\ calls' = calls + 1
  /\ mutex' = Loop
  /\ loopAt' = "cancelling" /\ backTo' = loopAt /\ target' = w
  /\ UNCHANGED <<queueVars, idleThreads, slowRunning, worker, task, work, loopWq,
                 wqMutex, answering, asyncVars>>

Linked(w) == In(w, wq) \/ In(w, slowPending) \/ In(w, loopWq) \/ In(w, answering)

\* Mutant: a request that has run and waits for its answer is cancelled too.
CancelChecksLinks ==
  /\ loopAt = "cancelling" /\ wqMutex = NoThread
  /\ mutex' = NoThread
  /\ IF Linked(target)
     THEN /\ wq' = Unlink(target, wq)
          /\ slowPending' = Unlink(target, slowPending)
          /\ loopWq' = Unlink(target, loopWq)
          /\ answering' = Unlink(target, answering)
          /\ loopAt' = "requeueing" /\ UNCHANGED target
     ELSE /\ loopAt' = backTo /\ target' = NoWork
          /\ UNCHANGED <<queueVars, loopWq, answering>>
  /\ UNCHANGED <<idleThreads, slowRunning, worker, task, work, wqMutex, backTo,
                 calls, asyncVars>>

\* ... then the loop's, to see whether the request is queued and has not run.
CancelChecks ==
  /\ loopAt = "cancelling" /\ wqMutex = NoThread
  /\ mutex' = NoThread
  /\ IF Linked(target) /\ work[target] # "null"
     THEN /\ wq' = Unlink(target, wq)
          /\ slowPending' = Unlink(target, slowPending)
          /\ loopWq' = Unlink(target, loopWq)
          /\ answering' = Unlink(target, answering)
          /\ loopAt' = "requeueing" /\ UNCHANGED target
     ELSE /\ loopAt' = backTo /\ target' = NoWork
          /\ UNCHANGED <<queueVars, loopWq, answering>>
  /\ UNCHANGED <<idleThreads, slowRunning, worker, task, work, wqMutex, backTo,
                 calls, asyncVars>>

\* A request that was cancelled is answered like the others.
CancelRequeues ==
  /\ loopAt = "requeueing" /\ wqMutex = NoThread
  /\ wqMutex' = Loop
  /\ work' = [work EXCEPT ![target] = "cancelled"]
  /\ loopWq' = Append(loopWq, target)
  /\ loopAt' = "publishing"
  /\ UNCHANGED <<poolSide, worker, task, answering, cancelVars, asyncVars>>

CancelAnnounces ==
  /\ \/ loopAt = "publishing" /\ Announces(Loop)
        /\ loopAt' = "sending" /\ UNCHANGED target
     \/ loopAt = "publishing" /\ NeedNotAnnounce
        /\ loopAt' = backTo /\ target' = NoWork
     \/ loopAt = "sending" /\ Sending(Loop) /\ UNCHANGED <<loopAt, target, wqMutex>>
     \/ loopAt = "sending" /\ Announced(Loop)
        /\ loopAt' = backTo /\ target' = NoWork
  /\ UNCHANGED <<poolSide, worker, task, work, loopWq, answering, backTo, calls>>

loopQuiet == <<poolSide, worker, task, wqMutex, cancelVars>>

\* The poll finds the pipe readable and uv__async_io() calls uv__work_done().
LoopWakes ==
  /\ loopAt = "polling" /\ AsyncDrains
  /\ UNCHANGED poolVars

LoopLooks ==
  /\ loopAt = "polling" /\ \E h \in Asyncs : AsyncTakes(h)
  /\ UNCHANGED poolVars

LoopTakes ==
  /\ loopAt = "polling" /\ asyncCalled = WqAsync /\ wqMutex = NoThread
  /\ loopAt' = "taken"
  /\ answering' = loopWq /\ loopWq' = <<>>
  /\ UNCHANGED <<loopQuiet, work, asyncVars>>

\* The next request is answered: with ECANCELED, or as done.
LoopAnswers ==
  /\ loopAt = "taken" /\ answering # <<>>
  /\ answering' = Tail(answering)
  /\ work' = [work EXCEPT ![Head(answering)] = "idle"]
  /\ loopAt' = "callback"
  /\ UNCHANGED <<loopQuiet, loopWq, asyncVars>>

LoopReturns ==
  /\ \/ loopAt = "callback" /\ loopAt' = "taken" /\ UNCHANGED asyncVars
     \/ loopAt = "taken" /\ answering = <<>> /\ loopAt' = "polling" /\ AsyncReturns
  /\ UNCHANGED <<loopQuiet, work, loopWq, answering>>

\* uv__threadpool_cleanup(), when no request is left: post the exit message, join.
ShutDown ==
  /\ loopAt = "polling" /\ asyncLeft = {} /\ asyncCalled = NoAsync
  /\ \A w \in Works : work[w] = "idle"
  /\ Post(ExitMessage)
  /\ loopAt' = "shutdown"
  /\ UNCHANGED <<slowPending, mutex, idleThreads, slowRunning, task, work, loopWq,
                 wqMutex, answering, cancelVars, asyncVars>>

LoopStep == \/ CancelChecks \/ CancelRequeues \/ CancelAnnounces
            \/ LoopWakes \/ LoopLooks \/ LoopTakes \/ LoopAnswers \/ LoopReturns

PoolNext ==
  \/ \E t \in Workers : WorkerStep(t)
  \/ LoopStep
  \/ \E w \in Works : Submit(w) \/ CancelLocks(w)
  \/ ShutDown

PoolSpec == AsyncInit /\ PoolInit /\ [][PoolNext]_<<poolVars, asyncVars>>

-----------------------------------------------------------------------------
\* Properties.

\* No wakeup is lost: while a request can be run and a worker sleeps, some worker
\* is on its way to the queue, whoever took the signals of earlier requests.
RequestsWakeWorkers ==
  ~NothingToRun /\ (\E t \in Workers : worker[t] = "waiting") =>
    \E t \in Workers : worker[t] \in {"woken", "ready", "locked", "publishing", "sending"}

\* A slow request that waits has its message in the queue, or a slow one runs
\* whose worker will look again.
SlowAnnounced == slowPending # <<>> => In(SlowMessage, wq)

\* The pool keeps its promise to every request.
Status(w) ==
  CASE work[w] = "idle" -> "idle"
    [] work[w] = "null" -> "ran"
    [] work[w] = "cancelled" -> "cancelled"
    [] OTHER -> IF loopAt = "requeueing" /\ target = w THEN "cancelled"
                ELSE IF \E t \in Workers : worker[t] = "running" /\ task[t] = w
                     THEN "running" ELSE "queued"

Promised == INSTANCE WorkPromise WITH Works <- Works, SlowWorks <- SlowWorks,
                                     SlowLimit <- Threshold,
                                     request <- [w \in Works |-> Status(w)]
WorkPromiseSpec == Promised!Spec

\* The exit message reaches every worker.
WorkersExit == loopAt = "shutdown" ~> \A t \in Workers : worker[t] = "exited"

\* Every request is answered: those of a program that queues finitely many.
RequestsAreAnswered == []<>(\A w \in Works : work[w] = "idle")
=============================================================================
