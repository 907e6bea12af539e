------------------------------ MODULE WebMiner ------------------------------
(***************************************************************************)
(* The miner of the web page (web/js/miner.js), its WebSocket to the pool  *)
(* proxy (web/js/pool-proxy.js) and the reconnect controller they share    *)
(* with the other platforms (shared/reconnect/js).  The page is single     *)
(* threaded: an action is one event handler, run to its end.  What makes   *)
(* it hard is that the events of a socket that was replaced, the retry     *)
(* timer and the messages of workers arrive in any order, in a later       *)
(* session too.                                                            *)
(***************************************************************************)
EXTENDS Naturals, Sequences, FiniteSets

CONSTANTS MaxAttempts,  \* config.retries: reconnects of one session
          MaxStarts,    \* bound: how often the user presses Start
          Seeds,        \* RandomX seeds that jobs ask for
          NoSeed,       \* no cache has been built
          Threads       \* config.threads

ASSUME WebAssumption == /\ MaxAttempts \in Nat
                        /\ MaxStarts \in Nat
                        /\ NoSeed \notin Seeds
                        /\ Threads \in Nat \ {0}

VARIABLES
  isMining,      \* Miner.isMining
  phase,         \* _reconnect.phase
  cancelled,     \* _reconnect.cancelled
  attempt,       \* _reconnect.attempt
  timers,        \* retry timeouts that are scheduled
  sock,          \* every WebSocket opened so far; the last is proxy.socket
  failing,       \* the socket whose error event ran and whose close event
                 \* follows in the same task (0: none)
  generation,    \* Miner.generation
  address,       \* Miner.config.proxy, as the browser takes it
  worker,        \* state of each worker of Miner.workers
  workerGen,     \* the generation their message handlers captured
  stray,         \* there is a worker that Miner.workers does not have
  given,         \* a job has been posted to them
  readyWorkers,  \* Miner.readyWorkers
  pendingJob,    \* Miner._pendingJob holds a job
  rxCache,       \* the seed Miner.rxCache was built for
  currentSeed    \* Miner.currentSeed

sessionVars == <<isMining, phase, cancelled, attempt, timers>>
linkVars    == <<sock, failing>>
startVars   == <<generation, address>>
crewVars    == <<worker, workerGen, stray, given, readyWorkers, pendingJob>>
cacheVars   == <<rxCache, currentSeed>>
vars == <<sessionVars, linkVars, startVars, crewVars, cacheVars>>

Crew == 1..Threads

Phases == {"idle", "mining", "reconnecting", "paused", "stopped", "failed"}

\* "malformed": it begins as it should and new WebSocket() throws; "missing": it does not.
Addresses == {"valid", "malformed", "missing"}

\* What a disconnect is classified as.
Kinds == {"retryable", "pause", "fatal"}

\* "aborted": closed while connecting, its error and close events to come;
\* "closing": closed while open, its close event to come.
SocketStates == {"connecting", "open", "aborted", "closing", "closed"}

TypeOK ==
  /\ isMining \in BOOLEAN /\ cancelled \in BOOLEAN
  /\ phase \in Phases
  /\ attempt \in 0..MaxAttempts
  /\ timers \in Nat
  /\ sock \in Seq(SocketStates)
  /\ failing \in 0..Len(sock)
  /\ generation \in 0..MaxStarts /\ address \in Addresses
  /\ worker \in [Crew -> {"none", "booting", "ready"}]
  /\ workerGen \in 0..MaxStarts /\ stray \in BOOLEAN
  /\ given \in BOOLEAN /\ pendingJob \in BOOLEAN
  /\ readyWorkers \in Nat
  /\ rxCache \in Seeds \cup {NoSeed}
  /\ currentSeed \in Seeds \cup {NoSeed}

Init ==
  /\ isMining = FALSE /\ phase = "idle" /\ cancelled = FALSE
  /\ attempt = 0 /\ timers = 0
  /\ sock = <<>> /\ failing = 0
  /\ generation = 0 /\ address = "missing"
  /\ worker = [i \in Crew |-> "none"] /\ workerGen = 0 /\ stray = FALSE
  /\ given = FALSE /\ readyWorkers = 0 /\ pendingJob = FALSE
  /\ rxCache = NoSeed /\ currentSeed = NoSeed

-----------------------------------------------------------------------------
\* The socket.

Live(s) == sock[s] \in {"connecting", "open"}

\* WebSocket.close(): no open or message event comes after it.
AfterClose(state) == CASE state = "connecting" -> "aborted"
                       [] state = "open"       -> "closing"
                       [] OTHER                -> state

\* PoolProxy.disconnect(), on a list of sockets of which the last is current.
CloseLast(sockets) ==
  IF sockets = <<>> THEN sockets
  ELSE [sockets EXCEPT ![Len(sockets)] = AfterClose(@)]

\* PoolProxy.connect(): close the socket at hand, open the next, which may throw.
Connect(a) == sock' = IF a = "valid" THEN Append(CloseLast(sock), "connecting")
                                     ELSE CloseLast(sock)

-----------------------------------------------------------------------------
\* The session.

\* clearReconnectTimer()
TimersLeft == IF timers > 0 THEN timers - 1 ELSE 0

TerminateWorkers ==
  /\ worker' = [i \in Crew |-> "none"]
  /\ given' = FALSE /\ readyWorkers' = 0 /\ pendingJob' = FALSE
  /\ UNCHANGED <<workerGen, stray>>

\* Mutant: a Stop leaves the socket to itself.
EndsConnected(sockets) ==
  /\ timers' = TimersLeft
  /\ phase' = "stopped" /\ cancelled' = TRUE /\ attempt' = 0
  /\ isMining' = FALSE
  /\ sock' = sockets

\* stop() of the user, or by failRuntime(), on the sockets as the event left them ...
EndSession(sockets) ==
  /\ timers' = TimersLeft
  /\ phase' = "stopped" /\ cancelled' = TRUE /\ attempt' = 0
  /\ isMining' = FALSE
  /\ sock' = IF isMining THEN CloseLast(sockets) ELSE sockets

\* ... with the workers.
StopMining(sockets) ==
  /\ EndSession(sockets)
  /\ IF isMining THEN TerminateWorkers ELSE UNCHANGED crewVars

\* Mutant: a timer that is pending is not cleared first.
WaitTwice(sockets) ==
  /\ phase' = "reconnecting" /\ attempt' = attempt + 1
  /\ timers' = timers + 1
  /\ isMining' = TRUE
  /\ sock' = CloseLast(sockets)
  /\ UNCHANGED <<cancelled, crewVars>>

\* onDisconnect() answers "wait": keep the workers, schedule a retry.
WaitForRetry(sockets) ==
  /\ phase' = "reconnecting" /\ attempt' = attempt + 1
  /\ timers' = TimersLeft + 1
  /\ isMining' = TRUE
  /\ sock' = CloseLast(sockets)
  /\ UNCHANGED <<cancelled, crewVars>>

\* onDisconnect() answers "stop", "pause" or "none": stop({fromReconnect}).
GiveUp(kind, sockets) ==
  /\ phase' = IF cancelled \/ phase = "stopped" THEN "stopped"
              ELSE IF kind = "pause" THEN "paused" ELSE "failed"
  /\ attempt' = IF kind = "pause" THEN 0 ELSE attempt
  /\ timers' = TimersLeft
  /\ isMining' = FALSE
  /\ sock' = CloseLast(sockets)
  /\ TerminateWorkers
  /\ UNCHANGED cancelled

\* Mutant: one retry too many.
RetryableOnceMore(kind) ==
  /\ kind = "retryable" /\ attempt <= MaxAttempts
  /\ ~cancelled /\ phase # "stopped"

\* A failure the controller retries, while attempts are left.
Retryable(kind) == /\ kind = "retryable" /\ attempt < MaxAttempts
                   /\ ~cancelled /\ phase # "stopped"

HandleProxyDisconnect(kind, sockets) ==
  IF ~isMining /\ phase # "reconnecting"
  THEN sock' = sockets /\ UNCHANGED <<sessionVars, crewVars>>
  ELSE IF Retryable(kind) THEN WaitForRetry(sockets)
                          ELSE GiveUp(kind, sockets)

\* The page's Start; the button does nothing while a session mines.  If new WebSocket()
\* throws, nothing catches it, and the session that has begun is left as it is.
Start(a) ==
  /\ failing = 0 /\ ~isMining /\ generation < MaxStarts
  /\ a \in {"valid", "malformed"} /\ address' = a
  /\ generation' = generation + 1
  /\ isMining' = TRUE
  /\ phase' = "mining" /\ attempt' = 0 /\ cancelled' = FALSE
  /\ Connect(a)
  /\ readyWorkers' = 0
  /\ UNCHANGED <<timers, failing, worker, workerGen, stray, given, pendingJob, cacheVars>>

\* start() without an address: the session begins and ends by failRuntime().
StartUnaddressed ==
  /\ failing = 0 /\ ~isMining /\ generation < MaxStarts
  /\ address' = "missing" /\ generation' = generation + 1
  /\ isMining' = FALSE /\ timers' = TimersLeft
  /\ phase' = "stopped" /\ attempt' = 0 /\ cancelled' = TRUE
  /\ sock' = CloseLast(sock) /\ TerminateWorkers
  /\ UNCHANGED <<failing, cacheVars>>

\* The page's Stop, or the page is left.
Stop ==
  /\ failing = 0
  /\ StopMining(sock)
  /\ UNCHANGED <<failing, startVars, cacheVars>>

\* Mutant: the timer fires without asking the controller.
RetryDeaf ==
  /\ failing = 0 /\ timers > 0
  /\ timers' = 0 /\ attempt' = 0
  /\ phase' = "mining"
  /\ Connect(address)
  /\ UNCHANGED <<isMining, cancelled, crewVars, failing, startVars, cacheVars>>

\* Mutant: the timer fires and opens no socket.
RetryIdle ==
  /\ failing = 0 /\ timers > 0
  /\ timers' = timers - 1
  /\ phase' = "mining"
  /\ UNCHANGED <<isMining, cancelled, attempt, linkVars, crewVars, startVars, cacheVars>>

\* executeReconnect(): the controller moves on to "mining" before the socket opens.  If
\* new WebSocket() throws, that is one more disconnect, of the kind its message is
\* taken for; the timer has fired and is not cleared.
RetryDue ==
  /\ failing = 0 /\ timers > 0
  /\ IF phase # "reconnecting" \/ cancelled
     THEN /\ timers' = timers - 1
          /\ isMining' = FALSE
          /\ sock' = CloseLast(sock)
          /\ TerminateWorkers
          /\ UNCHANGED <<phase, cancelled, attempt>>
     ELSE \/ /\ address = "valid" /\ Connect(address)
             /\ timers' = timers - 1 /\ phase' = "mining"
             /\ UNCHANGED <<isMining, cancelled, attempt, crewVars>>
          \/ /\ address # "valid"
             /\ \E kind \in Kinds : HandleProxyDisconnect(kind, CloseLast(sock))
  /\ UNCHANGED <<failing, startVars, cacheVars>>

-----------------------------------------------------------------------------
\* Events of a socket, current or not: its handlers are never detached.

SocketOpens(s) ==
  /\ failing = 0 /\ sock[s] = "connecting"
  /\ sock' = [sock EXCEPT ![s] = "open"]
  /\ IF phase = "reconnecting"
     THEN phase' = "mining" /\ attempt' = 0 /\ cancelled' = FALSE
     ELSE UNCHANGED <<phase, attempt, cancelled>>
  /\ UNCHANGED <<isMining, timers, failing, startVars, crewVars, cacheVars>>

\* The connection fails: first its error event, then, in the same task, close.
SocketErrors(s) ==
  /\ failing = 0 /\ sock[s] \in {"connecting", "open", "aborted"}
  /\ failing' = s
  /\ HandleProxyDisconnect("retryable", [sock EXCEPT ![s] = "closed"])
  /\ UNCHANGED <<startVars, cacheVars>>

SocketCloses(s, kind) ==
  /\ \/ failing = s /\ kind = "retryable"
     \/ failing = 0 /\ sock[s] = "closing" /\ kind = "retryable"
     \/ failing = 0 /\ sock[s] = "open"
  /\ failing' = 0
  /\ HandleProxyDisconnect(kind, [sock EXCEPT ![s] = "closed"])
  /\ UNCHANGED <<startVars, cacheVars>>

-----------------------------------------------------------------------------
\* Jobs and workers.

\* initWorkers() starts the first n workers, which capture the generation; if posting to
\* the next one fails, that one stays behind, known to nobody, and failRuntime() is called.
StartsWorkers(n) ==
  /\ worker' = [i \in Crew |-> IF i <= n THEN "booting" ELSE "none"]
  /\ workerGen' = generation

NoWorkers == \A i \in Crew : worker[i] = "none"

FailRuntime == StopMining(sock) /\ UNCHANGED <<failing, startVars>>

JobFor(s) == failing = 0 /\ sock[s] = "open" /\ isMining

\* handleJob() keeps the job, for no worker is ready.
KeepsJob == readyWorkers' = 0 /\ given' = FALSE /\ pendingJob' = TRUE

\* The session mines on with a new crew.
NewWorkers == /\ StartsWorkers(Threads) /\ KeepsJob
              /\ UNCHANGED <<sessionVars, linkVars, startVars, stray>>

\* failRuntime() has ended the session, and handleJob() goes on: what comes of its
\* initWorkers() is left, with the job.
WorkersOutside(n) == /\ EndSession(sock) /\ StartsWorkers(n) /\ KeepsJob
                     /\ UNCHANGED <<failing, startVars>>

\* A job whose seed hash is malformed.
JobInvalid(s) == JobFor(s) /\ FailRuntime /\ UNCHANGED cacheVars

\* A job for the seed at hand, when there is no cache or no worker: the workers are
\* started, or posting to one of them fails.
JobForNobody(s) ==
  /\ JobFor(s) /\ currentSeed # NoSeed
  /\ \/ rxCache = NoSeed /\ FailRuntime
     \/ rxCache # NoSeed /\ NoWorkers /\ NewWorkers
     \/ rxCache # NoSeed /\ NoWorkers /\ WorkersOutside(0) /\ stray' = TRUE
  /\ UNCHANGED cacheVars

\* A job for the seed at hand and the workers: it is kept until one is ready, or
\* dispatched; posting it to one of them may fail.
JobSameSeed(s) ==
  /\ JobFor(s) /\ currentSeed # NoSeed /\ rxCache # NoSeed /\ ~NoWorkers
  /\ \/ /\ readyWorkers = 0 /\ pendingJob' = TRUE
        /\ UNCHANGED <<sessionVars, linkVars, startVars, worker, workerGen, stray, given,
                       readyWorkers>>
     \/ /\ readyWorkers > 0 /\ given' = TRUE
        /\ UNCHANGED <<sessionVars, linkVars, startVars, worker, workerGen, stray,
                       pendingJob, readyWorkers>>
     \/ readyWorkers > 0 /\ FailRuntime
  /\ UNCHANGED cacheVars

\* Mutant: the workers are replaced and the count of ready ones is kept.
JobNewSeedCounted(s, seed) ==
  /\ JobFor(s) /\ seed # currentSeed
  /\ currentSeed' = seed /\ rxCache' = seed
  /\ StartsWorkers(Threads)
  /\ given' = (readyWorkers > 0) /\ pendingJob' = (readyWorkers = 0)
  /\ UNCHANGED <<sessionVars, linkVars, startVars, stray, readyWorkers>>

\* A job for another seed: a new cache, new workers, the job kept for them.  If posting
\* to workers that replace others fails, handleJob() finds none and starts them again.
JobNewSeed(s, seed) ==
  /\ JobFor(s) /\ seed # currentSeed
  /\ currentSeed' = seed /\ rxCache' = seed
  /\ \/ NewWorkers
     \/ /\ \E n \in 0..(IF NoWorkers THEN 0 ELSE Threads) : WorkersOutside(n)
        /\ stray' = TRUE

\* ... whose cache cannot be built: updateCache() stops the session, and handleJob()
\* goes on with the cache of the seed before, if there is one.
JobCacheFails(s, seed) ==
  /\ JobFor(s) /\ seed # currentSeed
  /\ currentSeed' = seed /\ UNCHANGED rxCache
  /\ \/ rxCache = NoSeed /\ FailRuntime
     \/ rxCache # NoSeed /\ WorkersOutside(Threads) /\ UNCHANGED stray
     \/ /\ rxCache # NoSeed /\ stray' = TRUE
        /\ \E n \in 0..(Threads - 1) : WorkersOutside(n)

\* The worker has built its virtual machine and is counted, unless it is an old one.
Readies(i) ==
  /\ failing = 0 /\ worker[i] = "booting"
  /\ worker' = [worker EXCEPT ![i] = "ready"]
  /\ readyWorkers' = IF workerGen = generation THEN readyWorkers + 1 ELSE readyWorkers
  /\ UNCHANGED <<linkVars, startVars, workerGen, stray, cacheVars>>

\* Mutant: a worker that is ready leaves the kept job where it is.
WorkerForgetsJob(i) == Readies(i) /\ UNCHANGED <<sessionVars, given, pendingJob>>

\* The first one that is ready sets the kept job off.
WorkerInitialized(i) ==
  /\ Readies(i) /\ UNCHANGED sessionVars
  /\ IF pendingJob /\ workerGen = generation
     THEN given' = TRUE /\ pendingJob' = FALSE
     ELSE UNCHANGED <<given, pendingJob>>

\* ... or fails to: that ends the session, or, if it has ended, leaves the workers.
DispatchFails(i) ==
  /\ failing = 0 /\ worker[i] = "booting" /\ pendingJob /\ workerGen = generation
  /\ \/ isMining /\ FailRuntime /\ UNCHANGED cacheVars
     \/ /\ ~isMining /\ EndSession(sock) /\ Readies(i)
        /\ pendingJob' = FALSE /\ given' \in {given, TRUE}

\* A worker reports an error, or fails to load: onerror has no generation check.
WorkerFails(i) ==
  /\ failing = 0 /\ worker[i] # "none"
  /\ FailRuntime
  /\ UNCHANGED cacheVars

\* ... nor does it ask whether the worker is one of the crew.
StrayFails == failing = 0 /\ stray /\ FailRuntime /\ UNCHANGED cacheVars

SocketEvent(s) ==
  \/ SocketOpens(s)
  \/ SocketErrors(s)
  \/ \E kind \in Kinds : SocketCloses(s, kind)

Job(s) ==
  \/ JobInvalid(s)
  \/ JobForNobody(s) \/ JobSameSeed(s)
  \/ \E seed \in Seeds : JobNewSeed(s, seed) \/ JobCacheFails(s, seed)

Next ==
  \/ StartUnaddressed \/ Stop \/ RetryDue \/ StrayFails
  \/ \E a \in Addresses : Start(a)
  \/ \E s \in DOMAIN sock : SocketEvent(s) \/ Job(s)
  \/ \E i \in Crew : WorkerInitialized(i) \/ DispatchFails(i) \/ WorkerFails(i)

Spec == Init /\ [][Next]_vars

-----------------------------------------------------------------------------
\* Properties.

Current == Len(sock)
Reaching == sock # <<>> /\ Live(Current)

\* A Start whose address new WebSocket() refuses leaves a session without a connection
\* and without a retry, until a Stop or the late event of an older socket.
Refused == isMining /\ phase = "mining" /\ address = "malformed"

\* A session that mines, but for a refused one, either has a connection, being made or
\* open, or has exactly one retry scheduled, never both and never neither, whatever
\* sockets and timers of before still report; a session that is over has none of it,
\* nor has a refused one.
ServedOrWaiting ==
  /\ timers = IF isMining /\ ~Reaching /\ ~Refused THEN 1 ELSE 0
  /\ Reaching => isMining /\ ~Refused

\* Only the last socket is in use: a replaced one neither connects nor delivers
\* jobs, and a Stop leaves no connection behind.
OneConnection == \A s \in DOMAIN sock : Live(s) => s = Current /\ isMining

\* The workers of the running session are counted right whichever way they came,
\* left or restarted, and no job is kept back beside a worker that is ready.
ReadyCounted ==
  workerGen = generation =>
    /\ readyWorkers = Cardinality({i \in Crew : worker[i] = "ready"})
    /\ pendingJob => readyWorkers = 0

\* The page keeps the promise of the reconnect contract: each wait is paid for,
\* only a waiting session retries, a session that is over stays so until Start.
Promise == INSTANCE RetryPromise
             WITH session <- IF ~isMining THEN "over"
                             ELSE IF timers > 0 THEN "waiting" ELSE "running",
                  spent   <- IF isMining THEN attempt ELSE 0
PromiseSpec == Promise!Spec

\* The browser resolves every connection attempt and every close, runs due
\* timers and boots workers; it need not fail an open socket, send jobs or
\* press buttons.
Sockets == 1..(MaxStarts * (MaxAttempts + 1))
SocketResolves(s) == s \in DOMAIN sock /\ (sock[s] # "open" \/ failing = s)
                     /\ SocketEvent(s)
WorkerBoots(i) == \/ WorkerInitialized(i) \/ DispatchFails(i)
                  \/ worker[i] = "booting" /\ WorkerFails(i)
Fairness == /\ WF_vars(RetryDue)
            /\ \A s \in Sockets : WF_vars(SocketResolves(s))
            /\ \A i \in Crew : WF_vars(WorkerBoots(i))
FairSpec == Spec /\ Fairness

\* A session does not retry for ever: it comes to an open connection or to its
\* end, for an attempt is charged whenever a connection is lost or refused to a retry;
\* only where the first connection is refused is nothing charged and nothing tried.
SessionSettles == isMining ~> (~isMining \/ Refused \/ (Reaching /\ sock[Current] = "open"))

\* A job that a session keeps for workers that are not ready is handed to them, or the
\* session ends; it may be kept for good if they were started for an earlier session.
KeptJobIsGiven == (pendingJob /\ isMining) ~> (given \/ ~isMining \/ workerGen # generation)
=============================================================================
