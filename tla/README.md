# Verification of XMRig Multi

TLA+ models of the parts of this repository in which several actors share state:
the Android mining session, the latch that remembers the user's Stop, the desktop
miner, the browser miner with its reconnects, and the event loop library (libuv)
that the repository carries for the iOS core. TLC checks them on small instances,
TLAPS proves the safety properties for every value of the constants.
`PROJECT.json` lists components, runs, mutants, findings, hazards and theorems, and
maps every definition to the lines it translates. Paths below are relative to
`src/`; Android paths to `app/src/main/java/com/iml1s/xmrigminer/`, libuv paths to
`ios/XMRigCore/libs/libuv-1.48.0/src/`.

## 1. The system

XMRig Multi runs an XMRig miner on Android (a child process under WorkManager),
on the desktop (a child process of a Tauri app), in the browser (WASM workers and
a WebSocket to a pool proxy) and on iOS (in the app's process). Most of the
repository is code without interleavings of its own: pool and wallet data, policy
functions, forms. The behaviour that is hard to test is who owns the miner, and
what happens to a Stop.

| component | state | operations | interacts with |
|---|---|---|---|
| `service/MiningController.kt` | `sessionGeneration`, thread override | `start`, `stop`, `pauseForPolicy`, `resumeAfterPolicy`, relaunch with other threads | the latch; WorkManager's unique works |
| `service/MiningSessionLatch.kt`, `PrefsSessionIntentStore.kt` | stop and armed revision, automation, pause; the preferences | `latchUserStop`, `armSession`, `setAutomationArmed`, `latchPolicyPause`, `attach` | every entry point, from any thread |
| `service/MiningWorker.kt`, `native/XmrigProcessController.kt` | the XMRig process | launch, watch, stop, sweep leftovers | cancelled through WorkManager |
| `service/MonitorWorker.kt` | thermal phase, pending and applied throttle | a tick every 5 s: pause, throttle, restore | controller, latch, sensors |
| `service/PolicyResumeWorker.kt` | poll counter, stop revision at the pause | poll, resume, time out | controller, latch |
| entry points: app, watch, tile and widget, charging screensaver | | Start, Stop, pause for, automation on and off | controller and latch; some go past the controller |
| `service/EnergySessionMeter.kt` and `data/energy` | interval ledger, budgets | tick, session start and stop | monitor, controller |
| `desktop/src-tauri/src/miner.rs` | process slot, `running`, `session_gen`, figures | `start`, `stop`; a reaper and a poller per session | commands of `main.rs` |
| `desktop/src-tauri/src/main.rs` | `user_stopped`, close preference | commands, tray, close, exit | the page, `miner.rs` |
| `desktop/src/main.js` | `isMining` | Start, Stop, Apply, poll `is_mining` | commands |
| `web/js/miner.js`, `pool-proxy.js`, `shared/reconnect` | phase, attempts, retry timer, socket; workers, cache, the job kept for them | connect, disconnect, retry, Stop, job, new seed | pool proxy, web workers |
| `web/proxy/server.js` | pool socket, queued messages, fee timer | login, fall back, forward | browser, pool |
| `shared/companion-sync`, `session-state`, `staged-apply` | commands seen; session phase; draft | reducers | watch and phone |
| policies: thermal, power, automation, idle, budget | none | observation to verdict | their callers |
| `ios/XMRigCore` | global `App`, log pipe | start, stop | the iOS app; libuv |
| libuv `unix/core.c`, `timer.c`, `loop-watcher.c` | queues, heap of timers, counts of what keeps the loop alive | `uv_run`, start, stop, ref, unref, `uv_close` | user code in every callback |
| libuv `unix/async.c`, `threadpool.c`, `thread-common.c` | flags and a pipe; queues, mutexes; a barrier | `uv_async_send`, `uv_queue_work`, `uv_cancel`, `uv_barrier_wait` | the loop and other threads |
| libuv `unix/kqueue.c` | watchers, their table, a batch of events | poll, invalidate | kernel, user code |
| libuv `unix/stream.c`, `tcp.c`, `udp.c` | queues of requests, what is watched | connect, write, shutdown, listen, accept, send, read, close | the poll, user code |
| libuv `unix/signal.c`, `fs-poll.c` | handles by number, a pipe, counters; contexts of a path | start, stop, close | signal handlers on any thread; the pool |

Hard behaviours: coroutines that decide, suspend and then act; cancellation of works
that still run; two WorkManager calls that belong together; crashes between any two
steps with a latch that is persisted and works that WorkManager runs again; threads of
an old desktop session that wake up in a new one; events of a browser socket that was
replaced, and workers of a session that is over; in libuv, senders and signal handlers
that run beside the loop without its knowledge, and callbacks that use, stop or close
the very things the code around them is iterating over.

What makes the parts correct: a Stop stays in force until a Start; it ends all
mining; a policy pause is recovered; mining never goes unmonitored; there is one
miner; the desktop never loses its process, tells the truth about it, and
leaves none behind; a browser session has one connection or one retry to come, pays for each
retry, and settles; libuv loses no wakeup, calls whom an event is for and nobody
who is closed, answers every request once and in order, and ends exactly when
nothing is left that keeps it alive.

## 2. The modules

| module | models |
|---|---|
| `MiningSession` | Android controller, workers, entry points, WorkManager's slots, process deaths |
| `SessionLatch` | the latch with each read, write and commit as a step |
| `DesktopMiner` | desktop backend, its threads, commands, tray and page |
| `OneProcess` | the abstract specification of a miner controller: one process at a time |
| `WebMiner` | the browser miner: session, sockets, retry timer, jobs, cache, workers |
| `RetryPromise` | the abstract specification of a session that reconnects |
| `UvAsync` | wakeups of the loop by other threads, each access a step |
| `UvQueue` | linked queues: membership and unlinking |
| `UvThreadPool` (extends `UvAsync`, `UvQueue`) | the pool's workers, `uv_cancel`, the answers of the loop |
| `WorkPromise` | the abstract specification of a request of the pool |
| `UvBarrier` | threads that wait for each other |
| `UvPoll` | I/O watchers, a batch of kqueue events, pending callbacks |
| `UvLoop`, `UvHeap` | `uv_run` with timers, hooks and closing handles; the heap of the timers |
| `UvStream`, `UvServer`, `UvUdp` | a TCP stream, a listening stream, a datagram socket |
| `UvSignal`, `UvFsPoll` | signal handles, a handle that polls a path |
| `MiningSession_proofs`, `SessionLatch_proofs`, `DesktopMiner_proofs`, `WebMiner_proofs` | theorems about the module of that name |
| `UvThreads_proofs` | queues; `UvAsync`, `UvThreadPool`, `UvBarrier` |
| `UvLoop_proofs` | `UvPoll`, `UvLoop` |
| `UvHandles_proofs` | `UvServer`, `UvStream`, `UvUdp`, `UvSignal`, `UvFsPoll` |
| `MCUv_proofs` | the libuv parts side by side: the theorems about the properties of the run `loop` |
| `MC...` with `.cfg` | instances for TLC |

### MiningSession

A process is a caller (one entry point into the controller), or the running
instance `Mon(i)` of a monitor work or `Res(i)` of a policy-resume work with id
`i`. Its program counter `pc[p]` names the next step and `op[p]` the procedure.
The code between two suspension points, or between two calls that another thread
can see, is one action. `miningWork`, `monitorWork` and `resumeWork` are the
unique-work slots; cancelling empties the slot at once, and an instance whose id
is no longer in its slot is cancelled and ends where the code suspends
(`MonitorCancelled`, `ResumeCancelled`) or where the mining loop looks at
`isStopped` (`EndWorker`). `pauseForPolicy`, once entered, runs to its end though
it cancels its own worker: the calls it makes are not suspension points, and the
configuration read swallows the cancellation.

| code | actions |
|---|---|
| `start` | `RequestStart`, `DreamCheck`, `RejectStart`, `StartGates`, `StartArmed`, then the shared steps, `FinishStart`; `AbandonStart` when the caller's scope is cancelled |
| `stop`, quick `stop_mining` | `LatchStop`, `CancelResume` (controller only), shared steps |
| quick `pause_for` | `QuickPause`, shared steps |
| `cancelEngine`, `enqueueMining`, `relaunchMiningWorkerOnly` | `CancelMining`, `CancelMonitor`, `KillMiners`, `EnqueueMining`, `EnqueueMonitor` |
| `PolicyResumeWorker.doWork`, `resumeAfterPolicy` | `BeginResume`, `PollAbort`, `PollContinue`, `Decide`, `ResumeGates`, `ResumeArmed`, `FinishResume` |
| `MonitorWorker.checkCriticalConditions` | `TickPause`, `TickThrottle`, `TickRestore`, `RequestOverride`, `RequestRestore`, `VerifyOverride`, `LatchPause`, `ScheduleResume` |
| `MiningWorker.doWork` | `BeginWorker`, `Spawn`, `LaunchFails`, `EndWorker`, `MinerExits` |

What the sensors, the charger and the budgets say is one value: `good`, `warm`
(throttle), `hot` (pause), `unpowered`, `capped` (a budget is spent).

Abstractions. The generation is named by the id of the session's first work; the
real counter restarts at 1 with the process, and reuse of a number is not
represented. The network constraint of the works holds. An operation of the latch with
its commit is one step, and so are the two reads of `isUserStopped` and the
check-and-pause of a quick command: `SessionLatch` covers what this leaves out.
A resume finds the configuration still valid. The permanent thread count is
large enough for a throttle to relaunch. A tick reads one health value.
The monitor's pause for a lost network and its retry after an exception are not
modelled. XMRig processes that outlive the app are one `Survivor`. Unlike a
coroutine, a screensaver's request is not withdrawn when the dream ends
(`AbandonStart` is its cancellation).

### SessionLatch

`cells` are the three atomics in memory, `disk` the preferences. `armSession` is
a read and a write; `persistNow` is three reads and a commit; nothing is locked.
`Crash` reloads the cells from the disk.

### DesktopMiner

`pc`, `op` and `who` are the main thread, on which commands, tray and close
events run one after the other. Reaper and poller of session `s` interleave with
it at every shared load, store and locked block. `page[f]` is a click whose
asynchronous function is being executed: one invocation after the other, with
other events in between. `alive` is the set of sessions whose XMRig lives, which
no variable of the program holds.

`usurped` is a history variable: what a thread of an older session has changed
after it was overtaken, between its last check of the generation and its act.
The code has this window (`miner.rs:610`, `612`, `693`); `TruthfulState`,
`StopIsFinal`, `QuitLeavesNothing` and `ExitNoticed` hold outside it, and
`StaleReaperHarmless` shows that it is not empty. `NoOrphan` and the refinement
of `OneProcess` hold in it too.

Abstractions. Access token and port are dropped: a summary fetched from another
session's port is thrown away by the generation check. `parse_stdout` writes
figures behind the same check as the poller and is folded into it; `drain_stderr`
changes nothing. The poller's loop test is merged with the test after its sleep.
`session_authorized`, the close preference, errors of `try_wait` and poisoned
locks are not modelled. `RunEvent::Exit` calls `force_stop_miner` again, which finds
nothing to do. `NewSession`, `SpawnFails` and a Stop need a session number below
`MaxSession`; the bound of the run is one that no handler reaches.

### WebMiner

The page has one thread: an action is one event handler. `sock` holds every WebSocket
that was ever opened, the last one being `proxy.socket`; those before keep their
handlers, and their late `open`, `error` and `close` events are actions like the ones of
the current socket. `failing` joins the error event of a failed connection with the
close event that the browser fires right after it. `timers` counts timeouts, so that two
at once would be seen. `Start`, `StartUnaddressed`, `Stop`, `RetryDue`, `SocketOpens`,
`SocketErrors`, `SocketCloses`, the `Job...` actions, `WorkerInitialized`, `DispatchFails`,
`WorkerFails` and `StrayFails` are the handlers; `HandleProxyDisconnect` is the one all
failures of the connection meet in, with the reconnect controller folded in.
`PromiseSpec` is the refinement of `RetryPromise`: the session is over, running or
waiting, and attempts are spent.

What throws or fails inside a handler, and where the handler is left then:

| code | model |
|---|---|
| `new WebSocket()` refuses an address of which only the prefix was checked (`app.js:615`, `miner.js:210`, `pool-proxy.js:32`) | `address` is `malformed`; `Connect` has closed the old socket and opens none |
| ... in `start()`, which does not catch it (`miner.js:218`) | `Start("malformed")`: the session mines without a socket and a timer, `Refused` |
| ... in `executeReconnect()`, which does (`miner.js:160`) | `RetryDue`: one more disconnect, of any kind the message may be taken for |
| `start()` without an address, which the page's own check excludes (`miner.js:210`) | `StartUnaddressed` |
| the cache cannot be built (`miner.js:319`) | `JobCacheFails` |
| posting to a new worker fails (`miner.js:370`) | `WorkersOutside` with `stray`: `failRuntime()` ends the session, `handleJob()` goes on, and the worker that could not be told is in no list |
| posting a job fails (`miner.js:297`) | `JobSameSeed`, `DispatchFails` |

Abstractions. Delays of retries and hash rates are left out. The
page passes no backup pools, so fail-over and the return to the primary are not
reached. A job is its seed. A `start()` whose preflight fails changes nothing but what is
shown. `new Worker()` and the callbacks of the page are taken not to throw. The leak of
workers by a failing cache or message is represented: nothing says that a stopped page has
no workers, so the claim is that they do not count for the next session.

### The libuv modules

In each, user code runs in the callbacks, makes any call of the API that its
documentation allows, and closes handles, its own included. `MCUv` puts the parts side by
side, as scenes of one specification: they share no state, so a behaviour is one of
one scene. A history variable that marks a case in which the code does not keep the
property is named below.

| module | code | abstractions |
|---|---|---|
| `UvAsync` | `uv_async_send`: `SendReads`, `SendEnters`, `SendMarks`, `SendWakes`, `SendLeaves`; `uv__async_io`: `AsyncDrains`, `AsyncTakes`, `AsyncReturns`; close: `AsyncCloses`, `AsyncClosed` | the list of handles is a set; the pipe is a count of bytes |
| `UvThreadPool` | `worker`: `Worker...`; `post`; `uv__work_cancel`: `Cancel...`; `uv__work_done`: `Loop...`; `ShutDown` | one loop; a request is submitted again only after its answer |
| `UvBarrier` | `uv_barrier_wait`: `CallsBarrier`, `WaitsAtGate`, `Joins`, `Completes`, `WaitsOn`, `Leaves`, `WakesUp`; `DestroysBarrier` | what is done under the mutex is one step |
| `UvPoll` | `uv__io_start`, `stop`, `close`, `feed`; `uv__io_poll`: `Registers`, `PollReports`, `SeesEvent`, `CallsSignals`, `EndsBatch`; `uv__run_pending` | lists are sets; no `POLLHUP`, file-system or process events |
| `UvLoop` | `uv_run` by phases, `uv__run_timers`, hooks, `uv__run_closing_handles`, `uv_timer_*`, `uv_ref`, `uv_unref`, `uv_stop` | a poll ends with time or with a request; pending callbacks are in `UvPoll`; the heap is the order of its keys |
| `UvHeap` | `heap_insert`, `heap_remove`; their loops, exchange by exchange: `WalksUp`, `WalksDown` | the tree is an array: the path of the bits is the position; keys are distinct |
| `UvStream` | `uv__stream_io`, `uv__stream_connect`, `uv__write`, `uv__write_callbacks`, `uv__drain`, `uv__read`, `uv__stream_destroy` | sizes of at most `MaxSize`; no handles sent, `uv_try_write`, blocking writes, shutdown while connecting |
| `UvServer` | `uv_listen`, `uv__server_io`, `uv_accept`, `uv__emfile_trick` | `misused`: `uv_listen` again while a connection is parked (the assertion at `unix/stream.c:515` fails), and an `uv_accept` that fails after the callback has returned (line 594: the server is deaf from then on) |
| `UvUdp` | `uv__udp_send`, `try_send`, `recvmsg`, `sendmsg`, `run_completed`, `finish_close` | no `recvmmsg`, `sendmmsg` (not built on the BSDs), membership, options; histories: `given` and `departed` are the datagrams of all calls and those the system has taken, `asked` and `replied` those of calls with a callback and those answered |
| `UvSignal` | `uv__signal_handler` in four steps, start, stop, `uv__signal_event`, the wait in `uv__finish_close` | one loop; `unheard`: the pipe was full, or a one-shot handle was started in the gap of `unix/signal.c:408` |
| `UvFsPoll` | `uv_fs_poll_start`, `stop`, `poll_cb`, `timer_cb`, `timer_close_cb`; `uv__run_timers` takes timers out of the heap (`TimersDue`) before it calls them (`TimerFires`), with user code in between | `overlapped`: started again while an older request runs, or while the older timer is due; that context then polls on beside the new one, and `timer_cb` asserts that it does not (`fs-poll.c:177`) |

## 3. The runs

| run | shows | bounds |
|---|---|---|
| `calls` | `StopSticks`, `NoRevival` under every kind of request | 2 callers, 2 requests, 1 Stop, 1 poll, 2 health changes between good and warm |
| `live` | `StopDrains`, `ResumeRestarts`, `OneMinerInTheEnd` | 1 caller, 2 polls, the charger goes and comes back |
| `heal` | `StopSticks`, `NoRevival`, `MonitorHeals` with a death of the app at any step | 1 caller, 2 requests of Start, screensaver and Stop, 1 crash, hot or over budget |
| `rearm`, `unmonitored` | findings | 1 caller, a hot device |
| `races` | `DurableWhenAlone`, `StaleArmIsPowerless`, `StopLatches` | 3 threads, 4 calls, 1 restart |
| `lost` | finding | 2 threads, 3 calls |
| `sessions` | `NoOrphan`, `TruthfulState`, `StopIsFinal`, `QuitLeavesNothing`, `SupervisorSpec`, `ExitNoticed` | 1 click at a time plus the tray, 3 requests, 1 exit, 5 session numbers |
| `stale` | finding | the same |
| `web` | `ServedOrWaiting`, `OneConnection`, `ReadyCounted`, `PromiseSpec`, `SessionSettles`, `KeptJobIsGiven` | 2 Starts, 3 attempts, 2 seeds, 2 workers |
| `loop` | the properties of the libuv modules, scene by scene (below) | 2 to 3 of everything, below |
| `deaf` | finding | 2 watchers, 2 descriptors, 8 calls of user code |

In the run `loop`:

| property | says |
|---|---|
| `NoWakeupIsLost` | a send is found by the loop; a request that can be run finds a worker; a slow one has its message; a watched signal is handled |
| `NoWakeAfterClose` | after `uv_close` of an async handle no sender wakes the loop for it |
| `PollAsserts`, `EventReachesItsOwner` | what `uv__io_poll` asserts; an event goes to the watcher it was reported for |
| `TurnAndCount` | a queue that is being run holds what is due, timers in order; the count of active handles is right; timers of `UvFsPoll` are those of the newest context, unless `overlapped`; the heap loses and doubles no key and has the least at its root |
| `BarrierHolds` | no thread is a round ahead; the serial thread may destroy the barrier |
| `RequestsAreAccounted` | writes and datagrams are counted, watched, answered in order and all before the close callback; a server listens; messages to a signal handle and contexts of a path are accounted for |
| `WorkPromiseSpec`, `PoolAnswers` | the pool implements `WorkPromise`, answers every request, and its threads end |
| `ClosedIsSilent` | nothing but the close callback after `uv_close`, and that once; a one-shot handle is called once |
| `NothingIsLeftBehind` | `uv_run` ends for want of what keeps it alive |
| `CallbacksCome` | close, timer, write, datagram, signal and pending callbacks come; the barrier lets its threads out |

Why they are enough. Two callers and two work ids give every overlap of two procedures,
which is what the conditions of the code tell apart; a third session repeats the second,
because finished ids are used again. One Stop between two other requests is what a Stop
needs to be overtaken from both sides. `MAX_POLLS` is 240 in the code; with 2 a resume
waits once and gives up once. Three requests on the desktop make a Start, an Apply and a
Stop, so that threads of three sessions are about; five session numbers are more than
these requests can use. With two clicks at once (the page's buttons do not prevent that)
the desktop run also passes, in four minutes; the proofs cover any number. In the
browser two sessions are what late events and old workers need, and three attempts end
in giving up as well as in success, with an address that is taken and one that is not. In libuv two senders, two workers (a threshold of
one slow request), three requests, three datagrams and three writes or connections give
each queue a first, a middle and a last; two descriptors are used again in one batch; a
user makes 3 to 6 calls, enough to stop, start and close in one callback. The barrier
has three threads and three rounds, so that a thread of the next round meets one that
has not left the last. Six keys make the smallest heaps in which the key that replaces a
removed one must walk up. Every passing run ends with the state space exhausted.

Runs that check only safety use symmetry; `live`, `heal` and `sessions` do not.
Deadlock is not checked: every system here may come to rest, and the bounds end the
requests.

Each property of a passing run has a mutant: a change of one definition as a bug
would make it (a latch not read again, a loop that ignores cancellation, a
commit that leaves out a value, a reaper that does not look), under which TLC
finds that property violated in the same run.

### Fairness

- `MiningSession`: weak fairness of each caller inside a procedure, of each monitor,
  resume and mining worker. Dispatchers run what is runnable, WorkManager starts the
  works in its slots (the network constraint is taken to hold) and cancels what is no
  longer in them. Nothing is assumed of the user, the sensors, XMRig, a failing launch,
  the cancellation of a caller's scope, or crashes.
- `DesktopMiner`: handlers run to their end, promises are resolved, the page's timer
  fires, reapers are scheduled. Nothing is assumed of the user, of pollers or of XMRig.
- `WebMiner`: timers that are due run, the browser ends each attempt to connect and each
  close with an event, and workers boot or fail. Nothing is assumed of open sockets,
  jobs, or the buttons.
- `MCUv`: the operating system schedules threads, callbacks return, requests of the pool
  end, all threads of a barrier call it, and time passes (strongly: a loop with an idle
  handle is always between two steps of its own). A stream or socket that was fed is
  called by `uv__run_pending`, which runs in each iteration (strongly: user code runs in
  between). Nothing is assumed of the kernel's reports, of users, of signals.

### Findings

1. `rearm`: a policy resume (or the screensaver) that has looked at the latch and
   then suspends clears a Stop that comes in between (`MiningController.kt:197`,
   `200`, `216`). `StopSticks` therefore speaks of a Stop that found nobody on that stretch.
2. `unmonitored`: a pause of an old session cancels the monitor of a new one
   (`MiningController.kt:470`), which then mines unmonitored.
3. `lost`: overlapping `persistNow` calls can lose a Stop on disk
   (`MiningSessionLatch.kt:137`). The same overlap can persist the armed revision ahead
   of the stop revision, so that the first Stop after a restart does not latch;
   `SessionLatch` reaches that state, but no document speaks of it.
4. `stale`: a reaper of an older session empties the slot of a newer one
   (`miner.rs:610`).
5. `deaf`: reading that is stopped in a write callback and started again in the same
   batch of events leaves a stream that the kernel reports nothing for: the unwanted
   event deletes the kernel's filter (`unix/kqueue.c:352`) but `w->events` keeps the
   bit, so neither `uv__io_start` (`unix/core.c:918`) nor the poll adds it again.

## 4. The theorems

Assumptions: the named `ASSUME`s of the modules only (bounds are numbers, names
are distinct). No bound is used in a proof: any number of callers, threads, works,
sessions, requests and crashes.

`MiningSession_proofs`. `StopSticks` is not inductive: a step of a procedure that
several kinds of process share is harmless for a Stop and risky for a Start, so the
invariant needs to know which procedure is run where. `IInv` adds `OpsMatch` (a
process at a label runs an operation that has that label). One step per action; `NoRevival`
then follows because only `EnqueueMining` fills the slot, and who enqueues is `Risky`.

`SessionLatch_proofs`. `StaleArmIsPowerless` and `StopLatches` rest on `ReadBehind`:
what an arm has read never passes the stop revision, which only grows while the process
lives. `DurableWhenAlone` rests on `AloneOK`: a call that has overlapped no other finds
every other thread idle, so that what it has read is still what memory holds.

`DesktopMiner_proofs`. `IInv` adds `Labels` (which handler each label belongs to, and
which click it answers), `Fresh` (the slot is empty from the killing of a leftover to
the store; numbers are taken before they are launched), `ReapersOK` (a reaper that saw
an exit and was not overtaken saw the exit of the only process), `Controlled` (a live
process is reported as running unless a late reaper has cleared the flag) and `Quiet`
(while a Stop is in force no click is past the latch). `Implements` maps `Spawn` to
`Launch`, the steps that kill or lose a process to `End`, all else to a stutter.
`Truthful` needs two more facts that are inductive with `IInv`: `SlotCurrent` (but while
a Start kills a leftover the slot is empty or of the current session) and `FiguresOwn`
(the live process is the one launched last, no poller is ahead of it, and the figures
are of it or of nobody).

`WebMiner_proofs`. `Inv` says that the page is in one of four `Situation`s: over (no
timer, no live socket), waiting (one timer, no live socket), running (no timer, only
the last socket live) or stranded (mining with a refused address, no timer, no live
socket). Every handler goes from one to another, late events included, because the
handlers look at the session and not at the socket that called them; only a `Start` leads
to stranded, and a retry that is refused leads to waiting or over, which is why the
address is part of the invariant. `ServedOrWaiting` and `OneConnection` follow, and
`KeepsPromise` maps the situations to those of `RetryPromise`, of which a stranded
session is a running one. `WorkersCounted` needs only `CountInv`: the generation of the
workers is never ahead of the session's, so a Start makes all of them old at once; each
handler keeps, ends or replaces the crew, or changes one worker and the count with it.

`UvThreads_proofs`. First the queues, as sequences without repetition: what appending,
taking the head, unlinking and joining do to the elements, their order and their number.

- Async handles. `AsyncInv` adds to `NoSendIsLost` that `busy` counts the senders inside
  (`SendersCounted`, by cardinalities), that a handle which is not gone is in the loop's
  list or in the part being walked (`AsyncListed`), and that a closing handle has its
  flag set (`ShutSet`), which is what turns later senders away.
- Requests. `PoolInv` says where each is: waiting for a worker, run by one, taken out by
  `uv_cancel()`, or handed to the loop; never in two of these places nor twice in a queue
  (`Apart`, `PoolQueues`), and `slow_io_work_running` is the number of workers that hold a
  slow request. `KeepsPromise` maps every step to one of `WorkPromise` or to a stutter;
  the limit holds because the slow requests seen to run map injectively to the workers
  that hold one. Neither mutex occurs in the invariant: what is done under one lock is
  one step here, in any order with the others.
- Wakeups of workers. `WakeInv` adds a comparison, `EnoughRise`: while a worker sleeps,
  the requests that can be run are no more than the workers on their way to the queue.
  `RequestsWakeWorkers` alone is not inductive: of two requests and one worker on its
  way, the worker would take one and leave nobody for the other. A worker that has run a slow request counts
  only once it has the mutex, because only then does the threshold fall and the slow
  message become something to run; `idle_threads` counts those that wait and those that
  were woken (`IdleCounted`), so that a signal is never withheld from a sleeper.
  `PoolSends` shows that the pool uses `uv_async_send()` as `UvAsync` has it.
- The barrier. `BarrierInv`: the threads that are inside a round are as many as `in +
  out`, one of which is 0 (`HallCounted`); a thread has begun one round more than it has
  done exactly while it is inside, and all have done equally many while a round gathers,
  begun equally many while one leaves (`Even`); a serial thread that has done its last
  round finds all others done too (`AllDone`).

`UvLoop_proofs`.

- The poll. `PollInv`: an open descriptor has one owner (`OneOwner`), the table agrees
  (`InTable`), what differs from the kernel's knowledge is queued (`Known`), the events
  of the batch are for the descriptors' present owners (`EventsOwned`), and closed
  watchers are out of every list (`ClosedIsOut`).
- The iteration. `LoopInv`: a hook that is active is in the queue of its kind or it is
  its turn, never both (`HooksInLine`); a handle that is closing is inactive and waits
  once for its callback (`ClosingInLine`); the timers that are owed a callback are the
  active ones and those whose turn it is (`PromisedIsDue`); the start ids of active timers
  differ and are below the counter (`StartsDiffer`), so that a least timer exists and is
  one; a turn holds each handle once, of timers in order and none that was stopped or
  closed since (`TurnHolds`). `ActiveCount` needs the first two: a handle that is stopped,
  by whomever, leaves `active` with exactly one change of the count.
- The heap. `HeapInv`: the keys are the members, each once; and the heap is in order but
  around the node that walks (`HeapOrder`), which may be less than its parent and, on its
  way down, greater than its children, while these are greater than its parent: what the
  walk down leaves is then in order below, and the walk up repairs the rest. That the
  root is the least is the argument of the least position at which a smaller key could be.

`UvHandles_proofs`.

- `ServerInv`: what `ServerListens` asserts while a connection is at hand is made
  independent of the kernel (`ParkedIsUnwatched`).
- `StreamInv`: the writes submitted are those answered, being answered, completed and
  waiting, joined in this order (`StreamLinks`), from which the order of the answers
  follows; freed writes are not among the waiting (`StreamFreed`), so that the bytes
  counted are those of the writes not freed, by cardinalities; `StreamWatched` says what
  is watched in each state of the connection and of the callbacks, and `StreamEnds` what
  is empty at each step of closing.
- `UdpInv`: as for streams, two such equations (`InOrder`), one for the calls with a
  callback and one for all; `ShutInOrder` for the steps of closing.
- `SignalInv`: the counters of a handle differ by the messages on their way to it
  (`CountersAgree`); while the lock is held the handles to be told watch the number that
  is handled (`LockedOut`), because nobody can stop or close one then; a handle that is
  not one-shot has its number caught (`RegularsAreCaught`), a one-shot that was heard is
  stopped or running (`OnceHeard`).
- `FsPollInv`: the list of contexts falls in age (`ContextsInOrder`), an active handle's
  context is the newest and at work (`NewestIsActive`), and unless a start overlapped an
  older request or a due timer no other context has a timer or a request (`NewestIsAlone`).

`MCUv_proofs`. The conjunction of these invariants is inductive for the parts side by
side, since a step of the whole is for each part one of its steps or none. From it follow
`TypesOK`, `NoWakeupIsLost`, `TurnAndCount`, `RequestsAreAccounted`, `ClosedIsSilent`,
`NothingIsLeftBehind` and `WorkPromiseSpec` of `MCUv`'s own `Spec`; the theorems about
`NoWakeAfterClose`, `PollAsserts`, `EventReachesItsOwner` and `BarrierHolds` are stated of
the part's specification.

Two facts of arithmetic and sets are not in the library as such: that a set of numbers
has a least element (`LeastNatural`, from the well-foundedness of `<` on the naturals)
and that as many things are counted on both sides of a one-to-one map, which is taken
from the theorems about bijections of finite sets.

Every invariant and every action property of a passing run is the statement of a theorem. Only model-checked: liveness (`StopDrains`, `ResumeRestarts`,
`OneMinerInTheEnd`, `MonitorHeals`, `ExitNoticed`, `SessionSettles`, `KeptJobIsGiven`,
`PoolAnswers`, `CallbacksCome`), which needs `ENABLED`. `StopIsDurable`, `OnlyStartClearsStop`, `MonitoredMining`,
`StaleReaperHarmless` and `StartedIsArmed` are violated.

## 5. Not modelled

- `web/proxy/server.js`: a relay between two sockets. By reading: a pool that closes
  without an error is never replaced (line 245), `fallbackIndex` starts at 1 and skips
  the first fallback, messages written while the pool connects precede the login.
- Known and represented, with no claim: a `Start` whose address the browser refuses leaves
  a session that mines nothing until Stop (`miner.js:218`; only the prefix is checked, and
  `app.js:639` has no catch), which `ServedOrWaiting` and `SessionSettles` name as
  `Refused`; attempts are not reset when a retry succeeds, because the phase is already
  `mining` when the socket opens (`shared/reconnect/js/controller.js:201`), and add up over
  the session; a timer of `UvFsPoll` that is inactive need not have a request under way, as
  the comment at `fs-poll.c:126` has it: it may be due, and a stop and a start in a callback
  before it make the assertion at line 177 fail; a policy resume is decided by power alone, so a
  pause for heat may be resumed hot (`PolicyResumeWorker.kt:53`); `sessionGeneration`
  restarts with the process while a persisted monitor keeps its number
  (`MiningController.kt:54`).
- The energy meter, statistics, companion protocol, session state, staged apply:
  arithmetic or reducers with one caller or none, covered by unit tests. Policy
  functions, pool, wallet, profile and tariff data, onboarding and presentation are pure
  or display only.
- The iOS bridge has one transition: `xmrig_stop` does not end the `App`
  (`xmrig_bridge_impl.cpp:300`), and the next start is refused.
- libuv: files, processes, pipes, terminals, address lookup are system calls run by the
  pool or on the streams and watchers above. The Windows and Linux backends are not
  built for this product. They are most of the repository's C lines, so that the share
  of all lines that the models stand for stays small.
- Other vendored libraries, the donation patch, build scripts.

## 6. Where it could go on

The models are independent of each other, so each can be extended alone. Worth it next:
an abstract stream, of which a write is answered once and in order, that `UvStream` and
`UvUdp` implement; the latch of `SessionLatch` as an implementation of the one step of
`MiningSession`; `UvLoop` with `UvPoll` in place of its abstract poll; the proxy, once a
pool that closes is replaced.
