-------------------------------- MODULE UvLoop --------------------------------
(***************************************************************************)
(* An iteration of the libuv event loop: uv_run() (src/unix/core.c), the   *)
(* timers (src/timer.c), the idle, prepare and check handles               *)
(* (src/unix/loop-watcher.c), uv_close() and the close callbacks           *)
(* (src/unix/core.c), and the counting of the handles that keep the loop   *)
(* alive (src/uv-common.h).  A callback is user code that makes any of     *)
(* these calls.  What the poll reports is here the end of a request; the   *)
(* poll itself is in UvPoll, the heap of the timers in UvHeap.             *)
(***************************************************************************)
EXTENDS Integers, FiniteSets, UvQueue

CONSTANTS Timers, Idles, Prepares, Checks,   \* the handles, by type
          NoHandle, Io,  \* nobody; the callback of a request
          Modes,         \* the modes uv_run() is called with
          MaxClock,      \* bound: time
          MaxDelay,      \* bound: of a timer
          MaxUses,       \* bound: calls made by the user
          MaxReqs        \* bound: requests under way

Hooks == Idles \cup Prepares \cup Checks
Handles == Timers \cup Hooks

ASSUME LoopAssumption ==
  /\ Timers \cap Hooks = {} /\ Idles \cap Prepares = {}
  /\ Idles \cap Checks = {} /\ Prepares \cap Checks = {}
  /\ NoHandle \notin Handles /\ Io \notin Handles /\ Io # NoHandle
  /\ "default" \in Modes /\ Modes \subseteq {"default", "once", "nowait"}
  /\ MaxClock \in Nat /\ MaxDelay \in Nat /\ MaxUses \in Nat /\ MaxReqs \in Nat
  /\ IsFiniteSet(Handles)

VARIABLES
  phase,          \* the step of uv_run(); "out": it is not running
  mode,
  canSleep,       \* can_sleep
  turn,           \* the queue whose callbacks are being run
  running,        \* whose callback runs
  clock,          \* the time
  now,            \* loop->time
  timeout, startId, repeat,
  timerCounter,
  hookQueue,      \* loop->idle_handles, prepare_handles, check_handles
  active,         \* handles with UV_HANDLE_ACTIVE; the timers among them: the heap
  refd,           \* handles with UV_HANDLE_REF
  activeHandles,  \* loop->active_handles
  activeReqs,
  closingHandles, \* loop->closing_handles
  closingSet, closedSet,   \* UV_HANDLE_CLOSING, UV_HANDLE_CLOSED
  stopFlag,
  promised,       \* history: timers that were started and not stopped since
  uses            \* counter of the bound

runVars == <<phase, mode, canSleep, turn, running>>
timeVars == <<clock, now>>
timerVars == <<timeout, startId, repeat, timerCounter>>
countVars == <<active, refd, activeHandles>>
closeVars == <<closingHandles, closingSet, closedSet>>
loopVarsAll == <<runVars, timeVars, timerVars, hookQueue, countVars, activeReqs,
                 closeVars, stopFlag, promised, uses>>

Phases == {"out", "entered", "idle", "prepare", "poll", "polled", "check", "closing", "timers"}

LoopTypeOK ==
  /\ phase \in Phases /\ mode \in Modes /\ canSleep \in BOOLEAN
  /\ turn \in Seq(Handles) /\ running \in Handles \cup {NoHandle, Io}
  /\ clock \in 0..MaxClock /\ now \in 0..MaxClock
  /\ timeout \in [Timers -> 0..MaxClock + MaxDelay + 1] /\ repeat \in [Timers -> 0..1]
  /\ startId \in [Timers -> Nat] /\ timerCounter \in Nat
  /\ hookQueue \in [{"idle", "prepare", "check"} -> Seq(Hooks)]
  /\ active \in SUBSET Handles /\ refd \in SUBSET Handles
  /\ activeHandles \in 0..Cardinality(Handles)
  /\ activeReqs \in 0..MaxReqs
  /\ closingHandles \in Seq(Handles)
  /\ closingSet \in SUBSET Handles /\ closedSet \in SUBSET closingSet
  /\ stopFlag \in BOOLEAN
  /\ promised \in SUBSET Timers
  /\ uses \in 0..MaxUses

LoopInit ==
  /\ phase = "out" /\ mode = "default" /\ canSleep = FALSE
  /\ turn = <<>> /\ running = NoHandle
  /\ clock = 0 /\ now = 0
  /\ timeout = [t \in Timers |-> 0] /\ repeat = [t \in Timers |-> 0]
  /\ startId = [t \in Timers |-> 0] /\ timerCounter = 0
  /\ hookQueue = [k \in {"idle", "prepare", "check"} |-> <<>>]
  /\ active = {} /\ refd = Handles /\ activeHandles = 0
  /\ activeReqs = 0
  /\ closingHandles = <<>> /\ closingSet = {} /\ closedSet = {}
  /\ stopFlag = FALSE /\ promised = {} /\ uses = 0

-----------------------------------------------------------------------------
\* Active and referenced handles.

Counted(h) == IF h \in refd THEN 1 ELSE 0

\* uv__handle_start(), uv__handle_stop()
HandleStart(h) ==
  /\ active' = active \cup {h}
  /\ activeHandles' = IF h \in active THEN activeHandles ELSE activeHandles + Counted(h)

HandleStop(h) ==
  /\ active' = active \ {h}
  /\ activeHandles' = IF h \in active THEN activeHandles - Counted(h) ELSE activeHandles

UserCode == running # NoHandle \/ phase = "out"

Uses == UserCode /\ uses < MaxUses /\ uses' = uses + 1

\* uv_ref() and uv_unref(): a closing handle is no longer counted.
Ref(h) ==
  /\ Uses /\ h \notin refd
  /\ refd' = refd \cup {h}
  /\ activeHandles' = IF h \in active \ closingSet THEN activeHandles + 1
                                                   ELSE activeHandles
  /\ UNCHANGED <<runVars, timeVars, timerVars, hookQueue, active, activeReqs,
                 closeVars, stopFlag, promised>>

\* Mutant: the count is corrected for every handle.
UnrefIdle(h) ==
  /\ Uses /\ h \in refd
  /\ refd' = refd \ {h}
  /\ activeHandles' = IF activeHandles > 0 THEN activeHandles - 1 ELSE 0
  /\ UNCHANGED <<runVars, timeVars, timerVars, hookQueue, active, activeReqs,
                 closeVars, stopFlag, promised>>

Unref(h) ==
  /\ Uses /\ h \in refd
  /\ refd' = refd \ {h}
  /\ activeHandles' = IF h \in active \ closingSet THEN activeHandles - 1
                                                   ELSE activeHandles
  /\ UNCHANGED <<runVars, timeVars, timerVars, hookQueue, active, activeReqs,
                 closeVars, stopFlag, promised>>

-----------------------------------------------------------------------------
\* Timers.

\* timer_less_than()
Earlier(t, u) == \/ timeout[t] < timeout[u]
                 \/ timeout[t] = timeout[u] /\ startId[t] < startId[u]

\* heap_min()
NextTimer == CHOOSE t \in active \cap Timers :
               \A u \in (active \cap Timers) \ {t} : Earlier(t, u)

\* The queue of those whose turn it is, without one that has been unlinked; the
\* handles that are being closed are linked in another way.
TurnWithout(h) == IF phase = "closing" THEN turn ELSE Unlink(h, turn)

\* The rest of uv_timer_start(), once uv_timer_stop() has been called; the times
\* of the model are far from the end of the clock.
Scheduled(t, delay, again) ==
  /\ timeout' = [timeout EXCEPT ![t] = now + delay]
  /\ repeat' = [repeat EXCEPT ![t] = again]
  /\ startId' = [startId EXCEPT ![t] = timerCounter]
  /\ timerCounter' = timerCounter + 1
  /\ HandleStart(t)
  /\ promised' = promised \cup {t}

TimerStart(t, delay, again) ==
  /\ Uses /\ t \notin closingSet
  /\ Scheduled(t, delay, again)
  /\ turn' = IF t \in active THEN turn ELSE TurnWithout(t)
  /\ UNCHANGED <<phase, mode, canSleep, running, timeVars, hookQueue, refd,
                 activeReqs, closeVars, stopFlag>>

\* Mutant: a timer that is not in the heap is left alone.
TimerStopsHeap(t) ==
  /\ HandleStop(t)
  /\ promised' = promised \ {t}
  /\ UNCHANGED turn

\* uv_timer_stop(): out of the heap, or out of the ready queue of uv__run_timers().
TimerStops(t) ==
  /\ HandleStop(t)
  /\ turn' = IF t \in active THEN turn ELSE TurnWithout(t)
  /\ promised' = promised \ {t}

TimerStop(t) ==
  /\ Uses
  /\ TimerStops(t)
  /\ UNCHANGED <<phase, mode, canSleep, running, timeVars, timerVars, hookQueue,
                 refd, activeReqs, closeVars, stopFlag>>

\* uv_timer_again(), of a timer that has been started before.
TimerAgain(t) ==
  /\ Uses /\ repeat[t] # 0
  /\ IF t \in closingSet
     THEN TimerStops(t) /\ UNCHANGED timerVars
     ELSE /\ Scheduled(t, repeat[t], repeat[t])
          /\ turn' = IF t \in active THEN turn ELSE TurnWithout(t)
  /\ UNCHANGED <<phase, mode, canSleep, running, timeVars, hookQueue, refd,
                 activeReqs, closeVars, stopFlag>>

-----------------------------------------------------------------------------
\* Idle, prepare and check handles.

KindOf(h) == IF h \in Idles THEN "idle" ELSE IF h \in Prepares THEN "prepare" ELSE "check"

HookStart(h) ==
  /\ Uses /\ h \notin active /\ h \notin closingSet
  /\ hookQueue' = [hookQueue EXCEPT ![KindOf(h)] = <<h>> \o @]
  /\ HandleStart(h)
  /\ UNCHANGED <<runVars, timeVars, timerVars, refd, activeReqs, closeVars, stopFlag,
                 promised>>

\* uv_##name##_stop(): from the list of the loop, or the one that is being run.
HookStops(h) ==
  /\ HandleStop(h)
  /\ IF h \in active
     THEN /\ hookQueue' = [hookQueue EXCEPT ![KindOf(h)] = Unlink(h, @)]
          /\ turn' = TurnWithout(h)
     ELSE UNCHANGED <<hookQueue, turn>>

HookStop(h) ==
  /\ Uses /\ h \in active
  /\ HookStops(h)
  /\ UNCHANGED <<phase, mode, canSleep, running, timeVars, timerVars, refd,
                 activeReqs, closeVars, stopFlag, promised>>

-----------------------------------------------------------------------------
\* uv_close(), uv_stop(), requests, and time that passes in a callback.

MakeClosePending(h) == closingHandles' = <<h>> \o closingHandles

CloseHandle(h) ==
  /\ Uses /\ h \notin closingSet
  /\ closingSet' = closingSet \cup {h}
  /\ IF h \in Timers THEN TimerStops(h) /\ UNCHANGED hookQueue
                     ELSE HookStops(h) /\ UNCHANGED promised
  /\ MakeClosePending(h)
  /\ UNCHANGED <<phase, mode, canSleep, running, timeVars, timerVars, refd,
                 activeReqs, closedSet, stopFlag>>

StopLoop ==
  /\ Uses /\ ~stopFlag
  /\ stopFlag' = TRUE
  /\ UNCHANGED <<runVars, timeVars, timerVars, hookQueue, countVars, activeReqs,
                 closeVars, promised>>

StartReq ==
  /\ Uses /\ activeReqs < MaxReqs
  /\ activeReqs' = activeReqs + 1
  /\ UNCHANGED <<runVars, timeVars, timerVars, hookQueue, countVars, closeVars,
                 stopFlag, promised>>

TimePasses ==
  /\ UserCode /\ clock < MaxClock
  /\ clock' = clock + 1
  /\ UNCHANGED <<runVars, now, timerVars, hookQueue, countVars, activeReqs, closeVars,
                 stopFlag, promised, uses>>

\* uv_update_time(), which users call too.
UpdateTime ==
  /\ Uses /\ now # clock
  /\ now' = clock
  /\ UNCHANGED <<runVars, clock, timerVars, hookQueue, countVars, activeReqs,
                 closeVars, stopFlag, promised>>

User == \/ \E h \in Handles : Ref(h) \/ Unref(h) \/ CloseHandle(h)
        \/ \E t \in Timers : \/ TimerStop(t) \/ TimerAgain(t)
                             \/ \E delay \in 0..MaxDelay, again \in 0..1 : TimerStart(t, delay, again)
        \/ \E h \in Hooks : HookStart(h) \/ HookStop(h)
        \/ StopLoop \/ StartReq \/ TimePasses \/ UpdateTime

-----------------------------------------------------------------------------
\* uv_run()

Quiescent == running = NoHandle

Alive == activeHandles > 0 \/ activeReqs > 0 \/ closingHandles # <<>>

\* Each of the timers once, the earlier ones first.
IsInOrder(q) == \A i, j \in DOMAIN q : i < j => Earlier(q[i], q[j])

\* uv__run_timers() takes the timers that are due out of the heap, in order.
TakesTimers ==
  LET due == {t \in active \cap Timers : timeout[t] <= now'} IN
  /\ turn' \in {q \in SetToSeqs(due) : IsInOrder(q)}
  /\ active' = active \ due
  /\ activeHandles' = activeHandles - Cardinality(due \cap refd)

\* uv_run() is called; by default the timers come first.
EntersRun ==
  /\ phase = "out"
  /\ mode' \in Modes
  /\ IF Alive /\ ~stopFlag
     THEN /\ phase' = "entered"
          /\ IF mode' = "default"
             THEN now' = clock /\ TakesTimers
             ELSE UNCHANGED <<now, turn, active, activeHandles>>
          /\ UNCHANGED stopFlag
     ELSE /\ now' = IF Alive THEN now ELSE clock
          /\ stopFlag' = FALSE
          /\ UNCHANGED <<phase, turn, active, activeHandles>>
  /\ UNCHANGED <<canSleep, running, clock, timerVars, hookQueue, refd, activeReqs,
                 closeVars, promised, uses>>

LeavesRun == phase' = "out" /\ stopFlag' = FALSE /\ UNCHANGED <<canSleep, turn, hookQueue>>

\* An iteration begins with the idle handles.
BeginsIteration ==
  /\ phase' = "idle"
  /\ canSleep' = (hookQueue["idle"] = <<>>)
  /\ turn' = hookQueue["idle"]
  /\ hookQueue' = [hookQueue EXCEPT !["idle"] = <<>>]
  /\ UNCHANGED stopFlag

\* At the end of the timers: whether there is another iteration.
Iterates ==
  /\ phase \in {"entered", "timers"} /\ Quiescent /\ turn = <<>>
  /\ IF stopFlag \/ (phase = "timers" /\ (~Alive \/ mode # "default"))
     THEN LeavesRun ELSE BeginsIteration
  /\ UNCHANGED <<mode, running, timeVars, timerVars, countVars, activeReqs, closeVars,
                 promised, uses>>

\* uv__run_idle(), uv__run_prepare(), uv__run_check()
RunsHook ==
  /\ phase \in {"idle", "prepare", "check"} /\ Quiescent /\ turn # <<>>
  /\ turn' = Tail(turn)
  /\ hookQueue' = [hookQueue EXCEPT ![phase] = Append(@, Head(turn))]
  /\ running' = Head(turn)
  /\ UNCHANGED <<phase, mode, canSleep, timeVars, timerVars, countVars, activeReqs,
                 closeVars, stopFlag, promised, uses>>

TurnsTo(next, kind) ==
  /\ phase' = next
  /\ turn' = hookQueue[kind]
  /\ hookQueue' = [hookQueue EXCEPT ![kind] = <<>>]

EndsHooks ==
  /\ Quiescent /\ turn = <<>>
  /\ \/ phase = "idle" /\ TurnsTo("prepare", "prepare") /\ UNCHANGED closeVars
     \/ phase = "prepare" /\ phase' = "poll" /\ UNCHANGED <<turn, hookQueue, closeVars>>
     \/ phase = "polled" /\ TurnsTo("check", "check") /\ UNCHANGED closeVars
     \/ /\ phase = "check" /\ phase' = "closing"
        /\ turn' = closingHandles /\ closingHandles' = <<>>
        /\ UNCHANGED <<hookQueue, closingSet, closedSet>>
  /\ UNCHANGED <<mode, canSleep, running, timeVars, timerVars, countVars, activeReqs,
                 stopFlag, promised, uses>>

\* Mutant: a handle that waits for its close callback does not end the sleep.
SleepsOverClose ==
  /\ mode = "default" \/ (mode = "once" /\ canSleep)
  /\ ~stopFlag /\ (activeHandles > 0 \/ activeReqs > 0)
  /\ hookQueue["idle"] = <<>>

\* uv__backend_timeout() is not 0.
Sleeps ==
  /\ mode = "default" \/ (mode = "once" /\ canSleep)
  /\ ~stopFlag /\ (activeHandles > 0 \/ activeReqs > 0)
  /\ hookQueue["idle"] = <<>> /\ closingHandles = <<>>

\* The poll wakes up no earlier than it was asked to, and perhaps later.
PollEnds ==
  /\ phase = "poll"
  /\ Sleeps => active \cap Timers # {}
  /\ \E late \in 0..1 :
       clock' = late + IF Sleeps /\ timeout[NextTimer] > clock THEN timeout[NextTimer]
                                                              ELSE clock
  /\ clock' <= MaxClock /\ now' = clock'
  /\ phase' = "polled"
  /\ UNCHANGED <<mode, canSleep, turn, running, timerVars, hookQueue, countVars,
                 activeReqs, closeVars, stopFlag, promised, uses>>

\* A request ends while the loop sleeps, or has ended before.
PollReturnsReq ==
  /\ phase = "poll" /\ activeReqs > 0
  /\ clock' \in clock..(IF Sleeps THEN MaxClock ELSE clock) /\ now' = clock'
  /\ activeReqs' = activeReqs - 1
  /\ phase' = "polled" /\ running' = Io
  /\ UNCHANGED <<mode, canSleep, turn, timerVars, hookQueue, countVars, closeVars,
                 stopFlag, promised, uses>>

\* uv__finish_close(): the close callback of the next handle.
FinishesClose ==
  /\ phase = "closing" /\ Quiescent /\ turn # <<>>
  /\ turn' = Tail(turn) /\ running' = Head(turn)
  /\ closedSet' = closedSet \cup {Head(turn)}
  /\ refd' = refd \ {Head(turn)}
  /\ UNCHANGED <<phase, mode, canSleep, timeVars, timerVars, hookQueue, active,
                 activeHandles, activeReqs, closingHandles, closingSet, stopFlag,
                 promised, uses>>

EndsClosing ==
  /\ phase = "closing" /\ Quiescent /\ turn = <<>>
  /\ phase' = "timers"
  /\ now' = clock /\ TakesTimers
  /\ UNCHANGED <<mode, canSleep, running, clock, timerVars, hookQueue, refd,
                 activeReqs, closeVars, stopFlag, promised, uses>>

\* A timer that repeats is started again before its callback runs.
RunsTimer ==
  /\ phase \in {"entered", "timers"} /\ Quiescent /\ turn # <<>>
  /\ LET t == Head(turn) IN
       /\ running' = t
       /\ IF repeat[t] # 0
          THEN Scheduled(t, repeat[t], repeat[t])
          ELSE promised' = promised \ {t} /\ UNCHANGED <<timerVars, active, activeHandles>>
  /\ turn' = Tail(turn)
  /\ UNCHANGED <<phase, mode, canSleep, timeVars, hookQueue, refd, activeReqs,
                 closeVars, stopFlag, uses>>

CallbackReturns ==
  /\ running # NoHandle
  /\ running' = NoHandle
  /\ UNCHANGED <<phase, mode, canSleep, turn, timeVars, timerVars, hookQueue, countVars,
                 activeReqs, closeVars, stopFlag, promised, uses>>

RunStep == \/ Iterates \/ RunsHook \/ EndsHooks \/ PollEnds \/ FinishesClose
           \/ EndsClosing \/ RunsTimer \/ CallbackReturns

LoopNext == RunStep \/ PollReturnsReq \/ EntersRun \/ User

LoopSpec == LoopInit /\ [][LoopNext]_loopVarsAll

-----------------------------------------------------------------------------
\* Properties.

\* loop->active_handles is the number of active handles that keep the loop alive.
ActiveCount == activeHandles = Cardinality(active \cap refd)

\* A queue that is being run holds what is to be called and nothing else: timers
\* that nobody has stopped, started again or closed since, in the order of their
\* times and, where these are equal, of their starts; or active handles.
TurnIsDue ==
  /\ promised = (active \cap Timers) \cup ((ToSet(turn) \cap Timers) \ closingSet)
  /\ phase \in {"entered", "timers"} => IsInOrder(turn)
  /\ phase \in {"idle", "prepare", "check"} => ToSet(turn) \subseteq active

\* A handle that is being closed is called once more, for its close callback, and
\* not from within uv_close().
ClosedIsCalledOnce ==
  [][\A h \in closingSet : running' = h /\ running # h =>
       phase = "closing" /\ h \notin closedSet]_loopVarsAll

\* uv_run() by default ends for want of handles and requests, or because of
\* uv_stop(): nothing that keeps the loop alive is left behind.
NothingIsLeftBehind ==
  [][phase = "timers" /\ phase' = "out" /\ mode = "default" /\ ~stopFlag =>
       active \cap refd = {} /\ activeReqs = 0 /\ closingSet = closedSet]_loopVarsAll

\* While uv_run() goes on, a close callback has yet to come, or that of a timer.
CloseIsOwed == phase # "out" /\ closingSet # closedSet
TimerIsOwed == phase # "out" /\ \E t \in promised : timeout[t] <= MaxClock
=============================================================================
