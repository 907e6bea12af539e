---------------------------- MODULE MiningSession ----------------------------
(***************************************************************************)
(* The Android mining session: who may start, pause, resume and stop the   *)
(* miner, and how those requests interleave with WorkManager.              *)
(*                                                                         *)
(*   MiningSessionLatch   stopRev, armedRev, automation, paused            *)
(*   WorkManager (ext.)   the three unique-work slots miningWork,          *)
(*                        monitorWork and resumeWork                       *)
(*   MiningController     the start, stop, pause, resume and relaunch      *)
(*                        procedures, one program counter per running call *)
(*   MiningWorker         workerPc, and miners (the XMRig processes)       *)
(*   MonitorWorker        process Mon(i); PolicyResumeWorker: Res(i)       *)
(*                                                                         *)
(* A process is a caller (UI, Wear, tile, dream ...), or the running       *)
(* instance of a monitor or of a policy-resume work.  The code a process   *)
(* runs between two suspension points, or between two calls that another   *)
(* thread can see, is one action.  cancelUniqueWork takes effect on the    *)
(* slot at once and on the running instance later: an instance whose id is *)
(* no longer in its slot is cancelled, and ends where the code suspends.   *)
(***************************************************************************)
EXTENDS Naturals, FiniteSets

CONSTANTS
  Callers,      \* concurrent entry points into the controller
  WorkIds,      \* work ids in use at once (ids of finished works are reused)
  NoWork,       \* what an empty slot holds
  Survivor,     \* in miners: a process that outlived the app that spawned it
  MaxPolls,     \* PolicyResumeWorker.MAX_POLLS
  MaxCalls,     \* bound: requests from outside
  MaxStops,     \* bound: user Stops among them
  MaxChanges,   \* bound: changes of the device's health
  MaxCrashes,   \* bound: deaths of the app process
  Requests,     \* bound: the kinds of request that are made
  Conditions    \* bound: the health the device is in, and may change to

StartOps == {"start", "remote", "dream"}   \* app UI; Wear; charging screensaver
StopOps  == {"stop", "quickStop"}          \* MiningController.stop; quick command
Health == {"good", "warm", "hot", "unpowered", "capped"}
RequestKinds == StartOps \cup StopOps \cup {"quickPause", "automation"}

ASSUME BoundsAssumption ==
  /\ MaxPolls \in Nat \ {0}
  /\ {MaxCalls, MaxStops, MaxChanges, MaxCrashes} \subseteq Nat
ASSUME RequestsAssumption == Requests \subseteq RequestKinds
ASSUME HealthAssumption == Conditions \subseteq Health
ASSUME NamesAssumption == NoWork \notin WorkIds /\ Survivor \notin WorkIds

Slot == WorkIds \cup {NoWork}

Mon(i) == <<"monitor", i>>
Res(i) == <<"resume", i>>
Monitors == {Mon(i) : i \in WorkIds}
Resumes  == {Res(i) : i \in WorkIds}
Procs    == Callers \cup Monitors \cup Resumes

Ops      == StartOps \cup StopOps \cup {"quickPause", "pause", "swap", "resume", "none"}
\* Operations that end by enqueueing a new session.
SessionOps == StartOps \cup {"resume"}

PCs == {"idle", "check", "gates", "armed", "latch", "cancelResume",
        "cancelMining", "cancelMonitor", "kill", "enqueueMining",
        "enqueueMonitor", "finish", "schedule",
        "watch", "throttle", "restore", "verify", "poll", "decide"}

WorkerPCs == {"idle", "launch", "mine"}

VARIABLES
  stopRev, armedRev,   \* MiningSessionLatch.userStopRev, sessionArmedRev (persisted)
  automation,          \* MiningSessionLatch.automationArmed (persisted)
  paused,              \* MiningSessionLatch.policyPaused
  sessGen,             \* MiningController.sessionGeneration, named by the id of the
                       \* session's first work; NoWork before the first one
  miningWork, monitorWork, resumeWork,   \* the id each unique-work slot holds
  revOf,               \* PolicyResumeWorker.KEY_STOP_REVISION of a scheduled resume
  pc, op,              \* where each process is, and which operation it runs
  workOf,              \* the session id a process is enqueueing
  polls,               \* PolicyResumeWorker's repeat counter
  soft, marks,         \* MonitorWorker.thermalState.phase = SOFT_THROTTLE; what it
                       \* remembers of its relaunches: "applied" (lastAppliedSoft-
                       \* Threads # null), "pending" (softThrottlePendingSinceMs # 0)
  workerPc, miners,    \* MiningWorker instances and live XMRig processes
  health,              \* what the device's sensors and budgets would say now
  calls, changes, crashes,   \* counters of the bounds
  quiet                \* history: the last Stop found nothing on its way to mining,
                       \* and nobody has pressed Start since

latch  == <<stopRev, armedRev, automation, paused>>
slots  == <<miningWork, monitorWork, resumeWork>>
engine == <<workerPc, miners>>
procs  == <<pc, op, workOf, polls, revOf, soft, marks>>
bounds == <<calls, changes, crashes>>
vars   == <<latch, sessGen, slots, engine, procs, health, bounds, quiet>>

UserStopped == stopRev > armedRev

\* The latch never arms past its Stops.
LatchOK ==
  /\ stopRev \in Nat /\ armedRev \in Nat /\ armedRev <= stopRev
  /\ automation \in BOOLEAN /\ paused \in BOOLEAN
SlotsOK ==
  /\ sessGen \in Slot
  /\ miningWork \in Slot /\ monitorWork \in Slot /\ resumeWork \in Slot
ProcsOK ==
  /\ pc \in [Procs -> PCs] /\ op \in [Procs -> Ops] /\ workOf \in [Procs -> Slot]
WorksOK ==
  /\ revOf \in [WorkIds -> Nat] /\ polls \in [WorkIds -> Nat]
  /\ soft \in [WorkIds -> BOOLEAN]
  /\ marks \in [WorkIds -> SUBSET {"applied", "pending"}]
EngineOK ==
  /\ workerPc \in [WorkIds -> WorkerPCs] /\ miners \subseteq WorkIds \cup {Survivor}
WorldOK ==
  /\ health \in Health /\ quiet \in BOOLEAN
  /\ calls \in Nat /\ changes \in Nat /\ crashes \in Nat
TypeOK == LatchOK /\ SlotsOK /\ ProcsOK /\ WorksOK /\ EngineOK /\ WorldOK

Init ==
  /\ stopRev = 0 /\ armedRev = 0 /\ automation = FALSE /\ paused = FALSE
  /\ sessGen = NoWork
  /\ miningWork = NoWork /\ monitorWork = NoWork /\ resumeWork = NoWork
  /\ revOf = [i \in WorkIds |-> 0]
  /\ pc = [p \in Procs |-> "idle"] /\ op = [p \in Procs |-> "none"]
  /\ workOf = [p \in Procs |-> NoWork]
  /\ polls = [i \in WorkIds |-> 0]
  /\ soft = [i \in WorkIds |-> FALSE] /\ marks = [i \in WorkIds |-> {}]
  /\ workerPc = [i \in WorkIds |-> "idle"] /\ miners = {}
  /\ health \in Conditions
  /\ calls = 0 /\ changes = 0 /\ crashes = 0
  /\ quiet = FALSE

-----------------------------------------------------------------------------
Goto(p, l) == pc' = [pc EXCEPT ![p] = l]

\* The call or the worker instance is over, and forgets what it was doing.
Return(p) ==
  /\ Goto(p, "idle")
  /\ op' = [op EXCEPT ![p] = "none"]
  /\ workOf' = [workOf EXCEPT ![p] = NoWork]

\* Process p is past its last look at the latch and will enqueue mining.
OnItsWay(p) ==
  \/ /\ op[p] \in SessionOps
     /\ pc[p] \in {"gates", "armed", "cancelMining", "cancelMonitor", "kill",
                   "enqueueMining", "enqueueMonitor"}
  \/ /\ op[p] = "swap"
     /\ pc[p] \in {"restore", "cancelMining", "kill", "enqueueMining"}
Risky == \E p \in Procs : OnItsWay(p)

-----------------------------------------------------------------------------
(* Requests from outside. *)

\* A Start is pressed in the app ("start") or on the watch ("remote"); the
\* charging screensaver asks for one ("dream"), and has to read the latch first.
RequestStart(c, o) ==
  /\ pc[c] = "idle" /\ calls < MaxCalls
  /\ calls' = calls + 1
  /\ op' = [op EXCEPT ![c] = o]
  /\ IF o = "dream" THEN Goto(c, "check") /\ UNCHANGED quiet
                    ELSE Goto(c, "gates") /\ quiet' = FALSE
  /\ UNCHANGED <<latch, sessGen, slots, engine, workOf, polls, revOf, soft,
                 marks, health, changes, crashes>>

\* MiningDreamService.applyDecisionAsync: the Stop latch vetoes the request.
DreamCheck(c) ==
  /\ pc[c] = "check"
  /\ IF UserStopped THEN Return(c) ELSE Goto(c, "gates") /\ UNCHANGED <<op, workOf>>
  /\ UNCHANGED <<latch, sessGen, slots, engine, polls, revOf, soft, marks,
                 health, bounds, quiet>>

\* A Stop latches UserStopped before it touches the engine.  Only
\* MiningController.stop also cancels the policy resume.
LatchStop(c, o) ==
  /\ pc[c] = "idle" /\ calls < MaxCalls /\ stopRev < MaxStops
  /\ calls' = calls + 1
  /\ op' = [op EXCEPT ![c] = o]
  /\ stopRev' = stopRev + 1
  /\ paused' = FALSE
  /\ quiet' = ~Risky
  /\ Goto(c, IF o = "stop" THEN "cancelResume" ELSE "cancelMining")
  /\ UNCHANGED <<armedRev, automation, sessGen, slots, engine, workOf, polls,
                 revOf, soft, marks, health, changes, crashes>>

\* The quick command pause_for, which is refused while a Stop is latched.
QuickPause(c) ==
  /\ pc[c] = "idle" /\ calls < MaxCalls /\ ~UserStopped
  /\ calls' = calls + 1
  /\ op' = [op EXCEPT ![c] = "quickPause"]
  /\ paused' = TRUE
  /\ Goto(c, "cancelMining")
  /\ UNCHANGED <<stopRev, armedRev, automation, sessGen, slots, engine, workOf,
                 polls, revOf, soft, marks, health, changes, crashes, quiet>>

\* The quick commands enable_automation and disable_automation.
SetAutomation(c) ==
  /\ pc[c] = "idle" /\ calls < MaxCalls
  /\ calls' = calls + 1
  /\ automation' = ~automation
  /\ UNCHANGED <<stopRev, armedRev, paused, sessGen, slots, engine, procs,
                 health, changes, crashes, quiet>>

-----------------------------------------------------------------------------
(* MiningController: start and resumeAfterPolicy. *)

\* A start whose configuration is invalid or whose gates are shut returns with
\* the latch as it was.
RejectStart(c) ==
  /\ pc[c] = "gates" /\ op[c] \in StartOps
  /\ Return(c)
  /\ UNCHANGED <<latch, sessGen, slots, engine, polls, revOf, soft, marks,
                 health, bounds, quiet>>

\* The caller's coroutine scope is cancelled while start() is suspended: at the
\* configuration read, or on entry to or exit from withContext in stopEngine.
AbandonStart(c) ==
  /\ op[c] \in StartOps
  /\ pc[c] \in {"check", "gates", "cancelMining", "enqueueMining"}
  /\ Return(c)
  /\ UNCHANGED <<latch, sessGen, slots, engine, polls, revOf, soft, marks,
                 health, bounds, quiet>>

\* Mutant: arming runs ahead of the Stops.
ArmSessionAhead == armedRev' = stopRev + 1 /\ paused' = FALSE

\* MiningSessionLatch.armSession
ArmSession == armedRev' = stopRev /\ paused' = FALSE

\* evaluatePowerGate and evaluateEnergyBudgetGate; evaluateMemoryGate is taken to
\* pass, and heat is no gate.
PowerGate  == health # "unpowered"
BudgetGate == health # "capped"

\* start evaluates all gates afresh, and arms once they let it pass.
StartGates(c) ==
  /\ pc[c] = "gates" /\ op[c] \in StartOps
  /\ PowerGate /\ BudgetGate
  /\ ArmSession
  /\ Goto(c, "armed")
  /\ UNCHANGED <<stopRev, automation, sessGen, slots, engine, op, workOf, polls,
                 revOf, soft, marks, health, bounds, quiet>>

\* The work is finished, and its input data and loop counter go with it.
EndResume(i) ==
  /\ Return(Res(i))
  /\ resumeWork' = IF resumeWork = i THEN NoWork ELSE resumeWork
  /\ polls' = [polls EXCEPT ![i] = 0] /\ revOf' = [revOf EXCEPT ![i] = 0]

\* The repeat loop of PolicyResumeWorker: delay and poll again, or time out.
NextPoll(i) ==
  IF polls[i] + 1 < MaxPolls
  THEN /\ Goto(Res(i), "poll")
       /\ polls' = [polls EXCEPT ![i] = @ + 1]
       /\ UNCHANGED <<op, workOf, revOf, resumeWork>>
  ELSE EndResume(i)

\* onValidatedStartReady returns whether the latch is open after arming.  A Stop
\* that came in between makes start return and the resume wait for its next poll;
\* otherwise start cancels the policy resume.
StartArmed(c) ==
  /\ pc[c] = "armed" /\ op[c] \in StartOps
  /\ IF UserStopped
     THEN Return(c) /\ UNCHANGED resumeWork
     ELSE Goto(c, "cancelMining") /\ resumeWork' = NoWork /\ UNCHANGED <<op, workOf>>
  /\ UNCHANGED <<latch, sessGen, miningWork, monitorWork, engine, polls, revOf,
                 soft, marks, health, bounds, quiet>>

ResumeArmed(i) ==
  /\ pc[Res(i)] = "armed"
  /\ IF UserStopped THEN NextPoll(i)
     ELSE Goto(Res(i), "cancelMining")
          /\ UNCHANGED <<op, workOf, polls, revOf, resumeWork>>
  /\ UNCHANGED <<latch, sessGen, miningWork, monitorWork, engine, soft, marks,
                 health, bounds, quiet>>

\* MiningController.stop cancels the policy resume too.
CancelResume(c) ==
  /\ pc[c] = "cancelResume"
  /\ resumeWork' = NoWork
  /\ Goto(c, "cancelMining")
  /\ UNCHANGED <<latch, sessGen, miningWork, monitorWork, engine, op, workOf,
                 polls, revOf, soft, marks, health, bounds, quiet>>

(* cancelEngine, which start, stop, pauseForPolicy and the quick commands    *)
(* share; relaunchMiningWorkerOnly ("swap") leaves the monitor out.          *)
CancelMining(p) ==
  /\ pc[p] = "cancelMining"
  /\ miningWork' = NoWork
  /\ Goto(p, IF op[p] = "swap" THEN "kill" ELSE "cancelMonitor")
  /\ UNCHANGED <<latch, sessGen, monitorWork, resumeWork, engine, op, workOf,
                 polls, revOf, soft, marks, health, bounds, quiet>>

CancelMonitor(p) ==
  /\ pc[p] = "cancelMonitor"
  /\ monitorWork' = NoWork
  /\ Goto(p, "kill")
  /\ UNCHANGED <<latch, sessGen, miningWork, resumeWork, engine, op, workOf,
                 polls, revOf, soft, marks, health, bounds, quiet>>

\* XmrigProcessController.killLeftoverMiners, and what the operation does next.
KillMiners(p) ==
  /\ pc[p] = "kill"
  /\ miners' = {}
  /\ \/ op[p] \in SessionOps \cup {"swap"} /\ Goto(p, "enqueueMining")
        /\ UNCHANGED <<op, workOf>>
     \/ op[p] = "pause" /\ Goto(p, "schedule") /\ UNCHANGED <<op, workOf>>
     \/ op[p] \in StopOps \cup {"quickPause"} /\ Return(p)
  /\ UNCHANGED <<latch, sessGen, slots, workerPc, polls, revOf, soft, marks,
                 health, bounds, quiet>>

\* A work id no slot, instance or enqueueing process refers to.
Free(i) ==
  /\ i \notin {miningWork, monitorWork, resumeWork}
  /\ workerPc[i] = "idle" /\ pc[Mon(i)] = "idle" /\ pc[Res(i)] = "idle"
  /\ \A p \in Procs : workOf[p] # i

\* A new session takes a new generation; a throttle relaunch keeps it.
EnqueueMining(p) ==
  /\ pc[p] = "enqueueMining"
  /\ \E i \in WorkIds :
       /\ Free(i)
       /\ miningWork' = i
       /\ IF op[p] = "swap"
          THEN Goto(p, "verify") /\ UNCHANGED <<sessGen, workOf>>
          ELSE /\ Goto(p, "enqueueMonitor")
               /\ sessGen' = i
               /\ workOf' = [workOf EXCEPT ![p] = i]
  /\ UNCHANGED <<latch, monitorWork, resumeWork, engine, op, polls, revOf, soft,
                 marks, health, bounds, quiet>>

\* The monitor is enqueued by a second, separate WorkManager call.
EnqueueMonitor(p) ==
  /\ pc[p] = "enqueueMonitor"
  /\ monitorWork' = workOf[p]
  /\ IF op[p] = "remote" THEN Return(p)
                         ELSE Goto(p, "finish") /\ UNCHANGED <<op, workOf>>
  /\ UNCHANGED <<latch, sessGen, miningWork, resumeWork, engine, polls, revOf,
                 soft, marks, health, bounds, quiet>>

\* Only the app and the screensaver arm automation once start() said Started.
FinishStart(c) ==
  /\ pc[c] = "finish" /\ op[c] \in StartOps
  /\ automation' = TRUE
  /\ Return(c)
  /\ UNCHANGED <<stopRev, armedRev, paused, sessGen, slots, engine, polls, revOf,
                 soft, marks, health, bounds, quiet>>

-----------------------------------------------------------------------------
(* PolicyResumeWorker: the instance Res(i), scheduled by the monitor Mon(i). *)

BeginResume(i) ==
  LET p == Res(i) IN
  /\ resumeWork = i /\ pc[p] = "idle"
  /\ Goto(p, "poll")
  /\ op' = [op EXCEPT ![p] = "resume"]
  /\ UNCHANGED <<latch, sessGen, slots, engine, workOf, polls, revOf, soft,
                 marks, health, bounds, quiet>>

\* Mutant: a Stop that came before the pause ends the resume too.
PollAbortEager(i) ==
  /\ pc[Res(i)] = "poll" /\ (UserStopped \/ stopRev >= revOf[i])
  /\ paused' = FALSE
  /\ EndResume(i)
  /\ UNCHANGED <<stopRev, armedRev, automation, sessGen, miningWork, monitorWork,
                 engine, soft, marks, health, bounds, quiet>>

\* A Stop, present or since the pause, ends the resume and the pause window.
PollAbort(i) ==
  LET p == Res(i) IN
  /\ pc[p] = "poll" /\ (UserStopped \/ stopRev > revOf[i])
  /\ paused' = FALSE
  /\ EndResume(i)
  /\ UNCHANGED <<stopRev, armedRev, automation, sessGen, miningWork, monitorWork,
                 engine, soft, marks, health, bounds, quiet>>

PollContinue(i) ==
  LET p == Res(i) IN
  /\ pc[p] = "poll" /\ ~UserStopped /\ stopRev <= revOf[i]
  /\ Goto(p, "decide")
  /\ UNCHANGED <<latch, sessGen, slots, engine, op, workOf, polls, revOf, soft,
                 marks, health, bounds, quiet>>

\* Mutant: the latch is not read again after the configuration read.
DecideUnlatched(i) ==
  LET p == Res(i) IN
  /\ pc[p] = "decide"
  /\ IF PowerGate /\ automation
     THEN Goto(p, "gates") /\ UNCHANGED <<op, workOf, polls, revOf, resumeWork>>
     ELSE NextPoll(i)
  /\ UNCHANGED <<latch, sessGen, miningWork, monitorWork, engine, soft, marks,
                 health, bounds, quiet>>

\* After the configuration read: the power verdict, the automation flag and the
\* latch (twice) are read in one go; resumeAfterPolicy then suspends.
Decide(i) ==
  LET p == Res(i) IN
  /\ pc[p] = "decide"
  /\ IF PowerGate /\ automation /\ ~UserStopped
     THEN Goto(p, "gates") /\ UNCHANGED <<op, workOf, polls, revOf, resumeWork>>
     ELSE NextPoll(i)
  /\ UNCHANGED <<latch, sessGen, miningWork, monitorWork, engine, soft, marks,
                 health, bounds, quiet>>

\* resumeAfterPolicy judges power by the observation of the poll; the memory and
\* energy gates are evaluated now.  The latch is not read again before arming.
ResumeGates(i) ==
  LET p == Res(i) IN
  /\ pc[p] = "gates"
  /\ IF BudgetGate
     THEN /\ ArmSession /\ Goto(p, "armed")
          /\ UNCHANGED <<op, workOf, polls, revOf, resumeWork>>
     ELSE NextPoll(i) /\ UNCHANGED <<armedRev, paused>>
  /\ UNCHANGED <<stopRev, automation, sessGen, miningWork, monitorWork, engine,
                 soft, marks, health, bounds, quiet>>

FinishResume(i) ==
  LET p == Res(i) IN
  /\ pc[p] = "finish"
  /\ paused' = FALSE
  /\ EndResume(i)
  /\ UNCHANGED <<stopRev, armedRev, automation, sessGen, miningWork, monitorWork,
                 engine, soft, marks, health, bounds, quiet>>

\* A cancelled instance ends where it suspends.
ResumeCancelled(i) ==
  LET p == Res(i) IN
  /\ resumeWork # i
  /\ pc[p] \in {"poll", "decide", "gates", "cancelMining", "enqueueMining"}
  /\ EndResume(i)
  /\ UNCHANGED <<latch, sessGen, miningWork, monitorWork, engine, soft, marks,
                 health, bounds, quiet>>

-----------------------------------------------------------------------------
(* MonitorWorker: the instance Mon(i), launched with the session i. *)

\* The instance's fields die with it.
EndMonitor(i) ==
  /\ Return(Mon(i))
  /\ soft' = [soft EXCEPT ![i] = FALSE] /\ marks' = [marks EXCEPT ![i] = {}]

BeginMonitor(i) ==
  LET p == Mon(i) IN
  /\ monitorWork = i /\ pc[p] = "idle"
  /\ Goto(p, "watch")
  /\ UNCHANGED <<latch, sessGen, slots, engine, op, workOf, polls, revOf, soft,
                 marks, health, bounds, quiet>>

\* Mutant: the monitor looks at the sensors only.
MustPauseSensors == health \in {"hot", "unpowered", "capped"}

MustPause == UserStopped \/ health \in {"hot", "unpowered", "capped"}

\* checkCriticalConditions decides to pause: a latched Stop, heat, power, budget.
TickPause(i) ==
  LET p == Mon(i) IN
  /\ pc[p] = "watch" /\ MustPause
  /\ Goto(p, "latch")
  /\ op' = [op EXCEPT ![p] = "pause"]
  /\ UNCHANGED <<latch, sessGen, slots, engine, workOf, polls, revOf, soft,
                 marks, health, bounds, quiet>>

\* The thermal phase becomes SOFT_THROTTLE.  Unless another session has started
\* since, or the throttle is applied already, the engine is to be relaunched.
TickThrottle(i) ==
  LET p == Mon(i) IN
  /\ pc[p] = "watch" /\ ~MustPause /\ health = "warm" /\ ~soft[i]
  /\ soft' = [soft EXCEPT ![i] = TRUE]
  /\ IF sessGen = i /\ "applied" \notin marks[i]
     THEN Goto(p, "throttle") /\ op' = [op EXCEPT ![p] = "swap"]
     ELSE UNCHANGED <<pc, op>>
  /\ UNCHANGED <<latch, sessGen, slots, engine, workOf, polls, revOf, marks,
                 health, bounds, quiet>>

\* The thermal phase returns to ALLOWED and the full thread count to the engine.
TickRestore(i) ==
  LET p == Mon(i) IN
  /\ pc[p] = "watch" /\ ~MustPause /\ health = "good" /\ soft[i]
  /\ soft' = [soft EXCEPT ![i] = FALSE]
  /\ IF sessGen = i /\ "applied" \in marks[i]
     THEN Goto(p, "restore") /\ op' = [op EXCEPT ![p] = "swap"]
     ELSE UNCHANGED <<pc, op>>
  /\ UNCHANGED <<latch, sessGen, slots, engine, workOf, polls, revOf, marks,
                 health, bounds, quiet>>

\* Mutant: the throttle relaunch does not read the latch.
RequestOverrideUnlatched(i) ==
  LET p == Mon(i) IN
  /\ pc[p] = "throttle"
  /\ Goto(p, "cancelMining")
  /\ UNCHANGED <<latch, sessGen, slots, engine, op, workOf, polls, revOf, soft,
                 marks, health, bounds, quiet>>

\* requestRuntimeThreadOverride reads the latch; a refusal makes the tick pause.
RequestOverride(i) ==
  LET p == Mon(i) IN
  /\ pc[p] = "throttle"
  /\ IF UserStopped \/ sessGen = NoWork
     THEN /\ Goto(p, "latch") /\ op' = [op EXCEPT ![p] = "pause"]
          /\ marks' = [marks EXCEPT ![i] = @ \ {"pending"}]
     ELSE Goto(p, "cancelMining") /\ UNCHANGED <<op, marks>>
  /\ UNCHANGED <<latch, sessGen, slots, engine, workOf, polls, revOf, soft,
                 health, bounds, quiet>>

\* requestClearRuntimeThreadOverride does not read the latch.
RequestRestore(i) ==
  LET p == Mon(i) IN
  /\ pc[p] = "restore"
  /\ Goto(p, "cancelMining")
  /\ UNCHANGED <<latch, sessGen, slots, engine, op, workOf, polls, revOf, soft,
                 marks, health, bounds, quiet>>

\* verifyRuntimeThreadOverride: the relaunch counts once a mining work is active
\* with the requested thread count, which a concurrent Start may have changed.  A
\* relaunch not verified stays pending; the next one to fail may find that more
\* than 15 s have passed since, and pauses.
VerifyOverride(i) ==
  LET p == Mon(i) IN
  /\ pc[p] = "verify"
  /\ \/ /\ miningWork # NoWork
        /\ marks' = [marks EXCEPT ![i] = IF soft[i] THEN {"applied"} ELSE {}]
        /\ Goto(p, "watch") /\ op' = [op EXCEPT ![p] = "none"]
     \/ /\ marks' = [marks EXCEPT ![i] = @ \cup {"pending"}]
        /\ Goto(p, "watch") /\ op' = [op EXCEPT ![p] = "none"]
     \/ /\ "pending" \in marks[i]
        /\ marks' = [marks EXCEPT ![i] = @ \ {"pending"}]
        /\ Goto(p, "latch") /\ op' = [op EXCEPT ![p] = "pause"]
  /\ UNCHANGED <<latch, sessGen, slots, engine, workOf, polls, revOf, soft,
                 health, bounds, quiet>>

\* pauseForPolicy: latch the pause, cancel the engine, schedule the resume.  Once
\* entered it runs to its end although it cancels its own worker.
LatchPause(i) ==
  LET p == Mon(i) IN
  /\ pc[p] = "latch"
  /\ paused' = TRUE
  /\ Goto(p, "cancelMining")
  /\ UNCHANGED <<stopRev, armedRev, automation, sessGen, slots, engine, op,
                 workOf, polls, revOf, soft, marks, health, bounds, quiet>>

ScheduleResume(i) ==
  LET p == Mon(i) IN
  /\ pc[p] = "schedule"
  /\ resumeWork' = i
  /\ revOf' = [revOf EXCEPT ![i] = stopRev]
  /\ EndMonitor(i)
  /\ UNCHANGED <<latch, sessGen, miningWork, monitorWork, engine, polls, health,
                 bounds, quiet>>

MonitorCancelled(i) ==
  LET p == Mon(i) IN
  /\ monitorWork # i
  /\ \/ pc[p] \in {"watch", "throttle", "restore", "verify", "latch"}
     \/ pc[p] = "cancelMining" /\ op[p] = "swap"
  /\ EndMonitor(i)
  /\ UNCHANGED <<latch, sessGen, slots, engine, polls, revOf, health, bounds, quiet>>

-----------------------------------------------------------------------------
(* MiningWorker: the instance of the mining work i, and its XMRig process.   *)

Cancelled(i) == miningWork # i

\* setForeground has returned: nothing until the spawn looks at isStopped again.
BeginWorker(i) ==
  /\ miningWork = i /\ workerPc[i] = "idle"
  /\ workerPc' = [workerPc EXCEPT ![i] = "launch"]
  /\ UNCHANGED <<latch, sessGen, slots, procs, miners, health, bounds, quiet>>

Spawn(i) ==
  /\ workerPc[i] = "launch"
  /\ workerPc' = [workerPc EXCEPT ![i] = "mine"]
  /\ miners' = miners \cup {i}
  /\ UNCHANGED <<latch, sessGen, slots, procs, health, bounds, quiet>>

\* The launch throws: a transient error leaves the work to be retried, any other
\* one finishes it.
LaunchFails(i) ==
  /\ workerPc[i] = "launch"
  /\ workerPc' = [workerPc EXCEPT ![i] = "idle"]
  /\ \/ UNCHANGED miningWork
     \/ miningWork = i /\ miningWork' = NoWork
  /\ UNCHANGED <<latch, sessGen, monitorWork, resumeWork, procs, miners, health,
                 bounds, quiet>>

\* Mutant: the mining loop watches the process only.
EndWorkerDeaf(i) ==
  /\ workerPc[i] = "mine" /\ i \notin miners
  /\ workerPc' = [workerPc EXCEPT ![i] = "idle"]
  /\ miners' = miners \ {i}
  /\ miningWork' = IF Cancelled(i) THEN miningWork ELSE NoWork
  /\ UNCHANGED <<latch, sessGen, monitorWork, resumeWork, procs, health, bounds,
                 quiet>>

\* The mining loop ends when the work is cancelled or its process is gone; the
\* finally block stops the process, and the work is finished.
EndWorker(i) ==
  /\ workerPc[i] = "mine" /\ (Cancelled(i) \/ i \notin miners)
  /\ workerPc' = [workerPc EXCEPT ![i] = "idle"]
  /\ miners' = miners \ {i}
  /\ miningWork' = IF Cancelled(i) THEN miningWork ELSE NoWork
  /\ UNCHANGED <<latch, sessGen, monitorWork, resumeWork, procs, health, bounds,
                 quiet>>

\* XMRig exits by itself.
MinerExits(i) ==
  /\ i \in miners /\ miners' = miners \ {i}
  /\ UNCHANGED <<latch, sessGen, slots, workerPc, procs, health, bounds, quiet>>

-----------------------------------------------------------------------------
(* The environment. *)

HealthChanges ==
  /\ changes < MaxChanges /\ changes' = changes + 1
  /\ health' \in Conditions \ {health}
  /\ UNCHANGED <<latch, sessGen, slots, engine, procs, calls, crashes, quiet>>

\* Mutant: the Stop is not persisted.
CrashForgets ==
  /\ crashes < MaxCrashes /\ crashes' = crashes + 1
  /\ stopRev' = 0 /\ armedRev' = 0 /\ automation' = FALSE /\ paused' = FALSE
  /\ sessGen' = NoWork
  /\ pc' = [p \in Procs |-> "idle"] /\ op' = [p \in Procs |-> "none"]
  /\ workOf' = [p \in Procs |-> NoWork]
  /\ workerPc' = [i \in WorkIds |-> "idle"] /\ miners' = {}
  /\ polls' = [i \in WorkIds |-> 0]
  /\ soft' = [i \in WorkIds |-> FALSE] /\ marks' = [i \in WorkIds |-> {}]
  /\ UNCHANGED <<slots, revOf, health, calls, changes, quiet>>

\* The app process dies.  Every call and instance is gone; the latch is reloaded
\* (attach), without a pause; WorkManager runs what its slots still hold; XMRig
\* processes die with the app or live on without a worker.
Crash ==
  /\ crashes < MaxCrashes /\ crashes' = crashes + 1
  /\ paused' = FALSE
  /\ sessGen' = NoWork
  /\ pc' = [p \in Procs |-> "idle"] /\ op' = [p \in Procs |-> "none"]
  /\ workOf' = [p \in Procs |-> NoWork]
  /\ workerPc' = [i \in WorkIds |-> "idle"]
  /\ \/ miners' = {}
     \/ miners # {} /\ miners' = {Survivor}
  /\ polls' = [i \in WorkIds |-> 0]
  /\ soft' = [i \in WorkIds |-> FALSE] /\ marks' = [i \in WorkIds |-> {}]
  /\ UNCHANGED <<stopRev, armedRev, automation, slots, revOf, health, calls,
                 changes, quiet>>

-----------------------------------------------------------------------------
CallStep(c) ==
  \/ DreamCheck(c) \/ StartGates(c) \/ StartArmed(c) \/ CancelResume(c)
  \/ FinishStart(c)
\* Steps of procedures that several kinds of process run.
SharedStep(p) ==
  \/ CancelMining(p) \/ CancelMonitor(p) \/ KillMiners(p)
  \/ EnqueueMining(p) \/ EnqueueMonitor(p)
ResumeStep(i) ==
  \/ BeginResume(i) \/ PollAbort(i) \/ PollContinue(i) \/ Decide(i)
  \/ ResumeGates(i) \/ ResumeArmed(i) \/ FinishResume(i)
MonitorStep(i) ==
  \/ BeginMonitor(i) \/ TickPause(i) \/ TickThrottle(i) \/ TickRestore(i)
  \/ RequestOverride(i) \/ RequestRestore(i) \/ VerifyOverride(i)
  \/ LatchPause(i) \/ ScheduleResume(i)
WorkerStep(i) == BeginWorker(i) \/ Spawn(i) \/ EndWorker(i)
Request(c) ==
  \/ \E o \in StartOps \cap Requests : RequestStart(c, o)
  \/ \E o \in StopOps \cap Requests : LatchStop(c, o)
  \/ "quickPause" \in Requests /\ QuickPause(c)
  \/ "automation" \in Requests /\ SetAutomation(c)

Next ==
  \/ \E c \in Callers : Request(c) \/ CallStep(c) \/ RejectStart(c) \/ AbandonStart(c)
  \/ \E p \in Procs : SharedStep(p)
  \/ \E i \in WorkIds :
       \/ ResumeStep(i) \/ ResumeCancelled(i)
       \/ MonitorStep(i) \/ MonitorCancelled(i)
       \/ WorkerStep(i) \/ LaunchFails(i)
  \/ \E i \in WorkIds \cup {Survivor} : MinerExits(i)
  \/ HealthChanges \/ Crash

Spec == Init /\ [][Next]_vars

(* Threads, coroutines and WorkManager keep running: a process that has a     *)
(* step to take goes on, and a cancelled instance ends.  Nothing is assumed   *)
(* of the user, the sensors, the scopes that cancel a call, or crashes.       *)
Fairness ==
  /\ \A c \in Callers : WF_vars(CallStep(c) \/ RejectStart(c) \/ SharedStep(c))
  /\ \A i \in WorkIds :
       /\ WF_vars(ResumeStep(i) \/ ResumeCancelled(i) \/ SharedStep(Res(i)))
       /\ WF_vars(MonitorStep(i) \/ MonitorCancelled(i) \/ SharedStep(Mon(i)))
       /\ WF_vars(WorkerStep(i))
FairSpec == Spec /\ Fairness

-----------------------------------------------------------------------------
(* Properties. *)

\* A Stop that found nothing on its way to mining stays in force until someone
\* presses Start: no policy resume, screensaver, relaunch or restart of the app
\* re-arms the session (MiningSessionLatch, MiningController, PolicyResumeWorker),
\* and nobody gets past the checks that lead to mining.
StopSticks == quiet => UserStopped /\ ~Risky

\* ... and while it is in force nobody enqueues mining work: the slot only empties.
NoRevival == [][quiet /\ quiet' => miningWork' \in {miningWork, NoWork}]_vars

\* ... and the engine comes to rest: no mining work, no XMRig process.
Drained == miningWork = NoWork /\ miners = {}
StopDrains == quiet ~> (Drained \/ ~quiet)

\* A crash in the middle of a Stop is healed: the monitor that WorkManager runs
\* again sees the persisted latch and finishes cancelling the mining work, unless
\* the monitor of an earlier session is just cancelling it (MonitoredMining).
StalePause == \E i \in WorkIds : op[Mon(i)] = "pause" /\ monitorWork # i
MonitorHeals ==
  (quiet /\ monitorWork # NoWork /\ ~StalePause) ~> (miningWork = NoWork \/ ~quiet)

\* A policy resume that is polling restarts mining if the device allows it, unless
\* the user intervenes or automation is off.
Favourable == health = "good" /\ automation /\ ~UserStopped
              /\ \A c \in Callers : op[c] = "none"
Resumable(i) == resumeWork = i /\ pc[Res(i)] = "poll" /\ stopRev <= revOf[i]
ResumeRestarts ==
  (Favourable /\ \E i \in WorkIds : Resumable(i))
    ~> (miningWork # NoWork \/ ~Favourable)

\* Two miners at once, as a cancelled worker that is already launching can cause,
\* do not last: the late one is stopped by its worker.
OneMinerInTheEnd == (Cardinality(miners) > 1) ~> (Cardinality(miners) <= 1)

-----------------------------------------------------------------------------
(* Claims of the repository that the code does not keep.                     *)

\* shared/power-policy/README.md: a manual Stop blocks every revival "until
\* explicit user Start".  A latched Stop is cleared by a Start of the user only.
OnlyStartClearsStop ==
  [][UserStopped /\ ~UserStopped' =>
       \E c \in Callers : op[c] \in {"start", "remote"} /\ pc[c] = "gates"]_vars

\* MonitorWorker: it "polls device health while mining is active" and is
\* "cancelled together with MiningWorker".  Once every procedure has run to its
\* end, mining work is scheduled only with a monitor beside it.
MonitoredMining ==
  (\A p \in Procs : op[p] = "none") /\ miningWork # NoWork => monitorWork # NoWork
=============================================================================
