------------------------ MODULE MiningSession_proofs ------------------------
(***************************************************************************)
(* For every set of callers and work ids, every bound and any number of    *)
(* crashes: a Stop that found nothing on its way to mining stays in force  *)
(* until a user presses Start, and no mining work is enqueued meanwhile.   *)
(*                                                                         *)
(* StopSticks is inductive relative to TypeOK (armedRev never passes       *)
(* stopRev, so that a Stop latches) and OpsMatch (what a process runs at   *)
(* each label, so that a process that reaches the arming or the enqueueing *)
(* of mining work was on its way before).                                  *)
(***************************************************************************)
EXTENDS MiningSession, TLAPS

\* Which operations run the labels that lead to arming and to enqueueing.
OpsMatch ==
  \A p \in Procs :
    /\ pc[p] \in {"check", "gates", "armed", "poll", "decide"} => op[p] \in SessionOps
    /\ pc[p] = "cancelResume" => op[p] \in StopOps
    /\ pc[p] = "latch" => op[p] = "pause"
    /\ pc[p] = "restore" => op[p] = "swap"
    /\ pc[p] = "cancelMonitor" => op[p] # "swap"
    /\ pc[p] = "enqueueMining" => op[p] \in SessionOps \cup {"swap"}

IInv == TypeOK /\ OpsMatch /\ StopSticks

\* The members of the small sets a step's labels and operations come from.
LEMMA Labels ==
  /\ Callers \subseteq Procs
  /\ \A i \in WorkIds : Mon(i) \in Procs /\ Res(i) \in Procs
  /\ SessionOps \subseteq Ops /\ StartOps \subseteq SessionOps /\ StopOps \subseteq Ops
  BY DEF Procs, Monitors, Resumes, SessionOps, StartOps, StopOps, Ops

\* What NoRevival says of a step.
OnlyEmpties == quiet /\ quiet' => miningWork' \in {miningWork, NoWork}

\* Every step keeps the types, and arming never runs ahead of the Stops.
LEMMA TypeStep == ASSUME TypeOK, [Next]_vars PROVE TypeOK'
<1> USE Labels DEF TypeOK, LatchOK, SlotsOK, ProcsOK, WorksOK, EngineOK,
         WorldOK, Slot, latch, slots, engine, procs, bounds, Ops, PCs, StartOps,
         StopOps, Health, WorkerPCs
<1>1. ASSUME NEW c \in Callers, DreamCheck(c) PROVE TypeOK'
  BY <1>1 DEF DreamCheck, Goto, Return
<1>2. ASSUME NEW c \in Callers, StartGates(c) PROVE TypeOK'
  <2>1. /\ armedRev' = stopRev /\ stopRev' = stopRev
        /\ paused' = FALSE /\ automation' = automation
    BY <1>2 DEF StartGates, ArmSession
  <2>2. armedRev' <= stopRev'
    BY <2>1
  <2>3. LatchOK'
    BY <2>1, <2>2
  <2>4. SlotsOK' /\ ProcsOK' /\ WorksOK' /\ EngineOK' /\ WorldOK'
    BY <1>2 DEF StartGates, Goto
  <2> QED
    BY <2>3, <2>4
<1>3. ASSUME NEW c \in Callers, StartArmed(c) PROVE TypeOK'
  BY <1>3 DEF StartArmed, Goto, Return
<1>4. ASSUME NEW c \in Callers, CancelResume(c) PROVE TypeOK'
  BY <1>4 DEF CancelResume, Goto
<1>5. ASSUME NEW c \in Callers, FinishStart(c) PROVE TypeOK'
  BY <1>5 DEF FinishStart, Return, Goto
<1>6. ASSUME NEW c \in Callers, RejectStart(c) PROVE TypeOK'
  BY <1>6 DEF RejectStart, Return, Goto
<1>7. ASSUME NEW c \in Callers, AbandonStart(c) PROVE TypeOK'
  BY <1>7 DEF AbandonStart, Return, Goto
<1>8. ASSUME NEW c \in Callers, QuickPause(c) PROVE TypeOK'
  BY <1>8 DEF QuickPause, Goto
<1>9. ASSUME NEW c \in Callers, SetAutomation(c) PROVE TypeOK'
  BY <1>9 DEF SetAutomation
<1>10. ASSUME NEW c \in Callers, NEW o \in StartOps, RequestStart(c, o) PROVE TypeOK'
  <2>1. quiet' \in BOOLEAN
    BY <1>10 DEF RequestStart
  <2>2. LatchOK' /\ SlotsOK' /\ ProcsOK' /\ WorksOK' /\ EngineOK'
    BY <1>10 DEF RequestStart, Goto
  <2>3. WorldOK'
    BY <1>10, <2>1 DEF RequestStart
  <2> QED
    BY <2>2, <2>3
<1>11. ASSUME NEW c \in Callers, NEW o \in StopOps, LatchStop(c, o) PROVE TypeOK'
  <2>1. /\ armedRev' = armedRev /\ stopRev' = stopRev + 1
        /\ paused' = FALSE /\ automation' = automation
    BY <1>11 DEF LatchStop
  <2>2. stopRev \in Nat /\ armedRev \in Nat /\ armedRev <= stopRev
    OBVIOUS
  <2>3. armedRev' <= stopRev' /\ stopRev' \in Nat /\ armedRev' \in Nat
    BY <2>1, <2>2
  <2>4. LatchOK'
    BY <2>1, <2>3
  <2>5. SlotsOK' /\ ProcsOK' /\ WorksOK' /\ EngineOK'
    BY <1>11 DEF LatchStop, Goto
  <2>6. quiet' \in BOOLEAN
    BY <1>11 DEF LatchStop
  <2>7. WorldOK'
    BY <1>11, <2>6 DEF LatchStop
  <2> QED
    BY <2>4, <2>5, <2>7
<1>12. ASSUME NEW p \in Procs, CancelMining(p) PROVE TypeOK'
  BY <1>12 DEF CancelMining, Goto
<1>13. ASSUME NEW p \in Procs, CancelMonitor(p) PROVE TypeOK'
  BY <1>13 DEF CancelMonitor, Goto
<1>14. ASSUME NEW p \in Procs, KillMiners(p) PROVE TypeOK'
  BY <1>14 DEF KillMiners, Goto, Return
<1>15. ASSUME NEW p \in Procs, EnqueueMining(p) PROVE TypeOK'
  BY <1>15 DEF EnqueueMining, Goto
<1>16. ASSUME NEW p \in Procs, EnqueueMonitor(p) PROVE TypeOK'
  BY <1>16 DEF EnqueueMonitor, Goto, Return
<1>17. ASSUME NEW i \in WorkIds, BeginResume(i) PROVE TypeOK'
  BY <1>17 DEF BeginResume, Goto
<1>18. ASSUME NEW i \in WorkIds, PollAbort(i) PROVE TypeOK'
  BY <1>18 DEF PollAbort, EndResume, Return, Goto
<1>19. ASSUME NEW i \in WorkIds, PollContinue(i) PROVE TypeOK'
  BY <1>19 DEF PollContinue, Goto
<1>20. ASSUME NEW i \in WorkIds, Decide(i) PROVE TypeOK'
  BY <1>20 DEF Decide, Goto, NextPoll, EndResume, Return
<1>21. ASSUME NEW i \in WorkIds, ResumeGates(i) PROVE TypeOK'
  <2>1. stopRev' = stopRev /\ automation' = automation
    BY <1>21 DEF ResumeGates
  <2>2. \/ armedRev' = stopRev /\ paused' = FALSE
        \/ armedRev' = armedRev /\ paused' = paused
    BY <1>21 DEF ResumeGates, ArmSession
  <2>3. armedRev' <= stopRev'
    BY <2>1, <2>2
  <2>4. LatchOK'
    BY <2>1, <2>2, <2>3
  <2>5. SlotsOK' /\ ProcsOK' /\ WorksOK' /\ EngineOK' /\ WorldOK'
    BY <1>21 DEF ResumeGates, Goto, NextPoll, EndResume, Return
  <2> QED
    BY <2>4, <2>5
<1>22. ASSUME NEW i \in WorkIds, ResumeArmed(i) PROVE TypeOK'
  BY <1>22 DEF ResumeArmed, Goto, NextPoll, EndResume, Return
<1>23. ASSUME NEW i \in WorkIds, FinishResume(i) PROVE TypeOK'
  BY <1>23 DEF FinishResume, EndResume, Return, Goto
<1>24. ASSUME NEW i \in WorkIds, ResumeCancelled(i) PROVE TypeOK'
  BY <1>24 DEF ResumeCancelled, EndResume, Return, Goto
<1>25. ASSUME NEW i \in WorkIds, BeginMonitor(i) PROVE TypeOK'
  BY <1>25 DEF BeginMonitor, Goto
<1>26. ASSUME NEW i \in WorkIds, TickPause(i) PROVE TypeOK'
  BY <1>26 DEF TickPause, Goto
<1>27. ASSUME NEW i \in WorkIds, TickThrottle(i) PROVE TypeOK'
  BY <1>27 DEF TickThrottle, Goto
<1>28. ASSUME NEW i \in WorkIds, TickRestore(i) PROVE TypeOK'
  BY <1>28 DEF TickRestore, Goto
<1>29. ASSUME NEW i \in WorkIds, RequestOverride(i) PROVE TypeOK'
  BY <1>29 DEF RequestOverride, Goto
<1>30. ASSUME NEW i \in WorkIds, RequestRestore(i) PROVE TypeOK'
  BY <1>30 DEF RequestRestore, Goto
<1>31. ASSUME NEW i \in WorkIds, VerifyOverride(i) PROVE TypeOK'
  BY <1>31 DEF VerifyOverride, Goto
<1>32. ASSUME NEW i \in WorkIds, LatchPause(i) PROVE TypeOK'
  BY <1>32 DEF LatchPause, Goto
<1>33. ASSUME NEW i \in WorkIds, ScheduleResume(i) PROVE TypeOK'
  BY <1>33 DEF ScheduleResume, EndMonitor, Return, Goto
<1>34. ASSUME NEW i \in WorkIds, MonitorCancelled(i) PROVE TypeOK'
  BY <1>34 DEF MonitorCancelled, EndMonitor, Return, Goto
<1>35. ASSUME NEW i \in WorkIds, BeginWorker(i) PROVE TypeOK'
  BY <1>35 DEF BeginWorker
<1>36. ASSUME NEW i \in WorkIds, Spawn(i) PROVE TypeOK'
  BY <1>36 DEF Spawn
<1>37. ASSUME NEW i \in WorkIds, EndWorker(i) PROVE TypeOK'
  BY <1>37 DEF EndWorker
<1>38. ASSUME NEW i \in WorkIds, LaunchFails(i) PROVE TypeOK'
  BY <1>38 DEF LaunchFails
<1>39. ASSUME NEW i \in WorkIds \cup {Survivor}, MinerExits(i) PROVE TypeOK'
  BY <1>39 DEF MinerExits
<1>40. CASE HealthChanges
  BY <1>40, HealthAssumption DEF HealthChanges
<1>41. CASE Crash
  <2>1. LatchOK' /\ SlotsOK'
    BY <1>41 DEF Crash
  <2>2. ProcsOK'
    BY <1>41 DEF Crash
  <2>3. WorksOK'
    BY <1>41 DEF Crash
  <2>4. EngineOK'
    BY <1>41 DEF Crash
  <2>5. WorldOK'
    BY <1>41 DEF Crash
  <2> QED
    BY <2>1, <2>2, <2>3, <2>4, <2>5
<1>42. CASE UNCHANGED vars
  BY <1>42 DEF vars
<1> QED
  BY <1>1, <1>2, <1>3, <1>4, <1>5, <1>6, <1>7, <1>8, <1>9, <1>10, <1>11, <1>12,
     <1>13, <1>14, <1>15, <1>16, <1>17, <1>18, <1>19, <1>20, <1>21, <1>22,
     <1>23, <1>24, <1>25, <1>26, <1>27, <1>28, <1>29, <1>30, <1>31, <1>32,
     <1>33, <1>34, <1>35, <1>36, <1>37, <1>38, <1>39, <1>40, <1>41, <1>42
  DEF Next, Request, CallStep, SharedStep, ResumeStep, MonitorStep, WorkerStep

\* A process reaches the labels of an operation only by running that operation.
LEMMA OpsMatchStep == ASSUME TypeOK, OpsMatch, [Next]_vars PROVE OpsMatch'
<1> USE Labels DEF OpsMatch, TypeOK, ProcsOK, procs, SessionOps, StartOps,
         StopOps, Mon, Res
<1>1. ASSUME NEW c \in Callers, DreamCheck(c) PROVE OpsMatch'
  BY <1>1 DEF DreamCheck, Goto, Return
<1>2. ASSUME NEW c \in Callers, StartGates(c) PROVE OpsMatch'
  BY <1>2 DEF StartGates, Goto, ArmSession
<1>3. ASSUME NEW c \in Callers, StartArmed(c) PROVE OpsMatch'
  BY <1>3 DEF StartArmed, Goto, Return
<1>4. ASSUME NEW c \in Callers, CancelResume(c) PROVE OpsMatch'
  BY <1>4 DEF CancelResume, Goto
<1>5. ASSUME NEW c \in Callers, FinishStart(c) PROVE OpsMatch'
  BY <1>5 DEF FinishStart, Return, Goto
<1>6. ASSUME NEW c \in Callers, RejectStart(c) PROVE OpsMatch'
  BY <1>6 DEF RejectStart, Return, Goto
<1>7. ASSUME NEW c \in Callers, AbandonStart(c) PROVE OpsMatch'
  BY <1>7 DEF AbandonStart, Return, Goto
<1>8. ASSUME NEW c \in Callers, QuickPause(c) PROVE OpsMatch'
  BY <1>8 DEF QuickPause, Goto
<1>9. ASSUME NEW c \in Callers, SetAutomation(c) PROVE OpsMatch'
  BY <1>9 DEF SetAutomation
<1>10. ASSUME NEW c \in Callers, NEW o \in StartOps, RequestStart(c, o) PROVE OpsMatch'
  BY <1>10 DEF RequestStart, Goto
<1>11. ASSUME NEW c \in Callers, NEW o \in StopOps, LatchStop(c, o) PROVE OpsMatch'
  BY <1>11 DEF LatchStop, Goto
<1>12. ASSUME NEW p \in Procs, CancelMining(p) PROVE OpsMatch'
  BY <1>12 DEF CancelMining, Goto
<1>13. ASSUME NEW p \in Procs, CancelMonitor(p) PROVE OpsMatch'
  BY <1>13 DEF CancelMonitor, Goto
<1>14. ASSUME NEW p \in Procs, KillMiners(p) PROVE OpsMatch'
  BY <1>14 DEF KillMiners, Goto, Return
<1>15. ASSUME NEW p \in Procs, EnqueueMining(p) PROVE OpsMatch'
  BY <1>15 DEF EnqueueMining, Goto
<1>16. ASSUME NEW p \in Procs, EnqueueMonitor(p) PROVE OpsMatch'
  BY <1>16 DEF EnqueueMonitor, Goto, Return
<1>17. ASSUME NEW i \in WorkIds, BeginResume(i) PROVE OpsMatch'
  BY <1>17 DEF BeginResume, Goto
<1>18. ASSUME NEW i \in WorkIds, PollAbort(i) PROVE OpsMatch'
  BY <1>18 DEF PollAbort, EndResume, Return, Goto
<1>19. ASSUME NEW i \in WorkIds, PollContinue(i) PROVE OpsMatch'
  BY <1>19 DEF PollContinue, Goto
<1>20. ASSUME NEW i \in WorkIds, Decide(i) PROVE OpsMatch'
  BY <1>20 DEF Decide, Goto, NextPoll, EndResume, Return
<1>21. ASSUME NEW i \in WorkIds, ResumeGates(i) PROVE OpsMatch'
  BY <1>21 DEF ResumeGates, Goto, ArmSession, NextPoll, EndResume, Return
<1>22. ASSUME NEW i \in WorkIds, ResumeArmed(i) PROVE OpsMatch'
  BY <1>22 DEF ResumeArmed, Goto, NextPoll, EndResume, Return
<1>23. ASSUME NEW i \in WorkIds, FinishResume(i) PROVE OpsMatch'
  BY <1>23 DEF FinishResume, EndResume, Return, Goto
<1>24. ASSUME NEW i \in WorkIds, ResumeCancelled(i) PROVE OpsMatch'
  BY <1>24 DEF ResumeCancelled, EndResume, Return, Goto
<1>25. ASSUME NEW i \in WorkIds, BeginMonitor(i) PROVE OpsMatch'
  BY <1>25 DEF BeginMonitor, Goto
<1>26. ASSUME NEW i \in WorkIds, TickPause(i) PROVE OpsMatch'
  BY <1>26 DEF TickPause, Goto
<1>27. ASSUME NEW i \in WorkIds, TickThrottle(i) PROVE OpsMatch'
  BY <1>27 DEF TickThrottle, Goto
<1>28. ASSUME NEW i \in WorkIds, TickRestore(i) PROVE OpsMatch'
  BY <1>28 DEF TickRestore, Goto
<1>29. ASSUME NEW i \in WorkIds, RequestOverride(i) PROVE OpsMatch'
  BY <1>29 DEF RequestOverride, Goto
<1>30. ASSUME NEW i \in WorkIds, RequestRestore(i) PROVE OpsMatch'
  BY <1>30 DEF RequestRestore, Goto
<1>31. ASSUME NEW i \in WorkIds, VerifyOverride(i) PROVE OpsMatch'
  BY <1>31 DEF VerifyOverride, Goto
<1>32. ASSUME NEW i \in WorkIds, LatchPause(i) PROVE OpsMatch'
  BY <1>32 DEF LatchPause, Goto
<1>33. ASSUME NEW i \in WorkIds, ScheduleResume(i) PROVE OpsMatch'
  BY <1>33 DEF ScheduleResume, EndMonitor, Return, Goto
<1>34. ASSUME NEW i \in WorkIds, MonitorCancelled(i) PROVE OpsMatch'
  BY <1>34 DEF MonitorCancelled, EndMonitor, Return, Goto
<1>35. ASSUME NEW i \in WorkIds, BeginWorker(i) PROVE OpsMatch'
  BY <1>35 DEF BeginWorker
<1>36. ASSUME NEW i \in WorkIds, Spawn(i) PROVE OpsMatch'
  BY <1>36 DEF Spawn
<1>37. ASSUME NEW i \in WorkIds, EndWorker(i) PROVE OpsMatch'
  BY <1>37 DEF EndWorker
<1>38. ASSUME NEW i \in WorkIds, LaunchFails(i) PROVE OpsMatch'
  BY <1>38 DEF LaunchFails
<1>39. ASSUME NEW i \in WorkIds \cup {Survivor}, MinerExits(i) PROVE OpsMatch'
  BY <1>39 DEF MinerExits
<1>40. CASE HealthChanges
  BY <1>40 DEF HealthChanges
<1>41. CASE Crash
  BY <1>41 DEF Crash
<1>42. CASE UNCHANGED vars
  BY <1>42 DEF vars
<1> QED
  BY <1>1, <1>2, <1>3, <1>4, <1>5, <1>6, <1>7, <1>8, <1>9, <1>10, <1>11, <1>12,
     <1>13, <1>14, <1>15, <1>16, <1>17, <1>18, <1>19, <1>20, <1>21, <1>22,
     <1>23, <1>24, <1>25, <1>26, <1>27, <1>28, <1>29, <1>30, <1>31, <1>32,
     <1>33, <1>34, <1>35, <1>36, <1>37, <1>38, <1>39, <1>40, <1>41, <1>42
  DEF Next, Request, CallStep, SharedStep, ResumeStep, MonitorStep, WorkerStep

\* Every step keeps a latched Stop in force: the steps that arm, or that lead a
\* process past its checks, are taken by a process that was on its way before, or
\* read the latch.
LEMMA StopSticksStep == ASSUME TypeOK, OpsMatch, StopSticks, [Next]_vars PROVE StopSticks'
<1> USE Labels DEF OpsMatch, TypeOK, LatchOK, ProcsOK, procs, latch, StopSticks,
         UserStopped, Risky, OnItsWay, SessionOps, StartOps, StopOps, MustPause
<1>1. ASSUME NEW c \in Callers, DreamCheck(c) PROVE StopSticks'
  BY <1>1 DEF DreamCheck, Goto, Return
<1>2. ASSUME NEW c \in Callers, StartGates(c) PROVE StopSticks'
  BY <1>2 DEF StartGates, Goto, ArmSession
<1>3. ASSUME NEW c \in Callers, StartArmed(c) PROVE StopSticks'
  BY <1>3 DEF StartArmed, Goto, Return
<1>4. ASSUME NEW c \in Callers, CancelResume(c) PROVE StopSticks'
  BY <1>4 DEF CancelResume, Goto
<1>5. ASSUME NEW c \in Callers, FinishStart(c) PROVE StopSticks'
  BY <1>5 DEF FinishStart, Return, Goto
<1>6. ASSUME NEW c \in Callers, RejectStart(c) PROVE StopSticks'
  BY <1>6 DEF RejectStart, Return, Goto
<1>7. ASSUME NEW c \in Callers, AbandonStart(c) PROVE StopSticks'
  BY <1>7 DEF AbandonStart, Return, Goto
<1>8. ASSUME NEW c \in Callers, QuickPause(c) PROVE StopSticks'
  BY <1>8 DEF QuickPause, Goto
<1>9. ASSUME NEW c \in Callers, SetAutomation(c) PROVE StopSticks'
  BY <1>9 DEF SetAutomation
<1>10. ASSUME NEW c \in Callers, NEW o \in StartOps, RequestStart(c, o) PROVE StopSticks'
  BY <1>10 DEF RequestStart, Goto
<1>11. ASSUME NEW c \in Callers, NEW o \in StopOps, LatchStop(c, o) PROVE StopSticks'
  <2>1. quiet' = ~Risky /\ stopRev' = stopRev + 1 /\ armedRev' = armedRev
    BY <1>11 DEF LatchStop
  <2>2. UserStopped'
    BY <2>1
  <2>3. Risky' => Risky
    BY <1>11 DEF LatchStop, Goto
  <2> QED
    BY <2>1, <2>2, <2>3 DEF StopSticks
<1>12. ASSUME NEW p \in Procs, CancelMining(p) PROVE StopSticks'
  BY <1>12 DEF CancelMining, Goto
<1>13. ASSUME NEW p \in Procs, CancelMonitor(p) PROVE StopSticks'
  BY <1>13 DEF CancelMonitor, Goto
<1>14. ASSUME NEW p \in Procs, KillMiners(p) PROVE StopSticks'
  BY <1>14 DEF KillMiners, Goto, Return
<1>15. ASSUME NEW p \in Procs, EnqueueMining(p) PROVE StopSticks'
  BY <1>15 DEF EnqueueMining, Goto
<1>16. ASSUME NEW p \in Procs, EnqueueMonitor(p) PROVE StopSticks'
  BY <1>16 DEF EnqueueMonitor, Goto, Return
<1>17. ASSUME NEW i \in WorkIds, BeginResume(i) PROVE StopSticks'
  BY <1>17 DEF BeginResume, Goto
<1>18. ASSUME NEW i \in WorkIds, PollAbort(i) PROVE StopSticks'
  BY <1>18 DEF PollAbort, EndResume, Return, Goto
<1>19. ASSUME NEW i \in WorkIds, PollContinue(i) PROVE StopSticks'
  BY <1>19 DEF PollContinue, Goto
<1>20. ASSUME NEW i \in WorkIds, Decide(i) PROVE StopSticks'
  BY <1>20 DEF Decide, Goto, NextPoll, EndResume, Return
<1>21. ASSUME NEW i \in WorkIds, ResumeGates(i) PROVE StopSticks'
  BY <1>21 DEF ResumeGates, Goto, ArmSession, NextPoll, EndResume, Return
<1>22. ASSUME NEW i \in WorkIds, ResumeArmed(i) PROVE StopSticks'
  BY <1>22 DEF ResumeArmed, Goto, NextPoll, EndResume, Return
<1>23. ASSUME NEW i \in WorkIds, FinishResume(i) PROVE StopSticks'
  BY <1>23 DEF FinishResume, EndResume, Return, Goto
<1>24. ASSUME NEW i \in WorkIds, ResumeCancelled(i) PROVE StopSticks'
  BY <1>24 DEF ResumeCancelled, EndResume, Return, Goto
<1>25. ASSUME NEW i \in WorkIds, BeginMonitor(i) PROVE StopSticks'
  BY <1>25 DEF BeginMonitor, Goto
<1>26. ASSUME NEW i \in WorkIds, TickPause(i) PROVE StopSticks'
  BY <1>26 DEF TickPause, Goto
<1>27. ASSUME NEW i \in WorkIds, TickThrottle(i) PROVE StopSticks'
  BY <1>27 DEF TickThrottle, Goto
<1>28. ASSUME NEW i \in WorkIds, TickRestore(i) PROVE StopSticks'
  BY <1>28 DEF TickRestore, Goto
<1>29. ASSUME NEW i \in WorkIds, RequestOverride(i) PROVE StopSticks'
  BY <1>29 DEF RequestOverride, Goto
<1>30. ASSUME NEW i \in WorkIds, RequestRestore(i) PROVE StopSticks'
  BY <1>30 DEF RequestRestore, Goto
<1>31. ASSUME NEW i \in WorkIds, VerifyOverride(i) PROVE StopSticks'
  BY <1>31 DEF VerifyOverride, Goto
<1>32. ASSUME NEW i \in WorkIds, LatchPause(i) PROVE StopSticks'
  BY <1>32 DEF LatchPause, Goto
<1>33. ASSUME NEW i \in WorkIds, ScheduleResume(i) PROVE StopSticks'
  BY <1>33 DEF ScheduleResume, EndMonitor, Return, Goto
<1>34. ASSUME NEW i \in WorkIds, MonitorCancelled(i) PROVE StopSticks'
  BY <1>34 DEF MonitorCancelled, EndMonitor, Return, Goto
<1>35. ASSUME NEW i \in WorkIds, BeginWorker(i) PROVE StopSticks'
  BY <1>35 DEF BeginWorker
<1>36. ASSUME NEW i \in WorkIds, Spawn(i) PROVE StopSticks'
  BY <1>36 DEF Spawn
<1>37. ASSUME NEW i \in WorkIds, EndWorker(i) PROVE StopSticks'
  BY <1>37 DEF EndWorker
<1>38. ASSUME NEW i \in WorkIds, LaunchFails(i) PROVE StopSticks'
  BY <1>38 DEF LaunchFails
<1>39. ASSUME NEW i \in WorkIds \cup {Survivor}, MinerExits(i) PROVE StopSticks'
  BY <1>39 DEF MinerExits
<1>40. CASE HealthChanges
  BY <1>40 DEF HealthChanges
<1>41. CASE Crash
  BY <1>41 DEF Crash
<1>42. CASE UNCHANGED vars
  BY <1>42 DEF vars
<1> QED
  BY <1>1, <1>2, <1>3, <1>4, <1>5, <1>6, <1>7, <1>8, <1>9, <1>10, <1>11, <1>12,
     <1>13, <1>14, <1>15, <1>16, <1>17, <1>18, <1>19, <1>20, <1>21, <1>22,
     <1>23, <1>24, <1>25, <1>26, <1>27, <1>28, <1>29, <1>30, <1>31, <1>32,
     <1>33, <1>34, <1>35, <1>36, <1>37, <1>38, <1>39, <1>40, <1>41, <1>42
  DEF Next, Request, CallStep, SharedStep, ResumeStep, MonitorStep, WorkerStep

\* Every step of NoRevival: a process that enqueues mining work is on its way to
\* it, which a quiet latch excludes.
LEMMA NoRevivalStep == ASSUME IInv, [Next]_vars PROVE OnlyEmpties
<1> USE Labels DEF OnlyEmpties, IInv, OpsMatch, StopSticks, Risky, OnItsWay, slots, EndResume
<1>1. ASSUME NEW c \in Callers, DreamCheck(c) PROVE OnlyEmpties
  BY <1>1 DEF DreamCheck, Goto, Return
<1>2. ASSUME NEW c \in Callers, StartGates(c) PROVE OnlyEmpties
  BY <1>2 DEF StartGates, Goto, ArmSession
<1>3. ASSUME NEW c \in Callers, StartArmed(c) PROVE OnlyEmpties
  BY <1>3 DEF StartArmed, Goto, Return
<1>4. ASSUME NEW c \in Callers, CancelResume(c) PROVE OnlyEmpties
  BY <1>4 DEF CancelResume, Goto
<1>5. ASSUME NEW c \in Callers, FinishStart(c) PROVE OnlyEmpties
  BY <1>5 DEF FinishStart, Return, Goto
<1>6. ASSUME NEW c \in Callers, RejectStart(c) PROVE OnlyEmpties
  BY <1>6 DEF RejectStart, Return, Goto
<1>7. ASSUME NEW c \in Callers, AbandonStart(c) PROVE OnlyEmpties
  BY <1>7 DEF AbandonStart, Return, Goto
<1>8. ASSUME NEW c \in Callers, QuickPause(c) PROVE OnlyEmpties
  BY <1>8 DEF QuickPause, Goto
<1>9. ASSUME NEW c \in Callers, SetAutomation(c) PROVE OnlyEmpties
  BY <1>9 DEF SetAutomation
<1>10. ASSUME NEW c \in Callers, NEW o \in StartOps, RequestStart(c, o) PROVE OnlyEmpties
  BY <1>10 DEF RequestStart, Goto
<1>11. ASSUME NEW c \in Callers, NEW o \in StopOps, LatchStop(c, o) PROVE OnlyEmpties
  BY <1>11 DEF LatchStop, Goto
<1>12. ASSUME NEW p \in Procs, CancelMining(p) PROVE OnlyEmpties
  BY <1>12 DEF CancelMining, Goto
<1>13. ASSUME NEW p \in Procs, CancelMonitor(p) PROVE OnlyEmpties
  BY <1>13 DEF CancelMonitor, Goto
<1>14. ASSUME NEW p \in Procs, KillMiners(p) PROVE OnlyEmpties
  BY <1>14 DEF KillMiners, Goto, Return
<1>15. ASSUME NEW p \in Procs, EnqueueMining(p) PROVE OnlyEmpties
  BY <1>15 DEF EnqueueMining, Goto
<1>16. ASSUME NEW p \in Procs, EnqueueMonitor(p) PROVE OnlyEmpties
  BY <1>16 DEF EnqueueMonitor, Goto, Return
<1>17. ASSUME NEW i \in WorkIds, BeginResume(i) PROVE OnlyEmpties
  BY <1>17 DEF BeginResume, Goto
<1>18. ASSUME NEW i \in WorkIds, PollAbort(i) PROVE OnlyEmpties
  BY <1>18 DEF PollAbort, EndResume, Return, Goto
<1>19. ASSUME NEW i \in WorkIds, PollContinue(i) PROVE OnlyEmpties
  BY <1>19 DEF PollContinue, Goto
<1>20. ASSUME NEW i \in WorkIds, Decide(i) PROVE OnlyEmpties
  BY <1>20 DEF Decide, Goto, NextPoll, EndResume, Return
<1>21. ASSUME NEW i \in WorkIds, ResumeGates(i) PROVE OnlyEmpties
  BY <1>21 DEF ResumeGates, Goto, ArmSession, NextPoll, EndResume, Return
<1>22. ASSUME NEW i \in WorkIds, ResumeArmed(i) PROVE OnlyEmpties
  BY <1>22 DEF ResumeArmed, Goto, NextPoll, EndResume, Return
<1>23. ASSUME NEW i \in WorkIds, FinishResume(i) PROVE OnlyEmpties
  BY <1>23 DEF FinishResume, EndResume, Return, Goto
<1>24. ASSUME NEW i \in WorkIds, ResumeCancelled(i) PROVE OnlyEmpties
  BY <1>24 DEF ResumeCancelled, EndResume, Return, Goto
<1>25. ASSUME NEW i \in WorkIds, BeginMonitor(i) PROVE OnlyEmpties
  BY <1>25 DEF BeginMonitor, Goto
<1>26. ASSUME NEW i \in WorkIds, TickPause(i) PROVE OnlyEmpties
  BY <1>26 DEF TickPause, Goto
<1>27. ASSUME NEW i \in WorkIds, TickThrottle(i) PROVE OnlyEmpties
  BY <1>27 DEF TickThrottle, Goto
<1>28. ASSUME NEW i \in WorkIds, TickRestore(i) PROVE OnlyEmpties
  BY <1>28 DEF TickRestore, Goto
<1>29. ASSUME NEW i \in WorkIds, RequestOverride(i) PROVE OnlyEmpties
  BY <1>29 DEF RequestOverride, Goto
<1>30. ASSUME NEW i \in WorkIds, RequestRestore(i) PROVE OnlyEmpties
  BY <1>30 DEF RequestRestore, Goto
<1>31. ASSUME NEW i \in WorkIds, VerifyOverride(i) PROVE OnlyEmpties
  BY <1>31 DEF VerifyOverride, Goto
<1>32. ASSUME NEW i \in WorkIds, LatchPause(i) PROVE OnlyEmpties
  BY <1>32 DEF LatchPause, Goto
<1>33. ASSUME NEW i \in WorkIds, ScheduleResume(i) PROVE OnlyEmpties
  BY <1>33 DEF ScheduleResume, EndMonitor, Return, Goto
<1>34. ASSUME NEW i \in WorkIds, MonitorCancelled(i) PROVE OnlyEmpties
  BY <1>34 DEF MonitorCancelled, EndMonitor, Return, Goto
<1>35. ASSUME NEW i \in WorkIds, BeginWorker(i) PROVE OnlyEmpties
  BY <1>35 DEF BeginWorker
<1>36. ASSUME NEW i \in WorkIds, Spawn(i) PROVE OnlyEmpties
  BY <1>36 DEF Spawn
<1>37. ASSUME NEW i \in WorkIds, EndWorker(i) PROVE OnlyEmpties
  BY <1>37 DEF EndWorker
<1>38. ASSUME NEW i \in WorkIds, LaunchFails(i) PROVE OnlyEmpties
  BY <1>38 DEF LaunchFails
<1>39. ASSUME NEW i \in WorkIds \cup {Survivor}, MinerExits(i) PROVE OnlyEmpties
  BY <1>39 DEF MinerExits
<1>40. CASE HealthChanges
  BY <1>40 DEF HealthChanges
<1>41. CASE Crash
  BY <1>41 DEF Crash
<1>42. CASE UNCHANGED vars
  BY <1>42 DEF vars
<1> QED
  BY <1>1, <1>2, <1>3, <1>4, <1>5, <1>6, <1>7, <1>8, <1>9, <1>10, <1>11, <1>12,
     <1>13, <1>14, <1>15, <1>16, <1>17, <1>18, <1>19, <1>20, <1>21, <1>22,
     <1>23, <1>24, <1>25, <1>26, <1>27, <1>28, <1>29, <1>30, <1>31, <1>32,
     <1>33, <1>34, <1>35, <1>36, <1>37, <1>38, <1>39, <1>40, <1>41, <1>42
  DEF Next, Request, CallStep, SharedStep, ResumeStep, MonitorStep, WorkerStep

\* The initial state satisfies the inductive invariant.
LEMMA InitHolds == Init => IInv
<1> SUFFICES ASSUME Init PROVE IInv
  OBVIOUS
<1>1. LatchOK /\ SlotsOK
  <2>1. stopRev \in Nat /\ armedRev \in Nat /\ armedRev <= stopRev
    BY DEF Init
  <2>2. automation \in BOOLEAN /\ paused \in BOOLEAN
    BY DEF Init
  <2>3. SlotsOK
    BY DEF Init, SlotsOK, Slot
  <2> QED
    BY <2>1, <2>2, <2>3 DEF LatchOK
<1>2. ProcsOK /\ EngineOK
  BY DEF Init, ProcsOK, EngineOK, Slot, PCs, Ops, WorkerPCs
<1>3. WorksOK
  BY DEF Init, WorksOK
<1>4. WorldOK
  BY HealthAssumption DEF Init, WorldOK
<1>5. OpsMatch
  BY DEF Init, OpsMatch
<1>6. StopSticks
  BY DEF Init, StopSticks
<1> QED
  BY <1>1, <1>2, <1>3, <1>4, <1>5, <1>6 DEF IInv, TypeOK

\* IInv is an inductive invariant of the session.
THEOREM Inductive == Spec => []IInv
<1>1. IInv /\ [Next]_vars => IInv'
  BY TypeStep, OpsMatchStep, StopSticksStep DEF IInv
<1> QED
  BY InitHolds, <1>1, PTL DEF Spec

\* The session's state keeps its types; MiningSessionLatch never arms past the
\* Stops it has seen.
THEOREM TypeCorrect == Spec => []TypeOK
<1>1. IInv => TypeOK
  BY DEF IInv
<1> QED
  BY Inductive, <1>1, PTL

\* A Stop that found nothing on its way to mining stays in force, through pauses,
\* resumes, relaunches and restarts, until someone presses Start.
THEOREM StopStaysInForce == Spec => []StopSticks
<1>1. IInv => StopSticks
  BY DEF IInv
<1> QED
  BY Inductive, <1>1, PTL

\* While such a Stop is in force, no mining work is enqueued.
THEOREM StopNeverRevived == Spec => NoRevival
<1>1. IInv /\ [Next]_vars => [OnlyEmpties]_vars
  BY NoRevivalStep
<1> QED
  BY Inductive, <1>1, PTL DEF Spec, NoRevival, OnlyEmpties
=============================================================================
