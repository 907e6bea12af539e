------------------------- MODULE DesktopMiner_proofs -------------------------
(***************************************************************************)
(* Proofs about DesktopMiner, for every number of clicks, sessions and     *)
(* exits: the types, that no process is lost or doubled (OneProcess), that *)
(* a Stop or a Quit is final, and that the backend tells the truth of the  *)
(* process it owns.                                                        *)
(***************************************************************************)
EXTENDS DesktopMiner, TLAPS

Starting == {"check", "leftover", "session", "reset", "spawn", "run", "store"}
Stopping == {"kill", "clear", "latch"}

\* Where the main thread is, and what it is doing there.
Labels ==
  /\ pc = "idle" <=> op = "none"
  /\ pc \in Starting <=> op = "start"
  /\ op = "stop" => who \in Flows /\ page[who] \in {"stop", "apply"}
  /\ op = "start" => who \in Flows /\ page[who] = "start"
  /\ pc = "exited" => op = "quit"

\* From the killing of a leftover to the store the slot is empty; session numbers
\* are taken before they are launched.
Fresh ==
  /\ pc \in {"session", "reset", "spawn", "run", "store", "clear"} => slot = None
  /\ launched <= sessionGen
  /\ pc \in {"reset", "spawn"} => launched < sessionGen
  /\ pc \in {"run", "store"} => launched = sessionGen

\* A reaper that has seen an exit, and has not been overtaken, saw the exit of the
\* only process there is.
ReapersOK ==
  \A s \in Sessions :
    /\ reaper[s] # "off" => s <= launched
    /\ reaper[s] \in {"confirm", "act"} /\ launched <= s => alive = {}

\* A live process is reported as running, and so the next Stop kills it.
Controlled ==
  "running" \notin usurped =>
    /\ alive # {} => running \/ pc = "run"
    /\ pc \in {"clear", "latch", "exited"} => alive = {}

\* While a Stop is in force no click is about to lift the latch.
Quiet ==
  quiet =>
    /\ ~Pending /\ pc \notin Starting
    /\ userStopped \/ (op = "tray" /\ pc \in Stopping)
    /\ pc = "idle" /\ "running" \notin usurped => alive = {}

IInv == TypeOK /\ Labels /\ Fresh /\ NoOrphan /\ ReapersOK /\ Controlled /\ Quiet

-----------------------------------------------------------------------------
(* One step of the invariant, conjunct by conjunct. *)

\* A step keeps the types; Labels says which answer a handler gives.
LEMMA TypeStep ==
  ASSUME TypeOK, Labels, Fresh, [Next]_vars
  PROVE  TypeOK'
<1> USE DEF TypeOK, MinerOK, MainOK, ThreadsOK, PageOK, WorldOK, PCs, MainOps,
  PagePCs, ThreadPCs, Sessions, Labels, Fresh, None
<1>1. CASE StartCheck
  BY <1>1, FlowsAssumption, BoundsAssumption DEF StartCheck, Goto, Fail, miner,
    main, threads, ui, world
<1>2. CASE KillLeftover
  BY <1>2, FlowsAssumption, BoundsAssumption DEF KillLeftover, Goto, Fail, miner,
    main, threads, ui, world
<1>3. CASE NewSession
  BY <1>3, FlowsAssumption, BoundsAssumption DEF NewSession, Goto, Fail, miner,
    main, threads, ui, world
<1>4. CASE ResetStats
  BY <1>4, FlowsAssumption, BoundsAssumption DEF ResetStats, Goto, Fail, miner,
    main, threads, ui, world
<1>5. CASE Spawn
  <2>1. MinerOK'
    BY <1>5, FlowsAssumption, BoundsAssumption DEF Spawn, Goto, miner, main,
      threads, ui, world
  <2>2. MainOK'
    BY <1>5, FlowsAssumption, BoundsAssumption DEF Spawn, Goto, miner, main,
      threads, ui, world
  <2>3. ThreadsOK'
    BY <1>5, FlowsAssumption, BoundsAssumption DEF Spawn, Goto, miner, main,
      threads, ui, world
  <2>4. PageOK'
    BY <1>5, FlowsAssumption, BoundsAssumption DEF Spawn, Goto, miner, main,
      threads, ui, world
  <2>5. WorldOK'
    BY <1>5, FlowsAssumption, BoundsAssumption DEF Spawn, Goto, miner, main,
      threads, ui, world
  <2> QED
    BY <2>1, <2>2, <2>3, <2>4, <2>5
<1>6. CASE SpawnFails
  <2>1. sessionGen' \in 0..MaxSession
    BY <1>6, BoundsAssumption DEF SpawnFails, Fail, miner, main, threads, ui, world
  <2>2. running' \in BOOLEAN
    BY <1>6, Zenon DEF SpawnFails, Fail, miner, main, threads, ui, world
  <2>3. UNCHANGED <<slot, stats>>
    BY <1>6 DEF SpawnFails, Fail, miner, main, threads, ui, world
  <2>4. MinerOK'
    BY <2>1, <2>2, <2>3, Zenon
  <2>5. MainOK' /\ ThreadsOK' /\ WorldOK'
    BY <1>6, FlowsAssumption, BoundsAssumption DEF SpawnFails, Fail, miner, main,
      threads, ui, world
  <2>6. PageOK'
    BY <1>6, FlowsAssumption, BoundsAssumption DEF SpawnFails, Fail, miner, main,
      threads, ui, world
  <2> QED
    BY <2>1, <2>2, <2>3, <2>4, <2>5, <2>6
<1>7. CASE Run
  BY <1>7, FlowsAssumption, BoundsAssumption DEF Run, Goto, miner, main, threads,
    ui, world
<1>8. CASE Store
  <2>1. MinerOK' /\ MainOK' /\ ThreadsOK' /\ WorldOK'
    BY <1>8, FlowsAssumption, BoundsAssumption DEF Store, Done, Answer, miner,
      main, threads, ui, world
  <2>2. who \in Flows /\ page[who] = "start"
    BY <1>8 DEF Store, Starting
  <2>3. PageOK'
    BY <1>8, FlowsAssumption, BoundsAssumption, <2>2 DEF Store, Done, Answer,
      miner, main, threads, ui, world
  <2> QED
    BY <2>1, <2>2, <2>3
<1>9. CASE KillProcess
  BY <1>9, FlowsAssumption, BoundsAssumption DEF KillProcess, Goto, miner, main,
    threads, ui, world
<1>10. CASE ClearSession
  <2>1. MinerOK'
    BY <1>10, FlowsAssumption, BoundsAssumption DEF ClearSession, Goto, Done,
      Answer, miner, main, threads, ui, world
  <2>2. MainOK'
    BY <1>10, FlowsAssumption, BoundsAssumption DEF ClearSession, Goto, Done,
      Answer, miner, main, threads, ui, world
  <2>3. ThreadsOK'
    BY <1>10, FlowsAssumption, BoundsAssumption DEF ClearSession, Goto, Done,
      Answer, miner, main, threads, ui, world
  <2>4. PageOK'
    BY <1>10, FlowsAssumption, BoundsAssumption DEF ClearSession, Goto, Done,
      Answer, miner, main, threads, ui, world
  <2>5. WorldOK'
    BY <1>10, FlowsAssumption, BoundsAssumption DEF ClearSession, Goto, Done,
      Answer, miner, main, threads, ui, world
  <2> QED
    BY <2>1, <2>2, <2>3, <2>4, <2>5
<1>11. CASE Latch
  BY <1>11, FlowsAssumption, BoundsAssumption DEF Latch, Goto, Fail, Exit, miner,
    main, threads, ui, world
<1>12. CASE TrayStop
  BY <1>12, FlowsAssumption, BoundsAssumption DEF TrayStop, BeginStop, Pending,
    miner, main, threads, ui, world
<1>13. CASE Quit
  BY <1>13, FlowsAssumption, BoundsAssumption DEF Quit, BeginStop, miner, main,
    threads, ui, world
<1>14. CASE PagePolls
  BY <1>14, FlowsAssumption, BoundsAssumption DEF PagePolls, miner, main, threads,
    ui, world
<1>15. ASSUME NEW f \in Flows, PressStart(f) PROVE TypeOK'
  <2>1. MinerOK' /\ MainOK' /\ ThreadsOK'
    BY <1>15, FlowsAssumption, BoundsAssumption DEF PressStart, PageGoes, miner,
      main, threads, ui, world
  <2>2. PageOK'
    BY <1>15, FlowsAssumption, BoundsAssumption DEF PressStart, PageGoes, miner,
      main, threads, ui, world
  <2>3. quiet' \in BOOLEAN
    BY <1>15, Zenon DEF PressStart, PageGoes, miner, main, threads, ui, world
  <2>4. requests' \in Nat
    BY <1>15 DEF PressStart, PageGoes, miner, main, threads, ui, world
  <2>5. UNCHANGED <<world, usurped, exits>>
    BY <1>15 DEF PressStart, PageGoes, miner, main, threads, ui, world
  <2>6. WorldOK'
    BY <2>3, <2>4, <2>5, Zenon DEF world
  <2> QED
    BY <2>1, <2>2, <2>3, <2>4, <2>5, <2>6
<1>16. ASSUME NEW f \in Flows, PressStop(f) PROVE TypeOK'
  <2>1. MinerOK' /\ MainOK' /\ ThreadsOK'
    BY <1>16, FlowsAssumption, BoundsAssumption DEF PressStop, PageGoes, miner,
      main, threads, ui, world
  <2>2. PageOK'
    BY <1>16, FlowsAssumption, BoundsAssumption DEF PressStop, PageGoes, miner,
      main, threads, ui, world
  <2>3. quiet' \in BOOLEAN
    BY <1>16, Zenon DEF PressStop, PageGoes, miner, main, threads, ui, world
  <2>4. requests' \in Nat
    BY <1>16 DEF PressStop, PageGoes, miner, main, threads, ui, world
  <2>5. UNCHANGED <<world, usurped, exits>>
    BY <1>16 DEF PressStop, PageGoes, miner, main, threads, ui, world
  <2>6. WorldOK'
    BY <2>3, <2>4, <2>5, Zenon DEF world
  <2> QED
    BY <2>1, <2>2, <2>3, <2>4, <2>5, <2>6
<1>17. ASSUME NEW f \in Flows, ClearUserStop(f) PROVE TypeOK'
  BY <1>17, FlowsAssumption, BoundsAssumption DEF ClearUserStop, PageGoes, miner,
    main, threads, ui, world
<1>18. ASSUME NEW f \in Flows, StartCommand(f) PROVE TypeOK'
  BY <1>18, FlowsAssumption, BoundsAssumption DEF StartCommand, PageGoes, miner,
    main, threads, ui, world
<1>19. ASSUME NEW f \in Flows, StopCommand(f) PROVE TypeOK'
  BY <1>19, FlowsAssumption, BoundsAssumption DEF StopCommand, BeginStop, Pending,
    miner, main, threads, ui, world
<1>20. ASSUME NEW f \in Flows, PageAnswered(f) PROVE TypeOK'
  BY <1>20, FlowsAssumption, BoundsAssumption DEF PageAnswered, PageGoes, miner,
    main, threads, ui, world
<1>21. ASSUME NEW s \in Sessions, ReaperCheck(s), Thread(s) PROVE TypeOK'
  BY <1>21, FlowsAssumption, BoundsAssumption DEF Thread, ReaperCheck, ReaperGoes,
    Stale, miner, main, threads, ui, world
<1>22. ASSUME NEW s \in Sessions, ReaperLooks(s), Thread(s) PROVE TypeOK'
  <2>1. MinerOK'
    BY <1>22, FlowsAssumption, BoundsAssumption DEF Thread, ReaperLooks,
      ReaperGoes, Usurp, Overtaken, Stale, miner, main, threads, ui, world
  <2>2. MainOK'
    BY <1>22, FlowsAssumption, BoundsAssumption DEF Thread, ReaperLooks,
      ReaperGoes, Usurp, Overtaken, Stale, miner, main, threads, ui, world
  <2>3. ThreadsOK'
    BY <1>22, FlowsAssumption, BoundsAssumption DEF Thread, ReaperLooks,
      ReaperGoes, Usurp, Overtaken, Stale, miner, main, threads, ui, world
  <2>4. PageOK'
    BY <1>22, FlowsAssumption, BoundsAssumption DEF Thread, ReaperLooks,
      ReaperGoes, Usurp, Overtaken, Stale, miner, main, threads, ui, world
  <2>5. WorldOK'
    BY <1>22, FlowsAssumption, BoundsAssumption DEF Thread, ReaperLooks,
      ReaperGoes, Usurp, Overtaken, Stale, miner, main, threads, ui, world
  <2> QED
    BY <2>1, <2>2, <2>3, <2>4, <2>5
<1>23. ASSUME NEW s \in Sessions, ReaperConfirms(s), Thread(s) PROVE TypeOK'
  BY <1>23, FlowsAssumption, BoundsAssumption DEF Thread, ReaperConfirms,
    ReaperGoes, Stale, miner, main, threads, ui, world
<1>24. ASSUME NEW s \in Sessions, ReaperClears(s), Thread(s) PROVE TypeOK'
  BY <1>24, FlowsAssumption, BoundsAssumption DEF Thread, ReaperClears, ReaperGoes,
    Usurp, Overtaken, Stale, miner, main, threads, ui, world
<1>25. ASSUME NEW s \in Sessions, ReaperResets(s), Thread(s) PROVE TypeOK'
  BY <1>25, FlowsAssumption, BoundsAssumption DEF Thread, ReaperResets, ReaperGoes,
    Usurp, Overtaken, Stale, miner, main, threads, ui, world
<1>26. ASSUME NEW s \in Sessions, PollerFetches(s), Thread(s) PROVE TypeOK'
  BY <1>26, FlowsAssumption, BoundsAssumption DEF Thread, PollerFetches,
    PollerGoes, Stale, miner, main, threads, ui, world
<1>27. ASSUME NEW s \in Sessions, PollerConfirms(s), Thread(s) PROVE TypeOK'
  BY <1>27, FlowsAssumption, BoundsAssumption DEF Thread, PollerConfirms,
    PollerGoes, Stale, miner, main, threads, ui, world
<1>28. ASSUME NEW s \in Sessions, PollerWrites(s), Thread(s) PROVE TypeOK'
  BY <1>28, FlowsAssumption, BoundsAssumption DEF Thread, PollerWrites, PollerGoes,
    Usurp, Overtaken, Stale, miner, main, threads, ui, world
<1>29. ASSUME NEW s \in Sessions, ProcessExits(s) PROVE TypeOK'
  BY <1>29, FlowsAssumption, BoundsAssumption DEF ProcessExits, miner, main,
    threads, ui, world
<1>30. CASE UNCHANGED vars
  BY <1>30 DEF vars, miner, main, threads, ui, world
<1> QED
  BY <1>1, <1>2, <1>3, <1>4, <1>5, <1>6, <1>7, <1>8, <1>9, <1>10, <1>11, <1>12,
    <1>13, <1>14, <1>15, <1>16, <1>17, <1>18, <1>19, <1>20, <1>21, <1>22, <1>23,
      <1>24, <1>25, <1>26, <1>27, <1>28, <1>29, <1>30
  DEF Next, MainStep, Press, Command, Thread, ReaperStep, PollerStep

\* ... and what the main thread is doing.
LEMMA LabelsStep ==
  ASSUME TypeOK, Labels, [Next]_vars
  PROVE  Labels'
<1> USE DEF MainOK, PageOK, TypeOK, PCs, MainOps, PagePCs, Labels, Starting
<1>1. CASE StartCheck
  BY <1>1, FlowsAssumption DEF StartCheck, Goto, Fail, miner, main, threads, ui,
    world
<1>2. CASE KillLeftover
  BY <1>2, FlowsAssumption DEF KillLeftover, Goto, Fail, miner, main, threads, ui,
    world
<1>3. CASE NewSession
  BY <1>3, FlowsAssumption DEF NewSession, Goto, Fail, miner, main, threads, ui,
    world
<1>4. CASE ResetStats
  BY <1>4, FlowsAssumption DEF ResetStats, Goto, Fail, miner, main, threads, ui,
    world
<1>5. CASE Spawn
  BY <1>5, FlowsAssumption DEF Spawn, Goto, miner, main, threads, ui, world
<1>6. CASE SpawnFails
  BY <1>6, FlowsAssumption DEF SpawnFails, Fail, miner, main, threads, ui, world
<1>7. CASE Run
  BY <1>7, FlowsAssumption DEF Run, Goto, miner, main, threads, ui, world
<1>8. CASE Store
  BY <1>8, FlowsAssumption DEF Store, Done, Answer, miner, main, threads, ui, world
<1>9. CASE KillProcess
  BY <1>9, FlowsAssumption DEF KillProcess, Goto, miner, main, threads, ui, world
<1>10. CASE ClearSession
  BY <1>10, FlowsAssumption DEF ClearSession, Goto, Done, Answer, miner, main,
    threads, ui, world
<1>11. CASE Latch
  BY <1>11, FlowsAssumption DEF Latch, Goto, Fail, Exit, miner, main, threads, ui,
    world
<1>12. CASE TrayStop
  BY <1>12, FlowsAssumption DEF TrayStop, BeginStop, Pending, miner, main, threads,
    ui, world
<1>13. CASE Quit
  BY <1>13, FlowsAssumption DEF Quit, BeginStop, miner, main, threads, ui, world
<1>14. CASE PagePolls
  BY <1>14, FlowsAssumption DEF PagePolls, miner, main, threads, ui, world
<1>15. ASSUME NEW f \in Flows, PressStart(f) PROVE Labels'
  BY <1>15, FlowsAssumption DEF PressStart, PageGoes, miner, main, threads, ui,
    world
<1>16. ASSUME NEW f \in Flows, PressStop(f) PROVE Labels'
  BY <1>16, FlowsAssumption DEF PressStop, PageGoes, miner, main, threads, ui, world
<1>17. ASSUME NEW f \in Flows, ClearUserStop(f) PROVE Labels'
  BY <1>17, FlowsAssumption DEF ClearUserStop, PageGoes, miner, main, threads, ui,
    world
<1>18. ASSUME NEW f \in Flows, StartCommand(f) PROVE Labels'
  BY <1>18, FlowsAssumption DEF StartCommand, PageGoes, miner, main, threads, ui,
    world
<1>19. ASSUME NEW f \in Flows, StopCommand(f) PROVE Labels'
  BY <1>19, FlowsAssumption DEF StopCommand, BeginStop, Pending, miner, main,
    threads, ui, world
<1>20. ASSUME NEW f \in Flows, PageAnswered(f) PROVE Labels'
  BY <1>20, FlowsAssumption DEF PageAnswered, PageGoes, miner, main, threads, ui,
    world
<1>21. ASSUME NEW s \in Sessions, ReaperCheck(s), Thread(s) PROVE Labels'
  BY <1>21, FlowsAssumption DEF Thread, ReaperCheck, ReaperGoes, Stale, miner,
    main, threads, ui, world
<1>22. ASSUME NEW s \in Sessions, ReaperLooks(s), Thread(s) PROVE Labels'
  BY <1>22, FlowsAssumption DEF Thread, ReaperLooks, ReaperGoes, Usurp, Overtaken,
    Stale, miner, main, threads, ui, world
<1>23. ASSUME NEW s \in Sessions, ReaperConfirms(s), Thread(s) PROVE Labels'
  BY <1>23, FlowsAssumption DEF Thread, ReaperConfirms, ReaperGoes, Stale, miner,
    main, threads, ui, world
<1>24. ASSUME NEW s \in Sessions, ReaperClears(s), Thread(s) PROVE Labels'
  BY <1>24, FlowsAssumption DEF Thread, ReaperClears, ReaperGoes, Usurp, Overtaken,
    Stale, miner, main, threads, ui, world
<1>25. ASSUME NEW s \in Sessions, ReaperResets(s), Thread(s) PROVE Labels'
  BY <1>25, FlowsAssumption DEF Thread, ReaperResets, ReaperGoes, Usurp, Overtaken,
    Stale, miner, main, threads, ui, world
<1>26. ASSUME NEW s \in Sessions, PollerFetches(s), Thread(s) PROVE Labels'
  BY <1>26, FlowsAssumption DEF Thread, PollerFetches, PollerGoes, Stale, miner,
    main, threads, ui, world
<1>27. ASSUME NEW s \in Sessions, PollerConfirms(s), Thread(s) PROVE Labels'
  BY <1>27, FlowsAssumption DEF Thread, PollerConfirms, PollerGoes, Stale, miner,
    main, threads, ui, world
<1>28. ASSUME NEW s \in Sessions, PollerWrites(s), Thread(s) PROVE Labels'
  BY <1>28, FlowsAssumption DEF Thread, PollerWrites, PollerGoes, Usurp, Overtaken,
    Stale, miner, main, threads, ui, world
<1>29. ASSUME NEW s \in Sessions, ProcessExits(s) PROVE Labels'
  BY <1>29, FlowsAssumption DEF ProcessExits, miner, main, threads, ui, world
<1>30. CASE UNCHANGED vars
  BY <1>30 DEF vars, miner, main, threads, ui, world
<1> QED
  BY <1>1, <1>2, <1>3, <1>4, <1>5, <1>6, <1>7, <1>8, <1>9, <1>10, <1>11, <1>12,
    <1>13, <1>14, <1>15, <1>16, <1>17, <1>18, <1>19, <1>20, <1>21, <1>22, <1>23,
      <1>24, <1>25, <1>26, <1>27, <1>28, <1>29, <1>30
  DEF Next, MainStep, Press, Command, Thread, ReaperStep, PollerStep

\* ... and the order of session numbers.
LEMMA FreshStep ==
  ASSUME TypeOK, Labels, Fresh, [Next]_vars
  PROVE  Fresh'
<1> USE DEF MinerOK, WorldOK, ThreadsOK, TypeOK, Labels, Fresh, None, Sessions
<1>1. CASE StartCheck
  BY <1>1, BoundsAssumption DEF StartCheck, Goto, Fail, miner, main, threads, ui,
    world
<1>2. CASE KillLeftover
  BY <1>2, BoundsAssumption DEF KillLeftover, Goto, Fail, miner, main, threads, ui,
    world
<1>3. CASE NewSession
  BY <1>3, BoundsAssumption DEF NewSession, Goto, Fail, miner, main, threads, ui,
    world
<1>4. CASE ResetStats
  BY <1>4, BoundsAssumption DEF ResetStats, Goto, Fail, miner, main, threads, ui,
    world
<1>5. CASE Spawn
  BY <1>5, BoundsAssumption DEF Spawn, Goto, miner, main, threads, ui, world
<1>6. CASE SpawnFails
  BY <1>6, BoundsAssumption DEF SpawnFails, Fail, miner, main, threads, ui, world
<1>7. CASE Run
  BY <1>7, BoundsAssumption DEF Run, Goto, miner, main, threads, ui, world
<1>8. CASE Store
  BY <1>8, BoundsAssumption DEF Store, Done, Answer, miner, main, threads, ui, world
<1>9. CASE KillProcess
  BY <1>9, BoundsAssumption DEF KillProcess, Goto, miner, main, threads, ui, world
<1>10. CASE ClearSession
  BY <1>10, BoundsAssumption DEF ClearSession, Goto, Done, Answer, miner, main,
    threads, ui, world
<1>11. CASE Latch
  BY <1>11, BoundsAssumption DEF Latch, Goto, Fail, Exit, miner, main, threads, ui,
    world
<1>12. CASE TrayStop
  BY <1>12, BoundsAssumption DEF TrayStop, BeginStop, Pending, miner, main,
    threads, ui, world
<1>13. CASE Quit
  BY <1>13, BoundsAssumption DEF Quit, BeginStop, miner, main, threads, ui, world
<1>14. CASE PagePolls
  BY <1>14, BoundsAssumption DEF PagePolls, miner, main, threads, ui, world
<1>15. ASSUME NEW f \in Flows, PressStart(f) PROVE Fresh'
  BY <1>15, BoundsAssumption DEF PressStart, PageGoes, miner, main, threads, ui,
    world
<1>16. ASSUME NEW f \in Flows, PressStop(f) PROVE Fresh'
  BY <1>16, BoundsAssumption DEF PressStop, PageGoes, miner, main, threads, ui,
    world
<1>17. ASSUME NEW f \in Flows, ClearUserStop(f) PROVE Fresh'
  BY <1>17, BoundsAssumption DEF ClearUserStop, PageGoes, miner, main, threads, ui,
    world
<1>18. ASSUME NEW f \in Flows, StartCommand(f) PROVE Fresh'
  BY <1>18, BoundsAssumption DEF StartCommand, PageGoes, miner, main, threads, ui,
    world
<1>19. ASSUME NEW f \in Flows, StopCommand(f) PROVE Fresh'
  BY <1>19, BoundsAssumption DEF StopCommand, BeginStop, Pending, miner, main,
    threads, ui, world
<1>20. ASSUME NEW f \in Flows, PageAnswered(f) PROVE Fresh'
  BY <1>20, BoundsAssumption DEF PageAnswered, PageGoes, miner, main, threads, ui,
    world
<1>21. ASSUME NEW s \in Sessions, ReaperCheck(s), Thread(s) PROVE Fresh'
  BY <1>21, BoundsAssumption DEF Thread, ReaperCheck, ReaperGoes, Stale, miner,
    main, threads, ui, world
<1>22. ASSUME NEW s \in Sessions, ReaperLooks(s), Thread(s) PROVE Fresh'
  BY <1>22, BoundsAssumption DEF Thread, ReaperLooks, ReaperGoes, Usurp, Overtaken,
    Stale, miner, main, threads, ui, world
<1>23. ASSUME NEW s \in Sessions, ReaperConfirms(s), Thread(s) PROVE Fresh'
  BY <1>23, BoundsAssumption DEF Thread, ReaperConfirms, ReaperGoes, Stale, miner,
    main, threads, ui, world
<1>24. ASSUME NEW s \in Sessions, ReaperClears(s), Thread(s) PROVE Fresh'
  BY <1>24, BoundsAssumption DEF Thread, ReaperClears, ReaperGoes, Usurp,
    Overtaken, Stale, miner, main, threads, ui, world
<1>25. ASSUME NEW s \in Sessions, ReaperResets(s), Thread(s) PROVE Fresh'
  BY <1>25, BoundsAssumption DEF Thread, ReaperResets, ReaperGoes, Usurp,
    Overtaken, Stale, miner, main, threads, ui, world
<1>26. ASSUME NEW s \in Sessions, PollerFetches(s), Thread(s) PROVE Fresh'
  BY <1>26, BoundsAssumption DEF Thread, PollerFetches, PollerGoes, Stale, miner,
    main, threads, ui, world
<1>27. ASSUME NEW s \in Sessions, PollerConfirms(s), Thread(s) PROVE Fresh'
  BY <1>27, BoundsAssumption DEF Thread, PollerConfirms, PollerGoes, Stale, miner,
    main, threads, ui, world
<1>28. ASSUME NEW s \in Sessions, PollerWrites(s), Thread(s) PROVE Fresh'
  BY <1>28, BoundsAssumption DEF Thread, PollerWrites, PollerGoes, Usurp,
    Overtaken, Stale, miner, main, threads, ui, world
<1>29. ASSUME NEW s \in Sessions, ProcessExits(s) PROVE Fresh'
  BY <1>29, BoundsAssumption DEF ProcessExits, miner, main, threads, ui, world
<1>30. CASE UNCHANGED vars
  BY <1>30 DEF vars, miner, main, threads, ui, world
<1> QED
  BY <1>1, <1>2, <1>3, <1>4, <1>5, <1>6, <1>7, <1>8, <1>9, <1>10, <1>11, <1>12,
    <1>13, <1>14, <1>15, <1>16, <1>17, <1>18, <1>19, <1>20, <1>21, <1>22, <1>23,
      <1>24, <1>25, <1>26, <1>27, <1>28, <1>29, <1>30
  DEF Next, MainStep, Press, Command, Thread, ReaperStep, PollerStep

\* ... and every live process in reach.
LEMMA NoOrphanStep ==
  ASSUME TypeOK, Fresh, NoOrphan, [Next]_vars
  PROVE  NoOrphan'
<1> USE DEF MinerOK, WorldOK, TypeOK, Fresh, NoOrphan, None, Sessions
<1>1. CASE StartCheck
  BY <1>1, BoundsAssumption DEF StartCheck, Goto, Fail, miner, main, threads, ui,
    world
<1>2. CASE KillLeftover
  BY <1>2, BoundsAssumption DEF KillLeftover, Goto, Fail, miner, main, threads, ui,
    world
<1>3. CASE NewSession
  BY <1>3, BoundsAssumption DEF NewSession, Goto, Fail, miner, main, threads, ui,
    world
<1>4. CASE ResetStats
  BY <1>4, BoundsAssumption DEF ResetStats, Goto, Fail, miner, main, threads, ui,
    world
<1>5. CASE Spawn
  BY <1>5, BoundsAssumption DEF Spawn, Goto, miner, main, threads, ui, world
<1>6. CASE SpawnFails
  BY <1>6, BoundsAssumption DEF SpawnFails, Fail, miner, main, threads, ui, world
<1>7. CASE Run
  BY <1>7, BoundsAssumption DEF Run, Goto, miner, main, threads, ui, world
<1>8. CASE Store
  BY <1>8, BoundsAssumption DEF Store, Done, Answer, miner, main, threads, ui, world
<1>9. CASE KillProcess
  BY <1>9, BoundsAssumption DEF KillProcess, Goto, miner, main, threads, ui, world
<1>10. CASE ClearSession
  BY <1>10, BoundsAssumption DEF ClearSession, Goto, Done, Answer, miner, main,
    threads, ui, world
<1>11. CASE Latch
  BY <1>11, BoundsAssumption DEF Latch, Goto, Fail, Exit, miner, main, threads, ui,
    world
<1>12. CASE TrayStop
  BY <1>12, BoundsAssumption DEF TrayStop, BeginStop, Pending, miner, main,
    threads, ui, world
<1>13. CASE Quit
  BY <1>13, BoundsAssumption DEF Quit, BeginStop, miner, main, threads, ui, world
<1>14. CASE PagePolls
  BY <1>14, BoundsAssumption DEF PagePolls, miner, main, threads, ui, world
<1>15. ASSUME NEW f \in Flows, PressStart(f) PROVE NoOrphan'
  BY <1>15, BoundsAssumption DEF PressStart, PageGoes, miner, main, threads, ui,
    world
<1>16. ASSUME NEW f \in Flows, PressStop(f) PROVE NoOrphan'
  BY <1>16, BoundsAssumption DEF PressStop, PageGoes, miner, main, threads, ui,
    world
<1>17. ASSUME NEW f \in Flows, ClearUserStop(f) PROVE NoOrphan'
  BY <1>17, BoundsAssumption DEF ClearUserStop, PageGoes, miner, main, threads, ui,
    world
<1>18. ASSUME NEW f \in Flows, StartCommand(f) PROVE NoOrphan'
  BY <1>18, BoundsAssumption DEF StartCommand, PageGoes, miner, main, threads, ui,
    world
<1>19. ASSUME NEW f \in Flows, StopCommand(f) PROVE NoOrphan'
  BY <1>19, BoundsAssumption DEF StopCommand, BeginStop, Pending, miner, main,
    threads, ui, world
<1>20. ASSUME NEW f \in Flows, PageAnswered(f) PROVE NoOrphan'
  BY <1>20, BoundsAssumption DEF PageAnswered, PageGoes, miner, main, threads, ui,
    world
<1>21. ASSUME NEW s \in Sessions, ReaperCheck(s), Thread(s) PROVE NoOrphan'
  BY <1>21, BoundsAssumption DEF Thread, ReaperCheck, ReaperGoes, Stale, miner,
    main, threads, ui, world
<1>22. ASSUME NEW s \in Sessions, ReaperLooks(s), Thread(s) PROVE NoOrphan'
  BY <1>22, BoundsAssumption DEF Thread, ReaperLooks, ReaperGoes, Usurp, Overtaken,
    Stale, miner, main, threads, ui, world
<1>23. ASSUME NEW s \in Sessions, ReaperConfirms(s), Thread(s) PROVE NoOrphan'
  BY <1>23, BoundsAssumption DEF Thread, ReaperConfirms, ReaperGoes, Stale, miner,
    main, threads, ui, world
<1>24. ASSUME NEW s \in Sessions, ReaperClears(s), Thread(s) PROVE NoOrphan'
  BY <1>24, BoundsAssumption DEF Thread, ReaperClears, ReaperGoes, Usurp,
    Overtaken, Stale, miner, main, threads, ui, world
<1>25. ASSUME NEW s \in Sessions, ReaperResets(s), Thread(s) PROVE NoOrphan'
  BY <1>25, BoundsAssumption DEF Thread, ReaperResets, ReaperGoes, Usurp,
    Overtaken, Stale, miner, main, threads, ui, world
<1>26. ASSUME NEW s \in Sessions, PollerFetches(s), Thread(s) PROVE NoOrphan'
  BY <1>26, BoundsAssumption DEF Thread, PollerFetches, PollerGoes, Stale, miner,
    main, threads, ui, world
<1>27. ASSUME NEW s \in Sessions, PollerConfirms(s), Thread(s) PROVE NoOrphan'
  BY <1>27, BoundsAssumption DEF Thread, PollerConfirms, PollerGoes, Stale, miner,
    main, threads, ui, world
<1>28. ASSUME NEW s \in Sessions, PollerWrites(s), Thread(s) PROVE NoOrphan'
  BY <1>28, BoundsAssumption DEF Thread, PollerWrites, PollerGoes, Usurp,
    Overtaken, Stale, miner, main, threads, ui, world
<1>29. ASSUME NEW s \in Sessions, ProcessExits(s) PROVE NoOrphan'
  BY <1>29, BoundsAssumption DEF ProcessExits, miner, main, threads, ui, world
<1>30. CASE UNCHANGED vars
  BY <1>30 DEF vars, miner, main, threads, ui, world
<1> QED
  BY <1>1, <1>2, <1>3, <1>4, <1>5, <1>6, <1>7, <1>8, <1>9, <1>10, <1>11, <1>12,
    <1>13, <1>14, <1>15, <1>16, <1>17, <1>18, <1>19, <1>20, <1>21, <1>22, <1>23,
      <1>24, <1>25, <1>26, <1>27, <1>28, <1>29, <1>30
  DEF Next, MainStep, Press, Command, Thread, ReaperStep, PollerStep

\* ... and what a reaper past its look at the process knows.
LEMMA ReapersStep ==
  ASSUME TypeOK, Fresh, NoOrphan, ReapersOK, [Next]_vars
  PROVE  ReapersOK'
<1> USE DEF MinerOK, WorldOK, ThreadsOK, TypeOK, Fresh, NoOrphan, ReapersOK, None,
  Sessions
<1>1. CASE StartCheck
  BY <1>1, BoundsAssumption DEF StartCheck, Goto, Fail, miner, main, threads, ui,
    world
<1>2. CASE KillLeftover
  BY <1>2, BoundsAssumption DEF KillLeftover, Goto, Fail, miner, main, threads, ui,
    world
<1>3. CASE NewSession
  BY <1>3, BoundsAssumption DEF NewSession, Goto, Fail, miner, main, threads, ui,
    world
<1>4. CASE ResetStats
  BY <1>4, BoundsAssumption DEF ResetStats, Goto, Fail, miner, main, threads, ui,
    world
<1>5. CASE Spawn
  BY <1>5, BoundsAssumption DEF Spawn, Goto, miner, main, threads, ui, world
<1>6. CASE SpawnFails
  BY <1>6, BoundsAssumption DEF SpawnFails, Fail, miner, main, threads, ui, world
<1>7. CASE Run
  BY <1>7, BoundsAssumption DEF Run, Goto, miner, main, threads, ui, world
<1>8. CASE Store
  BY <1>8, BoundsAssumption DEF Store, Done, Answer, miner, main, threads, ui, world
<1>9. CASE KillProcess
  BY <1>9, BoundsAssumption DEF KillProcess, Goto, miner, main, threads, ui, world
<1>10. CASE ClearSession
  BY <1>10, BoundsAssumption DEF ClearSession, Goto, Done, Answer, miner, main,
    threads, ui, world
<1>11. CASE Latch
  BY <1>11, BoundsAssumption DEF Latch, Goto, Fail, Exit, miner, main, threads, ui,
    world
<1>12. CASE TrayStop
  BY <1>12, BoundsAssumption DEF TrayStop, BeginStop, Pending, miner, main,
    threads, ui, world
<1>13. CASE Quit
  BY <1>13, BoundsAssumption DEF Quit, BeginStop, miner, main, threads, ui, world
<1>14. CASE PagePolls
  BY <1>14, BoundsAssumption DEF PagePolls, miner, main, threads, ui, world
<1>15. ASSUME NEW f \in Flows, PressStart(f) PROVE ReapersOK'
  BY <1>15, BoundsAssumption DEF PressStart, PageGoes, miner, main, threads, ui,
    world
<1>16. ASSUME NEW f \in Flows, PressStop(f) PROVE ReapersOK'
  BY <1>16, BoundsAssumption DEF PressStop, PageGoes, miner, main, threads, ui,
    world
<1>17. ASSUME NEW f \in Flows, ClearUserStop(f) PROVE ReapersOK'
  BY <1>17, BoundsAssumption DEF ClearUserStop, PageGoes, miner, main, threads, ui,
    world
<1>18. ASSUME NEW f \in Flows, StartCommand(f) PROVE ReapersOK'
  BY <1>18, BoundsAssumption DEF StartCommand, PageGoes, miner, main, threads, ui,
    world
<1>19. ASSUME NEW f \in Flows, StopCommand(f) PROVE ReapersOK'
  BY <1>19, BoundsAssumption DEF StopCommand, BeginStop, Pending, miner, main,
    threads, ui, world
<1>20. ASSUME NEW f \in Flows, PageAnswered(f) PROVE ReapersOK'
  BY <1>20, BoundsAssumption DEF PageAnswered, PageGoes, miner, main, threads, ui,
    world
<1>21. ASSUME NEW s \in Sessions, ReaperCheck(s), Thread(s) PROVE ReapersOK'
  BY <1>21, BoundsAssumption DEF Thread, ReaperCheck, ReaperGoes, Stale, miner,
    main, threads, ui, world
<1>22. ASSUME NEW s \in Sessions, ReaperLooks(s), Thread(s) PROVE ReapersOK'
  BY <1>22, BoundsAssumption DEF Thread, ReaperLooks, ReaperGoes, Usurp, Overtaken,
    Stale, miner, main, threads, ui, world
<1>23. ASSUME NEW s \in Sessions, ReaperConfirms(s), Thread(s) PROVE ReapersOK'
  BY <1>23, BoundsAssumption DEF Thread, ReaperConfirms, ReaperGoes, Stale, miner,
    main, threads, ui, world
<1>24. ASSUME NEW s \in Sessions, ReaperClears(s), Thread(s) PROVE ReapersOK'
  BY <1>24, BoundsAssumption DEF Thread, ReaperClears, ReaperGoes, Usurp,
    Overtaken, Stale, miner, main, threads, ui, world
<1>25. ASSUME NEW s \in Sessions, ReaperResets(s), Thread(s) PROVE ReapersOK'
  BY <1>25, BoundsAssumption DEF Thread, ReaperResets, ReaperGoes, Usurp,
    Overtaken, Stale, miner, main, threads, ui, world
<1>26. ASSUME NEW s \in Sessions, PollerFetches(s), Thread(s) PROVE ReapersOK'
  BY <1>26, BoundsAssumption DEF Thread, PollerFetches, PollerGoes, Stale, miner,
    main, threads, ui, world
<1>27. ASSUME NEW s \in Sessions, PollerConfirms(s), Thread(s) PROVE ReapersOK'
  BY <1>27, BoundsAssumption DEF Thread, PollerConfirms, PollerGoes, Stale, miner,
    main, threads, ui, world
<1>28. ASSUME NEW s \in Sessions, PollerWrites(s), Thread(s) PROVE ReapersOK'
  BY <1>28, BoundsAssumption DEF Thread, PollerWrites, PollerGoes, Usurp,
    Overtaken, Stale, miner, main, threads, ui, world
<1>29. ASSUME NEW s \in Sessions, ProcessExits(s) PROVE ReapersOK'
  BY <1>29, BoundsAssumption DEF ProcessExits, miner, main, threads, ui, world
<1>30. CASE UNCHANGED vars
  BY <1>30 DEF vars, miner, main, threads, ui, world
<1> QED
  BY <1>1, <1>2, <1>3, <1>4, <1>5, <1>6, <1>7, <1>8, <1>9, <1>10, <1>11, <1>12,
    <1>13, <1>14, <1>15, <1>16, <1>17, <1>18, <1>19, <1>20, <1>21, <1>22, <1>23,
      <1>24, <1>25, <1>26, <1>27, <1>28, <1>29, <1>30
  DEF Next, MainStep, Press, Command, Thread, ReaperStep, PollerStep

\* ... and that running tells the truth, as long as no overtaken reaper interferes.
LEMMA ControlledStep ==
  ASSUME TypeOK, Labels, Fresh, NoOrphan, ReapersOK, Controlled, [Next]_vars
  PROVE  Controlled'
<1> USE DEF MinerOK, WorldOK, ThreadsOK, TypeOK, Labels, Starting, Fresh, NoOrphan,
  ReapersOK, Controlled, None, Sessions
<1>1. CASE StartCheck
  BY <1>1, BoundsAssumption DEF StartCheck, Goto, Fail, miner, main, threads, ui,
    world
<1>2. CASE KillLeftover
  BY <1>2, BoundsAssumption DEF KillLeftover, Goto, Fail, miner, main, threads, ui,
    world
<1>3. CASE NewSession
  BY <1>3, BoundsAssumption DEF NewSession, Goto, Fail, miner, main, threads, ui,
    world
<1>4. CASE ResetStats
  BY <1>4, BoundsAssumption DEF ResetStats, Goto, Fail, miner, main, threads, ui,
    world
<1>5. CASE Spawn
  BY <1>5, BoundsAssumption DEF Spawn, Goto, miner, main, threads, ui, world
<1>6. CASE SpawnFails
  <2>1. alive = {}
    BY <1>6, BoundsAssumption DEF SpawnFails, Fail, miner, main, threads, ui, world
  <2>2. Controlled'
    BY <1>6, BoundsAssumption, <2>1 DEF SpawnFails, Fail, miner, main, threads, ui,
      world
  <2> QED
    BY <2>1, <2>2
<1>7. CASE Run
  BY <1>7, BoundsAssumption DEF Run, Goto, miner, main, threads, ui, world
<1>8. CASE Store
  BY <1>8, BoundsAssumption DEF Store, Done, Answer, miner, main, threads, ui, world
<1>9. CASE KillProcess
  BY <1>9, BoundsAssumption DEF KillProcess, Goto, miner, main, threads, ui, world
<1>10. CASE ClearSession
  BY <1>10, BoundsAssumption DEF ClearSession, Goto, Done, Answer, miner, main,
    threads, ui, world
<1>11. CASE Latch
  BY <1>11, BoundsAssumption DEF Latch, Goto, Fail, Exit, miner, main, threads, ui,
    world
<1>12. CASE TrayStop
  BY <1>12, BoundsAssumption DEF TrayStop, BeginStop, Pending, miner, main,
    threads, ui, world
<1>13. CASE Quit
  BY <1>13, BoundsAssumption DEF Quit, BeginStop, miner, main, threads, ui, world
<1>14. CASE PagePolls
  BY <1>14, BoundsAssumption DEF PagePolls, miner, main, threads, ui, world
<1>15. ASSUME NEW f \in Flows, PressStart(f) PROVE Controlled'
  BY <1>15, BoundsAssumption DEF PressStart, PageGoes, miner, main, threads, ui,
    world
<1>16. ASSUME NEW f \in Flows, PressStop(f) PROVE Controlled'
  BY <1>16, BoundsAssumption DEF PressStop, PageGoes, miner, main, threads, ui,
    world
<1>17. ASSUME NEW f \in Flows, ClearUserStop(f) PROVE Controlled'
  BY <1>17, BoundsAssumption DEF ClearUserStop, PageGoes, miner, main, threads, ui,
    world
<1>18. ASSUME NEW f \in Flows, StartCommand(f) PROVE Controlled'
  BY <1>18, BoundsAssumption DEF StartCommand, PageGoes, miner, main, threads, ui,
    world
<1>19. ASSUME NEW f \in Flows, StopCommand(f) PROVE Controlled'
  BY <1>19, BoundsAssumption DEF StopCommand, BeginStop, Pending, miner, main,
    threads, ui, world
<1>20. ASSUME NEW f \in Flows, PageAnswered(f) PROVE Controlled'
  BY <1>20, BoundsAssumption DEF PageAnswered, PageGoes, miner, main, threads, ui,
    world
<1>21. ASSUME NEW s \in Sessions, ReaperCheck(s), Thread(s) PROVE Controlled'
  BY <1>21, BoundsAssumption DEF Thread, ReaperCheck, ReaperGoes, Stale, miner,
    main, threads, ui, world
<1>22. ASSUME NEW s \in Sessions, ReaperLooks(s), Thread(s) PROVE Controlled'
  BY <1>22, BoundsAssumption DEF Thread, ReaperLooks, ReaperGoes, Usurp, Overtaken,
    Stale, miner, main, threads, ui, world
<1>23. ASSUME NEW s \in Sessions, ReaperConfirms(s), Thread(s) PROVE Controlled'
  BY <1>23, BoundsAssumption DEF Thread, ReaperConfirms, ReaperGoes, Stale, miner,
    main, threads, ui, world
<1>24. ASSUME NEW s \in Sessions, ReaperClears(s), Thread(s) PROVE Controlled'
  <2>1. launched <= s => alive = {}
    BY <1>24, BoundsAssumption DEF Thread, ReaperClears, ReaperGoes, Usurp,
      Overtaken, Stale, miner, main, threads, ui, world
  <2>2. launched > s => "running" \in usurped'
    BY <1>24 DEF Thread, ReaperClears, Usurp, Overtaken
  <2>3. alive' = alive /\ launched' = launched
    BY <1>24 DEF Thread, world
  <2>4. (launched > s) \/ launched <= s
    BY BoundsAssumption
  <2>5. Controlled'
    BY <2>1, <2>2, <2>3, <2>4, Zenon
  <2> QED
    BY <2>1, <2>2, <2>3, <2>4, <2>5
<1>25. ASSUME NEW s \in Sessions, ReaperResets(s), Thread(s) PROVE Controlled'
  BY <1>25, BoundsAssumption DEF Thread, ReaperResets, ReaperGoes, Usurp,
    Overtaken, Stale, miner, main, threads, ui, world
<1>26. ASSUME NEW s \in Sessions, PollerFetches(s), Thread(s) PROVE Controlled'
  BY <1>26, BoundsAssumption DEF Thread, PollerFetches, PollerGoes, Stale, miner,
    main, threads, ui, world
<1>27. ASSUME NEW s \in Sessions, PollerConfirms(s), Thread(s) PROVE Controlled'
  BY <1>27, BoundsAssumption DEF Thread, PollerConfirms, PollerGoes, Stale, miner,
    main, threads, ui, world
<1>28. ASSUME NEW s \in Sessions, PollerWrites(s), Thread(s) PROVE Controlled'
  BY <1>28, BoundsAssumption DEF Thread, PollerWrites, PollerGoes, Usurp,
    Overtaken, Stale, miner, main, threads, ui, world
<1>29. ASSUME NEW s \in Sessions, ProcessExits(s) PROVE Controlled'
  BY <1>29, BoundsAssumption DEF ProcessExits, miner, main, threads, ui, world
<1>30. CASE UNCHANGED vars
  BY <1>30 DEF vars, miner, main, threads, ui, world
<1> QED
  BY <1>1, <1>2, <1>3, <1>4, <1>5, <1>6, <1>7, <1>8, <1>9, <1>10, <1>11, <1>12,
    <1>13, <1>14, <1>15, <1>16, <1>17, <1>18, <1>19, <1>20, <1>21, <1>22, <1>23,
      <1>24, <1>25, <1>26, <1>27, <1>28, <1>29, <1>30
  DEF Next, MainStep, Press, Command, Thread, ReaperStep, PollerStep

\* ... and a Stop in force.
LEMMA QuietStep ==
  ASSUME TypeOK, Labels, NoOrphan, Controlled, Quiet, Controlled', Labels',
  [Next]_vars
  PROVE  Quiet'
<1> USE DEF MainOK, PageOK, WorldOK, TypeOK, Labels, Starting, Stopping, NoOrphan,
  Controlled, Quiet, Pending
<1>1. CASE StartCheck
  BY <1>1, FlowsAssumption DEF StartCheck, Goto, Fail, miner, main, threads, ui,
    world
<1>2. CASE KillLeftover
  BY <1>2, FlowsAssumption DEF KillLeftover, Goto, Fail, miner, main, threads, ui,
    world
<1>3. CASE NewSession
  BY <1>3, FlowsAssumption DEF NewSession, Goto, Fail, miner, main, threads, ui,
    world
<1>4. CASE ResetStats
  BY <1>4, FlowsAssumption DEF ResetStats, Goto, Fail, miner, main, threads, ui,
    world
<1>5. CASE Spawn
  BY <1>5, FlowsAssumption DEF Spawn, Goto, miner, main, threads, ui, world
<1>6. CASE SpawnFails
  BY <1>6, FlowsAssumption DEF SpawnFails, Fail, miner, main, threads, ui, world
<1>7. CASE Run
  BY <1>7, FlowsAssumption DEF Run, Goto, miner, main, threads, ui, world
<1>8. CASE Store
  BY <1>8, FlowsAssumption DEF Store, Done, Answer, miner, main, threads, ui, world
<1>9. CASE KillProcess
  BY <1>9, FlowsAssumption DEF KillProcess, Goto, miner, main, threads, ui, world
<1>10. CASE ClearSession
  BY <1>10, FlowsAssumption DEF ClearSession, Goto, Done, Answer, miner, main,
    threads, ui, world
<1>11. CASE Latch
  BY <1>11, FlowsAssumption DEF Latch, Goto, Fail, Exit, miner, main, threads, ui,
    world
<1>12. CASE TrayStop
  BY <1>12, FlowsAssumption DEF TrayStop, BeginStop, Pending, miner, main, threads,
    ui, world
<1>13. CASE Quit
  BY <1>13, FlowsAssumption DEF Quit, BeginStop, miner, main, threads, ui, world
<1>14. CASE PagePolls
  BY <1>14, FlowsAssumption DEF PagePolls, miner, main, threads, ui, world
<1>15. ASSUME NEW f \in Flows, PressStart(f) PROVE Quiet'
  BY <1>15, FlowsAssumption DEF PressStart, PageGoes, miner, main, threads, ui,
    world
<1>16. ASSUME NEW f \in Flows, PressStop(f) PROVE Quiet'
  BY <1>16, FlowsAssumption DEF PressStop, PageGoes, miner, main, threads, ui, world
<1>17. ASSUME NEW f \in Flows, ClearUserStop(f) PROVE Quiet'
  BY <1>17, FlowsAssumption DEF ClearUserStop, PageGoes, miner, main, threads, ui,
    world
<1>18. ASSUME NEW f \in Flows, StartCommand(f) PROVE Quiet'
  BY <1>18, FlowsAssumption DEF StartCommand, PageGoes, miner, main, threads, ui,
    world
<1>19. ASSUME NEW f \in Flows, StopCommand(f) PROVE Quiet'
  BY <1>19, FlowsAssumption DEF StopCommand, BeginStop, Pending, miner, main,
    threads, ui, world
<1>20. ASSUME NEW f \in Flows, PageAnswered(f) PROVE Quiet'
  BY <1>20, FlowsAssumption DEF PageAnswered, PageGoes, miner, main, threads, ui,
    world
<1>21. ASSUME NEW s \in Sessions, ReaperCheck(s), Thread(s) PROVE Quiet'
  BY <1>21, FlowsAssumption DEF Thread, ReaperCheck, ReaperGoes, Stale, miner,
    main, threads, ui, world
<1>22. ASSUME NEW s \in Sessions, ReaperLooks(s), Thread(s) PROVE Quiet'
  BY <1>22, FlowsAssumption DEF Thread, ReaperLooks, ReaperGoes, Usurp, Overtaken,
    Stale, miner, main, threads, ui, world
<1>23. ASSUME NEW s \in Sessions, ReaperConfirms(s), Thread(s) PROVE Quiet'
  BY <1>23, FlowsAssumption DEF Thread, ReaperConfirms, ReaperGoes, Stale, miner,
    main, threads, ui, world
<1>24. ASSUME NEW s \in Sessions, ReaperClears(s), Thread(s) PROVE Quiet'
  BY <1>24, FlowsAssumption DEF Thread, ReaperClears, ReaperGoes, Usurp, Overtaken,
    Stale, miner, main, threads, ui, world
<1>25. ASSUME NEW s \in Sessions, ReaperResets(s), Thread(s) PROVE Quiet'
  BY <1>25, FlowsAssumption DEF Thread, ReaperResets, ReaperGoes, Usurp, Overtaken,
    Stale, miner, main, threads, ui, world
<1>26. ASSUME NEW s \in Sessions, PollerFetches(s), Thread(s) PROVE Quiet'
  BY <1>26, FlowsAssumption DEF Thread, PollerFetches, PollerGoes, Stale, miner,
    main, threads, ui, world
<1>27. ASSUME NEW s \in Sessions, PollerConfirms(s), Thread(s) PROVE Quiet'
  BY <1>27, FlowsAssumption DEF Thread, PollerConfirms, PollerGoes, Stale, miner,
    main, threads, ui, world
<1>28. ASSUME NEW s \in Sessions, PollerWrites(s), Thread(s) PROVE Quiet'
  BY <1>28, FlowsAssumption DEF Thread, PollerWrites, PollerGoes, Usurp, Overtaken,
    Stale, miner, main, threads, ui, world
<1>29. ASSUME NEW s \in Sessions, ProcessExits(s) PROVE Quiet'
  BY <1>29, FlowsAssumption DEF ProcessExits, miner, main, threads, ui, world
<1>30. CASE UNCHANGED vars
  BY <1>30 DEF vars, miner, main, threads, ui, world
<1> QED
  BY <1>1, <1>2, <1>3, <1>4, <1>5, <1>6, <1>7, <1>8, <1>9, <1>10, <1>11, <1>12,
    <1>13, <1>14, <1>15, <1>16, <1>17, <1>18, <1>19, <1>20, <1>21, <1>22, <1>23,
      <1>24, <1>25, <1>26, <1>27, <1>28, <1>29, <1>30
  DEF Next, MainStep, Press, Command, Thread, ReaperStep, PollerStep

-----------------------------------------------------------------------------
(* The theorems. *)

\* The invariant holds at the start.
LEMMA InitHolds == Init => IInv
<1> SUFFICES ASSUME Init PROVE IInv
  OBVIOUS
<1> USE DEF Init, None, Sessions
<1>1. sessionGen \in 0..MaxSession /\ slot \in 0..MaxSession /\ launched \in 0..MaxSession
  BY BoundsAssumption
<1>2. requests \in Nat /\ exits \in Nat
  OBVIOUS
<1>3. MainOK /\ PageOK
  BY DEF MainOK, PageOK, PCs, MainOps, PagePCs
<1>4. ThreadsOK
  BY DEF ThreadsOK, ThreadPCs
<1>5. Labels /\ Fresh
  BY DEF Labels, Fresh, Starting
<1>6. MinerOK /\ WorldOK
  BY <1>1, <1>2, Zenon DEF MinerOK, WorldOK
<1>7. NoOrphan /\ ReapersOK /\ Controlled /\ Quiet
  BY DEF NoOrphan, ReapersOK, Controlled, Quiet
<1> QED
  BY <1>3, <1>4, <1>5, <1>6, <1>7 DEF IInv, TypeOK

\* IInv is an inductive invariant of the desktop miner: it holds in every reachable
\* state, and the theorems below are read off it.
THEOREM Inductive == Spec => []IInv
<1>1. IInv /\ [Next]_vars => IInv'
  BY TypeStep, LabelsStep, FreshStep, NoOrphanStep, ReapersStep, ControlledStep,
     QuietStep DEF IInv
<1> QED
  BY InitHolds, <1>1, PTL DEF Spec

\* Type correctness of the desktop miner.
THEOREM TypeCorrect == Spec => []TypeOK
<1>1. IInv => TypeOK
  BY DEF IInv
<1> QED
  BY Inductive, <1>1, PTL

\* No XMRig process is ever lost: it is in the slot that Stop, Quit and the next Start
\* empty, or the main thread is about to put it there.
THEOREM NothingOrphaned == Spec => []NoOrphan
<1>1. IInv => NoOrphan
  BY DEF IInv
<1> QED
  BY Inductive, <1>1, PTL

\* A Stop that no click overrules is final.
THEOREM StopHolds == Spec => []StopIsFinal
<1>1. IInv => StopIsFinal
  BY DEF IInv, Quiet, StopIsFinal, Starting
<1> QED
  BY Inductive, <1>1, PTL

\* Quitting leaves no process behind.
THEOREM QuitHolds == Spec => []QuitLeavesNothing
<1>1. IInv => QuitLeavesNothing
  BY DEF IInv, Controlled, QuitLeavesNothing
<1> QED
  BY Inductive, <1>1, PTL

-----------------------------------------------------------------------------
(* Between handlers the backend tells the truth. *)

\* A number is taken out of use only when the slot is empty, or to be emptied.
SlotCurrent == pc = "kill" \/ slot \in {None, sessionGen}

\* The figures are those of the newest session launched, and none while the next one
\* is launched, unless an older poller has written after its last check.
FiguresOwn ==
  /\ alive \subseteq {launched}
  /\ \A s \in Sessions : poller[s] # "off" => s <= launched
  /\ "stats" \notin usurped => stats \subseteq {launched} /\ (pc = "spawn" => stats = {})

LEMMA SlotCurrentStep == ASSUME IInv, SlotCurrent, [Next]_vars PROVE SlotCurrent'
<1> USE DEF IInv, Fresh, SlotCurrent
<1>1. ASSUME StartCheck \/ KillLeftover \/ NewSession \/ ResetStats \/ Spawn \/ SpawnFails
      PROVE  SlotCurrent'
  BY <1>1 DEF StartCheck, KillLeftover, NewSession, ResetStats, Spawn, SpawnFails, Goto,
              Fail, miner
<1>2. ASSUME Run \/ Store \/ KillProcess \/ ClearSession \/ Latch PROVE SlotCurrent'
  BY <1>2 DEF Run, Store, KillProcess, ClearSession, Latch, Goto, Done, Fail, Exit, miner
<1>3. ASSUME TrayStop \/ Quit \/ \E f \in Flows : StopCommand(f) PROVE SlotCurrent'
  BY <1>3 DEF TrayStop, Quit, StopCommand, BeginStop
<1>4. ASSUME NEW s \in Sessions, Thread(s) PROVE SlotCurrent'
  BY <1>4 DEF Thread, ReaperStep, PollerStep, ReaperCheck, ReaperLooks, ReaperConfirms,
              ReaperClears, ReaperResets, PollerFetches, PollerConfirms, PollerWrites,
              miner, main
<1>5. ASSUME UNCHANGED <<sessionGen, slot>>, pc = "kill" => pc' = "kill"
      PROVE  SlotCurrent'
  BY <1>5
<1>6. [Next]_vars => \/ MainStep \/ TrayStop \/ Quit \/ \E f \in Flows : StopCommand(f)
                     \/ \E s \in Sessions : Thread(s)
                     \/ UNCHANGED <<sessionGen, slot>> /\ (pc = "kill" => pc' = "kill")
  BY DEF Next, vars, miner, main, PagePolls, Press, PressStart, PressStop, Command,
         ClearUserStop, StartCommand, PageAnswered, ProcessExits
<1> QED
  BY <1>1, <1>2, <1>3, <1>4, <1>5, <1>6 DEF MainStep

\* The step of a poller that writes: it is not overtaken, or it is noted.
LEMMA FiguresWrite ==
  ASSUME IInv, FiguresOwn, NEW s \in Sessions, PollerWrites(s), Thread(s)
  PROVE  FiguresOwn'
<1> USE DEF IInv, TypeOK, MinerOK, ThreadsOK, WorldOK, Sessions
<1>1. UNCHANGED <<alive, launched, pc, op>>
  BY DEF Thread, world, main
<1>2. \A r \in Sessions : poller'[r] # "off" => poller[r] # "off"
  BY DEF PollerWrites, PollerGoes
<1>3. s <= launched /\ stats' = {s}
  BY DEF PollerWrites, FiguresOwn
<1>4. "stats" \notin usurped' => s = launched /\ ~(Stale(s) /\ op = "start")
  BY <1>3, BoundsAssumption DEF PollerWrites, Usurp, Overtaken
<1>5. "stats" \notin usurped' => pc # "spawn"
  BY <1>4, BoundsAssumption DEF Stale, Labels, Starting, Fresh
<1> QED
  BY <1>1, <1>2, <1>3, <1>4, <1>5 DEF FiguresOwn

LEMMA FiguresStep == ASSUME IInv, FiguresOwn, [Next]_vars PROVE FiguresOwn'
<1> USE DEF FiguresOwn, Sessions
<1>1. CASE Spawn
  <2>1. alive = {} /\ launched <= sessionGen
    BY <1>1, BoundsAssumption DEF Spawn, IInv, TypeOK, WorldOK, Fresh, NoOrphan, None
  <2>2. UNCHANGED <<stats, poller, usurped>> /\ pc' = "run"
    BY <1>1 DEF Spawn, Goto, miner, threads
  <2>3. alive' = {sessionGen} /\ launched' = sessionGen
    BY <1>1, <2>1 DEF Spawn
  <2>4. \A s \in Sessions : poller'[s] # "off" => s <= launched'
    BY <2>1, <2>2, <2>3, BoundsAssumption DEF IInv, TypeOK, MinerOK, WorldOK
  <2> QED
    BY <1>1, <2>2, <2>3, <2>4 DEF Spawn
<1>2. CASE Run
  <2>1. \A s \in Sessions : poller'[s] # "off" => poller[s] # "off" \/ s = launched
    BY <1>2 DEF Run, IInv, TypeOK, ThreadsOK, Fresh
  <2> QED
    BY <1>2, <2>1, BoundsAssumption DEF Run, Goto, world, IInv, TypeOK, WorldOK
<1>3. ASSUME NEW s \in Sessions, PollerWrites(s), Thread(s) PROVE FiguresOwn'
  BY <1>3, FiguresWrite
<1>4. ASSUME alive' \subseteq alive, launched' = launched,
             \A s \in Sessions : poller'[s] # "off" => poller[s] # "off",
             usurped \subseteq usurped', stats' \subseteq stats,
             pc' = "spawn" => pc = "spawn" \/ stats' = {}
      PROVE  FiguresOwn'
  BY <1>4
<1>5. ASSUME StartCheck \/ KillLeftover \/ NewSession \/ ResetStats \/ SpawnFails
      PROVE  FiguresOwn'
  BY <1>4, <1>5 DEF StartCheck, KillLeftover, NewSession, ResetStats, SpawnFails, Goto,
                    Fail, miner, threads, world
<1>6. ASSUME Store \/ KillProcess \/ ClearSession \/ Latch PROVE FiguresOwn'
  BY <1>4, <1>6 DEF Store, KillProcess, ClearSession, Latch, Goto, Done, Fail, Exit,
                    miner, threads, world
<1>7. ASSUME TrayStop \/ Quit \/ \E f \in Flows : StopCommand(f) PROVE FiguresOwn'
  BY <1>4, <1>7 DEF TrayStop, Quit, StopCommand, BeginStop, threads, world
<1>8. ASSUME NEW f \in Flows, Press(f) \/ ClearUserStop(f) \/ StartCommand(f) \/ PageAnswered(f)
      PROVE  FiguresOwn'
  BY <1>4, <1>8 DEF Press, PressStart, PressStop, ClearUserStop, StartCommand,
                    PageAnswered, miner, main, threads, world
<1>9. ASSUME NEW s \in Sessions, Thread(s), ReaperStep(s) PROVE FiguresOwn'
  BY <1>4, <1>9 DEF Thread, ReaperStep, ReaperCheck, ReaperLooks, ReaperConfirms,
                    ReaperClears, ReaperResets, Usurp, miner, main, world
<1>10. ASSUME NEW s \in Sessions, Thread(s), PollerFetches(s) \/ PollerConfirms(s)
       PROVE  FiguresOwn'
  <2>1. \A r \in Sessions : poller'[r] # "off" => poller[r] # "off"
    BY <1>10 DEF PollerFetches, PollerConfirms, PollerGoes, IInv, TypeOK, ThreadsOK
  <2> QED
    BY <1>4, <1>10, <2>1 DEF Thread, PollerFetches, PollerConfirms, miner, main, world
<1>11. ASSUME PagePolls \/ UNCHANGED vars \/ \E s \in Sessions : ProcessExits(s)
       PROVE  FiguresOwn'
  BY <1>4, <1>11 DEF PagePolls, ProcessExits, vars, miner, main, threads, world
<1> QED
  BY <1>1, <1>2, <1>3, <1>5, <1>6, <1>7, <1>8, <1>9, <1>10, <1>11
     DEF Next, MainStep, Command, Thread, PollerStep

\* What is_mining and get_stats answer between handlers is true of the process that
\* the backend owns, for any number of sessions and exits, unless a late thread of an
\* older session has interfered.
THEOREM Truthful == Spec => []TruthfulState
<1>1. Init => SlotCurrent /\ FiguresOwn
  BY DEF Init, SlotCurrent, FiguresOwn, Sessions
<1>2. IInv /\ SlotCurrent /\ FiguresOwn => TruthfulState
  <2> SUFFICES ASSUME IInv, SlotCurrent, FiguresOwn, pc = "idle", usurped = {}
               PROVE  /\ alive # {} => /\ running /\ alive = {sessionGen}
                                       /\ stats \subseteq alive
                      /\ ~running => alive = {}
    BY DEF TruthfulState
  <2>1. alive # {} => running
    BY DEF IInv, Controlled
  <2>2. alive # {} => alive = {sessionGen}
    <3>1. alive \subseteq {slot}
      BY DEF IInv, NoOrphan
    <3>2. None \notin alive
      BY BoundsAssumption DEF IInv, TypeOK, WorldOK, None, Sessions
    <3>3. slot \in {None, sessionGen}
      BY DEF SlotCurrent
    <3> QED
      BY <3>1, <3>2, <3>3
  <2>3. alive # {} => stats \subseteq alive
    BY DEF FiguresOwn
  <2> QED
    BY <2>1, <2>2, <2>3
<1> QED
  BY Inductive, SlotCurrentStep, FiguresStep, <1>1, <1>2, PTL DEF Spec

-----------------------------------------------------------------------------
(* The backend implements OneProcess. *)

\* Where the slot is the only place for a process, emptying it leaves none.
LEMMA StepImplements ==
  ASSUME IInv, [Next]_vars
  PROVE  [Supervisor!Launch \/ Supervisor!End]_<<alive, launched>>
<1> USE DEF IInv, TypeOK, MinerOK, WorldOK, Fresh, NoOrphan, Supervisor!Launch,
            Supervisor!End, None, Sessions
<1>1. CASE KillLeftover
  BY <1>1, BoundsAssumption DEF KillLeftover, Goto, Fail, world
<1>2. CASE KillProcess
  BY <1>2, BoundsAssumption DEF KillProcess, Goto, world
<1>3. CASE Spawn
  <2>1. alive = {} /\ sessionGen \in Nat /\ sessionGen > launched
    BY <1>3, BoundsAssumption DEF Spawn
  <2>2. Supervisor!Launch
    BY <1>3, <2>1 DEF Spawn
  <2> QED
    BY <2>2
<1>4. ASSUME NEW s \in Sessions,
  ProcessExits(s) PROVE [Supervisor!Launch \/ Supervisor!End]_<<alive, launched>>
  BY <1>4 DEF ProcessExits
<1>5. CASE UNCHANGED world
  BY <1>5 DEF world
<1>6. [Next]_vars => \/ UNCHANGED world \/ KillLeftover \/ KillProcess \/ Spawn
                       \/ \E s \in Sessions : ProcessExits(s)
  BY DEF Next, vars, MainStep, Press, Command, Thread, BeginStop,
         StartCheck, NewSession, ResetStats, SpawnFails, Run, Store, ClearSession,
         Latch, TrayStop, Quit, PagePolls, PressStart, PressStop, ClearUserStop,
         StartCommand, StopCommand, PageAnswered
<1> QED
  BY <1>1, <1>2, <1>3, <1>4, <1>5, <1>6

\* The desktop backend implements OneProcess: never two XMRig processes at once, and
\* session numbers that only grow.
THEOREM Implements == Spec => SupervisorSpec
<1>1. Init => Supervisor!Init
  BY DEF Init, Supervisor!Init
<1>2. IInv /\ [Next]_vars => [Supervisor!Launch \/ Supervisor!End]_(Supervisor!vars)
  BY StepImplements DEF Supervisor!vars
<1> QED
  BY Inductive, <1>1, <1>2, PTL DEF Spec, SupervisorSpec, Supervisor!Spec
=============================================================================
