----------------------------- MODULE DesktopMiner -----------------------------
(***************************************************************************)
(* The desktop miner: the Tauri backend that owns the XMRig process, the   *)
(* threads it starts for each session, and the page that commands it.      *)
(*                                                                         *)
(*   MinerState (miner.rs)     sessionGen, running, slot, stats            *)
(*   SessionPrefs (main.rs)    userStopped                                 *)
(*   the main thread           pc, op, who: commands, tray and close       *)
(*                             events run there, one after the other       *)
(*   session threads           reaper and poller of session s      *)
(*   the page (main.js)        page[f], isMining: a click runs an          *)
(*                             asynchronous function that invokes commands *)
(*                                                                         *)
(* Session threads see the main thread's handlers half done: each shared   *)
(* load, store and locked block of either is an action of its own, unless  *)
(* nobody else can tell the difference.                                    *)
(***************************************************************************)
EXTENDS Naturals

CONSTANTS
  Flows,         \* clicks on the page that are handled at once
  NoFlow,        \* who the main thread works for when it is not the page
  MaxSession,    \* bound: session numbers
  MaxRequests,   \* bound: clicks and tray events
  MaxExits       \* bound: XMRig processes that exit by themselves

ASSUME FlowsAssumption == NoFlow \notin Flows
ASSUME BoundsAssumption ==
  MaxSession \in Nat /\ MaxRequests \in Nat /\ MaxExits \in Nat

Sessions == 1..MaxSession
None == 0                     \* no process in the slot

PCs == {"idle", "check", "leftover", "session", "reset", "spawn", "run", "store",
        "kill", "clear", "latch", "exited"}
MainOps == {"none", "start", "stop", "tray", "quit"}
PagePCs == {"idle", "clear", "start", "started", "stop", "stopped", "apply", "applied"}
ThreadPCs == {"off", "check", "sleep", "confirm", "act", "reset"}

VARIABLES
  sessionGen, running, slot, stats,   \* stats: the sessions whose figures it shows
  userStopped,
  pc, op, who,
  reaper, poller,
  page, isMining,
  alive,               \* the sessions whose XMRig process lives
  launched,            \* history: the newest session launched
  usurped,             \* history: what a thread of an older session has changed
  quiet,               \* history: the last Stop found no click that had yet to
                       \* clear the latch, and no Start or Apply came since
  requests, exits      \* counters of the bounds

miner   == <<sessionGen, running, slot, stats>>
main    == <<pc, op, who>>
threads == <<reaper, poller>>
ui      == <<page, isMining>>
world   == <<alive, launched>>
vars == <<miner, userStopped, main, threads, ui, world, usurped, quiet, requests,
          exits>>

MinerOK ==
  /\ sessionGen \in 0..MaxSession /\ running \in BOOLEAN
  /\ slot \in 0..MaxSession /\ stats \subseteq Sessions
MainOK ==
  /\ userStopped \in BOOLEAN /\ pc \in PCs /\ op \in MainOps
  /\ who \in Flows \cup {NoFlow}
ThreadsOK ==
  /\ reaper \in [Sessions -> ThreadPCs] /\ poller \in [Sessions -> ThreadPCs]
PageOK == page \in [Flows -> PagePCs] /\ isMining \in BOOLEAN
WorldOK ==
  /\ alive \subseteq Sessions /\ launched \in 0..MaxSession
  /\ usurped \subseteq {"slot", "running", "stats"} /\ quiet \in BOOLEAN
  /\ requests \in Nat /\ exits \in Nat
TypeOK == MinerOK /\ MainOK /\ ThreadsOK /\ PageOK /\ WorldOK

Init ==
  /\ sessionGen = 0 /\ running = FALSE /\ slot = None /\ stats = {}
  /\ userStopped = FALSE
  /\ pc = "idle" /\ op = "none" /\ who = NoFlow
  /\ reaper = [s \in Sessions |-> "off"] /\ poller = [s \in Sessions |-> "off"]
  /\ page = [f \in Flows |-> "idle"] /\ isMining = FALSE
  /\ alive = {} /\ launched = 0
  /\ usurped = {} /\ quiet = FALSE
  /\ requests = 0 /\ exits = 0

-----------------------------------------------------------------------------
(* The page: a click, then one command after the other.                      *)

PageGoes(f, l) == page' = [page EXCEPT ![f] = l]

\* The Start button is enabled while the page believes that nothing is mined.
PressStart(f) ==
  /\ page[f] = "idle" /\ ~isMining /\ pc # "exited" /\ requests < MaxRequests
  /\ requests' = requests + 1
  /\ PageGoes(f, "clear") /\ quiet' = FALSE
  /\ UNCHANGED <<miner, userStopped, main, threads, isMining, world, usurped, exits>>

\* Stop, and applyAdvancedWhileMining: a Stop and then a Start.
PressStop(f) ==
  /\ page[f] = "idle" /\ isMining /\ pc # "exited" /\ requests < MaxRequests
  /\ requests' = requests + 1
  /\ \/ PageGoes(f, "stop") /\ UNCHANGED quiet
     \/ PageGoes(f, "apply") /\ quiet' = FALSE
  /\ UNCHANGED <<miner, userStopped, main, threads, isMining, world, usurped, exits>>

\* startMining lifts the latch in a command of its own.
ClearUserStop(f) ==
  /\ pc = "idle" /\ page[f] = "clear"
  /\ userStopped' = FALSE
  /\ PageGoes(f, "start")
  /\ UNCHANGED <<miner, main, threads, isMining, world, usurped, quiet, requests,
                 exits>>

\* The page takes note of an answer; Apply goes on to startMining.
PageAnswered(f) ==
  /\ page[f] \in {"started", "stopped", "applied"}
  /\ isMining' = (page[f] = "started")
  /\ PageGoes(f, IF page[f] = "applied" THEN "clear" ELSE "idle")
  /\ UNCHANGED <<miner, userStopped, main, threads, world, usurped, quiet, requests,
                 exits>>

\* startStatsPolling: every second the page asks is_mining.
PagePolls ==
  /\ pc = "idle" /\ isMining /\ ~running
  /\ isMining' = FALSE
  /\ UNCHANGED <<miner, userStopped, main, threads, page, world, usurped, quiet,
                 requests, exits>>

-----------------------------------------------------------------------------
(* The main thread.                                                          *)

Goto(l) == pc' = l /\ UNCHANGED <<op, who>>

\* The handler returns Err, and stopMining of Apply carries on all the same ...
Fail ==
  /\ pc' = "idle" /\ op' = "none" /\ who' = NoFlow
  /\ page' = [f \in Flows |-> IF f # who THEN page[f]
                              ELSE IF page[f] = "apply" THEN "clear" ELSE "idle"]

\* ... or Ok.
Answer == [start |-> "started", stop |-> "stopped", apply |-> "applied"]
Done ==
  /\ pc' = "idle" /\ op' = "none" /\ who' = NoFlow
  /\ page' = [f \in Flows |-> IF f # who THEN page[f] ELSE Answer[page[f]]]

(* start_mining and MinerState::start *)

\* A latched Stop refuses the command.
StartCommand(f) ==
  /\ pc = "idle" /\ page[f] = "start"
  /\ IF userStopped
     THEN PageGoes(f, "idle") /\ UNCHANGED main
     ELSE pc' = "check" /\ op' = "start" /\ who' = f /\ UNCHANGED page
  /\ UNCHANGED <<miner, userStopped, threads, isMining, world, usurped, quiet,
                 requests, exits>>

\* Refused: running, an invalid wallet, coin or pool ...
StartCheck ==
  /\ pc = "check"
  /\ \/ ~running /\ Goto("leftover") /\ UNCHANGED page
     \/ Fail
  /\ UNCHANGED <<miner, userStopped, threads, isMining, world, usurped, quiet,
                 requests, exits>>

\* Mutant: running is trusted, and a leftover process is dropped.
KillLeftoverNot ==
  /\ pc = "leftover"
  /\ slot' = None
  /\ Goto("session") /\ UNCHANGED page
  /\ UNCHANGED <<sessionGen, running, stats, userStopped, threads, isMining, world,
                 usurped, quiet, requests, exits>>

\* A leftover process is killed and waited for; then xmrig may not be found.
KillLeftover ==
  /\ pc = "leftover"
  /\ alive' = alive \ {slot} /\ slot' = None
  /\ \/ Goto("session") /\ UNCHANGED page
     \/ Fail
  /\ UNCHANGED <<sessionGen, running, stats, userStopped, threads, isMining,
                 launched, usurped, quiet, requests, exits>>

\* The new session number; then no loopback port may be free.
NewSession ==
  /\ pc = "session" /\ sessionGen < MaxSession
  /\ sessionGen' = sessionGen + 1
  /\ \/ Goto("reset") /\ UNCHANGED page
     \/ Fail
  /\ UNCHANGED <<running, slot, stats, userStopped, threads, isMining, world,
                 usurped, quiet, requests, exits>>

\* Mutant: the figures of the last session stay.
ResetStatsNot ==
  /\ pc = "reset"
  /\ \/ Goto("spawn") /\ UNCHANGED page
     \/ Fail
  /\ UNCHANGED <<miner, userStopped, threads, isMining, world, usurped, quiet,
                 requests, exits>>

\* The figures start anew; then the launch plan may be rejected.
ResetStats ==
  /\ pc = "reset"
  /\ stats' = {}
  /\ \/ Goto("spawn") /\ UNCHANGED page
     \/ Fail
  /\ UNCHANGED <<sessionGen, running, slot, userStopped, threads, isMining, world,
                 usurped, quiet, requests, exits>>

\* Mutant: the process is known by what the slot holds.
SpawnUnnumbered ==
  /\ pc = "spawn"
  /\ alive' = alive \cup {slot} /\ launched' = sessionGen
  /\ Goto("run")
  /\ UNCHANGED <<miner, userStopped, threads, ui, usurped, quiet, requests, exits>>

Spawn ==
  /\ pc = "spawn"
  /\ alive' = alive \cup {sessionGen} /\ launched' = sessionGen
  /\ Goto("run")
  /\ UNCHANGED <<miner, userStopped, threads, ui, usurped, quiet, requests, exits>>

SpawnFails ==
  /\ pc = "spawn" /\ sessionGen < MaxSession
  /\ sessionGen' = sessionGen + 1 /\ running' = FALSE
  /\ Fail
  /\ UNCHANGED <<slot, stats, userStopped, threads, isMining, world, usurped, quiet,
                 requests, exits>>

\* running, and the threads that follow the session's output.
Run ==
  /\ pc = "run"
  /\ running' = TRUE
  /\ poller' = [poller EXCEPT ![sessionGen] = "sleep"]
  /\ Goto("store")
  /\ UNCHANGED <<sessionGen, slot, stats, userStopped, reaper, ui, world, usurped,
                 quiet, requests, exits>>

\* The process goes into the slot, and its reaper starts.
Store ==
  /\ pc = "store"
  /\ slot' = sessionGen
  /\ reaper' = [reaper EXCEPT ![sessionGen] = "check"]
  /\ Done
  /\ UNCHANGED <<sessionGen, running, stats, userStopped, poller, isMining,
                 world, usurped, quiet, requests, exits>>

(* stop_mining, the tray's "Stop mining", and every way to quit; MinerState::stop *)

\* Whether a click has yet to lift the latch: a Stop that comes now is overruled.
Pending == \E f \in Flows : page[f] \in {"apply", "applied", "clear"}

\* MinerState::stop takes a running session's number out of use, so that its
\* threads end, and kills its process; it does nothing for one not running.
BeginStop(o, f) ==
  /\ op' = o /\ who' = f
  /\ IF running
     THEN sessionGen < MaxSession /\ sessionGen' = sessionGen + 1 /\ pc' = "kill"
     ELSE UNCHANGED sessionGen /\ pc' = "latch"
  /\ UNCHANGED <<running, slot, stats, threads, ui, world, usurped>>

\* stop_mining latches the Stop first.  The Stop of an Apply is not the last word.
StopCommand(f) ==
  /\ pc = "idle" /\ page[f] \in {"stop", "apply"}
  /\ userStopped' = TRUE
  /\ quiet' = (page[f] = "stop" /\ ~Pending)
  /\ BeginStop("stop", f)
  /\ UNCHANGED <<requests, exits>>

\* The tray's Stop latches last (see Latch).
TrayStop ==
  /\ pc = "idle" /\ requests < MaxRequests
  /\ requests' = requests + 1
  /\ quiet' = ~Pending
  /\ BeginStop("tray", NoFlow)
  /\ UNCHANGED <<userStopped, exits>>

\* Tray, window or page: force_stop_miner, then app.exit.
Quit ==
  /\ pc = "idle" /\ requests < MaxRequests
  /\ requests' = requests + 1
  /\ BeginStop("quit", NoFlow)
  /\ UNCHANGED <<userStopped, quiet, exits>>

\* Mutant: the process is dropped, which does not kill it.
KillProcessNot ==
  /\ pc = "kill"
  /\ slot' = None
  /\ Goto("clear")
  /\ UNCHANGED <<sessionGen, running, stats, userStopped, threads, ui, world,
                 usurped, quiet, requests, exits>>

KillProcess ==
  /\ pc = "kill"
  /\ alive' = alive \ {slot} /\ slot' = None
  /\ Goto("clear")
  /\ UNCHANGED <<sessionGen, running, stats, userStopped, threads, ui, launched,
                 usurped, quiet, requests, exits>>

ClearSession ==
  /\ pc = "clear"
  /\ running' = FALSE /\ stats' = {}
  /\ IF op = "stop" THEN Done ELSE Goto("latch") /\ UNCHANGED page
  /\ UNCHANGED <<sessionGen, slot, userStopped, threads, isMining, world, usurped,
                 quiet, requests, exits>>

\* The app is gone, with its page and its threads.
Exit ==
  /\ Goto("exited")
  /\ reaper' = [s \in Sessions |-> "off"] /\ poller' = [s \in Sessions |-> "off"]
  /\ page' = [f \in Flows |-> "idle"] /\ isMining' = FALSE

\* Mutant: the tray's Stop does not latch.
LatchNot ==
  /\ pc = "latch"
  /\ UNCHANGED userStopped
  /\ IF op = "quit" THEN Exit ELSE Fail /\ UNCHANGED <<threads, isMining>>
  /\ UNCHANGED <<miner, world, usurped, quiet, requests, exits>>

\* What the caller of MinerState::stop does next: the tray latches, the app exits,
\* the command reports that nothing was running.
Latch ==
  /\ pc = "latch"
  /\ userStopped' = (userStopped \/ op = "tray")
  /\ IF op = "quit" THEN Exit ELSE Fail /\ UNCHANGED <<threads, isMining>>
  /\ UNCHANGED <<miner, world, usurped, quiet, requests, exits>>

-----------------------------------------------------------------------------
(* The threads of session s.  usurped notes what they change once a newer      *)
(* session has been started or is being started.                             *)

Stale(s) == sessionGen # s
Overtaken(s) == launched > s \/ (Stale(s) /\ op = "start")
Usurp(s, what) == usurped' = IF Overtaken(s) THEN usurped \cup {what} ELSE usurped
ReaperGoes(s, l) == reaper' = [reaper EXCEPT ![s] = l]
PollerGoes(s, l) == poller' = [poller EXCEPT ![s] = l]

(* reap_when_exited *)
ReaperCheck(s) ==
  /\ reaper[s] = "check"
  /\ ReaperGoes(s, IF Stale(s) THEN "off" ELSE "sleep")
  /\ UNCHANGED <<miner, poller, usurped>>

\* Mutant: the slot is emptied without a look at the process.
ReaperLooksHasty(s) ==
  /\ reaper[s] = "sleep"
  /\ ReaperGoes(s, IF slot = None THEN "off" ELSE "confirm")
  /\ slot' = None
  /\ IF slot = None THEN UNCHANGED usurped ELSE Usurp(s, "slot")
  /\ UNCHANGED <<sessionGen, running, stats, poller>>

\* After 400 ms: whatever process the slot holds now is looked at, and removed if
\* it has exited.
ReaperLooks(s) ==
  LET exited == slot # None /\ slot \notin alive IN
  /\ reaper[s] = "sleep"
  /\ ReaperGoes(s, IF exited THEN "confirm" ELSE IF slot = None THEN "off" ELSE "check")
  /\ IF exited THEN slot' = None /\ Usurp(s, "slot") ELSE UNCHANGED <<slot, usurped>>
  /\ UNCHANGED <<sessionGen, running, stats, poller>>

\* Mutant: the exit is not reported.
ReaperConfirmsNot(s) ==
  /\ reaper[s] = "confirm"
  /\ ReaperGoes(s, "off")
  /\ UNCHANGED <<miner, poller, usurped>>

ReaperConfirms(s) ==
  /\ reaper[s] = "confirm"
  /\ ReaperGoes(s, IF Stale(s) THEN "off" ELSE "act")
  /\ UNCHANGED <<miner, poller, usurped>>

\* clear_session: running, then the figures.
ReaperClears(s) ==
  /\ reaper[s] = "act"
  /\ running' = FALSE /\ Usurp(s, "running")
  /\ ReaperGoes(s, "reset")
  /\ UNCHANGED <<sessionGen, slot, stats, poller>>

ReaperResets(s) ==
  /\ reaper[s] = "reset"
  /\ stats' = {} /\ Usurp(s, "stats")
  /\ ReaperGoes(s, "off")
  /\ UNCHANGED <<sessionGen, running, slot, poller>>

(* poll_http_stats.  The loop's own test of running and of the session is not a *)
(* step: the test after the sleep decides what the thread may still do.         *)

\* After two seconds: the summary is fetched, if anyone answers.
PollerFetches(s) ==
  /\ poller[s] = "sleep"
  /\ \/ s \in alive /\ ~Stale(s) /\ PollerGoes(s, "confirm")
     \/ (Stale(s) \/ ~running) /\ PollerGoes(s, "off")
  /\ UNCHANGED <<miner, reaper, usurped>>

PollerConfirms(s) ==
  /\ poller[s] = "confirm"
  /\ PollerGoes(s, IF Stale(s) THEN "off" ELSE "act")
  /\ UNCHANGED <<miner, reaper, usurped>>

PollerWrites(s) ==
  /\ poller[s] = "act"
  /\ stats' = {s} /\ Usurp(s, "stats")
  /\ PollerGoes(s, "sleep")
  /\ UNCHANGED <<sessionGen, running, slot, reaper>>

ReaperStep(s) ==
  \/ ReaperCheck(s) \/ ReaperLooks(s) \/ ReaperConfirms(s) \/ ReaperClears(s)
  \/ ReaperResets(s)
PollerStep(s) ==
  PollerFetches(s) \/ PollerConfirms(s) \/ PollerWrites(s)

Thread(s) ==
  /\ ReaperStep(s) \/ PollerStep(s)
  /\ UNCHANGED <<userStopped, main, ui, world, quiet, requests, exits>>

-----------------------------------------------------------------------------
\* XMRig exits by itself.
ProcessExits(s) ==
  /\ s \in alive /\ exits < MaxExits
  /\ exits' = exits + 1
  /\ alive' = alive \ {s}
  /\ UNCHANGED <<miner, userStopped, main, threads, ui, launched, usurped, quiet,
                 requests>>

MainStep ==
  \/ StartCheck \/ KillLeftover \/ NewSession \/ ResetStats \/ Spawn \/ SpawnFails
  \/ Run \/ Store \/ KillProcess \/ ClearSession \/ Latch
Command(f) == ClearUserStop(f) \/ StartCommand(f) \/ StopCommand(f)
Press(f) == PressStart(f) \/ PressStop(f)

Next ==
  \/ MainStep \/ TrayStop \/ Quit \/ PagePolls
  \/ \E f \in Flows : Press(f) \/ Command(f) \/ PageAnswered(f)
  \/ \E s \in Sessions : Thread(s) \/ ProcessExits(s)

Spec == Init /\ [][Next]_vars

(* Handlers run to their end, the page's promises are resolved, its timer     *)
(* fires and threads are scheduled.  Nothing is assumed of the user and of    *)
(* XMRig, which may never exit and may never answer a poll.             *)
Fairness ==
  /\ WF_vars(MainStep \/ \E f \in Flows : Command(f))
  /\ WF_vars(PagePolls) /\ \A f \in Flows : WF_vars(PageAnswered(f))
  /\ \A s \in Sessions : WF_vars(ReaperStep(s) /\ Thread(s))
FairSpec == Spec /\ Fairness

-----------------------------------------------------------------------------
(* Properties. *)

\* Every live process can be reached: it is in the slot, from which Stop, Quit and
\* the next Start kill it, or on its way there.  No thread of any session, however
\* late, loses it (KillLeftover, Store, reap_when_exited).
NoOrphan ==
  alive \subseteq {slot} \cup (IF pc \in {"run", "store"} THEN {sessionGen} ELSE {})

\* There is never a second process, and session numbers only grow: the backend
\* implements OneProcess.
Supervisor == INSTANCE OneProcess WITH alive <- alive, launched <- launched
SupervisorSpec == Supervisor!Spec

\* Between handlers, what the backend says is true of the process it owns: one that
\* lives is reported as running, with figures of its own session or none; unless a
\* thread that lost its session between its last check and its act has interfered.
TruthfulState ==
  pc = "idle" /\ usurped = {} =>
    /\ alive # {} => running /\ alive = {sessionGen} /\ stats \subseteq alive
    /\ ~running => alive = {}

\* A Stop that found no click on its way to lifting the latch is final until the
\* next click: nothing is spawned, not even for a click whose start_mining was still
\* to come, and once the handler is done nothing is left alive.
StopIsFinal ==
  quiet => /\ pc \notin {"run", "store"}
           /\ pc = "idle" /\ "running" \notin usurped => alive = {}

\* ... and quitting leaves no XMRig behind.
QuitLeavesNothing == pc = "exited" /\ "running" \notin usurped => alive = {}

\* An XMRig that exits by itself unlocks the page, unless a late reaper of an older
\* session has taken the process out of the slot.
ExitNoticed ==
  (isMining /\ running /\ alive = {} /\ pc = "idle")
    ~> (~isMining \/ alive # {} \/ "slot" \in usurped \/ pc = "exited")

-----------------------------------------------------------------------------
(* A claim of the repository that the code does not keep.                    *)

\* MinerState: "Stale poller/reaper must not mutate newer sessions".
StaleReaperHarmless ==
  [][\A s \in Sessions : launched > s /\ reaper'[s] # reaper[s]
       => UNCHANGED <<running, slot, stats>>]_vars
=============================================================================
