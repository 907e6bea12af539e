----------------------------- MODULE SessionLatch -----------------------------
(***************************************************************************)
(* MiningSessionLatch with nothing taken as atomic that the code does not  *)
(* make so: each operation is a sequence of reads and writes of            *)
(* AtomicInteger and AtomicBoolean cells, and ends in persistNow, which    *)
(* reads three cells one after the other and then commits them to the      *)
(* preferences.  No lock covers any of it.  Operations run on the main     *)
(* thread, on Dispatchers.IO and in workers; the process may be killed     *)
(* between any two steps, after which attach reloads what was committed.   *)
(*                                                                         *)
(* MiningSession takes each operation of the latch, with its persistence,  *)
(* as one step; this module is about what that leaves out.                 *)
(***************************************************************************)
EXTENDS Integers

CONSTANTS
  Threads,      \* threads that call the latch
  Ops,          \* bound: the operations they call
  MaxCalls,     \* bound: calls in all
  MaxCrashes    \* bound: deaths of the process

\* latchUserStop, armSession, setAutomationArmed(true), (false), latchPolicyPause
AllOps == {"stop", "arm", "enable", "disable", "pause"}

ASSUME OpsAssumption == Ops \subseteq AllOps
ASSUME LimitsAssumption == MaxCalls \in Nat /\ MaxCrashes \in Nat

Intent == [stop : Nat, armed : Nat, auto : BOOLEAN]   \* PersistedSessionIntent
NoIntent == [stop |-> 0, armed |-> 0, auto |-> FALSE]

PCs == {"idle", "armSet", "unpause", "pauseSet",
        "readStop", "readArmed", "readAuto", "save"}

VARIABLES
  cells,        \* userStopRev, sessionArmedRev and automationArmed in memory
  paused,       \* policyPaused
  disk,         \* what the preferences hold
  pc,           \* where each thread is
  snap,         \* what it has read so far, in armSession and in persistNow
  calls, crashes,
  stale,        \* history: arms that read the stop revision before the last Stop
  overlaps,     \* history: threads whose call has overlapped another one
  mixed         \* history: the last commit was made by such a call

history == <<overlaps, mixed>>
vars == <<cells, paused, disk, pc, snap, calls, crashes, stale, history>>

Latched(intent) == intent.stop > intent.armed
UserStopped == Latched(cells)
Quiescent == \A t \in Threads : pc[t] = "idle"

TypeOK ==
  /\ cells \in Intent /\ disk \in Intent /\ paused \in BOOLEAN
  /\ pc \in [Threads -> PCs] /\ snap \in [Threads -> Intent]
  /\ calls \in Nat /\ crashes \in Nat
  /\ stale \subseteq Threads /\ overlaps \subseteq Threads /\ mixed \in BOOLEAN

Init ==
  /\ cells = NoIntent /\ disk = NoIntent /\ paused = FALSE
  /\ pc = [t \in Threads |-> "idle"] /\ snap = [t \in Threads |-> NoIntent]
  /\ calls = 0 /\ crashes = 0
  /\ stale = {} /\ overlaps = {} /\ mixed = FALSE

-----------------------------------------------------------------------------
Goto(t, l) == pc' = [pc EXCEPT ![t] = l]

\* A call begins; it overlaps any other that has not ended.
Call(t, o) ==
  /\ pc[t] = "idle" /\ o \in Ops /\ calls < MaxCalls
  /\ calls' = calls + 1
  /\ overlaps' = IF Quiescent THEN overlaps
                 ELSE overlaps \cup {t} \cup {u \in Threads : pc[u] # "idle"}
  /\ UNCHANGED mixed

\* latchUserStop: incrementAndGet.
StopIncrement(t) ==
  /\ Call(t, "stop")
  /\ cells' = [cells EXCEPT !.stop = @ + 1]
  /\ Goto(t, "unpause")
  /\ stale' = {u \in Threads : pc[u] = "armSet"}
  /\ UNCHANGED <<paused, disk, snap, crashes>>

\* armSession: userStopRev.get() ...
ArmRead(t) ==
  /\ Call(t, "arm")
  /\ snap' = [snap EXCEPT ![t].stop = cells.stop]
  /\ Goto(t, "armSet")
  /\ UNCHANGED <<cells, paused, disk, crashes, stale>>

\* Mutant: the revision is read again when it is written.
ArmSetFresh(t) ==
  /\ pc[t] = "armSet"
  /\ cells' = [cells EXCEPT !.armed = cells.stop]
  /\ Goto(t, "unpause")
  /\ stale' = stale \ {t}
  /\ UNCHANGED <<paused, disk, snap, calls, crashes, history>>

\* Mutant: arms are counted and not set to the revision.
ArmSetCounts(t) ==
  /\ pc[t] = "armSet"
  /\ cells' = [cells EXCEPT !.armed = @ + 1]
  /\ Goto(t, "unpause")
  /\ stale' = stale \ {t}
  /\ UNCHANGED <<paused, disk, snap, calls, crashes, history>>

\* ... sessionArmedRev.set(it)
ArmSet(t) ==
  /\ pc[t] = "armSet"
  /\ cells' = [cells EXCEPT !.armed = snap[t].stop]
  /\ Goto(t, "unpause")
  /\ stale' = stale \ {t}
  /\ UNCHANGED <<paused, disk, snap, calls, crashes, history>>

\* latchUserStop and armSession end the policy pause.
Unpause(t) ==
  /\ pc[t] = "unpause"
  /\ paused' = FALSE
  /\ Goto(t, "readStop")
  /\ UNCHANGED <<cells, disk, snap, calls, crashes, stale, history>>

SetAutomation(t, on) ==
  /\ Call(t, IF on THEN "enable" ELSE "disable")
  /\ cells' = [cells EXCEPT !.auto = on]
  /\ Goto(t, "readStop")
  /\ UNCHANGED <<paused, disk, snap, crashes, stale>>

\* latchPolicyPause notes the stop revision, which nobody else depends on, and
\* then sets the flag; it does not persist.
PauseCall(t) ==
  /\ Call(t, "pause")
  /\ Goto(t, "pauseSet")
  /\ UNCHANGED <<cells, paused, disk, snap, crashes, stale>>

PauseSet(t) ==
  /\ pc[t] = "pauseSet"
  /\ paused' = TRUE
  /\ Goto(t, "idle")
  /\ overlaps' = overlaps \ {t}
  /\ UNCHANGED <<cells, disk, snap, calls, crashes, stale, mixed>>

\* Mutant: the revision before the increment is persisted.
ReadStopBefore(t) ==
  /\ pc[t] = "readStop"
  /\ snap' = [snap EXCEPT ![t].stop = cells.stop - 1]
  /\ Goto(t, "readArmed")
  /\ UNCHANGED <<cells, paused, disk, calls, crashes, stale, history>>

(* persistNow *)
ReadStop(t) ==
  /\ pc[t] = "readStop"
  /\ snap' = [snap EXCEPT ![t].stop = cells.stop]
  /\ Goto(t, "readArmed")
  /\ UNCHANGED <<cells, paused, disk, calls, crashes, stale, history>>

ReadArmed(t) ==
  /\ pc[t] = "readArmed"
  /\ snap' = [snap EXCEPT ![t].armed = cells.armed]
  /\ Goto(t, "readAuto")
  /\ UNCHANGED <<cells, paused, disk, calls, crashes, stale, history>>

ReadAuto(t) ==
  /\ pc[t] = "readAuto"
  /\ snap' = [snap EXCEPT ![t].auto = cells.auto]
  /\ Goto(t, "save")
  /\ UNCHANGED <<cells, paused, disk, calls, crashes, stale, history>>

\* Mutant: the commit leaves out the automation flag.
SavePartly(t) ==
  /\ pc[t] = "save"
  /\ disk' = [snap[t] EXCEPT !.auto = disk.auto]
  /\ Goto(t, "idle")
  /\ mixed' = (t \in overlaps) /\ overlaps' = overlaps \ {t}
  /\ snap' = [snap EXCEPT ![t] = NoIntent]
  /\ UNCHANGED <<cells, paused, calls, crashes, stale>>

\* PrefsSessionIntentStore.save: one commit of all three values.
Save(t) ==
  /\ pc[t] = "save"
  /\ disk' = snap[t]
  /\ Goto(t, "idle")
  /\ mixed' = (t \in overlaps) /\ overlaps' = overlaps \ {t}
  /\ snap' = [snap EXCEPT ![t] = NoIntent]
  /\ UNCHANGED <<cells, paused, calls, crashes, stale>>

\* The process dies; attach reloads what was committed, and no pause.
Crash ==
  /\ crashes < MaxCrashes /\ crashes' = crashes + 1
  /\ cells' = disk /\ paused' = FALSE
  /\ pc' = [t \in Threads |-> "idle"] /\ snap' = [t \in Threads |-> NoIntent]
  /\ stale' = {} /\ overlaps' = {} /\ mixed' = FALSE
  /\ UNCHANGED <<disk, calls>>

Step(t) ==
  \/ StopIncrement(t) \/ ArmRead(t) \/ ArmSet(t) \/ Unpause(t)
  \/ \E on \in BOOLEAN : SetAutomation(t, on)
  \/ PauseCall(t) \/ PauseSet(t)
  \/ ReadStop(t) \/ ReadArmed(t) \/ ReadAuto(t) \/ Save(t)

Next == (\E t \in Threads : Step(t)) \/ Crash

Spec == Init /\ [][Next]_vars

-----------------------------------------------------------------------------
(* Properties. *)

\* "Revisions use AtomicInteger so concurrent increments are race-safe": whatever
\* runs beside it, an arm that began before a Stop does not clear that Stop when
\* it writes the revision it read.
StaleArmIsPowerless ==
  [][\A t \in stale : pc[t] = "armSet" /\ pc'[t] = "unpause" => UserStopped']_vars

\* A Stop always latches, as long as the process has not been restarted: no order
\* of arms and Stops in memory puts the armed revision ahead of the Stops.
StopLatches ==
  [][crashes' = 0 /\ cells'.stop = cells.stop + 1 => UserStopped']_vars

\* What is on disk once nobody is in the latch is what is in memory, when the last
\* call to commit ran alone.  After a restart the latch is what it was.
DurableWhenAlone == Quiescent /\ ~mixed => disk = cells

-----------------------------------------------------------------------------
(* Claims of the repository that the code does not keep.                     *)

\* PrefsSessionIntentStore: "UserStopped must survive immediate process kill".
\* Once every call has returned, a latched Stop is on disk.
StopIsDurable == Quiescent /\ UserStopped => Latched(disk)
=============================================================================
