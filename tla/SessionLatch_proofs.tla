------------------------- MODULE SessionLatch_proofs -------------------------
(***************************************************************************)
(* For any number of threads, calls and restarts: what the latch keeps     *)
(* although nothing in it is locked.                                       *)
(*                                                                         *)
(* StaleArmIsPowerless and StopLatches rest on one fact, ReadBehind: what  *)
(* an arm has read never passes the stop revision, which only grows while  *)
(* the process lives.  DurableWhenAlone rests on AloneOK: a call that has  *)
(* overlapped no other finds every other thread idle, so that what it has  *)
(* read so far is still what memory holds.                                 *)
(***************************************************************************)
EXTENDS SessionLatch, TLAPS

ReadBehind == \A t \in Threads : pc[t] = "armSet" => snap[t].stop <= cells.stop
StaleBehind ==
  \A t \in stale : pc[t] = "armSet" /\ snap[t].stop < cells.stop
ArmedBehind == crashes = 0 => cells.armed <= cells.stop
ArmInv == TypeOK /\ ReadBehind /\ StaleBehind /\ ArmedBehind

\* The calls that have yet to commit what is in memory.
Committing == {"unpause", "readStop", "readArmed", "readAuto", "save"}
AloneOK ==
  \A t \in Threads \ overlaps :
    /\ pc[t] # "idle" => \A u \in Threads \ {t} : pc[u] = "idle"
    /\ pc[t] \in {"readArmed", "readAuto", "save"} => snap[t].stop = cells.stop
    /\ pc[t] \in {"readAuto", "save"} => snap[t].armed = cells.armed
    /\ pc[t] = "save" => snap[t].auto = cells.auto
OverlapsBusy == \A t \in overlaps : pc[t] # "idle"
Pending ==
  ~mixed => disk = cells \/ \E t \in Threads : pc[t] \in Committing
DiskInv == TypeOK /\ AloneOK /\ OverlapsBusy /\ Pending

\* Every step keeps the types.
LEMMA TypeStep == ASSUME TypeOK, [Next]_vars PROVE TypeOK'
<1> USE DEF TypeOK, Intent, NoIntent, PCs, Goto, history
<1>1. ASSUME NEW t \in Threads, StopIncrement(t) PROVE TypeOK'
  BY <1>1 DEF StopIncrement, Call
<1>2. ASSUME NEW t \in Threads, ArmRead(t) PROVE TypeOK'
  BY <1>2 DEF ArmRead, Call
<1>3. ASSUME NEW t \in Threads, ArmSet(t) PROVE TypeOK'
  BY <1>3 DEF ArmSet
<1>4. ASSUME NEW t \in Threads, Unpause(t) PROVE TypeOK'
  BY <1>4 DEF Unpause
<1>5. ASSUME NEW t \in Threads, NEW on \in BOOLEAN, SetAutomation(t, on) PROVE TypeOK'
  BY <1>5 DEF SetAutomation, Call
<1>6. ASSUME NEW t \in Threads, PauseCall(t) PROVE TypeOK'
  BY <1>6 DEF PauseCall, Call
<1>7. ASSUME NEW t \in Threads, PauseSet(t) PROVE TypeOK'
  BY <1>7 DEF PauseSet
<1>8. ASSUME NEW t \in Threads, ReadStop(t) PROVE TypeOK'
  BY <1>8 DEF ReadStop
<1>9. ASSUME NEW t \in Threads, ReadArmed(t) PROVE TypeOK'
  BY <1>9 DEF ReadArmed
<1>10. ASSUME NEW t \in Threads, ReadAuto(t) PROVE TypeOK'
  BY <1>10 DEF ReadAuto
<1>11. ASSUME NEW t \in Threads, Save(t) PROVE TypeOK'
  BY <1>11 DEF Save
<1>12. CASE Crash
  <2>1. cells' \in Intent /\ disk' \in Intent /\ paused' \in BOOLEAN
    BY <1>12 DEF Crash
  <2>2. pc' \in [Threads -> PCs] /\ snap' \in [Threads -> Intent]
    BY <1>12 DEF Crash
  <2>3. calls' \in Nat /\ crashes' \in Nat
    BY <1>12 DEF Crash
  <2>4. stale' \subseteq Threads /\ overlaps' \subseteq Threads /\ mixed' \in BOOLEAN
    BY <1>12 DEF Crash
  <2> QED
    BY <2>1, <2>2, <2>3, <2>4
<1>13. CASE UNCHANGED vars
  BY <1>13 DEF vars
<1> QED
  BY <1>1, <1>2, <1>3, <1>4, <1>5, <1>6, <1>7, <1>8, <1>9, <1>10, <1>11, <1>12,
     <1>13 DEF Next, Step

\* What arms have read stays behind the Stops.
LEMMA ArmStep ==
  ASSUME ArmInv, [Next]_vars PROVE (ReadBehind /\ StaleBehind /\ ArmedBehind)'
<1> USE DEF ArmInv, ReadBehind, StaleBehind, ArmedBehind, TypeOK, Intent, NoIntent, Goto, history
<1>1. ASSUME NEW t \in Threads, StopIncrement(t) PROVE (ReadBehind /\ StaleBehind /\ ArmedBehind)'
  BY <1>1 DEF StopIncrement, Call
<1>2. ASSUME NEW t \in Threads, ArmRead(t) PROVE (ReadBehind /\ StaleBehind /\ ArmedBehind)'
  BY <1>2 DEF ArmRead, Call
<1>3. ASSUME NEW t \in Threads, ArmSet(t) PROVE (ReadBehind /\ StaleBehind /\ ArmedBehind)'
  BY <1>3 DEF ArmSet
<1>4. ASSUME NEW t \in Threads, Unpause(t) PROVE (ReadBehind /\ StaleBehind /\ ArmedBehind)'
  BY <1>4 DEF Unpause
<1>5. ASSUME NEW t \in Threads, NEW on \in BOOLEAN, SetAutomation(t, on) PROVE (ReadBehind /\ StaleBehind /\ ArmedBehind)'
  BY <1>5 DEF SetAutomation, Call
<1>6. ASSUME NEW t \in Threads, PauseCall(t) PROVE (ReadBehind /\ StaleBehind /\ ArmedBehind)'
  BY <1>6 DEF PauseCall, Call
<1>7. ASSUME NEW t \in Threads, PauseSet(t) PROVE (ReadBehind /\ StaleBehind /\ ArmedBehind)'
  BY <1>7 DEF PauseSet
<1>8. ASSUME NEW t \in Threads, ReadStop(t) PROVE (ReadBehind /\ StaleBehind /\ ArmedBehind)'
  BY <1>8 DEF ReadStop
<1>9. ASSUME NEW t \in Threads, ReadArmed(t) PROVE (ReadBehind /\ StaleBehind /\ ArmedBehind)'
  BY <1>9 DEF ReadArmed
<1>10. ASSUME NEW t \in Threads, ReadAuto(t) PROVE (ReadBehind /\ StaleBehind /\ ArmedBehind)'
  BY <1>10 DEF ReadAuto
<1>11. ASSUME NEW t \in Threads, Save(t) PROVE (ReadBehind /\ StaleBehind /\ ArmedBehind)'
  BY <1>11 DEF Save
<1>12. CASE Crash
  BY <1>12 DEF Crash
<1>13. CASE UNCHANGED vars
  BY <1>13 DEF vars
<1> QED
  BY <1>1, <1>2, <1>3, <1>4, <1>5, <1>6, <1>7, <1>8, <1>9, <1>10, <1>11,
     <1>12, <1>13 DEF Next, Step

\* A call that overlaps no other is alone, and what it has read is still true.
LEMMA AloneStep ==
  ASSUME DiskInv, [Next]_vars PROVE (AloneOK /\ OverlapsBusy /\ Pending)'
<1> USE DEF DiskInv, AloneOK, OverlapsBusy, Pending, Committing, Quiescent, TypeOK, Intent, NoIntent, Goto, history
<1>1. ASSUME NEW t \in Threads, StopIncrement(t) PROVE (AloneOK /\ OverlapsBusy /\ Pending)'
  BY <1>1 DEF StopIncrement, Call
<1>2. ASSUME NEW t \in Threads, ArmRead(t) PROVE (AloneOK /\ OverlapsBusy /\ Pending)'
  BY <1>2 DEF ArmRead, Call
<1>3. ASSUME NEW t \in Threads, ArmSet(t) PROVE (AloneOK /\ OverlapsBusy /\ Pending)'
  BY <1>3 DEF ArmSet
<1>4. ASSUME NEW t \in Threads, Unpause(t) PROVE (AloneOK /\ OverlapsBusy /\ Pending)'
  BY <1>4 DEF Unpause
<1>5. ASSUME NEW t \in Threads, NEW on \in BOOLEAN, SetAutomation(t, on) PROVE (AloneOK /\ OverlapsBusy /\ Pending)'
  BY <1>5 DEF SetAutomation, Call
<1>6. ASSUME NEW t \in Threads, PauseCall(t) PROVE (AloneOK /\ OverlapsBusy /\ Pending)'
  BY <1>6 DEF PauseCall, Call
<1>7. ASSUME NEW t \in Threads, PauseSet(t) PROVE (AloneOK /\ OverlapsBusy /\ Pending)'
  BY <1>7 DEF PauseSet
<1>8. ASSUME NEW t \in Threads, ReadStop(t) PROVE (AloneOK /\ OverlapsBusy /\ Pending)'
  BY <1>8 DEF ReadStop
<1>9. ASSUME NEW t \in Threads, ReadArmed(t) PROVE (AloneOK /\ OverlapsBusy /\ Pending)'
  BY <1>9 DEF ReadArmed
<1>10. ASSUME NEW t \in Threads, ReadAuto(t) PROVE (AloneOK /\ OverlapsBusy /\ Pending)'
  BY <1>10 DEF ReadAuto
<1>11. ASSUME NEW t \in Threads, Save(t) PROVE (AloneOK /\ OverlapsBusy /\ Pending)'
  <2>1. AloneOK'
    BY <1>11 DEF Save
  <2>2. OverlapsBusy'
    BY <1>11 DEF Save
  <2>3. ASSUME t \notin overlaps PROVE disk' = cells'
    <3>1. /\ snap[t].stop = cells.stop /\ snap[t].armed = cells.armed
          /\ snap[t].auto = cells.auto
      BY <1>11, <2>3 DEF Save
    <3>2. snap[t] = cells
      BY <3>1
    <3> QED
      BY <1>11, <3>2 DEF Save
  <2>4. Pending'
    BY <1>11, <2>3 DEF Save
  <2> QED
    BY <2>1, <2>2, <2>4
<1>12. CASE Crash
  BY <1>12 DEF Crash
<1>13. CASE UNCHANGED vars
  BY <1>13 DEF vars
<1> QED
  BY <1>1, <1>2, <1>3, <1>4, <1>5, <1>6, <1>7, <1>8, <1>9, <1>10, <1>11,
     <1>12, <1>13 DEF Next, Step

\* The initial state has the types.
LEMMA InitTypes == Init => TypeOK
<1> SUFFICES ASSUME Init PROVE TypeOK
  OBVIOUS
<1>1. NoIntent \in Intent
  BY DEF NoIntent, Intent
<1>2. pc \in [Threads -> PCs] /\ snap \in [Threads -> Intent]
  BY <1>1 DEF Init, PCs
<1>3. paused \in BOOLEAN /\ mixed \in BOOLEAN
  BY DEF Init
<1> QED
  BY <1>1, <1>2, <1>3 DEF Init, TypeOK

\* Both invariants are inductive.
LEMMA ArmInvariant == Spec => []ArmInv
<1>1. Init => ArmInv
  BY InitTypes DEF Init, ArmInv, ReadBehind, StaleBehind, ArmedBehind, NoIntent
<1>2. ArmInv /\ [Next]_vars => ArmInv'
  BY TypeStep, ArmStep DEF ArmInv
<1> QED
  BY <1>1, <1>2, PTL DEF Spec

LEMMA DiskInvariant == Spec => []DiskInv
<1>1. Init => DiskInv
  BY InitTypes DEF Init, DiskInv, AloneOK, OverlapsBusy, Pending
<1>2. DiskInv /\ [Next]_vars => DiskInv'
  BY TypeStep, AloneStep DEF DiskInv
<1> QED
  BY <1>1, <1>2, PTL DEF Spec

\* The cells, the file and what each call has read keep their types, whatever the
\* threads interleave and however often the process is restarted.
THEOREM Types == Spec => []TypeOK
<1>1. ArmInv => TypeOK
  BY DEF ArmInv
<1> QED
  BY ArmInvariant, <1>1, PTL

\* An arm that began before a Stop does not clear it, whatever runs beside it and
\* however often the process is restarted.
THEOREM StaleArmHolds == Spec => StaleArmIsPowerless
<1>1. ASSUME ArmInv, Next,
             NEW t \in stale, pc[t] = "armSet", pc'[t] = "unpause"
      PROVE  UserStopped'
  <2>1. ArmSet(t)
    BY <1>1 DEF Next, Step, StopIncrement, ArmRead, ArmSet, Unpause, SetAutomation,
       PauseCall, PauseSet, ReadStop, ReadArmed, ReadAuto, Save, Crash, Call, Goto,
       ArmInv, TypeOK, StaleBehind
  <2> QED
    BY <1>1, <2>1 DEF ArmSet, ArmInv, TypeOK, Intent, StaleBehind, UserStopped, Latched
<1>2. ArmInv /\ [Next]_vars
        => [\A t \in stale : pc[t] = "armSet" /\ pc'[t] = "unpause" => UserStopped']_vars
  BY <1>1
<1> QED
  BY ArmInvariant, <1>2, PTL DEF Spec, StaleArmIsPowerless

\* A Stop of a process that has not been restarted always latches.
THEOREM StopLatchesHolds == Spec => StopLatches
<1>1. ArmInv /\ [Next]_vars
        => [crashes' = 0 /\ cells'.stop = cells.stop + 1 => UserStopped']_vars
  <2> SUFFICES ASSUME ArmInv, Next, crashes' = 0, cells'.stop = cells.stop + 1
               PROVE  UserStopped'
    OBVIOUS
  <2>1. \E t \in Threads : StopIncrement(t)
    BY DEF Next, Step, StopIncrement, ArmRead, ArmSet, Unpause, SetAutomation,
       PauseCall, PauseSet, ReadStop, ReadArmed, ReadAuto, Save, Crash, Call, Goto,
       ArmInv, TypeOK, Intent
  <2> QED
    BY <2>1 DEF StopIncrement, ArmInv, ArmedBehind, TypeOK, Intent, UserStopped, Latched
<1> QED
  BY ArmInvariant, <1>1, PTL DEF Spec, StopLatches

\* What the last lone call committed is what is in memory.
THEOREM DurableHolds == Spec => []DurableWhenAlone
<1>1. DiskInv => DurableWhenAlone
  BY DEF DiskInv, Pending, Committing, DurableWhenAlone, Quiescent
<1> QED
  BY DiskInvariant, <1>1, PTL

=============================================================================
