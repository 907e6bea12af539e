------------------------------ MODULE UvBarrier ------------------------------
(***************************************************************************)
(* The barrier of libuv for systems that have none (src/thread-common.c),  *)
(* Apple's among them: one mutex and one condition variable, on which both *)
(* the threads of a round wait for each other and those of the next round  *)
(* wait for the last of this one to leave.  What a thread does with the    *)
(* mutex, up to its next wait or its unlock, is one action.                *)
(***************************************************************************)
EXTENDS Integers, FiniteSets

CONSTANTS Parties,    \* the threads that use the barrier, as many as its count
          MaxWaits    \* how often each of them waits; then one may destroy it

ASSUME BarrierAssumption ==
  IsFiniteSet(Parties) /\ Parties # {} /\ MaxWaits \in Nat \ {0}

VARIABLES
  in, out,      \* of struct _uv_barrier
  spot,        \* where a thread is: see Spots
  begun, done,  \* history: rounds a thread has joined, and come back from
  serial,       \* the threads whose last call returned a positive number
  destroyed     \* uv_barrier_destroy() has been called

barrierVars == <<in, out, spot, begun, done, serial, destroyed>>

\* Outside; about to lock; asleep or awake in the wait for the round before to
\* leave; asleep or awake in the wait for the others.
Spots == {"away", "gate", "gateAsleep", "hall", "hallAsleep"}

threshold == Cardinality(Parties)

BarrierTypeOK ==
  /\ in \in 0..(threshold - 1) /\ out \in 0..(threshold - 1)
  /\ spot \in [Parties -> Spots]
  /\ begun \in [Parties -> 0..MaxWaits] /\ done \in [Parties -> 0..MaxWaits]
  /\ serial \in SUBSET Parties /\ destroyed \in BOOLEAN

\* uv_barrier_init()
BarrierInit ==
  /\ in = 0 /\ out = 0
  /\ spot = [t \in Parties |-> "away"]
  /\ begun = [t \in Parties |-> 0] /\ done = [t \in Parties |-> 0]
  /\ serial = {} /\ destroyed = FALSE

\* uv_cond_broadcast()
Awake(p) == CASE p = "gateAsleep" -> "gate" [] p = "hallAsleep" -> "hall" [] OTHER -> p

AllAwakeBut(t, p) == spot' = [s \in Parties |-> IF s = t THEN p ELSE Awake(spot[s])]

\* uv_barrier_wait() is called.
CallsBarrier(t) ==
  /\ spot[t] = "away" /\ done[t] < MaxWaits
  /\ spot' = [spot EXCEPT ![t] = "gate"]
  /\ serial' = serial \ {t}
  /\ UNCHANGED <<in, out, begun, done, destroyed>>

\* The last threads of the round before have not left.
WaitsAtGate(t) ==
  /\ spot[t] = "gate" /\ out # 0
  /\ spot' = [spot EXCEPT ![t] = "gateAsleep"]
  /\ UNCHANGED <<in, out, begun, done, serial, destroyed>>

\* A thread joins the round and waits for the others.
Joins(t) ==
  /\ spot[t] = "gate" /\ out = 0 /\ in + 1 # threshold
  /\ in' = in + 1
  /\ spot' = [spot EXCEPT ![t] = "hallAsleep"]
  /\ begun' = [begun EXCEPT ![t] = @ + 1]
  /\ UNCHANGED <<out, done, serial, destroyed>>

\* Mutant: any one thread is told, and the one that completes the round is at hand.
CompletesSerial(t) ==
  /\ spot[t] = "gate" /\ out = 0 /\ in + 1 = threshold
  /\ in' = 0 /\ out' = threshold - 1
  /\ AllAwakeBut(t, "away")
  /\ begun' = [begun EXCEPT ![t] = @ + 1] /\ done' = [done EXCEPT ![t] = @ + 1]
  /\ serial' = serial \cup {t}
  /\ UNCHANGED destroyed

\* The last one completes the round, wakes them, and leaves, at once.
Completes(t) ==
  /\ spot[t] = "gate" /\ out = 0 /\ in + 1 = threshold
  /\ in' = 0 /\ out' = threshold - 1
  /\ AllAwakeBut(t, "away")
  /\ begun' = [begun EXCEPT ![t] = @ + 1] /\ done' = [done EXCEPT ![t] = @ + 1]
  /\ serial' = IF out' = 0 THEN serial \cup {t} ELSE serial
  /\ UNCHANGED destroyed

\* Awake, and the round is not complete.
WaitsOn(t) ==
  /\ spot[t] = "hall" /\ in # 0
  /\ spot' = [spot EXCEPT ![t] = "hallAsleep"]
  /\ UNCHANGED <<in, out, begun, done, serial, destroyed>>

\* It is: the thread leaves; the last one returns 1, and wakes those at the gate.
Leaves(t) ==
  /\ spot[t] = "hall" /\ in = 0
  /\ out' = out - 1
  /\ done' = [done EXCEPT ![t] = @ + 1]
  /\ IF out' = 0
     THEN AllAwakeBut(t, "away") /\ serial' = serial \cup {t}
     ELSE spot' = [spot EXCEPT ![t] = "away"] /\ UNCHANGED serial
  /\ UNCHANGED <<in, begun, destroyed>>

\* pthread_cond_wait() may return without a reason.
WakesUp(t) ==
  /\ spot[t] # Awake(spot[t])
  /\ spot' = [spot EXCEPT ![t] = Awake(@)]
  /\ UNCHANGED <<in, out, begun, done, serial, destroyed>>

\* uv_barrier_destroy(), by a thread that got 1, when nobody is to wait any more; it
\* asserts that in is 0, and would wait for out.
DestroysBarrier(t) ==
  /\ t \in serial /\ spot[t] = "away" /\ done[t] = MaxWaits /\ ~destroyed
  /\ destroyed' = TRUE
  /\ UNCHANGED <<in, out, spot, begun, done, serial>>

BarrierCall(t) == WaitsAtGate(t) \/ Joins(t) \/ Completes(t) \/ WaitsOn(t) \/ Leaves(t)

BarrierNext == \E t \in Parties : \/ CallsBarrier(t) \/ BarrierCall(t)
                                  \/ WakesUp(t) \/ DestroysBarrier(t)

BarrierSpec == BarrierInit /\ [][BarrierNext]_barrierVars

-----------------------------------------------------------------------------
\* Properties.

\* Nobody comes back from a round that somebody has not joined.
NoneIsAhead == \A s, t \in Parties : done[t] <= begun[s]

\* The one thread that is told so is the last to leave its round, so that after the
\* final one it may destroy the barrier: the assertions of uv_barrier_destroy() hold
\* and no thread is inside, which is what test/test-barrier.c:128 asks for.
SerialMayDestroy ==
  \A t \in serial : spot[t] = "away" /\ done[t] = MaxWaits =>
    in = 0 /\ out = 0 /\ \A s \in Parties : spot[s] = "away" /\ done[s] = MaxWaits

\* A barrier keeps its threads together, and is not destroyed under one of them.
BarrierHolds == NoneIsAhead /\ SerialMayDestroy

\* Threads inside the barrier come out, as all of them wait equally often.
BarrierIsOwed == \E t \in Parties : spot[t] # "away"
=============================================================================
