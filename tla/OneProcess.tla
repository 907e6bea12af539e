------------------------------ MODULE OneProcess ------------------------------
(***************************************************************************)
(* What a miner controller promises about the processes it spawns: there   *)
(* is never more than one, and a session number is used once, each newer   *)
(* than the one before.                                                    *)
(***************************************************************************)
EXTENDS Naturals

VARIABLES
  alive,       \* the sessions whose process lives
  launched     \* the newest session launched

vars == <<alive, launched>>

Init == alive = {} /\ launched = 0

Launch ==
  /\ alive = {}
  /\ launched' \in Nat /\ launched' > launched
  /\ alive' = {launched'}

End == alive' = {} /\ UNCHANGED launched

Spec == Init /\ [][Launch \/ End]_vars
=============================================================================
