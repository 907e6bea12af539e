--------------------------- MODULE MCMiningSession ---------------------------
(* Small instances of MiningSession for TLC. *)
EXTENDS MiningSession, TLC

\* The callers and the work ids are interchangeable: symmetry for the runs that
\* check safety only.
Symmetry == Permutations(Callers) \cup Permutations(WorkIds)
=============================================================================
