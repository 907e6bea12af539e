---------------------------- MODULE MCSessionLatch ----------------------------
(* Small instances of SessionLatch for TLC. *)
EXTENDS SessionLatch, TLC

\* Threads are interchangeable.
Symmetry == Permutations(Threads)
=============================================================================
