-------------------------------- MODULE UvQueue --------------------------------
(***************************************************************************)
(* The linked queues of libuv (src/queue.h).  A queue is the sequence of   *)
(* its elements; an element is linked in at most one place, so that taking *)
(* it out is taking it out where it stands.                                *)
(***************************************************************************)
EXTENDS Naturals, Sequences, SequencesExt

In(x, q) == \E i \in DOMAIN q : q[i] = x

\* uv__queue_remove(), of an element that is on the queue or is not.
Unlink(x, q) == IF In(x, q)
                THEN RemoveAt(q, CHOOSE i \in DOMAIN q : q[i] = x)
                ELSE q
=============================================================================
