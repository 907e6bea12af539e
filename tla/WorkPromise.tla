----------------------------- MODULE WorkPromise -----------------------------
(***************************************************************************)
(* What a thread pool promises of each request (libuv: uv_queue_work() and *)
(* uv_cancel()): once submitted it is either run, by one thread, or        *)
(* cancelled before it has begun, never both, and it is answered exactly   *)
(* once; and no more than SlowLimit slow requests run at a time.           *)
(***************************************************************************)
EXTENDS Naturals, FiniteSets

CONSTANTS Works, SlowWorks, SlowLimit

VARIABLE request    \* state of each request

Init == request = [w \in Works |-> "idle"]

Becomes(w, from, to) == /\ request[w] = from
                        /\ request' = [request EXCEPT ![w] = to]

SlowRunning == {w \in SlowWorks : request[w] = "running"}

Submit(w) == Becomes(w, "idle", "queued")

Run(w) == /\ Becomes(w, "queued", "running")
          /\ w \in SlowWorks => Cardinality(SlowRunning) < SlowLimit

Finish(w) == Becomes(w, "running", "ran")

Cancel(w) == Becomes(w, "queued", "cancelled")

Answer(w) == Becomes(w, "ran", "idle") \/ Becomes(w, "cancelled", "idle")

Next == \E w \in Works : Submit(w) \/ Run(w) \/ Finish(w) \/ Cancel(w) \/ Answer(w)

Spec == Init /\ [][Next]_request
=============================================================================
