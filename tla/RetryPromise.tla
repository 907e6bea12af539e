---------------------------- MODULE RetryPromise ----------------------------
(***************************************************************************)
(* What a session owner that reconnects promises (shared/reconnect): one   *)
(* session, which runs, waits for a retry, or is over.  Every wait costs   *)
(* one of a bounded number of attempts, only a waiting session retries,    *)
(* and a session that is over starts again only at the user's request.     *)
(***************************************************************************)
EXTENDS Naturals

CONSTANT MaxAttempts    \* retries a session may make

VARIABLES session,      \* "over", "running" or "waiting"
          spent         \* attempts spent since the session began

promise == <<session, spent>>

Init == session = "over" /\ spent = 0

\* The user starts a session.
Begin == /\ session = "over"
         /\ session' = "running"
         /\ spent' = 0

\* The connection is lost, or the retry of a lost one is: wait, at the price of
\* one attempt.
Wait == /\ session # "over"
        /\ spent < MaxAttempts
        /\ session' = "waiting"
        /\ spent' = spent + 1

\* The waiting is over: connect again.
Retry == /\ session = "waiting"
         /\ session' = "running"
         /\ UNCHANGED spent

\* The user stops, a failure is final, or the attempts are spent.
End == /\ session # "over"
       /\ session' = "over"
       /\ spent' = 0

Next == Begin \/ Wait \/ Retry \/ End

Spec == Init /\ [][Next]_promise
=============================================================================
