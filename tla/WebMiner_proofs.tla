--------------------------- MODULE WebMiner_proofs ---------------------------
(***************************************************************************)
(* Theorems about WebMiner for every number of retries, sessions, seeds    *)
(* and workers: types, the accounting of connections and timers, and the   *)
(* promise of the reconnect contract.                                      *)
(***************************************************************************)
EXTENDS WebMiner, FiniteSetTheorems, TLAPS

USE DEF SocketStates, Phases, Addresses

(* The sockets q are those of a session: only the last may be in use.      *)
LastOnly(q) == \A s \in DOMAIN q : q[s] \in {"connecting", "open"} => s = Len(q)

(* No socket of q is in use.                                               *)
NoneLive(q) == \A s \in DOMAIN q : q[s] \notin {"connecting", "open"}

(* The situations of a page between two handlers.                          *)
Over     == /\ ~isMining /\ timers = 0 /\ phase # "reconnecting"
            /\ NoneLive(sock)
Waiting  == /\ isMining /\ timers = 1 /\ phase = "reconnecting" /\ ~cancelled
            /\ NoneLive(sock)
Running  == /\ isMining /\ timers = 0 /\ phase = "mining" /\ ~cancelled
            /\ address = "valid"
            /\ sock # <<>> /\ Live(Len(sock)) /\ LastOnly(sock)
Stranded == /\ isMining /\ timers = 0 /\ phase = "mining" /\ ~cancelled
            /\ address = "malformed"
            /\ NoneLive(sock)

Situation == Over \/ Waiting \/ Running \/ Stranded
Inv == TypeOK /\ Situation

-----------------------------------------------------------------------------
(* Closing the last of the sockets leaves none of them in use.             *)
LEMMA CloseLastCloses ==
  ASSUME NEW q \in Seq(SocketStates), LastOnly(q)
  PROVE  /\ CloseLast(q) \in Seq(SocketStates)
         /\ Len(CloseLast(q)) = Len(q)
         /\ NoneLive(CloseLast(q))
  <1>1. CASE q = <<>>
    BY <1>1 DEF CloseLast, NoneLive
  <1>2. CASE q # <<>>
    <2>1. CloseLast(q) = [q EXCEPT ![Len(q)] = AfterClose(q[Len(q)])]
      BY <1>2 DEF CloseLast
    <2>2. Len(q) \in DOMAIN q /\ q[Len(q)] \in SocketStates
      BY <1>2
    <2>3. AfterClose(q[Len(q)]) \in {"aborted", "closing", "closed"}
      BY <2>2 DEF AfterClose
    <2>4. CloseLast(q) \in Seq(SocketStates) /\ Len(CloseLast(q)) = Len(q)
      BY <2>1, <2>2, <2>3
    <2>5. NoneLive(CloseLast(q))
      BY <2>1, <2>2, <2>3, <2>4 DEF NoneLive, LastOnly
    <2> QED BY <2>4, <2>5
  <1> QED BY <1>1, <1>2

(* An event that ends a socket keeps the sockets in order.                 *)
LEMMA EndingASocket ==
  ASSUME NEW q \in Seq(SocketStates), LastOnly(q), NEW s \in DOMAIN q
  PROVE  LET r == [q EXCEPT ![s] = "closed"]
         IN  /\ r \in Seq(SocketStates) /\ Len(r) = Len(q)
             /\ DOMAIN r = DOMAIN q
             /\ LastOnly(r)
             /\ NoneLive(q) => NoneLive(r)
  BY DEF LastOnly, NoneLive

(* A new socket is the only one in use.                                    *)
LEMMA OpeningASocket ==
  ASSUME NEW q \in Seq(SocketStates), NoneLive(q)
  PROVE  LET r == Append(q, "connecting")
         IN  /\ r \in Seq(SocketStates) /\ Len(r) = Len(q) + 1
             /\ r # <<>> /\ r[Len(r)] = "connecting"
             /\ LastOnly(r)
  BY DEF LastOnly, NoneLive

(* In every situation the last socket is the only one that may be in use.  *)
LEMMA SituationLast ==
  ASSUME Situation, sock \in Seq(SocketStates)
  PROVE  LastOnly(sock)
  BY DEF Situation, Over, Waiting, Running, Stranded, LastOnly, NoneLive

(* Two parts of TypeOK that the handlers change.                           *)
SessionTypes == /\ isMining \in BOOLEAN /\ cancelled \in BOOLEAN
                /\ phase \in Phases /\ attempt \in 0..MaxAttempts /\ timers \in Nat
CrewTypes == /\ worker \in [Crew -> {"none", "booting", "ready"}]
             /\ workerGen \in 0..MaxStarts /\ stray \in BOOLEAN
             /\ given \in BOOLEAN /\ pendingJob \in BOOLEAN
             /\ readyWorkers \in Nat

(* What an event leaves of the sockets before the session reacts.          *)
Left(r) == /\ r \in Seq(SocketStates) /\ LastOnly(r) /\ Len(r) = Len(sock)
           /\ NoneLive(sock) => NoneLive(r)

LEMMA LeftAsIs ==
  ASSUME Inv
  PROVE  Left(sock)
  BY SituationLast DEF Inv, TypeOK, Left

LEMMA LeftClosed ==
  ASSUME Inv, NEW s \in DOMAIN sock
  PROVE  Left([sock EXCEPT ![s] = "closed"])
  BY SituationLast, EndingASocket DEF Inv, TypeOK, Left

LEMMA LeftLast ==
  ASSUME Inv, NoneLive(sock)
  PROVE  Left(CloseLast(sock))
  BY LeftAsIs, CloseLastCloses DEF Left, NoneLive, LastOnly

(* A Boolean that is left alone.                                           *)
LEMMA StrayKept == ASSUME TypeOK, stray' = stray PROVE stray' \in BOOLEAN
  <1>1. stray \in BOOLEAN
    BY DEF TypeOK
  <1> QED BY <1>1, Zenon

LEMMA TerminateTypes ==
  ASSUME TypeOK, TerminateWorkers
  PROVE  CrewTypes'
  <1>1. worker' \in [Crew -> {"none", "booting", "ready"}]
    BY DEF TerminateWorkers
  <1>2. /\ workerGen' = workerGen /\ stray' = stray
        /\ given' = FALSE /\ readyWorkers' = 0 /\ pendingJob' = FALSE
    BY DEF TerminateWorkers
  <1>3. stray' \in BOOLEAN
    BY <1>2, StrayKept
  <1> QED BY <1>1, <1>2, <1>3 DEF TypeOK, CrewTypes

(* A Stop, whoever it comes from, ends the session ...                     *)
LEMMA SessionEnds ==
  ASSUME WebAssumption, Inv, NEW r, Left(r), EndSession(r)
  PROVE  /\ Over' /\ attempt' = 0 /\ SessionTypes'
         /\ sock' \in Seq(SocketStates) /\ Len(sock') = Len(sock)
  <1> USE DEF WebAssumption
  <1>1. timers' = 0
    BY DEF EndSession, TimersLeft, Inv, Situation, Over, Waiting, Running, Stranded
  <1>2. SessionTypes' /\ ~isMining' /\ phase' = "stopped" /\ attempt' = 0
    <2>1. ~isMining' /\ isMining' \in BOOLEAN /\ cancelled' \in BOOLEAN
      BY DEF EndSession
    <2>2. phase' = "stopped" /\ attempt' = 0
      BY DEF EndSession
    <2> QED BY <1>1, <2>1, <2>2 DEF SessionTypes
  <1>3. sock' \in Seq(SocketStates) /\ Len(sock') = Len(sock) /\ NoneLive(sock')
    <2>1. CASE isMining
      <3>1. sock' = CloseLast(r)
        BY <2>1 DEF EndSession
      <3> QED BY <3>1, CloseLastCloses DEF Left
    <2>2. CASE ~isMining
      <3>1. sock' = r
        BY <2>2 DEF EndSession
      <3>2. NoneLive(sock)
        BY <2>2 DEF Inv, Situation, Over, Waiting, Running, Stranded
      <3> QED BY <3>1, <3>2 DEF Left
    <2> QED BY <2>1, <2>2
  <1> QED BY <1>1, <1>2, <1>3 DEF Over, NoneLive

(* ... and, if there was one, terminates its workers.                      *)
LEMMA StopEnds ==
  ASSUME WebAssumption, Inv, NEW r, Left(r), StopMining(r)
  PROVE  /\ Over' /\ attempt' = 0
         /\ SessionTypes' /\ CrewTypes'
         /\ sock' \in Seq(SocketStates) /\ Len(sock') = Len(sock)
  <1>1. CrewTypes'
    <2>1. CASE isMining
      BY <2>1, TerminateTypes DEF StopMining, Inv
    <2>2. CASE ~isMining
      <3>1. UNCHANGED crewVars
        BY <2>2 DEF StopMining
      <3> QED BY <3>1 DEF Inv, TypeOK, CrewTypes, crewVars
    <2> QED BY <2>1, <2>2
  <1> QED BY <1>1, SessionEnds DEF StopMining

(* The page's answer to a lost connection: nothing, a paid wait, or the end. *)
LEMMA DisconnectOutcome ==
  ASSUME WebAssumption, Inv, NEW kind, NEW r, Left(r), HandleProxyDisconnect(kind, r)
  PROVE  /\ SessionTypes' /\ CrewTypes'
         /\ sock' \in Seq(SocketStates) /\ Len(sock') = Len(sock)
         /\ \/ Over /\ Over' /\ UNCHANGED attempt
            \/ ~Over /\ Waiting' /\ attempt < MaxAttempts /\ attempt' = attempt + 1
            \/ ~Over /\ Over'
  <1> USE DEF WebAssumption
  <1>1. CASE ~isMining
    <2>1. Over
      BY <1>1 DEF Inv, Situation, Over, Waiting, Running, Stranded
    <2>2. sock' = r /\ UNCHANGED <<sessionVars, crewVars>>
      BY <1>1, <2>1 DEF HandleProxyDisconnect, Over
    <2>3. NoneLive(sock')
      BY <2>1, <2>2 DEF Over, Left
    <2>4. Over' /\ UNCHANGED attempt
      BY <2>1, <2>2, <2>3 DEF Over, sessionVars, NoneLive
    <2>5. SessionTypes' /\ CrewTypes'
      BY <2>2 DEF Inv, TypeOK, SessionTypes, CrewTypes, sessionVars, crewVars
    <2> QED BY <2>1, <2>2, <2>4, <2>5 DEF Left
  <1>2. CASE isMining /\ Retryable(kind)
    <2>1. WaitForRetry(r)
      BY <1>2 DEF HandleProxyDisconnect
    <2>2. timers' = 1
      BY <2>1 DEF WaitForRetry, TimersLeft, Inv, Situation, Over, Waiting, Running, Stranded
    <2>3. sock' \in Seq(SocketStates) /\ Len(sock') = Len(sock) /\ NoneLive(sock')
      BY <2>1, CloseLastCloses DEF WaitForRetry, Left
    <2>4. ~cancelled /\ cancelled' = cancelled
      BY <1>2, <2>1 DEF Retryable, WaitForRetry
    <2>5. attempt < MaxAttempts /\ attempt' = attempt + 1
      BY <1>2, <2>1 DEF Retryable, WaitForRetry
    <2>6. SessionTypes'
      BY <2>1, <2>2, <2>4, <2>5 DEF WaitForRetry, Inv, TypeOK, SessionTypes
    <2>7. CrewTypes'
      BY <2>1 DEF WaitForRetry, crewVars, Inv, TypeOK, CrewTypes
    <2>8. Waiting'
      BY <2>1, <2>2, <2>3, <2>4 DEF WaitForRetry, Waiting, NoneLive
    <2> QED BY <1>2, <2>3, <2>5, <2>6, <2>7, <2>8 DEF Over
  <1>3. CASE isMining /\ ~Retryable(kind)
    <2>1. GiveUp(kind, r)
      BY <1>3 DEF HandleProxyDisconnect
    <2>2. timers' = 0
      BY <2>1 DEF GiveUp, TimersLeft, Inv, Situation, Over, Waiting, Running, Stranded
    <2>3. sock' \in Seq(SocketStates) /\ Len(sock') = Len(sock) /\ NoneLive(sock')
      BY <2>1, CloseLastCloses DEF GiveUp, Left
    <2>4. phase' \in {"stopped", "paused", "failed"}
      <3>1. phase' = IF cancelled \/ phase = "stopped" THEN "stopped"
                     ELSE IF kind = "pause" THEN "paused" ELSE "failed"
        BY <2>1 DEF GiveUp
      <3> QED BY <3>1
    <2>5. SessionTypes'
      <3>1. attempt' \in {0, attempt} /\ attempt \in 0..MaxAttempts
        BY <2>1 DEF GiveUp, Inv, TypeOK
      <3>2. attempt' \in 0..MaxAttempts
        BY <3>1
      <3>3. isMining' \in BOOLEAN /\ cancelled' \in BOOLEAN
        BY <2>1 DEF GiveUp, Inv, TypeOK
      <3> QED BY <2>2, <2>4, <3>2, <3>3 DEF SessionTypes
    <2>6. CrewTypes'
      BY <2>1, TerminateTypes DEF GiveUp, Inv
    <2>7. Over'
      BY <2>1, <2>2, <2>3, <2>4 DEF GiveUp, Over, NoneLive
    <2> QED BY <1>3, <2>3, <2>5, <2>6, <2>7 DEF Over
  <1>4. isMining \in BOOLEAN
    BY DEF Inv, TypeOK
  <1> QED BY <1>1, <1>2, <1>3, <1>4

(* A connection that is made, or refused.                                  *)
LEMMA ConnectOutcome ==
  ASSUME Inv, NEW a \in Addresses, Connect(a)
  PROVE  /\ sock' \in Seq(SocketStates) /\ Len(sock') >= Len(sock)
         /\ a = "valid" => sock' # <<>> /\ Live(Len(sock))' /\ LastOnly(sock)'
         /\ a # "valid" => NoneLive(sock)'
  <1> DEFINE q == CloseLast(sock)
  <1>1. q \in Seq(SocketStates) /\ Len(q) = Len(sock) /\ NoneLive(q)
    BY LeftAsIs, CloseLastCloses DEF Left
  <1>2. sock' = IF a = "valid" THEN Append(q, "connecting") ELSE q
    BY DEF Connect
  <1>0. Len(sock) \in Nat
    BY DEF Inv, TypeOK
  <1> HIDE DEF q
  <1>3. CASE a = "valid"
    <2>1. /\ sock' \in Seq(SocketStates) /\ Len(sock') = Len(q) + 1
          /\ sock' # <<>> /\ sock'[Len(sock')] = "connecting"
          /\ LastOnly(sock')
      BY <1>1, <1>2, <1>3, OpeningASocket
    <2>2. Live(Len(sock))'
      BY <2>1 DEF Live
    <2>3. LastOnly(sock)'
      BY <2>1 DEF LastOnly
    <2> QED BY <1>0, <1>1, <1>3, <2>1, <2>2, <2>3
  <1>4. CASE a # "valid"
    BY <1>0, <1>1, <1>2, <1>4 DEF NoneLive
  <1> QED BY <1>3, <1>4

-----------------------------------------------------------------------------
(* The inductive invariant.                                                *)

LEMMA InitInv == WebAssumption /\ Init => Inv
  <1> SUFFICES ASSUME WebAssumption, Init PROVE Inv
    OBVIOUS
  <1>1. sock \in Seq(SocketStates) /\ Len(sock) = 0 /\ DOMAIN sock = {}
    BY DEF Init
  <1>2. worker \in [Crew -> {"none", "booting", "ready"}]
    BY DEF Init
  <1>3. TypeOK
    <2>1. /\ isMining = FALSE /\ cancelled = FALSE /\ given = FALSE
          /\ pendingJob = FALSE /\ stray = FALSE /\ address = "missing"
      BY DEF Init
    <2>2. /\ phase \in Phases /\ attempt \in 0..MaxAttempts /\ timers \in Nat
          /\ failing \in 0..Len(sock) /\ generation \in 0..MaxStarts
          /\ workerGen \in 0..MaxStarts /\ readyWorkers \in Nat
      BY <1>1 DEF WebAssumption, Init
    <2>3. rxCache \in Seeds \cup {NoSeed} /\ currentSeed \in Seeds \cup {NoSeed}
      BY DEF Init
    <2> QED BY <1>1, <1>2, <2>1, <2>2, <2>3 DEF TypeOK
  <1>4. Over
    BY <1>1 DEF Init, Over, NoneLive
  <1> QED BY <1>3, <1>4 DEF Inv, Situation

LEMMA StartInv ==
  ASSUME WebAssumption, Inv, NEW a \in Addresses, Start(a)
  PROVE  Inv' /\ Over /\ (Running' \/ Stranded') /\ attempt' = 0
  <1> USE DEF WebAssumption
  <1>1. Over
    BY DEF Start, Inv, Situation, Over, Waiting, Running, Stranded
  <1>2. /\ sock' \in Seq(SocketStates) /\ Len(sock') >= Len(sock)
        /\ a = "valid" => sock' # <<>> /\ Live(Len(sock))' /\ LastOnly(sock)'
        /\ a # "valid" => NoneLive(sock)'
    BY ConnectOutcome DEF Start
  <1>3. /\ isMining' = TRUE /\ cancelled' = FALSE /\ phase' = "mining"
        /\ attempt' = 0 /\ timers' = timers /\ readyWorkers' = 0
        /\ worker' = worker /\ workerGen' = workerGen /\ stray' = stray
        /\ given' = given /\ pendingJob' = pendingJob
        /\ address' = a /\ a \in {"valid", "malformed"}
    BY DEF Start
  <1>4. timers = 0 /\ timers' = 0
    BY <1>1, <1>3 DEF Over
  <1>5. a = "valid" => Running'
    BY <1>2, <1>3, <1>4 DEF Running
  <1>6. a = "malformed" => Stranded'
    BY <1>2, <1>3, <1>4 DEF Stranded
  <1>7. SessionTypes'
    <2>1. isMining' \in BOOLEAN /\ cancelled' \in BOOLEAN
      BY <1>3, Zenon
    <2>2. attempt' \in 0..MaxAttempts /\ timers' \in Nat /\ phase' \in Phases
      BY <1>3, <1>4
    <2> QED BY <2>1, <2>2 DEF SessionTypes
  <1>8. CrewTypes'
    <2>1. /\ worker' \in [Crew -> {"none", "booting", "ready"}]
          /\ workerGen' \in 0..MaxStarts
      <3>1. /\ worker \in [Crew -> {"none", "booting", "ready"}]
            /\ workerGen \in 0..MaxStarts
        BY DEF Inv, TypeOK
      <3> QED BY <1>3, <3>1
    <2>2. given' \in BOOLEAN /\ pendingJob' \in BOOLEAN
      <3>1. given \in BOOLEAN /\ pendingJob \in BOOLEAN
        BY DEF Inv, TypeOK
      <3> QED BY <1>3, <3>1, Zenon
    <2>3. stray' \in BOOLEAN
      BY <1>3, StrayKept DEF Inv
    <2>4. readyWorkers' \in Nat
      BY <1>3
    <2> QED BY <2>1, <2>2, <2>3, <2>4 DEF CrewTypes
  <1>9. failing' \in 0..Len(sock') /\ generation' \in 0..MaxStarts
    BY <1>2 DEF Start, Inv, TypeOK
  <1>10. rxCache' \in Seeds \cup {NoSeed} /\ currentSeed' \in Seeds \cup {NoSeed}
    BY DEF Start, cacheVars, Inv, TypeOK
  <1>11. address' \in Addresses
    BY <1>3
  <1>12. TypeOK'
    BY <1>2, <1>7, <1>8, <1>9, <1>10, <1>11 DEF SessionTypes, CrewTypes, TypeOK
  <1> QED BY <1>1, <1>3, <1>5, <1>6, <1>12 DEF Inv, Situation

LEMMA StartUnaddressedInv ==
  ASSUME WebAssumption, Inv, StartUnaddressed
  PROVE  Inv' /\ Over' /\ attempt' = 0
  <1> USE DEF WebAssumption
  <1>1. Over
    BY DEF StartUnaddressed, Inv, Situation, Over, Waiting, Running, Stranded
  <1>2. sock' \in Seq(SocketStates) /\ Len(sock') = Len(sock) /\ NoneLive(sock')
    BY LeftAsIs, CloseLastCloses DEF StartUnaddressed, Left
  <1>3. /\ isMining' = FALSE /\ cancelled' = TRUE /\ phase' = "stopped"
        /\ attempt' = 0 /\ timers' = 0
    BY <1>1 DEF StartUnaddressed, TimersLeft, Over
  <1>4. Over'
    BY <1>2, <1>3 DEF Over, NoneLive
  <1>5. SessionTypes'
    <2>1. isMining' \in BOOLEAN /\ cancelled' \in BOOLEAN
      BY <1>3, Zenon
    <2> QED BY <1>3, <2>1 DEF SessionTypes
  <1>6. CrewTypes'
    BY TerminateTypes DEF StartUnaddressed, Inv
  <1>7. /\ failing' \in 0..Len(sock') /\ generation' \in 0..MaxStarts
        /\ address' \in Addresses
        /\ rxCache' \in Seeds \cup {NoSeed} /\ currentSeed' \in Seeds \cup {NoSeed}
    BY <1>2 DEF StartUnaddressed, cacheVars, Inv, TypeOK
  <1>8. TypeOK'
    BY <1>2, <1>5, <1>6, <1>7 DEF SessionTypes, CrewTypes, TypeOK
  <1> QED BY <1>3, <1>4, <1>8 DEF Inv, Situation

(* Every failure of the page's own making ends the session like a Stop.    *)
LEMMA StopInv ==
  ASSUME WebAssumption, Inv, StopMining(sock), UNCHANGED <<failing, startVars>>,
         rxCache' \in Seeds \cup {NoSeed}, currentSeed' \in Seeds \cup {NoSeed}
  PROVE  Inv' /\ Over' /\ attempt' = 0
  <1>1. /\ Over' /\ attempt' = 0 /\ SessionTypes' /\ CrewTypes'
        /\ sock' \in Seq(SocketStates) /\ Len(sock') = Len(sock)
    BY StopEnds, LeftAsIs
  <1>2. TypeOK'
    BY <1>1 DEF SessionTypes, CrewTypes, TypeOK, Inv, startVars
  <1> QED BY <1>1, <1>2 DEF Inv, Situation

(* The retry connects, or is refused, which is one more disconnect.        *)
LEMMA RetryInv ==
  ASSUME WebAssumption, Inv, RetryDue
  PROVE  /\ Inv' /\ Waiting
         /\ \/ Running' /\ UNCHANGED attempt
            \/ Waiting' /\ attempt < MaxAttempts /\ attempt' = attempt + 1
            \/ Over'
  <1> USE DEF WebAssumption
  <1>1. Waiting
    BY DEF RetryDue, Inv, Situation, Over, Waiting, Running, Stranded
  <1>2. UNCHANGED <<failing, startVars, cacheVars>>
    BY DEF RetryDue
  <1>3. failing \in 0..Len(sock) /\ Len(sock) \in Nat /\ address \in Addresses
    BY DEF Inv, TypeOK
  <1>4. CASE address = "valid"
    <2>1. Connect(address) /\ phase' = "mining" /\ timers' = 0
          /\ UNCHANGED <<isMining, cancelled, attempt, crewVars>>
      BY <1>1, <1>4 DEF RetryDue, Waiting
    <2>2. sock' \in Seq(SocketStates) /\ Len(sock') >= Len(sock)
          /\ sock' # <<>> /\ Live(Len(sock))' /\ LastOnly(sock)'
      BY <1>3, <1>4, <2>1, ConnectOutcome
    <2>3. Running'
      BY <1>1, <1>2, <1>4, <2>1, <2>2 DEF Waiting, Running, startVars
    <2>4. TypeOK'
      BY <1>2, <1>3, <2>1, <2>2 DEF Inv, TypeOK, crewVars, cacheVars, startVars
    <2> QED BY <1>1, <2>1, <2>3, <2>4 DEF Inv, Situation
  <1>5. CASE address # "valid"
    <2>1. PICK kind \in Kinds : HandleProxyDisconnect(kind, CloseLast(sock))
      BY <1>1, <1>5 DEF RetryDue, Waiting
    <2>2. Left(CloseLast(sock))
      BY <1>1, LeftLast DEF Waiting
    <2>3. /\ SessionTypes' /\ CrewTypes'
          /\ sock' \in Seq(SocketStates) /\ Len(sock') = Len(sock)
          /\ \/ Over /\ Over' /\ UNCHANGED attempt
             \/ ~Over /\ Waiting' /\ attempt < MaxAttempts /\ attempt' = attempt + 1
             \/ ~Over /\ Over'
      BY <2>1, <2>2, DisconnectOutcome
    <2>4. TypeOK'
      BY <1>2, <1>3, <2>3 DEF SessionTypes, CrewTypes, TypeOK, Inv, cacheVars, startVars
    <2> QED BY <1>1, <2>3, <2>4 DEF Inv, Situation
  <1> QED BY <1>4, <1>5

LEMMA OpensInv ==
  ASSUME WebAssumption, Inv, NEW s \in DOMAIN sock, SocketOpens(s)
  PROVE  Inv' /\ Running /\ Running' /\ UNCHANGED attempt
  <1>1. Running
    BY DEF SocketOpens, Inv, Situation, Over, Waiting, Stranded, NoneLive
  <1>2. s = Len(sock)
    BY <1>1 DEF SocketOpens, Running, LastOnly
  <1>3. sock' \in Seq(SocketStates) /\ Len(sock') = Len(sock) /\ sock' # <<>>
        /\ Live(Len(sock))' /\ LastOnly(sock)'
    BY <1>1, <1>2 DEF SocketOpens, Running, Live, LastOnly, Inv, TypeOK
  <1>4. UNCHANGED <<sessionVars, failing, startVars, crewVars, cacheVars>>
    BY <1>1 DEF SocketOpens, Running, sessionVars
  <1>5. Running'
    BY <1>1, <1>3, <1>4 DEF Running, sessionVars, startVars
  <1>6. TypeOK'
    BY <1>3, <1>4 DEF Inv, TypeOK, sessionVars, startVars, crewVars, cacheVars
  <1> QED BY <1>1, <1>4, <1>5, <1>6 DEF Inv, Situation, sessionVars

(* A socket that fails or closes: the three answers of DisconnectOutcome.  *)
LEMMA LossInv ==
  ASSUME WebAssumption, Inv, NEW s \in DOMAIN sock, NEW kind,
         HandleProxyDisconnect(kind, [sock EXCEPT ![s] = "closed"]),
         failing' \in {0, s}, UNCHANGED <<startVars, cacheVars>>
  PROVE  /\ Inv'
         /\ \/ Over /\ Over' /\ UNCHANGED attempt
            \/ ~Over /\ Waiting' /\ attempt < MaxAttempts /\ attempt' = attempt + 1
            \/ ~Over /\ Over'
  <1>1. /\ SessionTypes' /\ CrewTypes'
        /\ sock' \in Seq(SocketStates) /\ Len(sock') = Len(sock)
        /\ \/ Over /\ Over' /\ UNCHANGED attempt
           \/ ~Over /\ Waiting' /\ attempt < MaxAttempts /\ attempt' = attempt + 1
           \/ ~Over /\ Over'
    BY LeftClosed, DisconnectOutcome
  <1>2. s \in 0..Len(sock)
    BY DEF Inv, TypeOK
  <1>3. TypeOK'
    BY <1>1, <1>2 DEF SessionTypes, CrewTypes, TypeOK, Inv, startVars, cacheVars
  <1> QED BY <1>1, <1>3 DEF Inv, Situation

(* Jobs and workers that leave session and sockets alone.                  *)
LEMMA CrewInv ==
  ASSUME Inv, UNCHANGED <<sessionVars, linkVars, startVars>>, CrewTypes',
         rxCache' \in Seeds \cup {NoSeed}, currentSeed' \in Seeds \cup {NoSeed}
  PROVE  Inv' /\ UNCHANGED <<isMining, timers, attempt>>
  BY DEF Inv, TypeOK, CrewTypes, sessionVars, linkVars, startVars, Situation, Over,
         Waiting, Running, Stranded, NoneLive, LastOnly, Live

LEMMA TypesKept ==
  ASSUME TypeOK
  PROVE  /\ SessionTypes /\ CrewTypes
         /\ rxCache \in Seeds \cup {NoSeed} /\ currentSeed \in Seeds \cup {NoSeed}
  BY DEF TypeOK, SessionTypes, CrewTypes

(* The workers of a new crew have their types.                             *)
LEMMA NewCrewTypes ==
  ASSUME TypeOK, NEW n, StartsWorkers(n), KeepsJob, stray' \in BOOLEAN
  PROVE  CrewTypes'
  <1>1. worker' \in [Crew -> {"none", "booting", "ready"}]
    BY DEF StartsWorkers
  <1>2. workerGen' \in 0..MaxStarts
    BY DEF StartsWorkers, TypeOK
  <1>3. readyWorkers' \in Nat /\ given' \in BOOLEAN /\ pendingJob' \in BOOLEAN
    <2>1. readyWorkers' = 0 /\ given' = FALSE /\ pendingJob' = TRUE
      BY DEF KeepsJob
    <2> QED BY <2>1
  <1> QED BY <1>1, <1>2, <1>3 DEF CrewTypes

(* A new crew in a session that goes on ...                                *)
LEMMA NewWorkersInv ==
  ASSUME Inv, NewWorkers,
         rxCache' \in Seeds \cup {NoSeed}, currentSeed' \in Seeds \cup {NoSeed}
  PROVE  Inv' /\ UNCHANGED <<isMining, timers, attempt>>
  <1>1. CrewTypes'
    BY NewCrewTypes, StrayKept DEF NewWorkers, Inv
  <1> QED BY <1>1, CrewInv DEF NewWorkers

(* ... and workers that are left by one that has ended.                    *)
LEMMA WorkersOutsideInv ==
  ASSUME WebAssumption, Inv, NEW n, WorkersOutside(n), stray' \in BOOLEAN,
         rxCache' \in Seeds \cup {NoSeed}, currentSeed' \in Seeds \cup {NoSeed}
  PROVE  Inv' /\ Over' /\ attempt' = 0
  <1>1. /\ Over' /\ attempt' = 0 /\ SessionTypes'
        /\ sock' \in Seq(SocketStates) /\ Len(sock') = Len(sock)
    BY SessionEnds, LeftAsIs DEF WorkersOutside
  <1>2. CrewTypes'
    BY NewCrewTypes DEF WorkersOutside, Inv
  <1>3. UNCHANGED <<failing, startVars>>
    BY DEF WorkersOutside
  <1>4. TypeOK'
    BY <1>1, <1>2, <1>3 DEF SessionTypes, CrewTypes, TypeOK, Inv, startVars
  <1> QED BY <1>1, <1>4 DEF Inv, Situation

-----------------------------------------------------------------------------
(* What a step may do, as the user of the page sees it.                    *)
Begins == Over /\ (Running' \/ Stranded') /\ attempt' = 0
Waits  == ~Over /\ Waiting' /\ attempt < MaxAttempts /\ attempt' = attempt + 1
Retries == Waiting /\ Running' /\ UNCHANGED attempt
Ends   == Over'
Lets   == UNCHANGED <<isMining, timers, attempt>>

(* The jobs.                                                               *)
LEMMA FailureInv ==
  ASSUME WebAssumption, Inv, FailRuntime, UNCHANGED cacheVars
  PROVE  Inv' /\ Ends
  <1>1. rxCache' \in Seeds \cup {NoSeed} /\ currentSeed' \in Seeds \cup {NoSeed}
    BY TypesKept DEF cacheVars, Inv
  <1> QED BY <1>1, StopInv DEF FailRuntime, Ends

LEMMA JobForNobodyInv ==
  ASSUME WebAssumption, Inv, NEW s \in DOMAIN sock, JobForNobody(s)
  PROVE  Inv' /\ (Ends \/ Lets)
  <1>1. rxCache' \in Seeds \cup {NoSeed} /\ currentSeed' \in Seeds \cup {NoSeed}
    BY TypesKept DEF JobForNobody, cacheVars, Inv
  <1>2. CASE FailRuntime
    BY <1>2, FailureInv DEF JobForNobody
  <1>3. CASE NewWorkers
    BY <1>1, <1>3, NewWorkersInv DEF Lets
  <1>4. CASE WorkersOutside(0) /\ stray' = TRUE
    <2>1. stray' \in BOOLEAN
      BY <1>4, Zenon
    <2> QED BY <1>1, <1>4, <2>1, WorkersOutsideInv DEF Ends
  <1> QED BY <1>2, <1>3, <1>4 DEF JobForNobody

LEMMA JobSameSeedInv ==
  ASSUME WebAssumption, Inv, NEW s \in DOMAIN sock, JobSameSeed(s)
  PROVE  Inv' /\ (Ends \/ Lets)
  <1>1. rxCache' \in Seeds \cup {NoSeed} /\ currentSeed' \in Seeds \cup {NoSeed}
    BY TypesKept DEF JobSameSeed, cacheVars, Inv
  <1>2. CASE FailRuntime
    BY <1>2, FailureInv DEF JobSameSeed
  <1>3. CASE ~FailRuntime
    <2>1. /\ UNCHANGED <<sessionVars, linkVars, startVars>>
          /\ UNCHANGED <<worker, workerGen, stray, readyWorkers>>
          /\ \/ given' = TRUE /\ pendingJob' = pendingJob
             \/ given' = given /\ pendingJob' = TRUE
      BY <1>3 DEF JobSameSeed
    <2>2. given' \in BOOLEAN /\ pendingJob' \in BOOLEAN
      <3>1. given \in BOOLEAN /\ pendingJob \in BOOLEAN
        BY DEF Inv, TypeOK
      <3> QED BY <2>1, <3>1, Zenon
    <2>3. stray' \in BOOLEAN
      BY <2>1, StrayKept DEF Inv
    <2>4. CrewTypes'
      BY <2>1, <2>2, <2>3 DEF Inv, TypeOK, CrewTypes
    <2> QED BY <1>1, <2>1, <2>4, CrewInv DEF Lets
  <1> QED BY <1>2, <1>3

LEMMA JobNewSeedInv ==
  ASSUME WebAssumption, Inv, NEW s \in DOMAIN sock, NEW seed \in Seeds,
         JobNewSeed(s, seed)
  PROVE  Inv' /\ (Ends \/ Lets)
  <1>1. rxCache' \in Seeds \cup {NoSeed} /\ currentSeed' \in Seeds \cup {NoSeed}
    BY DEF JobNewSeed
  <1>2. CASE NewWorkers
    BY <1>1, <1>2, NewWorkersInv DEF Lets
  <1>3. ASSUME NEW n, WorkersOutside(n), stray' = TRUE PROVE Inv' /\ Ends
    <2>1. stray' \in BOOLEAN
      BY <1>3, Zenon
    <2> QED BY <1>1, <1>3, <2>1, WorkersOutsideInv DEF Ends
  <1> QED BY <1>2, <1>3 DEF JobNewSeed

(* The cache cannot be built: the session is over, workers or not.         *)
LEMMA JobCacheFailsInv ==
  ASSUME WebAssumption, Inv, NEW s \in DOMAIN sock, NEW seed \in Seeds,
         JobCacheFails(s, seed)
  PROVE  Inv' /\ Ends
  <1>1. rxCache' \in Seeds \cup {NoSeed} /\ currentSeed' \in Seeds \cup {NoSeed}
    BY DEF JobCacheFails, Inv, TypeOK
  <1>2. CASE FailRuntime
    BY <1>1, <1>2, StopInv DEF FailRuntime, Ends
  <1>3. CASE WorkersOutside(Threads) /\ UNCHANGED stray
    <2>1. stray' \in BOOLEAN
      BY <1>3, StrayKept DEF Inv
    <2> QED BY <1>1, <1>3, <2>1, WorkersOutsideInv DEF Ends
  <1>4. ASSUME NEW n, WorkersOutside(n), stray' = TRUE PROVE Inv' /\ Ends
    <2>1. stray' \in BOOLEAN
      BY <1>4, Zenon
    <2> QED BY <1>1, <1>4, <2>1, WorkersOutsideInv DEF Ends
  <1> QED BY <1>2, <1>3, <1>4 DEF JobCacheFails

(* The workers.                                                            *)
LEMMA ReadiesTypes ==
  ASSUME Inv, NEW i \in Crew, Readies(i), given' \in BOOLEAN, pendingJob' \in BOOLEAN
  PROVE  /\ CrewTypes' /\ UNCHANGED <<failing, startVars>>
         /\ rxCache' \in Seeds \cup {NoSeed} /\ currentSeed' \in Seeds \cup {NoSeed}
  <1>1. worker' \in [Crew -> {"none", "booting", "ready"}]
    BY DEF Readies, Inv, TypeOK
  <1>2. readyWorkers' \in Nat /\ workerGen' \in 0..MaxStarts
    BY DEF Readies, Inv, TypeOK
  <1>3. stray' \in BOOLEAN
    BY StrayKept DEF Readies, Inv
  <1>4. UNCHANGED <<failing, startVars>> /\ UNCHANGED cacheVars
    BY DEF Readies, linkVars
  <1> QED BY <1>1, <1>2, <1>3, <1>4, TypesKept DEF CrewTypes, Inv, cacheVars

LEMMA WorkerInitializedInv ==
  ASSUME WebAssumption, Inv, NEW i \in Crew, WorkerInitialized(i)
  PROVE  Inv' /\ Lets
  <1>1. given' \in BOOLEAN /\ pendingJob' \in BOOLEAN
    <2>1. given \in BOOLEAN /\ pendingJob \in BOOLEAN
      BY DEF Inv, TypeOK
    <2>2. \/ given' = TRUE /\ pendingJob' = FALSE
          \/ given' = given /\ pendingJob' = pendingJob
      BY DEF WorkerInitialized
    <2> QED BY <2>1, <2>2, Zenon
  <1>2. UNCHANGED <<sessionVars, linkVars, startVars>> /\ Readies(i)
    BY DEF WorkerInitialized, Readies
  <1> QED BY <1>1, <1>2, ReadiesTypes, CrewInv DEF Lets

(* The kept job cannot be posted: the session ends, or stays over.         *)
LEMMA DispatchFailsInv ==
  ASSUME WebAssumption, Inv, NEW i \in Crew, DispatchFails(i)
  PROVE  Inv' /\ Ends
  <1>1. CASE isMining /\ FailRuntime /\ UNCHANGED cacheVars
    BY <1>1, FailureInv
  <1>2. CASE EndSession(sock) /\ Readies(i) /\ pendingJob' = FALSE
             /\ given' \in {given, TRUE}
    <2>1. given' \in BOOLEAN /\ pendingJob' \in BOOLEAN
      <3>1. given \in BOOLEAN /\ (given' = given \/ given' = TRUE)
        BY <1>2 DEF Inv, TypeOK
      <3>2. given' \in BOOLEAN
        BY <3>1, Zenon
      <3>3. pendingJob' \in BOOLEAN
        BY <1>2, Zenon
      <3> QED BY <3>2, <3>3
    <2>2. /\ CrewTypes' /\ UNCHANGED <<failing, startVars>>
          /\ rxCache' \in Seeds \cup {NoSeed} /\ currentSeed' \in Seeds \cup {NoSeed}
      BY <1>2, <2>1, ReadiesTypes
    <2>3. /\ Over' /\ SessionTypes'
          /\ sock' \in Seq(SocketStates) /\ Len(sock') = Len(sock)
      BY <1>2, SessionEnds, LeftAsIs
    <2>4. TypeOK'
      BY <2>2, <2>3 DEF SessionTypes, CrewTypes, TypeOK, Inv, startVars
    <2> QED BY <2>3, <2>4 DEF Inv, Situation, Ends
  <1> QED BY <1>1, <1>2 DEF DispatchFails

LEMMA StepInv ==
  ASSUME WebAssumption, Inv, [Next]_vars
  PROVE  Inv' /\ (Begins \/ Waits \/ Retries \/ Ends \/ Lets)
  <1>1. ASSUME NEW a \in Addresses, Start(a) PROVE Inv' /\ Begins
    BY <1>1, StartInv DEF Begins
  <1>2. CASE StartUnaddressed
    BY <1>2, StartUnaddressedInv DEF Ends
  <1>3. CASE Stop
    <2>1. FailRuntime /\ UNCHANGED cacheVars
      BY <1>3 DEF Stop, FailRuntime
    <2> QED BY <2>1, FailureInv
  <1>4. CASE RetryDue
    BY <1>4, RetryInv DEF Retries, Waits, Ends, Over, Waiting
  <1>5. CASE StrayFails
    BY <1>5, FailureInv DEF StrayFails
  <1>6. ASSUME NEW s \in DOMAIN sock, SocketEvent(s)
        PROVE  Inv' /\ (Begins \/ Waits \/ Retries \/ Ends \/ Lets)
    <2>1. CASE SocketOpens(s)
      <3>1. Inv' /\ Running /\ Running' /\ UNCHANGED attempt
        BY <2>1, OpensInv
      <3>2. UNCHANGED <<isMining, timers, attempt>>
        BY <2>1, <3>1 DEF SocketOpens
      <3> QED BY <3>1, <3>2 DEF Lets
    <2>2. CASE SocketErrors(s)
      <3>1. /\ HandleProxyDisconnect("retryable", [sock EXCEPT ![s] = "closed"])
            /\ failing' \in {0, s} /\ UNCHANGED <<startVars, cacheVars>>
        BY <2>2 DEF SocketErrors
      <3> QED BY <3>1, LossInv DEF Waits, Ends
    <2>3. ASSUME NEW kind \in Kinds, SocketCloses(s, kind)
          PROVE  Inv' /\ (Waits \/ Ends)
      <3>1. /\ HandleProxyDisconnect(kind, [sock EXCEPT ![s] = "closed"])
            /\ failing' \in {0, s} /\ UNCHANGED <<startVars, cacheVars>>
        BY <2>3 DEF SocketCloses
      <3> QED BY <3>1, LossInv DEF Waits, Ends
    <2> QED BY <1>6, <2>1, <2>2, <2>3 DEF SocketEvent
  <1>7. ASSUME NEW s \in DOMAIN sock, Job(s) PROVE Inv' /\ (Ends \/ Lets)
    <2>1. CASE JobInvalid(s)
      BY <2>1, FailureInv DEF JobInvalid
    <2>2. CASE JobForNobody(s)
      BY <2>2, JobForNobodyInv
    <2>3. CASE JobSameSeed(s)
      BY <2>3, JobSameSeedInv
    <2>4. ASSUME NEW seed \in Seeds, JobNewSeed(s, seed) \/ JobCacheFails(s, seed)
          PROVE  Inv' /\ (Ends \/ Lets)
      BY <2>4, JobNewSeedInv, JobCacheFailsInv
    <2> QED BY <1>7, <2>1, <2>2, <2>3, <2>4 DEF Job
  <1>8. ASSUME NEW i \in Crew, WorkerInitialized(i) \/ DispatchFails(i) \/ WorkerFails(i)
        PROVE  Inv' /\ (Ends \/ Lets)
    <2>1. CASE WorkerInitialized(i)
      BY <2>1, WorkerInitializedInv
    <2>2. CASE DispatchFails(i)
      BY <2>2, DispatchFailsInv
    <2>3. CASE WorkerFails(i)
      BY <2>3, FailureInv DEF WorkerFails
    <2> QED BY <1>8, <2>1, <2>2, <2>3
  <1>9. CASE UNCHANGED vars
    BY <1>9, TypesKept, CrewInv
       DEF vars, crewVars, cacheVars, CrewTypes, Inv, Lets
  <1> QED BY <1>1, <1>2, <1>3, <1>4, <1>5, <1>6, <1>7, <1>8, <1>9 DEF Next

LEMMA InvAlways == Spec => []Inv
  <1>1. Init => Inv
    BY InitInv, WebAssumption
  <1>2. Inv /\ [Next]_vars => Inv'
    BY StepInv, WebAssumption
  <1> QED BY <1>1, <1>2, PTL DEF Spec

-----------------------------------------------------------------------------
(* Every variable of the page keeps its type; the attempts of a session    *)
(* never exceed those the user configured.                                 *)
THEOREM Types == Spec => []TypeOK
  BY InvAlways, PTL DEF Inv

(* A session whose address new WebSocket() takes has a connection or       *)
(* exactly one retry scheduled, whatever throws or fails on the way; one   *)
(* that is over has neither, and one that was refused at its start waits   *)
(* for nothing.                                                            *)
THEOREM Served == Spec => []ServedOrWaiting
  <1>1. Inv => ServedOrWaiting
    BY DEF Inv, TypeOK, Situation, Over, Waiting, Running, Stranded, ServedOrWaiting, Refused,
           Reaching, Current, Live, NoneLive
  <1> QED BY <1>1, InvAlways, PTL

(* However late the events of replaced sockets come, one socket is in use. *)
THEOREM SingleConnection == Spec => []OneConnection
  <1>1. Inv => OneConnection
    BY DEF Inv, TypeOK, Situation, Over, Waiting, Running, Stranded, OneConnection, Current,
           Live, NoneLive, LastOnly
  <1> QED BY <1>1, InvAlways, PTL

(* The page implements the promise of the reconnect contract, with every   *)
(* wait paid for out of MaxAttempts, for any number of sockets and seeds.  *)
THEOREM KeepsPromise == Spec => PromiseSpec
  <1> DEFINE phaseSeen == IF ~isMining THEN "over"
                          ELSE IF timers > 0 THEN "waiting" ELSE "running"
             paid      == IF isMining THEN attempt ELSE 0
  <1>1. Init => Promise!Init
    BY DEF Init, Promise!Init
  <1>2. ASSUME Inv, [Next]_vars
        PROVE  [Promise!Next]_(Promise!promise)
    <2> USE DEF Stranded, Promise!Next, Promise!promise, Promise!Begin, Promise!Wait,
                Promise!Retry, Promise!End
    <2>1. Inv' /\ (Begins \/ Waits \/ Retries \/ Ends \/ Lets)
      BY <1>2, StepInv, WebAssumption
    <2>2. CASE Begins
      BY <2>2 DEF Begins, Over, Running
    <2>3. CASE Waits
      BY <1>2, <2>3 DEF Waits, Over, Waiting, Running, Inv, Situation
    <2>4. CASE Retries
      BY <2>4 DEF Retries, Waiting, Running
    <2>5. CASE Ends
      BY <1>2, <2>5 DEF Ends, Over, Waiting, Running, Inv, Situation
    <2>6. CASE Lets
      BY <2>6 DEF Lets
    <2> QED BY <2>1, <2>2, <2>3, <2>4, <2>5, <2>6
  <1> QED BY <1>1, <1>2, InvAlways, PTL DEF Spec, PromiseSpec, Promise!Spec

-----------------------------------------------------------------------------
(* The count of the ready workers.  Workers of an earlier session may be   *)
(* there still when the next one begins; their generation is an older one, *)
(* which is what the invariant needs to be inductive.                      *)

ReadyWorkers == {i \in Crew : worker[i] = "ready"}

CountInv == workerGen <= generation /\ ReadyCounted

(* What a handler does about the workers, of which most do nothing.        *)
CrewStays == UNCHANGED crewVars /\ UNCHANGED generation
CrewGoes  == TerminateWorkers /\ UNCHANGED generation
CrewComes(n) == StartsWorkers(n) /\ readyWorkers' = 0 /\ UNCHANGED generation

(* With no worker ready, none is counted.                                  *)
LEMMA NobodyReady ==
  ASSUME NEW q, \A i \in Crew : q[i] # "ready"
  PROVE  Cardinality({i \in Crew : q[i] = "ready"}) = 0
  <1>1. {i \in Crew : q[i] = "ready"} = {}
    OBVIOUS
  <1> QED BY <1>1, FS_EmptySet

LEMMA CrewStaysCounts == CountInv /\ CrewStays => CountInv'
  BY DEF CountInv, ReadyCounted, CrewStays, crewVars

LEMMA CrewGoesCounts == Inv /\ CountInv /\ CrewGoes => CountInv'
  <1> SUFFICES ASSUME Inv, CountInv, CrewGoes PROVE CountInv'
    OBVIOUS
  <1>1. \A i \in Crew : worker'[i] # "ready"
    BY DEF CrewGoes, TerminateWorkers
  <1>2. readyWorkers' = 0 /\ pendingJob' = FALSE /\ UNCHANGED <<workerGen, generation>>
    BY DEF CrewGoes, TerminateWorkers
  <1>3. Cardinality({i \in Crew : worker'[i] = "ready"}) = 0
    BY <1>1, NobodyReady
  <1> QED BY <1>2, <1>3 DEF CountInv, ReadyCounted

LEMMA CrewComesCounts ==
  ASSUME Inv, CountInv, NEW n, CrewComes(n)
  PROVE  CountInv'
  <1>1. \A i \in Crew : worker'[i] # "ready"
    BY DEF CrewComes, StartsWorkers
  <1>2. readyWorkers' = 0 /\ workerGen' = generation' /\ generation' = generation
    BY DEF CrewComes, StartsWorkers
  <1>3. Cardinality({i \in Crew : worker'[i] = "ready"}) = 0
    BY <1>1, NobodyReady
  <1>4. workerGen' <= generation'
    BY <1>2 DEF Inv, TypeOK
  <1> QED BY <1>2, <1>3, <1>4 DEF CountInv, ReadyCounted

(* Start leaves the old workers behind, in a generation that is over.      *)
LEMMA StartCounts ==
  ASSUME Inv, CountInv, generation' = generation + 1, workerGen' = workerGen
  PROVE  CountInv'
  <1>1. generation \in Nat /\ workerGen \in Nat /\ workerGen <= generation
    BY WebAssumption DEF Inv, TypeOK, CountInv, WebAssumption
  <1> QED BY <1>1 DEF CountInv, ReadyCounted

LEMMA FailureCrew ==
  ASSUME NEW r, StopMining(r), UNCHANGED startVars
  PROVE  CrewStays \/ CrewGoes
  BY DEF StopMining, startVars, CrewStays, CrewGoes

LEMMA DisconnectCrew ==
  ASSUME NEW kind, NEW r, HandleProxyDisconnect(kind, r), UNCHANGED startVars
  PROVE  CrewStays \/ CrewGoes
  BY DEF HandleProxyDisconnect, WaitForRetry, GiveUp, startVars, CrewStays, CrewGoes

(* New workers, in a session that goes on or left by one that has ended.   *)
LEMMA CrewOutside ==
  ASSUME NEW n, WorkersOutside(n)
  PROVE  CrewComes(n)
  BY DEF WorkersOutside, KeepsJob, startVars, CrewComes

LEMMA CrewInside == NewWorkers => CrewComes(Threads)
  BY DEF NewWorkers, KeepsJob, startVars, CrewComes

(* The next worker is ready: one more is counted, unless it is an old one. *)
LEMMA ReadiesCounts ==
  ASSUME Inv, CountInv, NEW i \in Crew, Readies(i),
         workerGen = generation => pendingJob' = FALSE
  PROVE  CountInv'
  <1>1. workerGen' = workerGen /\ generation' = generation
    BY DEF Readies, startVars
  <1>2. CASE workerGen # generation
    BY <1>1, <1>2 DEF CountInv, ReadyCounted
  <1>3. CASE workerGen = generation
    <2>1. worker \in [Crew -> {"none", "booting", "ready"}] /\ worker[i] = "booting"
          /\ worker' = [worker EXCEPT ![i] = "ready"]
      BY DEF Readies, Inv, TypeOK
    <2>2. i \notin ReadyWorkers
      BY <2>1 DEF ReadyWorkers
    <2>3. {j \in Crew : worker'[j] = "ready"} = ReadyWorkers \cup {i}
      BY <2>1 DEF ReadyWorkers
    <2>4. IsFiniteSet(ReadyWorkers)
      <3>1. IsFiniteSet(Crew)
        BY FS_Interval, WebAssumption DEF Crew, WebAssumption
      <3> QED BY <3>1, FS_Subset DEF ReadyWorkers
    <2>5. Cardinality(ReadyWorkers \cup {i}) = Cardinality(ReadyWorkers) + 1
      BY <2>2, <2>4, FS_AddElement
    <2>6. readyWorkers' = readyWorkers + 1 /\ pendingJob' = FALSE
      BY <1>3 DEF Readies
    <2>7. readyWorkers = Cardinality(ReadyWorkers)
      BY <1>3 DEF CountInv, ReadyCounted, ReadyWorkers
    <2> QED BY <1>1, <2>3, <2>5, <2>6, <2>7 DEF CountInv, ReadyCounted
  <1> QED BY <1>2, <1>3

(* A job for the seed at hand is kept only where no worker is ready.       *)
LEMMA JobSameSeedCounts ==
  ASSUME Inv, CountInv, NEW s, JobSameSeed(s)
  PROVE  CountInv'
  <1>1. CASE FailRuntime
    BY <1>1, FailureCrew, CrewStaysCounts, CrewGoesCounts DEF FailRuntime
  <1>2. CASE ~FailRuntime
    <2>1. /\ worker' = worker /\ readyWorkers' = readyWorkers
          /\ workerGen' = workerGen /\ generation' = generation
          /\ readyWorkers = 0 \/ pendingJob' = pendingJob
      BY <1>2 DEF JobSameSeed, startVars
    <2>2. (workerGen = generation => (pendingJob => readyWorkers = 0))
          => (workerGen' = generation' => (pendingJob' => readyWorkers' = 0))
      BY <2>1
    <2> QED BY <2>1, <2>2 DEF CountInv, ReadyCounted
  <1> QED BY <1>1, <1>2

LEMMA CountStep ==
  ASSUME Inv, CountInv, [Next]_vars
  PROVE  CountInv'
  <1>0. CrewStays \/ CrewGoes => CountInv'
    BY CrewStaysCounts, CrewGoesCounts
  <1>1. ASSUME NEW n, CrewComes(n) PROVE CountInv'
    BY <1>1, CrewComesCounts
  <1>2. FailRuntime => CountInv'
    BY <1>0, FailureCrew DEF FailRuntime
  <1>3. ASSUME NEW a \in Addresses, Start(a) PROVE CountInv'
    BY <1>3, StartCounts DEF Start
  <1>4. CASE StartUnaddressed
    BY <1>4, StartCounts DEF StartUnaddressed, TerminateWorkers
  <1>5. CASE Stop \/ StrayFails
    BY <1>2, <1>5 DEF Stop, StrayFails, FailRuntime
  <1>6. CASE RetryDue
    <2>1. \/ CrewGoes
          \/ CrewStays
          \/ \E kind \in Kinds : HandleProxyDisconnect(kind, CloseLast(sock))
                                 /\ UNCHANGED startVars
      BY <1>6 DEF RetryDue, startVars, CrewStays, CrewGoes
    <2> QED BY <1>0, <2>1, DisconnectCrew
  <1>7. ASSUME NEW s \in DOMAIN sock, SocketEvent(s)
        PROVE  CountInv'
    <2>1. CASE SocketOpens(s)
      BY <1>0, <2>1 DEF SocketOpens, startVars, CrewStays
    <2>2. CASE SocketErrors(s)
      BY <1>0, <2>2, DisconnectCrew DEF SocketErrors
    <2>3. ASSUME NEW kind \in Kinds, SocketCloses(s, kind) PROVE CountInv'
      <3>1. HandleProxyDisconnect(kind, [sock EXCEPT ![s] = "closed"])
            /\ UNCHANGED startVars
        BY <2>3 DEF SocketCloses
      <3> QED BY <1>0, <3>1, DisconnectCrew
    <2> QED BY <1>7, <2>1, <2>2, <2>3 DEF SocketEvent
  <1>8. ASSUME NEW s \in DOMAIN sock, Job(s)
        PROVE  CountInv'
    <2>1. CASE JobInvalid(s)
      BY <1>2, <2>1 DEF JobInvalid
    <2>2. CASE JobForNobody(s)
      BY <1>1, <1>2, <2>2, CrewInside, CrewOutside DEF JobForNobody
    <2>3. CASE JobSameSeed(s)
      BY <2>3, JobSameSeedCounts
    <2>4. ASSUME NEW seed \in Seeds, JobNewSeed(s, seed)
          PROVE  CountInv'
      BY <1>1, <2>4, CrewInside, CrewOutside DEF JobNewSeed
    <2>5. ASSUME NEW seed \in Seeds, JobCacheFails(s, seed)
          PROVE  CountInv'
      BY <1>1, <1>2, <2>5, CrewOutside DEF JobCacheFails
    <2> QED BY <1>8, <2>1, <2>2, <2>3, <2>4, <2>5 DEF Job
  <1>9. ASSUME NEW i \in Crew, WorkerInitialized(i) \/ DispatchFails(i) \/ WorkerFails(i)
        PROVE  CountInv'
    <2>1. CASE WorkerInitialized(i)
      <3>1. Readies(i)
        BY <2>1 DEF WorkerInitialized
      <3>2. workerGen = generation => pendingJob' = FALSE
        <4>1. pendingJob \in BOOLEAN
          BY DEF Inv, TypeOK
        <4>2. CASE pendingJob /\ workerGen = generation
          BY <2>1, <4>2 DEF WorkerInitialized
        <4>3. CASE ~(pendingJob /\ workerGen = generation)
          <5>1. pendingJob' = pendingJob
            BY <2>1, <4>3 DEF WorkerInitialized
          <5> QED BY <4>1, <4>3, <5>1
        <4> QED BY <4>2, <4>3
      <3> QED BY <3>1, <3>2, ReadiesCounts
    <2>2. CASE DispatchFails(i)
      BY <1>2, <2>2, ReadiesCounts DEF DispatchFails
    <2>3. CASE WorkerFails(i)
      BY <1>2, <2>3 DEF WorkerFails
    <2> QED BY <1>9, <2>1, <2>2, <2>3
  <1>10. CASE UNCHANGED vars
    BY <1>0, <1>10 DEF vars, startVars, CrewStays
  <1> QED BY <1>3, <1>4, <1>5, <1>6, <1>7, <1>8, <1>9, <1>10 DEF Next

(* The workers of the running session are counted right, for any number of *)
(* them and whatever is restarted, and a job is kept back only while none  *)
(* of them is ready.                                                       *)
THEOREM WorkersCounted == Spec => []ReadyCounted
  <1>1. Init => CountInv
    <2> SUFFICES ASSUME Init PROVE CountInv
      OBVIOUS
    <2>1. Cardinality(ReadyWorkers) = 0
      BY NobodyReady DEF Init, ReadyWorkers
    <2> QED BY <2>1 DEF Init, CountInv, ReadyCounted, ReadyWorkers
  <1>2. Inv /\ CountInv /\ [Next]_vars => CountInv'
    BY CountStep
  <1>3. CountInv => ReadyCounted
    BY DEF CountInv
  <1> QED BY <1>1, <1>2, <1>3, InvAlways, PTL DEF Spec
=============================================================================
