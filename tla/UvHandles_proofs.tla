-------------------------- MODULE UvHandles_proofs ---------------------------
(***************************************************************************)
(* The handles: listening streams, streams, datagram sockets, signals, and *)
(* the polling of a path.                                                  *)
(***************************************************************************)
EXTENDS UvStream, UvServer, UvUdp, UvSignal, UvFsPoll, UvThreads_proofs

-----------------------------------------------------------------------------
(* Listening streams.  To be inductive the second half of ServerListens    *)
(* must not depend on what the kernel holds: unless the user has called    *)
(* uv_listen() twice, a server with a connection parked is not watched,    *)
(* but while connection_cb runs.                                           *)

ParkedIsUnwatched ==
  "listenedTwice" \notin misused =>
    (accepted # NoConn /\ ~connecting => ~watchesServer)

HeardOrParked ==
  "acceptFailed" \notin misused =>
    (listening /\ ~serverClosing => watchesServer \/ accepted # NoConn)

ServerInv == ServerTypeOK /\ ParkedIsUnwatched /\ HeardOrParked

LEMMA ServerStart == ServerInit => ServerInv
  <1> SUFFICES ASSUME ServerInit PROVE ServerInv
    OBVIOUS
  <1>1. spare \in BOOLEAN
    BY DEF ServerInit
  <1>2. ServerTypeOK
    BY <1>1 DEF ServerInit, ServerTypeOK
  <1> QED BY <1>2 DEF ServerInit, ServerInv, ParkedIsUnwatched, HeardOrParked

LEMMA ServerTypeStep == ServerTypeOK /\ [ServerNext]_serverVars => ServerTypeOK'
  <1> SUFFICES ASSUME ServerTypeOK, [ServerNext]_serverVars PROVE ServerTypeOK'
    OBVIOUS
  <1> USE DEF ServerTypeOK, files
  <1>1. CASE Listen
    BY <1>1 DEF Listen
  <1>2. CASE AcceptSucceeds
    BY <1>2 DEF AcceptSucceeds
  <1>3. CASE AcceptFails
    BY <1>3 DEF AcceptFails
  <1>4. CASE InitsStream
    BY <1>4 DEF InitsStream
  <1>5. CASE CloseServer
    BY <1>5 DEF CloseServer
  <1>6. CASE OthersOpenOrClose
    BY <1>6 DEF OthersOpenOrClose
  <1>7. CASE ShedsLoad
    BY <1>7 DEF ShedsLoad
  <1>8. CASE ConnectionCbReturns
    BY <1>8 DEF ConnectionCbReturns
  <1>9. ASSUME NEW c \in Conns, AcceptsConn(c) \/ ConnArrives(c) \/ ClosesConn(c)
        PROVE  ServerTypeOK'
    BY <1>9 DEF AcceptsConn, ConnArrives, ClosesConn
  <1>10. CASE UNCHANGED serverVars
    BY <1>10 DEF serverVars
  <1> QED BY <1>1, <1>2, <1>3, <1>4, <1>5, <1>6, <1>7, <1>8, <1>9, <1>10
          DEF ServerNext, ServerLoop

LEMMA ServerStep == ServerInv /\ [ServerNext]_serverVars => ServerInv'
  <1> SUFFICES ASSUME ServerInv, [ServerNext]_serverVars PROVE ServerInv'
    OBVIOUS
  <1>0. ServerTypeOK /\ ServerTypeOK'
    BY ServerTypeStep DEF ServerInv
  <1> SUFFICES (ParkedIsUnwatched /\ HeardOrParked)'
    BY <1>0 DEF ServerInv
  <1> USE <1>0, ServerAssumption
          DEF ServerInv, ServerTypeOK, ParkedIsUnwatched, HeardOrParked, files
  <1>1. CASE Listen
    BY <1>1 DEF Listen
  <1>2. CASE AcceptSucceeds
    BY <1>2 DEF AcceptSucceeds
  <1>3. CASE AcceptFails
    BY <1>3 DEF AcceptFails
  <1>4. CASE InitsStream
    BY <1>4 DEF InitsStream
  <1>5. CASE CloseServer
    BY <1>5 DEF CloseServer
  <1>6. CASE OthersOpenOrClose
    BY <1>6 DEF OthersOpenOrClose
  <1>7. CASE ShedsLoad
    BY <1>7 DEF ShedsLoad
  <1>8. CASE ConnectionCbReturns
    BY <1>8 DEF ConnectionCbReturns
  <1>9. ASSUME NEW c \in Conns, AcceptsConn(c) \/ ConnArrives(c) \/ ClosesConn(c)
        PROVE  (ParkedIsUnwatched /\ HeardOrParked)'
    BY <1>9 DEF AcceptsConn, ConnArrives, ClosesConn
  <1>10. CASE UNCHANGED serverVars
    BY <1>10 DEF serverVars
  <1> QED BY <1>1, <1>2, <1>3, <1>4, <1>5, <1>6, <1>7, <1>8, <1>9, <1>10
          DEF ServerNext, ServerLoop

LEMMA ServerConcludes == ServerInv => ServerTypeOK /\ ServerListens
  BY DEF ServerInv, ParkedIsUnwatched, HeardOrParked, ServerListens, ServerIsCalled

-----------------------------------------------------------------------------
(* Streams.  What was submitted is what was answered, what is being        *)
(* answered, what is completed and what waits, in this order, each write   *)
(* once; the bytes that are counted are those of the writes that were not  *)
(* freed.                                                                  *)

StreamLinks ==
  /\ submitted = Joined(answered, Joined(answeringW, Joined(completedQueue, writeQueue)))
  /\ IsInjective(submitted)

StreamFreed == /\ ToSet(answered) \subseteq freed /\ freed \subseteq ToSet(submitted)
               /\ ToSet(writeQueue) \cap freed = {}

StreamWatched ==
  /\ isClosing => ~watchOut /\ ~fedStream /\ ~isReading
  /\ conn = "none" => ~watchOut /\ ~fedStream /\ ~isReading
  /\ conn = "connecting" /\ ~isClosing => watchOut
  /\ conn \in {"none", "connecting"} /\ ~isClosing => at = "loop"
  /\ \/ isClosing \/ writeQueue = <<>> \/ watchOut \/ fedStream
     \/ at = "connectCb" /\ conn = "failed"
  /\ at = "connectCb" => caller \in {"connect", "destroy"}

StreamEnds ==
  /\ at \notin {"answering", "writeCb"} => answeringW = <<>>
  /\ caller = "destroy" => isClosing /\ isClosed
  /\ at = "closeCb" => caller = "destroy"
  /\ caller = "destroy" /\ at # "connectCb" => writeQueue = <<>>
  /\ caller = "destroy" /\ at \notin {"connectCb", "written"} => completedQueue = <<>>
  /\ caller = "destroy" /\ at \in {"shutCb", "closeCb"} => ~shutReq

StreamInv == /\ StreamTypeOK /\ StreamLinks /\ StreamFreed /\ QueueSizeIsWaiting
             /\ StreamWatched /\ StreamEnds

(* The count of bytes: of no writes, of more writes, of one write; it      *)
(* depends on the sizes of the writes that are counted only.               *)
Sizes == [Writes -> 0..MaxSize]

LEMMA BytesFinite ==
  ASSUME NEW w, w \subseteq Writes, NEW f \in Sizes
  PROVE  /\ IsFiniteSet(Bytes(w, f)) /\ Cardinality(Bytes(w, f)) \in Nat
         /\ Cardinality(Bytes(w, f)) <= Cardinality(Writes) * MaxSize
  <1> DEFINE places == 1..MaxSize
  <1>1. /\ IsFiniteSet(places) /\ Cardinality(places) = MaxSize /\ MaxSize \in Nat
    <2>1. MaxSize \in Nat
      BY StreamAssumption
    <2>2. /\ IsFiniteSet(1..MaxSize)
          /\ Cardinality(1..MaxSize) = IF 1 > MaxSize THEN 0 ELSE MaxSize - 1 + 1
      BY <2>1, FS_Interval
    <2>3. (IF 1 > MaxSize THEN 0 ELSE MaxSize - 1 + 1) = MaxSize
      BY <2>1
    <2> QED BY <2>1, <2>2, <2>3
  <1> HIDE DEF places
  <1>2. /\ IsFiniteSet(Writes \X places)
        /\ Cardinality(Writes \X places) = Cardinality(Writes) * Cardinality(places)
    BY <1>1, StreamAssumption, FS_Product
  <1>3. Bytes(w, f) \subseteq Writes \X places
    BY DEF Bytes, places
  <1>4. /\ IsFiniteSet(Bytes(w, f))
        /\ Cardinality(Bytes(w, f)) <= Cardinality(Writes \X places)
    BY <1>2, <1>3, FS_Subset
  <1> QED BY <1>1, <1>2, <1>4, FS_CardinalityType

LEMMA BytesOfNone == ASSUME NEW f PROVE Cardinality(Bytes({}, f)) = 0
  <1>1. Bytes({}, f) = {}
    BY DEF Bytes
  <1> QED BY <1>1, FS_EmptySet

LEMMA BytesOfTwo ==
  ASSUME NEW v, v \subseteq Writes, NEW w, w \subseteq Writes, v \cap w = {},
         NEW f \in Sizes
  PROVE  Cardinality(Bytes(v \cup w, f))
           = Cardinality(Bytes(v, f)) + Cardinality(Bytes(w, f))
  <1> DEFINE b == Bytes(v, f)
             c == Bytes(w, f)
  <1>1. b \cup c = Bytes(v \cup w, f) /\ b \cap c = {}
    BY DEF Bytes
  <1>2. /\ IsFiniteSet(b) /\ IsFiniteSet(c)
        /\ Cardinality(b) \in Nat /\ Cardinality(c) \in Nat
    BY BytesFinite
  <1> HIDE DEF b, c
  <1>3. Cardinality(b \cup c) = Cardinality(b) + Cardinality(c) - Cardinality(b \cap c)
    BY <1>2, FS_Union
  <1>4. Cardinality(b \cap c) = 0
    BY <1>1, FS_EmptySet
  <1>5. Cardinality(b \cup c) = Cardinality(b) + Cardinality(c)
    BY <1>2, <1>3, <1>4
  <1>6. Bytes(v \cup w, f) = b \cup c
    BY <1>1
  <1> QED BY <1>5, <1>6 DEF b, c

LEMMA BytesOfOne ==
  ASSUME NEW r \in Writes, NEW f \in Sizes
  PROVE  Cardinality(Bytes({r}, f)) = f[r] /\ f[r] \in 0..MaxSize
  <1>1. f[r] \in Nat /\ f[r] <= MaxSize /\ MaxSize \in Nat /\ f[r] \in 0..MaxSize
    BY StreamAssumption DEF Sizes
  <1> DEFINE b == Bytes({r}, f)
             places == 1..f[r]
             place == [i \in places |-> <<r, i>>]
  <1>2. \A i \in places : <<r, i>> \in b
    BY <1>1 DEF Bytes
  <1>3. \A x \in b : x[2] \in places /\ x = <<r, x[2]>>
    BY <1>1 DEF Bytes
  <1>4. /\ IsFiniteSet(places) /\ Cardinality(places) = f[r]
    <2>1. ASSUME NEW n \in Nat PROVE IsFiniteSet(1..n) /\ Cardinality(1..n) = n
      <3>1. /\ IsFiniteSet(1..n)
            /\ Cardinality(1..n) = IF 1 > n THEN 0 ELSE n - 1 + 1
        BY FS_Interval
      <3>2. (IF 1 > n THEN 0 ELSE n - 1 + 1) = n
        OBVIOUS
      <3> QED BY <3>1, <3>2
    <2> QED BY <1>1, <2>1
  <1> HIDE DEF b, places
  <1>5. place \in Bijection(places, b)
    <2>1. place \in [places -> b] /\ \A i \in places : place[i] = <<r, i>>
      BY <1>2
    <2>2. \A i, j \in places : place[i] = place[j] => i = j
      BY <2>1
    <2>3. \A x \in b : \E i \in places : place[i] = x
      BY <1>3, <2>1
    <2> HIDE DEF place
    <2> QED BY <2>1, <2>2, <2>3, Fun_IsBij
  <1>6. Cardinality(b) = Cardinality(places)
    BY <1>4, <1>5, FS_Bijection DEF ExistsBijection
  <1> QED BY <1>1, <1>4, <1>6 DEF b

LEMMA BytesSame ==
  ASSUME NEW w, NEW f, NEW g, \A r \in w : f[r] = g[r]
  PROVE  Bytes(w, f) = Bytes(w, g)
  BY DEF Bytes

(* Writes that are done with, and one of which part is.                    *)
LEMMA BytesLess ==
  ASSUME NEW u, u \subseteq Writes, NEW d, d \subseteq u, NEW f \in Sizes
  PROVE  /\ Cardinality(Bytes(u \ d, f))
              = Cardinality(Bytes(u, f)) - Cardinality(Bytes(d, f))
         /\ Cardinality(Bytes(u, f)) \in Nat /\ Cardinality(Bytes(d, f)) \in Nat
  <1>1. (u \ d) \cup d = u /\ (u \ d) \cap d = {} /\ u \ d \subseteq Writes /\ d \subseteq Writes
    OBVIOUS
  <1> DEFINE e == u \ d
  <1>2. Cardinality(Bytes(u, f)) = Cardinality(Bytes(e, f)) + Cardinality(Bytes(d, f))
    <2>1. e \cup d = u /\ e \cap d = {} /\ e \subseteq Writes /\ d \subseteq Writes
      BY <1>1
    <2> HIDE DEF e
    <2>2. Cardinality(Bytes(e \cup d, f))
            = Cardinality(Bytes(e, f)) + Cardinality(Bytes(d, f))
      BY <2>1, BytesOfTwo
    <2> QED BY <2>1, <2>2
  <1>3. Cardinality(Bytes(e, f)) \in Nat
    BY <1>1, BytesFinite
  <1>4. Cardinality(Bytes(d, f)) \in Nat
    BY <1>1, BytesFinite
  <1>5. Cardinality(Bytes(u, f)) \in Nat
    BY BytesFinite
  <1> HIDE DEF e
  <1>6. Cardinality(Bytes(e, f)) = Cardinality(Bytes(u, f)) - Cardinality(Bytes(d, f))
    BY <1>2, <1>3, <1>4, <1>5
  <1> QED BY <1>4, <1>5, <1>6 DEF e

LEMMA BytesPart ==
  ASSUME NEW u, u \subseteq Writes, NEW r \in u, NEW f \in Sizes, NEW g \in Sizes,
         \A x \in u : x # r => g[x] = f[x]
  PROVE  /\ Cardinality(Bytes(u, g)) = Cardinality(Bytes(u, f)) + g[r] - f[r]
         /\ Cardinality(Bytes(u, f)) \in Nat
  <1>1. {r} \subseteq u /\ r \in Writes /\ u \ {r} \subseteq Writes
    OBVIOUS
  <1>2. /\ Cardinality(Bytes(u \ {r}, f))
             = Cardinality(Bytes(u, f)) - Cardinality(Bytes({r}, f))
        /\ Cardinality(Bytes(u, f)) \in Nat
    BY <1>1, BytesLess
  <1>3. /\ Cardinality(Bytes(u \ {r}, g))
             = Cardinality(Bytes(u, g)) - Cardinality(Bytes({r}, g))
        /\ Cardinality(Bytes(u, g)) \in Nat
    BY <1>1, BytesLess
  <1>4. Bytes(u \ {r}, f) = Bytes(u \ {r}, g)
    <2>1. \A x \in u \ {r} : f[x] = g[x]
      OBVIOUS
    <2> QED BY <2>1, BytesSame
  <1>5. /\ Cardinality(Bytes({r}, f)) = f[r] /\ f[r] \in Nat
        /\ Cardinality(Bytes({r}, g)) = g[r] /\ g[r] \in Nat
    BY <1>1, BytesOfOne
  <1> QED BY <1>2, <1>3, <1>4, <1>5

(* Before and after a step; without the size, which follows from the rest. *)
StreamShape ==
  /\ conn \in {"none", "connecting", "connected", "failed", "cancelled"}
  /\ delayedError \in BOOLEAN /\ flags \in SUBSET {"readable", "writable"}
  /\ isReading \in BOOLEAN /\ watchOut \in BOOLEAN /\ fedStream \in BOOLEAN
  /\ writeQueue \in Seq(Writes) /\ completedQueue \in Seq(Writes)
  /\ left \in Sizes /\ freed \in SUBSET Writes
  /\ answeringW \in Seq(Writes)
  /\ shutReq \in BOOLEAN /\ isShut \in BOOLEAN
  /\ isClosing \in BOOLEAN /\ isClosed \in BOOLEAN
  /\ at \in {"loop", "written", "answering", "connectCb", "writeCb", "shutCb", "readCb",
             "readErrorCb", "closeCb"}
  /\ caller \in {"io", "connect", "destroy"}
  /\ submitted \in Seq(Writes) /\ answered \in Seq(Writes)

LEMMA StreamBounds ==
  /\ StreamInv <=> /\ StreamShape /\ StreamLinks /\ StreamFreed /\ QueueSizeIsWaiting
                   /\ StreamWatched /\ StreamEnds
  /\ StreamInv' <=> /\ StreamShape' /\ StreamLinks' /\ StreamFreed'
                    /\ QueueSizeIsWaiting' /\ StreamWatched' /\ StreamEnds'
  <1>1. ASSUME NEW n, NEW w \in SUBSET Writes, NEW f \in Sizes,
               n = Cardinality(Bytes(w, f))
        PROVE  n \in 0..Cardinality(Writes) * MaxSize
    <2>1. Cardinality(Writes) * MaxSize \in Nat
      BY StreamAssumption, FS_CardinalityType
    <2> QED BY <1>1, <2>1, BytesFinite
  <1>2. StreamShape /\ QueueSizeIsWaiting => queueSize \in 0..Cardinality(Writes) * MaxSize
    <2>1. StreamShape => ToSet(submitted) \ freed \in SUBSET Writes
      BY DEF StreamShape, ToSet
    <2> QED BY <1>1, <2>1 DEF StreamShape, QueueSizeIsWaiting
  <1>3. StreamShape' /\ QueueSizeIsWaiting'
          => queueSize' \in 0..Cardinality(Writes) * MaxSize
    <2>1. StreamShape' => ToSet(submitted') \ freed' \in SUBSET Writes
      BY DEF StreamShape, ToSet
    <2> QED BY <1>1, <2>1 DEF StreamShape, QueueSizeIsWaiting
  <1>4. StreamShape /\ QueueSizeIsWaiting => StreamTypeOK
    BY <1>2 DEF StreamShape, StreamTypeOK, Sizes
  <1>5. StreamShape' /\ QueueSizeIsWaiting' => StreamTypeOK'
    BY <1>3 DEF StreamShape, StreamTypeOK, Sizes
  <1>6. StreamTypeOK => StreamShape
    BY DEF StreamShape, StreamTypeOK, Sizes
  <1>7. StreamTypeOK' => StreamShape'
    BY DEF StreamShape, StreamTypeOK, Sizes
  <1> QED BY <1>4, <1>5, <1>6, <1>7 DEF StreamInv

(* All the writes that were submitted, with those that wait.               *)
All(queue) == Joined(answered, Joined(answeringW, Joined(completedQueue, queue)))

(* What uv__write() starts from: sizes is what is left of each write, and  *)
(* total what is left of all.                                              *)
Waits(queue, sizes, total) ==
  /\ queue \in Seq(Writes) /\ sizes \in Sizes
  /\ All(queue) \in Seq(Writes) /\ IsInjective(All(queue))
  /\ freed \subseteq ToSet(All(queue)) /\ ToSet(queue) \cap freed = {}
  /\ total = Cardinality(Bytes(ToSet(All(queue)) \ freed, sizes))

(* What uv__write() does to the queues and the count.                      *)
LEMMA WritesOutKeeps ==
  ASSUME StreamShape, NEW queue, NEW sizes, NEW total, NEW fd,
         Waits(queue, sizes, total),
         WritesOut(queue, sizes, total, fd)
  PROVE  /\ writeQueue' \in Seq(Writes) /\ completedQueue' \in Seq(Writes)
         /\ left' \in Sizes /\ watchOut' \in BOOLEAN
         /\ fd \in BOOLEAN => fedStream' \in BOOLEAN
         /\ Joined(answered, Joined(answeringW, Joined(completedQueue', writeQueue'))) = All(queue)
         /\ freed \subseteq freed' /\ freed' \subseteq ToSet(All(queue))
         /\ ToSet(writeQueue') \cap freed' = {}
         /\ queueSize' = Cardinality(Bytes(ToSet(All(queue)) \ freed', left'))
         /\ writeQueue' = <<>> \/ watchOut' \/ fedStream'
  <1> PICK all : all = All(queue)
    OBVIOUS
  <1>0. /\ queue \in Seq(Writes) /\ sizes \in Sizes
        /\ all \in Seq(Writes) /\ IsInjective(all)
        /\ all = Joined(answered, Joined(answeringW, Joined(completedQueue, queue)))
        /\ freed \subseteq ToSet(all) /\ ToSet(queue) \cap freed = {}
        /\ total = Cardinality(Bytes(ToSet(all) \ freed, sizes))
    BY DEF Waits, All
  <1> USE <1>0
  <1> DEFINE finished(d) == SubSeq(queue, 1, d)
             rest(d) == SubSeq(queue, d + 1, Len(queue))
             taken(d) == Cardinality(Bytes(ToSet(finished(d)), sizes))
             after(d) == [r \in Writes |-> IF Contains(finished(d), r) THEN 0 ELSE sizes[r]]
  <1>1. PICK d \in 0..Len(queue) :
          /\ d <= Batch
          /\ freed' = freed \cup ToSet(finished(d))
          /\ \/ /\ d \in {Len(queue), Batch}
                /\ completedQueue' = completedQueue \o finished(d)
                /\ fedStream' = (fd \/ finished(d) # <<>>)
                /\ writeQueue' = rest(d) /\ left' = after(d)
                /\ queueSize' = total - taken(d)
                /\ UNCHANGED watchOut
             \/ /\ d \notin {Len(queue), Batch}
                /\ completedQueue' = completedQueue \o finished(d)
                /\ fedStream' = (fd \/ finished(d) # <<>>)
                /\ \E part \in {0} \cup 0..(sizes[Head(rest(d))] - 1) :
                     /\ left' = [after(d) EXCEPT ![Head(rest(d))] = @ - part]
                     /\ queueSize' = total - taken(d) - part
                /\ writeQueue' = rest(d)
                /\ watchOut' = TRUE
             \/ /\ d \notin {Len(queue), Batch}
                /\ completedQueue' = completedQueue \o Append(finished(d), Head(rest(d)))
                /\ fedStream' = (fd \/ Append(finished(d), Head(rest(d))) # <<>>)
                /\ writeQueue' = Tail(rest(d)) /\ left' = after(d)
                /\ queueSize' = total - taken(d)
                /\ watchOut' = FALSE
    BY DEF WritesOut
  <1> DEFINE fin == finished(d)
             rst == rest(d)
             aft == after(d)
             u == ToSet(all) \ freed
             w == u \ ToSet(fin)
  <1>2. /\ fin \in Seq(Writes) /\ Len(fin) = d /\ rst \in Seq(Writes)
        /\ Len(rst) = Len(queue) - d /\ queue = Joined(fin, rst) /\ Len(queue) \in Nat
    <2>1. Len(queue) \in Nat
      OBVIOUS
    <2> QED BY <2>1, CutRest
  <1>3. \A r \in Writes : aft[r] = IF r \in ToSet(fin) THEN 0 ELSE sizes[r]
    <2>1. \A s \in Seq(Writes) : \A r : Contains(s, r) <=> r \in ToSet(s)
      BY DEF Contains, ToSet
    <2>2. \A r : Contains(fin, r) <=> r \in ToSet(fin)
      BY <1>2, <2>1
    <2> QED BY <2>2
  <1>4. aft \in Sizes
    <2>1. \A r \in Writes : sizes[r] \in 0..MaxSize /\ 0 \in 0..MaxSize
      BY StreamAssumption DEF Sizes
    <2> QED BY <2>1 DEF Sizes
  <1> HIDE DEF aft
  <1> HIDE DEF fin, rst
  <1>5. /\ answered \in Seq(Writes) /\ answeringW \in Seq(Writes)
        /\ completedQueue \in Seq(Writes) /\ watchOut \in BOOLEAN
    BY DEF StreamShape
  <1>6. /\ Joined(completedQueue, queue) \in Seq(Writes)
        /\ Joined(answeringW, Joined(completedQueue, queue)) \in Seq(Writes)
    BY <1>5, JoinedRest
  <1>7. IsInjective(queue) /\ ToSet(queue) \subseteq ToSet(all)
    <2>1. /\ IsInjective(Joined(answeringW, Joined(completedQueue, queue)))
          /\ ToSet(Joined(answeringW, Joined(completedQueue, queue))) \subseteq ToSet(all)
      BY <1>5, <1>6, JoinedSets
    <2>2. /\ IsInjective(Joined(completedQueue, queue))
          /\ ToSet(Joined(completedQueue, queue)) \subseteq ToSet(all)
      BY <1>5, <1>6, <2>1, JoinedSets
    <2> QED BY <1>5, <2>2, JoinedSets
  <1>8. /\ ToSet(queue) = ToSet(fin) \cup ToSet(rst) /\ ToSet(fin) \cap ToSet(rst) = {}
        /\ IsInjective(rst)
    BY <1>2, <1>7, JoinedSets
  <1>9. /\ u \subseteq Writes /\ ToSet(fin) \subseteq u /\ w \subseteq Writes
        /\ ToSet(rst) \subseteq w /\ w = ToSet(all) \ freed'
    <2>1. ToSet(all) \subseteq Writes
      BY DEF ToSet
    <2>2. freed' = freed \cup ToSet(fin)
      BY <1>1 DEF fin
    <2> QED BY <2>1, <2>2, <1>7, <1>8
  <1>10. /\ Cardinality(Bytes(w, aft)) = total - Cardinality(Bytes(ToSet(fin), sizes))
         /\ Cardinality(Bytes(w, aft)) \in Nat
    <2>1. Cardinality(Bytes(w, sizes)) = total - Cardinality(Bytes(ToSet(fin), sizes))
      BY <1>9, BytesLess
    <2>2. \A r \in w : aft[r] = sizes[r]
      BY <1>3, <1>9
    <2>3. Bytes(w, aft) = Bytes(w, sizes)
      BY <2>2, BytesSame
    <2>4. Cardinality(Bytes(w, sizes)) \in Nat
      BY <1>9, BytesFinite
    <2> QED BY <2>1, <2>3, <2>4
  <1>11. /\ freed \subseteq freed' /\ freed' \subseteq ToSet(all)
         /\ ToSet(rst) \cap freed' = {}
    BY <1>1, <1>7, <1>8 DEF fin
  <1> HIDE DEF u, w
  <1>12. \A c \in Seq(Writes), t \in Seq(Writes) :
           Joined(completedQueue, queue) = Joined(c, t)
             => all = Joined(answered, Joined(answeringW, Joined(c, t)))
    OBVIOUS
  <1>13. /\ Joined(completedQueue, fin) \in Seq(Writes)
         /\ Joined(completedQueue, queue) = Joined(Joined(completedQueue, fin), rst)
    BY <1>2, <1>5, JoinedRest, JoinedThree
  <1>14. fin # <<>> <=> d # 0
    BY <1>2, EmptyLen
  <1>15. d # Len(queue) => rst # <<>> /\ Head(rst) \in ToSet(rst) /\ Head(rst) \in Writes
    <2> SUFFICES ASSUME d # Len(queue)
                 PROVE  rst # <<>> /\ Head(rst) \in ToSet(rst) /\ Head(rst) \in Writes
      OBVIOUS
    <2>1. rst # <<>>
      BY <1>2, EmptyLen
    <2> QED BY <2>1, <1>2, TailRest
  <1>16. CASE /\ d \in {Len(queue), Batch}
              /\ completedQueue' = completedQueue \o fin
              /\ fedStream' = (fd \/ fin # <<>>)
              /\ writeQueue' = rst /\ left' = aft
              /\ queueSize' = total - Cardinality(Bytes(ToSet(fin), sizes))
              /\ UNCHANGED watchOut
    <2>1. completedQueue' = Joined(completedQueue, fin)
      BY <1>16 DEF Joined
    <2>2. all = Joined(answered, Joined(answeringW, Joined(completedQueue', writeQueue')))
      BY <1>12, <1>13, <1>16, <1>2, <2>1
    <2>3. writeQueue' = <<>> \/ fedStream'
      <3>1. CASE d = Len(queue)
        <4>1. rst = <<>>
          BY <1>2, <3>1, EmptyLen
        <4> QED BY <4>1, <1>16
      <3>2. CASE d = Batch
        <4>1. d # 0
          BY <3>2, StreamAssumption
        <4> QED BY <4>1, <1>14, <1>16
      <3> QED BY <3>1, <3>2, <1>16
    <2>4. queueSize' = Cardinality(Bytes(ToSet(all) \ freed', left'))
      BY <1>9, <1>10, <1>16
    <2>5. fd \in BOOLEAN => fedStream' \in BOOLEAN
      BY <1>16
    <2>6. /\ writeQueue' \in Seq(Writes) /\ completedQueue' \in Seq(Writes)
          /\ left' \in Sizes /\ watchOut' \in BOOLEAN
      BY <1>2, <1>4, <1>5, <1>13, <1>16, <2>1
    <2>7. ToSet(writeQueue') \cap freed' = {}
      BY <1>11, <1>16
    <2> QED BY <1>11, <2>2, <2>3, <2>4, <2>5, <2>6, <2>7
  <1>17. CASE /\ d \notin {Len(queue), Batch}
              /\ completedQueue' = completedQueue \o fin
              /\ fedStream' = (fd \/ fin # <<>>)
              /\ \E part \in {0} \cup 0..(sizes[Head(rst)] - 1) :
                   /\ left' = [aft EXCEPT ![Head(rst)] = @ - part]
                   /\ queueSize' = total - Cardinality(Bytes(ToSet(fin), sizes)) - part
              /\ writeQueue' = rst
              /\ watchOut' = TRUE
    <2> DEFINE h == Head(rst)
    <2>1. PICK part \in {0} \cup 0..(sizes[h] - 1) :
            /\ left' = [aft EXCEPT ![h] = @ - part]
            /\ queueSize' = total - Cardinality(Bytes(ToSet(fin), sizes)) - part
      BY <1>17
    <2>2. h \in ToSet(rst) /\ h \in Writes /\ h \in w
      BY <1>9, <1>15, <1>17
    <2> HIDE DEF h
    <2>3. /\ part \in Nat /\ sizes[h] \in 0..MaxSize /\ part <= sizes[h] /\ MaxSize \in Nat
      <3>1. sizes[h] \in 0..MaxSize /\ MaxSize \in Nat
        BY <2>2, StreamAssumption DEF Sizes
      <3> QED BY <2>1, <3>1
    <2>4. aft[h] = sizes[h]
      BY <1>3, <1>8, <2>2
    <2>5. /\ left' \in Sizes /\ left'[h] = aft[h] - part
          /\ \A r \in Writes : r # h => left'[r] = aft[r]
      <3>1. aft[h] - part \in 0..MaxSize
        BY <2>3, <2>4
      <3> QED BY <1>4, <2>1, <2>2, <3>1 DEF Sizes
    <2>6. Cardinality(Bytes(w, left')) = Cardinality(Bytes(w, aft)) + left'[h] - aft[h]
      <3>1. PICK g \in Sizes : g = left'
        BY <2>5
      <3>2. \A x \in w : x # h => g[x] = aft[x]
        BY <1>9, <2>5, <3>1
      <3>3. w \subseteq Writes /\ h \in w
        BY <1>9, <2>2
      <3>4. ASSUME NEW f \in Sizes, \A x \in w : x # h => g[x] = f[x]
            PROVE  Cardinality(Bytes(w, g)) = Cardinality(Bytes(w, f)) + g[h] - f[h]
        BY ONLY <3>3, <3>4, g \in Sizes, BytesPart
      <3>5. Cardinality(Bytes(w, g)) = Cardinality(Bytes(w, aft)) + g[h] - aft[h]
        BY <1>4, <3>2, <3>4
      <3> QED BY <3>1, <3>5
    <2>7. queueSize' = Cardinality(Bytes(ToSet(all) \ freed', left'))
      <3>1. queueSize' = Cardinality(Bytes(w, aft)) - part
        BY <1>10, <2>1
      <3>2. Cardinality(Bytes(w, left')) = Cardinality(Bytes(w, aft)) - part
        BY <1>10, <2>3, <2>4, <2>5, <2>6
      <3> QED BY <3>1, <3>2, <1>9
    <2>8. completedQueue' = Joined(completedQueue, fin)
      BY <1>17 DEF Joined
    <2>9. all = Joined(answered, Joined(answeringW, Joined(completedQueue', writeQueue')))
      BY <1>12, <1>13, <1>17, <1>2, <2>8
    <2>10. /\ writeQueue' \in Seq(Writes) /\ completedQueue' \in Seq(Writes)
           /\ watchOut' \in BOOLEAN /\ watchOut'
           /\ fd \in BOOLEAN => fedStream' \in BOOLEAN
      BY <1>2, <1>13, <1>17, <2>8
    <2>11. ToSet(writeQueue') \cap freed' = {}
      BY <1>11, <1>17
    <2> QED BY <1>11, <2>5, <2>7, <2>9, <2>10, <2>11
  <1>18. CASE /\ d \notin {Len(queue), Batch}
              /\ completedQueue' = completedQueue \o Append(fin, Head(rst))
              /\ fedStream' = (fd \/ Append(fin, Head(rst)) # <<>>)
              /\ writeQueue' = Tail(rst) /\ left' = aft
              /\ queueSize' = total - Cardinality(Bytes(ToSet(fin), sizes))
              /\ watchOut' = FALSE
    <2> DEFINE h == Head(rst)
               t == Tail(rst)
    <2>1. rst # <<>>
      BY <1>15, <1>18
    <2>2. /\ rst = Joined(One(h), t) /\ One(h) \in Seq(Writes) /\ h \in Writes
          /\ t \in Seq(Writes)
      BY <1>2, <2>1, JoinedHead
    <2> HIDE DEF h, t
    <2>3. ToSet(t) \subseteq ToSet(rst)
      BY <2>2, JoinedSets
    <2>4. Append(fin, h) = Joined(fin, One(h)) /\ Append(fin, h) # <<>>
      <3>1. ASSUME NEW s \in Seq(Writes), NEW x \in Writes PROVE Append(s, x) # <<>>
        OBVIOUS
      <3>2. Append(fin, h) = Joined(fin, One(h))
        BY <1>2, <2>2, JoinedOne
      <3> QED BY <1>2, <2>2, <3>1, <3>2
    <2> DEFINE c == Joined(completedQueue, Joined(fin, One(h)))
    <2>5. completedQueue' = c /\ writeQueue' = t /\ fedStream' = TRUE
      BY <1>18, <2>4 DEF Joined, h, t
    <2>6. c \in Seq(Writes) /\ Joined(completedQueue, queue) = Joined(c, t)
      <3>1. Joined(fin, One(h)) \in Seq(Writes)
        BY <1>2, <2>2, JoinedRest
      <3>2. Joined(fin, Joined(One(h), t)) = Joined(Joined(fin, One(h)), t)
        BY <1>2, <2>2, JoinedThree
      <3>3. Joined(completedQueue, Joined(Joined(fin, One(h)), t)) = Joined(c, t)
        BY <1>5, <2>2, <3>1, JoinedThree
      <3>4. c \in Seq(Writes)
        BY <1>5, <3>1, JoinedRest
      <3> QED BY <1>2, <2>2, <3>2, <3>3, <3>4
    <2> HIDE DEF c
    <2>7. all = Joined(answered, Joined(answeringW, Joined(completedQueue', writeQueue')))
      BY <1>12, <2>2, <2>5, <2>6
    <2>8. ToSet(writeQueue') \cap freed' = {}
      BY <1>11, <2>3, <2>5
    <2>9. queueSize' = Cardinality(Bytes(ToSet(all) \ freed', left'))
      BY <1>9, <1>10, <1>18
    <2> QED BY <1>4, <1>11, <1>18, <2>2, <2>5, <2>6, <2>7, <2>8, <2>9
  <1> QED BY <1>1, <1>16, <1>17, <1>18 DEF fin, rst, aft

StreamData == StreamLinks /\ StreamFreed /\ QueueSizeIsWaiting

LEMMA StreamParts ==
  /\ StreamInv <=> StreamShape /\ StreamData /\ StreamWatched /\ StreamEnds
  /\ StreamInv' <=> StreamShape' /\ StreamData' /\ StreamWatched' /\ StreamEnds'
  <1>1. StreamInv <=> StreamShape /\ StreamData /\ StreamWatched /\ StreamEnds
    BY StreamBounds DEF StreamData
  <1>2. StreamInv' <=> StreamShape' /\ StreamData' /\ StreamWatched' /\ StreamEnds'
    BY StreamBounds DEF StreamData
  <1> QED BY <1>1, <1>2

LEMMA StreamDataSame ==
  ASSUME StreamData, UNCHANGED <<writeVars, answeringW, historyVars>>
  PROVE  StreamData'
  BY DEF StreamData, StreamLinks, StreamFreed, QueueSizeIsWaiting, writeVars, historyVars

(* uv_write2() appends a write, and perhaps writes.                        *)
LEMMA WriteKeeps ==
  ASSUME StreamInv, NEW r \in Writes, NEW size \in 0..MaxSize, Write(r, size)
  PROVE  StreamInv'
  <1> DEFINE queue == Append(writeQueue, r)
             sizes == [left EXCEPT ![r] = size]
             all == Append(submitted, r)
             u == ToSet(submitted) \ freed
  <1>1. /\ UserRuns /\ HasSocket /\ submitted' = all
        /\ IF conn # "connecting" /\ queueSize = 0
           THEN WritesOut(queue, sizes, size, fedStream)
           ELSE /\ writeQueue' = queue /\ left' = sizes
                /\ queueSize' = queueSize + size
                /\ watchOut' = (watchOut \/ conn # "connecting")
                /\ UNCHANGED <<completedQueue, freed, fedStream>>
        /\ UNCHANGED <<conn, delayedError, flags, isReading, answeringW, shutReq, isShut,
                       isClosing, isClosed, at, caller, answered>>
        /\ ~Contains(submitted, r)
    BY DEF Write, connVars, endVars, placeVars
  <1>2. StreamShape /\ StreamData /\ StreamWatched /\ StreamEnds
    BY StreamParts
  <1>3. /\ submitted \in Seq(Writes) /\ answered \in Seq(Writes) /\ answeringW \in Seq(Writes)
        /\ completedQueue \in Seq(Writes) /\ writeQueue \in Seq(Writes)
        /\ left \in Sizes /\ freed \subseteq Writes /\ watchOut \in BOOLEAN
        /\ fedStream \in BOOLEAN
    BY <1>2 DEF StreamShape
  <1>4. r \notin ToSet(submitted)
    <2>1. \A s \in Seq(Writes) : Contains(s, r) <=> r \in ToSet(s)
      BY DEF Contains, ToSet
    <2> QED BY <1>1, <1>3, <2>1
  <1>5. /\ all \in Seq(Writes) /\ IsInjective(all) /\ ToSet(all) = ToSet(submitted) \cup {r}
    <2>1. IsInjective(submitted)
      BY <1>2 DEF StreamData, StreamLinks
    <2> QED BY <1>3, <1>4, <2>1, AppendRest
  <1>6. queue \in Seq(Writes) /\ ToSet(queue) = ToSet(writeQueue) \cup {r}
    BY <1>3, AppendRest
  <1>7. all = Joined(answered, Joined(answeringW, Joined(completedQueue, queue)))
    <2> DEFINE c == Joined(completedQueue, writeQueue)
               b == Joined(answeringW, c)
    <2>1. c \in Seq(Writes) /\ b \in Seq(Writes) /\ One(r) \in Seq(Writes)
      <3>1. c \in Seq(Writes)
        BY <1>3, JoinedRest
      <3>2. b \in Seq(Writes)
        BY <1>3, <3>1, JoinedRest
      <3> QED BY <1>3, <3>1, <3>2, JoinedOne
    <2>2. submitted = Joined(answered, b)
      BY <1>2 DEF StreamData, StreamLinks
    <2>3. Joined(c, One(r)) = Joined(completedQueue, Joined(writeQueue, One(r)))
      BY <1>3, <2>1, JoinedThree
    <2> HIDE DEF c
    <2>4. Joined(b, One(r)) = Joined(answeringW, Joined(c, One(r)))
      BY <1>3, <2>1, JoinedThree
    <2> HIDE DEF b
    <2>5. Joined(Joined(answered, b), One(r)) = Joined(answered, Joined(b, One(r)))
      BY <1>3, <2>1, JoinedThree
    <2>6. all = Joined(submitted, One(r)) /\ queue = Joined(writeQueue, One(r))
      BY <1>3, JoinedOne
    <2> QED BY <2>2, <2>3, <2>4, <2>5, <2>6
  <1> HIDE DEF queue, all
  <1>8. sizes \in Sizes /\ sizes[r] = size /\ \A x \in Writes : x # r => sizes[x] = left[x]
    BY <1>3 DEF Sizes
  <1>9. /\ ToSet(answered) \subseteq freed /\ freed \subseteq ToSet(submitted)
        /\ ToSet(writeQueue) \cap freed = {} /\ queueSize = Cardinality(Bytes(u, left))
    BY <1>2 DEF StreamData, StreamFreed, QueueSizeIsWaiting
  <1>10. /\ u \subseteq Writes /\ r \notin u /\ ToSet(all) \ freed = u \cup {r}
         /\ freed \subseteq ToSet(all) /\ ToSet(queue) \cap freed = {}
    <2>1. ToSet(submitted) \subseteq Writes
      BY <1>3 DEF ToSet
    <2> QED BY <2>1, <1>4, <1>5, <1>6, <1>9
  <1> HIDE DEF sizes, u
  <1>11. queueSize \in Nat /\ Cardinality(Bytes(ToSet(all) \ freed, sizes)) = queueSize + size
    <2>1. Cardinality(Bytes(u \cup {r}, sizes))
            = Cardinality(Bytes(u, sizes)) + Cardinality(Bytes({r}, sizes))
      <3>1. {r} \subseteq Writes /\ u \cap {r} = {}
        BY <1>10
      <3> QED BY <3>1, <1>8, <1>10, BytesOfTwo
    <2>2. Cardinality(Bytes({r}, sizes)) = size
      BY <1>8, BytesOfOne
    <2>3. Bytes(u, sizes) = Bytes(u, left)
      <3>1. \A x \in u : sizes[x] = left[x]
        BY <1>8, <1>10
      <3> QED BY <3>1, BytesSame
    <2>4. Cardinality(Bytes(u, left)) \in Nat
      BY <1>3, <1>10, BytesFinite
    <2> QED BY <2>1, <2>2, <2>3, <2>4, <1>9, <1>10
  <1>12. ~isClosing /\ conn # "none" /\ isReading' = isReading /\ isClosing' = isClosing
    BY <1>1 DEF HasSocket
  <1>13. CASE conn # "connecting" /\ queueSize = 0
    <2>1. WritesOut(queue, sizes, size, fedStream)
      BY <1>1, <1>13
    <2>2. Waits(queue, sizes, size) /\ all = All(queue)
      <3>1. size = Cardinality(Bytes(ToSet(all) \ freed, sizes))
        BY <1>11, <1>13
      <3> QED BY <3>1, <1>5, <1>6, <1>7, <1>8, <1>10 DEF Waits, All
    <2>3. /\ writeQueue' \in Seq(Writes) /\ completedQueue' \in Seq(Writes)
          /\ left' \in Sizes /\ watchOut' \in BOOLEAN
          /\ fedStream \in BOOLEAN => fedStream' \in BOOLEAN
          /\ all = Joined(answered, Joined(answeringW, Joined(completedQueue', writeQueue')))
          /\ freed \subseteq freed' /\ freed' \subseteq ToSet(all)
          /\ ToSet(writeQueue') \cap freed' = {}
          /\ queueSize' = Cardinality(Bytes(ToSet(all) \ freed', left'))
          /\ writeQueue' = <<>> \/ watchOut' \/ fedStream'
      <3> USE <1>2, <2>1, <2>2
      <3>1. writeQueue' \in Seq(Writes) /\ completedQueue' \in Seq(Writes)
        BY WritesOutKeeps
      <3>2. left' \in Sizes /\ watchOut' \in BOOLEAN
        BY WritesOutKeeps
      <3>3. fedStream \in BOOLEAN => fedStream' \in BOOLEAN
        BY WritesOutKeeps
      <3>4. Joined(answered, Joined(answeringW, Joined(completedQueue', writeQueue')))
              = All(queue)
        BY WritesOutKeeps
      <3>5. freed \subseteq freed' /\ freed' \subseteq ToSet(all)
        BY WritesOutKeeps
      <3>6. ToSet(writeQueue') \cap freed' = {}
        BY WritesOutKeeps
      <3>7. queueSize' = Cardinality(Bytes(ToSet(all) \ freed', left'))
        BY WritesOutKeeps
      <3>8. writeQueue' = <<>> \/ watchOut' \/ fedStream'
        BY WritesOutKeeps
      <3> QED BY ONLY <2>2, <3>1, <3>2, <3>3, <3>4, <3>5, <3>6, <3>7, <3>8
    <2>4. StreamShape'
      <3>1. freed' \in SUBSET Writes
        BY <2>3, <1>5 DEF ToSet
      <3> QED BY <1>1, <1>2, <1>5, <2>3, <3>1 DEF StreamShape
    <2>5. StreamData'
      BY <1>1, <1>5, <1>9, <2>3 DEF StreamData, StreamLinks, StreamFreed, QueueSizeIsWaiting
    <2>6. StreamWatched'
      BY <1>1, <1>2, <1>12, <1>13, <2>3 DEF StreamWatched
    <2>7. StreamEnds'
      BY <1>1, <1>2, <1>12 DEF StreamEnds
    <2> QED BY <2>4, <2>5, <2>6, <2>7, StreamParts
  <1>14. CASE ~(conn # "connecting" /\ queueSize = 0)
    <2>1. /\ writeQueue' = queue /\ left' = sizes /\ queueSize' = queueSize + size
          /\ watchOut' = (watchOut \/ conn # "connecting")
          /\ completedQueue' = completedQueue /\ freed' = freed /\ fedStream' = fedStream
      BY <1>1, <1>14
    <2>2. StreamShape'
      BY <1>1, <1>2, <1>3, <1>5, <1>6, <1>8, <2>1 DEF StreamShape
    <2>3. StreamData'
      BY <1>1, <1>5, <1>7, <1>9, <1>10, <1>11, <2>1
      DEF StreamData, StreamLinks, StreamFreed, QueueSizeIsWaiting
    <2>4. StreamWatched'
      <3>1. watchOut' = TRUE
        BY <1>2, <1>12, <2>1 DEF StreamWatched, StreamShape
      <3>2. UNCHANGED <<conn, at, caller, isClosing>>
        BY <1>1
      <3> QED BY <1>2, <1>12, <3>1, <3>2 DEF StreamWatched
    <2>5. StreamEnds'
      BY <1>1, <1>2, <1>12, <2>1 DEF StreamEnds
    <2> QED BY <2>2, <2>3, <2>4, <2>5, StreamParts
  <1> QED BY <1>13, <1>14

(* uv__stream_io() writes.                                                 *)
LEMMA StreamWritesKeeps ==
  ASSUME StreamInv, StreamWrites
  PROVE  StreamInv'
  <1>1. StreamShape /\ StreamData /\ StreamWatched /\ StreamEnds
    BY StreamParts
  <1>2. PICK fd \in BOOLEAN : CalledWith(fd) /\ WritesOut(writeQueue, left, queueSize, fd)
    BY DEF StreamWrites
  <1>3. /\ conn # "connecting" /\ at = "loop" /\ ~isClosing /\ at' = "written"
        /\ caller' = "io"
        /\ UNCHANGED <<conn, delayedError, flags, isReading, answeringW, shutReq, isShut,
                       isClosing, isClosed, submitted, answered>>
    BY <1>2 DEF StreamWrites, CalledWith, connVars, endVars, historyVars
  <1>4. /\ writeQueue' \in Seq(Writes) /\ completedQueue' \in Seq(Writes)
        /\ left' \in Sizes /\ watchOut' \in BOOLEAN
        /\ fd \in BOOLEAN => fedStream' \in BOOLEAN
        /\ submitted
             = Joined(answered, Joined(answeringW, Joined(completedQueue', writeQueue')))
        /\ freed \subseteq freed' /\ freed' \subseteq ToSet(submitted)
        /\ ToSet(writeQueue') \cap freed' = {}
        /\ queueSize' = Cardinality(Bytes(ToSet(submitted) \ freed', left'))
        /\ writeQueue' = <<>> \/ watchOut' \/ fedStream'
    <2>1. Waits(writeQueue, left, queueSize) /\ submitted = All(writeQueue)
      BY <1>1 DEF StreamShape, StreamData, StreamLinks, StreamFreed, QueueSizeIsWaiting,
                  Waits, All
    <2> USE <1>1, <1>2, <2>1
    <2>2. writeQueue' \in Seq(Writes) /\ completedQueue' \in Seq(Writes)
      BY WritesOutKeeps
    <2>3. left' \in Sizes /\ watchOut' \in BOOLEAN
      BY WritesOutKeeps
    <2>4. fd \in BOOLEAN => fedStream' \in BOOLEAN
      BY WritesOutKeeps
    <2>5. Joined(answered, Joined(answeringW, Joined(completedQueue', writeQueue')))
            = All(writeQueue)
      BY WritesOutKeeps
    <2>6. freed \subseteq freed' /\ freed' \subseteq ToSet(submitted)
      BY WritesOutKeeps
    <2>7. ToSet(writeQueue') \cap freed' = {}
      BY WritesOutKeeps
    <2>8. queueSize' = Cardinality(Bytes(ToSet(submitted) \ freed', left'))
      BY WritesOutKeeps
    <2>9. writeQueue' = <<>> \/ watchOut' \/ fedStream'
      BY WritesOutKeeps
    <2> QED BY ONLY <2>1, <2>2, <2>3, <2>4, <2>5, <2>6, <2>7, <2>8, <2>9
  <1>5. StreamShape'
    <2>1. freed' \in SUBSET Writes
      BY <1>1, <1>4 DEF StreamShape, ToSet
    <2> QED BY <1>1, <1>3, <1>4, <2>1 DEF StreamShape
  <1>6. StreamData'
    BY <1>1, <1>3, <1>4 DEF StreamData, StreamLinks, StreamFreed, QueueSizeIsWaiting
  <1>7. StreamWatched'
    <2>1. conn # "none"
      BY <1>1, <1>2 DEF CalledWith, StreamWatched
    <2> QED BY <1>1, <1>3, <1>4, <2>1 DEF StreamWatched
  <1>8. StreamEnds'
    BY <1>1, <1>3, <1>4 DEF StreamEnds
  <1> QED BY <1>5, <1>6, <1>7, <1>8, StreamParts

(* uv__write_callbacks() takes the completed writes and answers each.      *)
LEMMA TakesCompletedKeeps ==
  ASSUME StreamInv, TakesCompleted
  PROVE  StreamInv'
  <1>1. StreamShape /\ StreamData /\ StreamWatched /\ StreamEnds
    BY StreamParts
  <1>2. /\ at = "written" /\ at' = "answering"
        /\ answeringW' = completedQueue /\ completedQueue' = <<>>
        /\ UNCHANGED <<conn, delayedError, flags, isReading, watchOut, fedStream, writeQueue,
                       left, freed, queueSize, shutReq, isShut, isClosing, isClosed, caller,
                       submitted, answered>>
    BY DEF TakesCompleted, connVars, watchVars, endVars, historyVars
  <1>3. StreamShape'
    BY <1>1, <1>2 DEF StreamShape
  <1>4. StreamData'
    <2>1. answeringW = <<>> /\ completedQueue \in Seq(Writes) /\ writeQueue \in Seq(Writes)
      BY <1>1, <1>2 DEF StreamEnds, StreamShape
    <2>2. Joined(<<>>, Joined(completedQueue, writeQueue))
            = Joined(completedQueue, Joined(<<>>, writeQueue))
      <3>1. Joined(completedQueue, writeQueue) \in Seq(Writes)
        BY <2>1, JoinedRest
      <3>2. Joined(<<>>, Joined(completedQueue, writeQueue)) = Joined(completedQueue, writeQueue)
        BY <3>1, JoinedEmpty
      <3>3. Joined(<<>>, writeQueue) = writeQueue
        BY <2>1, JoinedEmpty
      <3> QED BY <3>2, <3>3
    <2>3. StreamLinks'
      BY <1>1, <1>2, <2>1, <2>2 DEF StreamData, StreamLinks
    <2> QED BY <1>1, <1>2, <2>3 DEF StreamData, StreamFreed, QueueSizeIsWaiting
  <1>5. StreamWatched'
    BY <1>1, <1>2 DEF StreamWatched
  <1>6. StreamEnds'
    BY <1>1, <1>2 DEF StreamEnds
  <1> QED BY <1>3, <1>4, <1>5, <1>6, StreamParts

LEMMA AnswersWriteKeeps ==
  ASSUME StreamInv, AnswersWrite
  PROVE  StreamInv'
  <1> DEFINE r == Head(answeringW)
             t == Tail(answeringW)
             u == ToSet(submitted) \ freed
  <1>1. StreamShape /\ StreamData /\ StreamWatched /\ StreamEnds
    BY StreamParts
  <1>2. /\ at = "answering" /\ at' = "writeCb" /\ answeringW # <<>>
        /\ queueSize' = IF r \in freed THEN queueSize ELSE queueSize - left[r]
        /\ freed' = freed \cup {r} /\ answered' = Append(answered, r)
        /\ answeringW' = t
        /\ UNCHANGED <<conn, delayedError, flags, isReading, watchOut, fedStream, writeQueue,
                       completedQueue, left, shutReq, isShut, isClosing, isClosed, caller,
                       submitted>>
    BY DEF AnswersWrite, connVars, watchVars, endVars
  <1>3. /\ submitted \in Seq(Writes) /\ answered \in Seq(Writes) /\ answeringW \in Seq(Writes)
        /\ completedQueue \in Seq(Writes) /\ writeQueue \in Seq(Writes)
        /\ left \in Sizes /\ freed \subseteq Writes
    BY <1>1 DEF StreamShape
  <1>4. /\ answeringW = Joined(One(r), t) /\ One(r) \in Seq(Writes) /\ r \in Writes
        /\ t \in Seq(Writes) /\ r \in ToSet(answeringW)
    <2>1. r \in ToSet(answeringW)
      BY <1>2, <1>3, TailRest
    <2> QED BY <1>2, <1>3, <2>1, JoinedHead
  <1> HIDE DEF r, t
  <1> DEFINE c == Joined(completedQueue, writeQueue)
  <1>5. c \in Seq(Writes) /\ ToSet(writeQueue) \subseteq ToSet(c)
    BY <1>3, JoinedRest, JoinedSets
  <1>6. submitted = Joined(answered, Joined(answeringW, c)) /\ IsInjective(submitted)
    BY <1>1 DEF StreamData, StreamLinks
  <1> HIDE DEF c
  <1>7. /\ ToSet(answeringW) \subseteq ToSet(submitted)
        /\ r \in ToSet(submitted) /\ r \notin ToSet(writeQueue)
    <2>1. Joined(answeringW, c) \in Seq(Writes)
      BY <1>3, <1>5, JoinedRest
    <2>2. /\ IsInjective(Joined(answeringW, c))
          /\ ToSet(Joined(answeringW, c)) \subseteq ToSet(submitted)
      BY <1>3, <1>6, <2>1, JoinedSets
    <2>3. /\ ToSet(answeringW) \cap ToSet(c) = {}
          /\ ToSet(answeringW) \subseteq ToSet(submitted)
      BY <1>3, <1>5, <2>2, JoinedSets
    <2> QED BY <1>4, <1>5, <2>3
  <1>8. /\ ToSet(answered) \subseteq freed /\ freed \subseteq ToSet(submitted)
        /\ ToSet(writeQueue) \cap freed = {} /\ queueSize = Cardinality(Bytes(u, left))
        /\ u \subseteq Writes
    <2>1. ToSet(submitted) \subseteq Writes
      BY <1>3 DEF ToSet
    <2> QED BY <1>1, <2>1 DEF StreamData, StreamFreed, QueueSizeIsWaiting
  <1>9. answered' \in Seq(Writes) /\ ToSet(answered') = ToSet(answered) \cup {r}
    BY <1>2, <1>3, <1>4, AppendRest
  <1>10. submitted = Joined(answered', Joined(t, c))
    <2>1. Joined(answeringW, c) = Joined(One(r), Joined(t, c)) /\ Joined(t, c) \in Seq(Writes)
      BY <1>4, <1>5, JoinedRest, JoinedThree
    <2>2. Joined(answered, Joined(One(r), Joined(t, c)))
            = Joined(Joined(answered, One(r)), Joined(t, c))
      BY <1>3, <1>4, <2>1, JoinedThree
    <2>3. answered' = Joined(answered, One(r))
      BY <1>2, <1>3, <1>4, JoinedOne
    <2> QED BY <1>6, <2>1, <2>2, <2>3
  <1>11. queueSize' = Cardinality(Bytes(ToSet(submitted) \ freed', left))
    <2>1. CASE r \in freed
      <3>1. freed' = freed /\ queueSize' = queueSize
        BY <1>2, <2>1
      <3> QED BY <3>1, <1>8
    <2>2. CASE r \notin freed
      <3>1. {r} \subseteq u /\ u \ {r} = ToSet(submitted) \ freed'
        BY <1>2, <1>7, <2>2
      <3> HIDE DEF u
      <3>2. Cardinality(Bytes(u \ {r}, left))
              = Cardinality(Bytes(u, left)) - Cardinality(Bytes({r}, left))
        BY <1>3, <1>8, <3>1, BytesLess
      <3>3. Cardinality(Bytes({r}, left)) = left[r]
        BY <1>3, <1>4, BytesOfOne
      <3> QED BY <1>2, <1>8, <2>2, <3>1, <3>2, <3>3
    <2> QED BY <2>1, <2>2
  <1>12. StreamShape'
    BY <1>1, <1>2, <1>3, <1>4, <1>9 DEF StreamShape
  <1>13. StreamData'
    <2>1. StreamLinks'
      BY <1>2, <1>6, <1>10 DEF StreamLinks, c
    <2>2. StreamFreed'
      BY <1>2, <1>7, <1>8, <1>9 DEF StreamFreed
    <2>3. QueueSizeIsWaiting'
      BY <1>2, <1>11 DEF QueueSizeIsWaiting
    <2> QED BY <2>1, <2>2, <2>3 DEF StreamData
  <1>14. StreamWatched'
    BY <1>1, <1>2 DEF StreamWatched
  <1>15. StreamEnds'
    BY <1>1, <1>2 DEF StreamEnds
  <1> QED BY <1>12, <1>13, <1>14, <1>15, StreamParts

(* What waits is flushed to what is completed.                             *)
LEMMA FlushKeeps ==
  ASSUME StreamShape, StreamData, FlushesWrites,
         UNCHANGED <<left, freed, queueSize, answeringW, historyVars>>
  PROVE  /\ StreamData' /\ writeQueue' = <<>> /\ at' = "written"
         /\ writeQueue' \in Seq(Writes) /\ completedQueue' \in Seq(Writes)
  <1>1. /\ completedQueue' = Joined(completedQueue, writeQueue) /\ writeQueue' = <<>>
        /\ at' = "written"
        /\ UNCHANGED <<left, freed, queueSize, answeringW, submitted, answered>>
    BY DEF FlushesWrites, historyVars, Joined
  <1>2. completedQueue \in Seq(Writes) /\ writeQueue \in Seq(Writes)
    BY DEF StreamShape
  <1>3. completedQueue' \in Seq(Writes)
    BY <1>1, <1>2, JoinedRest
  <1>4. Joined(completedQueue', <<>>) = Joined(completedQueue, writeQueue)
    BY <1>1, <1>3, JoinedEmpty
  <1>5. StreamLinks'
    BY <1>1, <1>4 DEF StreamData, StreamLinks
  <1>6. StreamFreed' /\ QueueSizeIsWaiting'
    BY <1>1, EmptyRest DEF StreamData, StreamFreed, QueueSizeIsWaiting
  <1> QED BY <1>1, <1>3, <1>5, <1>6 DEF StreamData

LEMMA DestroysKeeps ==
  ASSUME StreamInv, Destroys
  PROVE  StreamInv'
  <1>1. StreamShape /\ StreamData /\ StreamWatched /\ StreamEnds
    BY StreamParts
  <1>2. /\ at = "loop" /\ isClosing /\ ~isClosed /\ isClosed' = TRUE /\ caller' = "destroy"
        /\ UNCHANGED <<conn, delayedError, flags, isReading, watchOut, fedStream, left, freed,
                       queueSize, answeringW, shutReq, isShut, isClosing, submitted, answered>>
    BY DEF Destroys, connVars, watchVars, historyVars
  <1>3. CASE conn = "connecting"
    <2>1. /\ at' = "connectCb" /\ UNCHANGED <<writeQueue, completedQueue>>
      BY <1>3 DEF Destroys
    <2>2. StreamData'
      BY <1>1, <1>2, <2>1, StreamDataSame DEF writeVars, historyVars
    <2>3. StreamShape'
      BY <1>1, <1>2, <2>1 DEF StreamShape
    <2>4. StreamWatched'
      BY <1>1, <1>2, <2>1 DEF StreamWatched
    <2>5. StreamEnds'
      BY <1>1, <1>2, <2>1 DEF StreamEnds
    <2> QED BY <2>2, <2>3, <2>4, <2>5, StreamParts
  <1>4. CASE conn # "connecting"
    <2>1. FlushesWrites
      BY <1>4 DEF Destroys
    <2>2. /\ StreamData' /\ writeQueue' = <<>> /\ at' = "written"
          /\ writeQueue' \in Seq(Writes) /\ completedQueue' \in Seq(Writes)
      BY <1>1, <1>2, <2>1, FlushKeeps DEF historyVars
    <2>3. StreamShape'
      BY <1>1, <1>2, <2>2 DEF StreamShape
    <2>4. StreamWatched'
      BY <1>1, <1>2, <2>2 DEF StreamWatched
    <2>5. StreamEnds'
      BY <1>1, <1>2, <2>2 DEF StreamEnds
    <2> QED BY <2>2, <2>3, <2>4, <2>5, StreamParts
  <1> QED BY <1>3, <1>4

LEMMA ConnectCbKeeps ==
  ASSUME StreamInv, ConnectCbReturns
  PROVE  StreamInv'
  <1>1. StreamShape /\ StreamData /\ StreamWatched /\ StreamEnds
    BY StreamParts
  <1>2. /\ at = "connectCb" /\ conn' = IF caller = "destroy" THEN "cancelled" ELSE conn
        /\ UNCHANGED <<delayedError, flags, isReading, watchOut, fedStream, left, freed,
                       queueSize, answeringW, shutReq, isShut, isClosing, isClosed, caller,
                       submitted, answered>>
    BY DEF ConnectCbReturns, watchVars, endVars, historyVars
  <1>3. CASE caller = "destroy" \/ (conn = "failed" /\ ~isClosing)
    <2>1. FlushesWrites
      BY <1>3 DEF ConnectCbReturns
    <2>2. /\ StreamData' /\ writeQueue' = <<>> /\ at' = "written"
          /\ writeQueue' \in Seq(Writes) /\ completedQueue' \in Seq(Writes)
      BY <1>1, <1>2, <2>1, FlushKeeps DEF historyVars
    <2>3. StreamShape'
      BY <1>1, <1>2, <2>2 DEF StreamShape
    <2>4. StreamWatched'
      BY <1>1, <1>2, <2>2 DEF StreamWatched
    <2>5. StreamEnds'
      BY <1>1, <1>2, <2>2 DEF StreamEnds
    <2> QED BY <2>2, <2>3, <2>4, <2>5, StreamParts
  <1>4. CASE ~(caller = "destroy" \/ (conn = "failed" /\ ~isClosing))
    <2>1. at' = "loop" /\ UNCHANGED <<writeQueue, completedQueue>>
      BY <1>4 DEF ConnectCbReturns
    <2>2. StreamData'
      BY <1>1, <1>2, <2>1, StreamDataSame DEF writeVars, historyVars
    <2>3. StreamShape'
      BY <1>1, <1>2, <2>1 DEF StreamShape
    <2>4. StreamWatched'
      BY <1>1, <1>2, <1>4, <2>1 DEF StreamWatched
    <2>5. StreamEnds'
      BY <1>1, <1>2, <1>4, <2>1 DEF StreamEnds
    <2> QED BY <2>2, <2>3, <2>4, <2>5, StreamParts
  <1> QED BY <1>3, <1>4

(* The actions that leave the writes alone.                                *)
LEMMA ElsewhereKeeps ==
  ASSUME StreamInv,
         \/ Connect \/ Shutdown \/ ReadStart \/ ReadStop \/ CloseStream
         \/ StreamConnects \/ StreamReads \/ EndsAnswers \/ CbReturns
         \/ UNCHANGED streamVars
  PROVE  StreamInv'
  <1>1. StreamShape /\ StreamData /\ StreamWatched /\ StreamEnds
    BY StreamParts
  <1>2. UNCHANGED <<writeVars, answeringW, historyVars>>
    BY DEF Connect, Shutdown, ReadStart, ReadStop, CloseStream, StreamConnects, StreamReads,
           EndsAnswers, CbReturns, streamVars
  <1>3. StreamData'
    BY <1>1, <1>2, StreamDataSame
  <1>4. UNCHANGED <<writeQueue, completedQueue, left, freed, queueSize, answeringW,
                    submitted, answered>>
    BY <1>2 DEF writeVars, historyVars
  <1> SUFFICES StreamShape' /\ StreamWatched' /\ StreamEnds'
    BY <1>3, StreamParts
  <1>5. CASE Connect
    BY <1>1, <1>4, <1>5
    DEF Connect, UserRuns, StreamShape, StreamWatched, StreamEnds, endVars, placeVars
  <1>6. CASE Shutdown
    BY <1>1, <1>4, <1>6
    DEF Shutdown, UserRuns, HasSocket, StreamShape, StreamWatched, StreamEnds, connVars,
        endVars, placeVars
  <1>7. CASE ReadStart
    <2>1. StreamShape'
      BY <1>1, <1>4, <1>7
      DEF ReadStart, UserRuns, HasSocket, connVars, endVars, placeVars, StreamShape
    <2>2. StreamWatched'
      BY <1>1, <1>4, <1>7
      DEF ReadStart, UserRuns, HasSocket, connVars, endVars, placeVars, StreamWatched
    <2>3. StreamEnds'
      BY <1>1, <1>4, <1>7
      DEF ReadStart, UserRuns, HasSocket, connVars, endVars, placeVars, StreamEnds
    <2> QED BY <2>1, <2>2, <2>3
  <1>8. CASE ReadStop
    <2>1. /\ isReading' = FALSE
          /\ UNCHANGED <<conn, delayedError, flags, watchOut, fedStream, shutReq, isShut,
                         isClosing, isClosed, at, caller>>
      BY <1>8 DEF ReadStop, connVars, endVars, placeVars
    <2>2. StreamShape'
      <3>1. isReading' \in BOOLEAN
        BY <2>1
      <3>2. UNCHANGED <<conn, delayedError, flags, watchOut, fedStream, shutReq, isShut,
                        isClosing, isClosed, at, caller>>
        BY <2>1
      <3> QED BY <1>1, <1>4, <3>1, <3>2 DEF StreamShape
    <2>3. StreamWatched' /\ StreamEnds'
      BY <1>1, <1>4, <2>1 DEF StreamWatched, StreamEnds
    <2> QED BY <2>2, <2>3
  <1>9. CASE CloseStream
    <2>1. StreamShape'
      BY <1>1, <1>4, <1>9
      DEF CloseStream, UserRuns, connVars, placeVars, StreamShape
    <2>2. StreamWatched'
      BY <1>1, <1>4, <1>9
      DEF CloseStream, UserRuns, connVars, placeVars, StreamWatched
    <2>3. StreamEnds'
      BY <1>1, <1>4, <1>9
      DEF CloseStream, UserRuns, connVars, placeVars, StreamEnds
    <2> QED BY <2>1, <2>2, <2>3
  <1>10. CASE StreamConnects
    <2>1. PICK fd \in BOOLEAN :
            /\ CalledWith(fd) \/ (at = "loop" /\ isReading /\ fd = fedStream)
            /\ fedStream' = fd
      BY <1>10 DEF StreamConnects
    <2>2. /\ conn = "connecting" /\ at = "loop" /\ ~isClosing /\ fedStream' \in BOOLEAN
          /\ UNCHANGED <<flags, isReading, shutReq, isShut, isClosing, isClosed>>
      BY <1>1, <1>10, <2>1 DEF StreamConnects, CalledWith, StreamWatched, endVars
    <2>3. CASE \E error \in BOOLEAN : ConnectEnds(error)
      <3>1. PICK error \in BOOLEAN : ConnectEnds(error)
        BY <2>3
      <3>2. /\ delayedError' = FALSE /\ at' = "connectCb" /\ caller' = "connect"
            /\ conn' = IF error THEN "failed" ELSE "connected"
            /\ watchOut' = (watchOut /\ ~error /\ writeQueue # <<>>)
        BY <3>1 DEF ConnectEnds
      <3>3. StreamShape'
        BY <1>1, <1>4, <2>2, <3>2 DEF StreamShape
      <3>4. StreamWatched' /\ StreamEnds'
        BY <1>1, <1>4, <2>2, <3>2 DEF StreamWatched, StreamEnds
      <3> QED BY <3>3, <3>4
    <2>4. CASE UNCHANGED <<conn, delayedError, watchOut, at, caller>>
      <3>1. StreamShape'
        BY <1>1, <1>4, <2>2, <2>4 DEF StreamShape
      <3>2. StreamWatched' /\ StreamEnds'
        BY <1>1, <1>4, <2>2, <2>4 DEF StreamWatched, StreamEnds
      <3> QED BY <3>1, <3>2
    <2> QED BY <1>10, <2>3, <2>4 DEF StreamConnects
  <1>11. CASE StreamReads
    <2>1. /\ at = "loop" /\ at' \in {"readCb", "readErrorCb"} /\ caller' = "io"
          /\ isReading = TRUE /\ isReading' \in BOOLEAN
          /\ flags' \in SUBSET {"readable", "writable"}
          /\ UNCHANGED <<conn, delayedError, watchOut, fedStream, shutReq, isShut,
                         isClosing, isClosed>>
      BY <1>1, <1>11 DEF StreamReads, StreamShape, connVars, endVars
    <2>2. StreamShape'
      BY <1>1, <1>4, <2>1 DEF StreamShape
    <2>3. isClosing = FALSE /\ conn \notin {"none", "connecting"}
      BY <1>1, <1>11, <2>1 DEF StreamReads, StreamWatched, StreamShape
    <2>4. StreamWatched'
      BY <1>1, <1>4, <2>1, <2>3 DEF StreamWatched
    <2>5. StreamEnds'
      BY <1>1, <1>4, <2>1, <2>3 DEF StreamEnds
    <2> QED BY <2>2, <2>4, <2>5
  <1>12. CASE EndsAnswers
    <2>1. /\ at = "answering" /\ answeringW = <<>>
          /\ at' \in {"loop", "shutCb", "closeCb"}
          /\ UNCHANGED <<conn, delayedError, flags, isReading, fedStream, isClosing, isClosed,
                         caller>>
      BY <1>12 DEF EndsAnswers, Drain, connVars
    <2>2. watchOut' \in BOOLEAN /\ shutReq' \in BOOLEAN /\ isShut' \in BOOLEAN
      BY <1>1, <1>12 DEF EndsAnswers, Drain, StreamShape
    <2>3. StreamShape'
      BY <1>1, <1>4, <2>1, <2>2 DEF StreamShape
    <2>4. StreamWatched'
      <3>1. isClosing => watchOut' = FALSE
        BY <1>1, <1>12 DEF EndsAnswers, Drain, StreamWatched, StreamShape
      <3>2. watchOut' = watchOut \/ (writeQueue = <<>> /\ at = "answering") \/ isClosing
        BY <1>1, <1>12 DEF EndsAnswers, Drain, StreamEnds
      <3>3. conn = "connecting" /\ ~isClosing => watchOut'
        BY <1>1, <1>12 DEF EndsAnswers, Drain, StreamWatched
      <3> QED BY <1>1, <1>4, <2>1, <3>1, <3>2, <3>3 DEF StreamWatched
    <2>5. StreamEnds'
      BY <1>1, <1>4, <1>12
      DEF EndsAnswers, Drain, connVars, StreamEnds
    <2> QED BY <2>3, <2>4, <2>5
  <1>13. CASE CbReturns
    <2>1. /\ at' \in {"answering", "loop", "closeCb"} /\ isReading' \in BOOLEAN
          /\ UNCHANGED <<conn, delayedError, flags, watchOut, fedStream, shutReq, isShut,
                         isClosing, isClosed, caller>>
      BY <1>1, <1>13 DEF CbReturns, StreamShape, connVars, endVars
    <2>2. StreamShape'
      BY <1>1, <1>4, <2>1 DEF StreamShape
    <2>3. StreamWatched'
      BY <1>1, <1>4, <1>13
      DEF CbReturns, connVars, endVars, StreamWatched
    <2>4. StreamEnds'
      BY <1>1, <1>4, <1>13
      DEF CbReturns, connVars, endVars, StreamEnds
    <2> QED BY <2>2, <2>3, <2>4
  <1>14. CASE UNCHANGED streamVars
    BY <1>1, <1>4, <1>14
    DEF StreamShape, StreamWatched, StreamEnds, streamVars, connVars, watchVars, endVars,
        placeVars
  <1> QED BY <1>5, <1>6, <1>7, <1>8, <1>9, <1>10, <1>11, <1>12, <1>13, <1>14

LEMMA StreamStep == StreamInv /\ [StreamNext]_streamVars => StreamInv'
  <1> SUFFICES ASSUME StreamInv, [StreamNext]_streamVars PROVE StreamInv'
    OBVIOUS
  <1>1. \/ UserOfStream \/ StreamConnects \/ StreamWrites \/ StreamReads \/ Destroys
        \/ HandlerGoesOn \/ UNCHANGED streamVars
    BY DEF StreamNext
  <1>2. CASE UserOfStream
    <2>1. CASE \E r \in Writes, size \in 0..MaxSize : Write(r, size)
      BY <2>1, WriteKeeps
    <2> QED BY <1>2, <2>1, ElsewhereKeeps DEF UserOfStream
  <1>3. CASE HandlerGoesOn
    BY <1>3, TakesCompletedKeeps, AnswersWriteKeeps, ConnectCbKeeps, ElsewhereKeeps
    DEF HandlerGoesOn
  <1> QED BY <1>1, <1>2, <1>3, StreamWritesKeeps, DestroysKeeps, ElsewhereKeeps

LEMMA StreamStart == StreamInit => StreamInv
  <1> SUFFICES ASSUME StreamInit PROVE StreamInv
    OBVIOUS
  <1>1. StreamShape
    <2>1. left \in Sizes
      BY StreamAssumption DEF StreamInit, Sizes
    <2>2. <<>> \in Seq(Writes) /\ {} \in SUBSET Writes
      OBVIOUS
    <2> QED BY <2>1, <2>2 DEF StreamInit, StreamShape
  <1>2. StreamLinks
    <2>1. Joined(<<>>, Joined(<<>>, Joined(<<>>, <<>>))) = <<>>
      <3>1. <<>> \in Seq(Writes)
        OBVIOUS
      <3> QED BY <3>1, JoinedEmpty
    <2> QED BY <2>1, EmptyRest DEF StreamInit, StreamLinks
  <1>3. StreamFreed
    BY EmptyRest DEF StreamInit, StreamFreed
  <1>4. QueueSizeIsWaiting
    <2>1. ToSet(submitted) \ freed = {}
      BY EmptyRest DEF StreamInit
    <2> QED BY <2>1, BytesOfNone DEF StreamInit, QueueSizeIsWaiting
  <1>5. StreamWatched /\ StreamEnds
    BY DEF StreamInit, StreamWatched, StreamEnds
  <1> QED BY <1>1, <1>2, <1>3, <1>4, <1>5, StreamBounds

LEMMA StreamConcludes ==
  StreamInv => /\ StreamTypeOK /\ QueueSizeIsWaiting /\ WaitingIsWatched
               /\ AnsweredInOrder /\ ClosedAnswersAll
  <1> SUFFICES ASSUME StreamInv
               PROVE  WaitingIsWatched /\ AnsweredInOrder /\ ClosedAnswersAll
    BY DEF StreamInv
  <1>1. StreamShape /\ StreamLinks /\ StreamFreed /\ QueueSizeIsWaiting /\ StreamWatched
        /\ StreamEnds
    BY StreamBounds
  <1>2. /\ submitted \in Seq(Writes) /\ answered \in Seq(Writes) /\ answeringW \in Seq(Writes)
        /\ completedQueue \in Seq(Writes) /\ writeQueue \in Seq(Writes)
        /\ submitted
             = Joined(answered, Joined(answeringW, Joined(completedQueue, writeQueue)))
    BY <1>1 DEF StreamShape, StreamLinks
  <1>3. WaitingIsWatched
    BY <1>1 DEF WaitingIsWatched, StreamWatched
  <1>4. AnsweredInOrder
    <2>1. Joined(completedQueue, writeQueue) \in Seq(Writes)
      BY <1>2, JoinedRest
    <2>2. Joined(answeringW, Joined(completedQueue, writeQueue)) \in Seq(Writes)
      BY <1>2, <2>1, JoinedRest
    <2> QED BY <1>2, <2>2, JoinedBegins DEF AnsweredInOrder
  <1>5. ASSUME at = "closeCb" PROVE answered = submitted /\ ~shutReq /\ queueSize = 0
    <2>1. /\ answeringW = <<>> /\ completedQueue = <<>> /\ writeQueue = <<>> /\ ~shutReq
      BY <1>1, <1>5 DEF StreamEnds
    <2>2. answered = submitted
      BY <1>2, <2>1, JoinedEmpty
    <2>3. ToSet(submitted) \ freed = {}
      BY <1>1, <2>2 DEF StreamFreed
    <2>4. queueSize = 0
      BY <1>1, <2>3, BytesOfNone DEF QueueSizeIsWaiting
    <2> QED BY <2>1, <2>2, <2>4
  <1> QED BY <1>3, <1>4, <1>5 DEF ClosedAnswersAll

-----------------------------------------------------------------------------
(* Datagram sockets.  What the calls gave is what the system has taken and *)
(* what waits for it, in this order; what was asked for is what was        *)
(* replied, what has the loop to reply, and what waits.                    *)

InOrder ==
  /\ IsInjective(asked) /\ ToSet(asked) \subseteq ToSet(given)
  /\ asked = Joined(replied, Joined(sentQueue, sendQueue))
  /\ IF udpFinishing THEN sendQueue = <<>> /\ IsPrefix(departed, given)
                     ELSE given = Joined(departed, sendQueue)

ShutInOrder ==
  /\ udpFinishing => udpClosing
  /\ udpClosed => udpFinishing /\ sentQueue = <<>>
  /\ udpClosing => wants = {} /\ ~udpFed

UdpInv == UdpTypeOK /\ InOrder /\ ShutInOrder /\ SendsAreWatched

\* Without the bound of the count, which follows from the rest.
UdpShape ==
  /\ udpOpen \in BOOLEAN /\ wants \in SUBSET {"in", "out"}
  /\ udpFed \in BOOLEAN /\ udpActive \in BOOLEAN
  /\ recvCb \in BOOLEAN /\ receiving \in 0..RecvBatch
  /\ sendQueue \in Seq(Sends) /\ sentQueue \in Seq(Sends)
  /\ processing \in BOOLEAN /\ callback \in {"none", "recv", "send"}
  /\ udpClosing \in BOOLEAN /\ udpFinishing \in BOOLEAN /\ udpClosed \in BOOLEAN
  /\ given \in Seq(Sends) /\ asked \in Seq(Sends)
  /\ departed \in Seq(Sends) /\ replied \in Seq(Sends)

LEMMA CountIsBounded ==
  ASSUME NEW a \in Seq(Sends), NEW p \in Seq(Sends), NEW q \in Seq(Sends),
         NEW r \in Seq(Sends), IsInjective(a), a = Joined(r, Joined(p, q))
  PROVE  Len(q) + Len(p) \in 0..Cardinality(Sends)
  <1>1. Joined(p, q) \in Seq(Sends) /\ Len(Joined(p, q)) = Len(p) + Len(q)
    BY JoinedRest
  <1>2. Len(a) = Len(r) + Len(Joined(p, q))
    <2>1. Len(Joined(r, Joined(p, q))) = Len(r) + Len(Joined(p, q))
      BY <1>1, JoinedRest
    <2> QED BY <2>1
  <1>3. Len(p) \in Nat /\ Len(q) \in Nat /\ Len(r) \in Nat
    BY LenProperties
  <1>4. Cardinality(ToSet(a)) = Len(a) /\ ToSet(a) \subseteq Sends
    <2>1. ToSet(a) \subseteq Sends
      BY DEF ToSet
    <2> QED BY <2>1, QueueFinite
  <1>5. Cardinality(ToSet(a)) <= Cardinality(Sends) /\ Cardinality(Sends) \in Nat
    BY <1>4, UdpAssumption, FS_Subset, FS_CardinalityType
  <1> QED BY <1>1, <1>2, <1>3, <1>4, <1>5

(* Before and after a step.                                                *)
LEMMA UdpBounds ==
  /\ UdpShape /\ InOrder /\ ShutInOrder /\ SendsAreWatched => UdpInv
  /\ UdpShape' /\ InOrder' /\ ShutInOrder' /\ SendsAreWatched' => UdpInv'
  <1>1. ASSUME UdpShape, InOrder, SendsAreWatched PROVE sendCount \in 0..Cardinality(Sends)
    BY <1>1, CountIsBounded DEF UdpShape, InOrder, SendsAreWatched
  <1>2. ASSUME UdpShape', InOrder', SendsAreWatched'
        PROVE  sendCount' \in 0..Cardinality(Sends)
    BY <1>2, CountIsBounded DEF UdpShape, InOrder, SendsAreWatched
  <1> QED BY <1>1, <1>2 DEF UdpInv, UdpShape, UdpTypeOK

LEMMA UdpStart == UdpInit => UdpInv
  <1> SUFFICES ASSUME UdpInit PROVE UdpInv
    OBVIOUS
  <1> USE DEF UdpInit
  <1>1. UdpShape
    <2>1. <<>> \in Seq(Sends)
      BY EmptySeq
    <2>2. /\ sendQueue \in Seq(Sends) /\ sentQueue \in Seq(Sends) /\ given \in Seq(Sends)
          /\ asked \in Seq(Sends) /\ departed \in Seq(Sends) /\ replied \in Seq(Sends)
      BY <2>1
    <2>3. receiving \in 0..RecvBatch
      BY UdpAssumption
    <2>4. wants \in SUBSET {"in", "out"} /\ callback \in {"none", "recv", "send"}
      OBVIOUS
    <2>5. /\ udpOpen \in BOOLEAN /\ udpFed \in BOOLEAN /\ udpActive \in BOOLEAN
          /\ recvCb \in BOOLEAN /\ processing \in BOOLEAN
          /\ udpClosing \in BOOLEAN /\ udpFinishing \in BOOLEAN /\ udpClosed \in BOOLEAN
      OBVIOUS
    <2> HIDE DEF UdpInit
    <2> QED BY <2>2, <2>3, <2>4, <2>5 DEF UdpShape
  <1>2. InOrder
    <2>1. <<>> \in Seq(Sends)
      BY EmptySeq
    <2>2. <<>> = Joined(<<>>, <<>>)
      BY <2>1, JoinedEmpty
    <2> QED BY <2>2, EmptyRest DEF InOrder
  <1>3. ShutInOrder /\ SendsAreWatched
    BY DEF ShutInOrder, SendsAreWatched
  <1> QED BY <1>1, <1>2, <1>3, UdpBounds

(* The system takes a part of what waits: no order is changed.             *)
LEMMA SendingKeeps ==
  ASSUME UdpShape, NEW queue \in Seq(Sends), NEW before, SendsDatagrams(queue, before)
  PROVE  /\ sendQueue' \in Seq(Sends) /\ sentQueue' \in Seq(Sends) /\ departed' \in Seq(Sends)
         /\ Joined(departed', sendQueue') = Joined(departed, queue)
         /\ Joined(sentQueue', sendQueue') = Joined(sentQueue, queue)
         /\ Len(sentQueue') + Len(sendQueue') = Len(sentQueue) + Len(queue)
         /\ before \in BOOLEAN => udpFed' \in BOOLEAN
         /\ sentQueue' # sentQueue => udpFed'
         /\ sendQueue' # <<>> => queue # <<>>
  <1>1. PICK k \in 0..Len(queue) :
          /\ sendQueue' = SubSeq(queue, k + 1, Len(queue))
          /\ sentQueue' = sentQueue \o SubSeq(queue, 1, k)
          /\ departed' = departed \o SubSeq(queue, 1, k)
          /\ udpFed' = (before \/ k > 0)
    BY DEF SendsDatagrams
  <1> DEFINE a == SubSeq(queue, 1, k)
             b == SubSeq(queue, k + 1, Len(queue))
  <1>2. /\ a \in Seq(Sends) /\ b \in Seq(Sends) /\ Len(a) = k /\ Len(b) = Len(queue) - k
        /\ queue = Joined(a, b)
    BY CutRest
  <1>3. /\ sendQueue' = b /\ sentQueue' = Joined(sentQueue, a) /\ departed' = Joined(departed, a)
        /\ udpFed' = (before \/ k > 0)
    BY <1>1 DEF Joined
  <1>4. sentQueue \in Seq(Sends) /\ departed \in Seq(Sends)
    BY DEF UdpShape
  <1> HIDE DEF a, b
  <1>5. /\ Joined(Joined(departed, a), b) = Joined(departed, queue)
        /\ Joined(Joined(sentQueue, a), b) = Joined(sentQueue, queue)
    BY <1>2, <1>4, JoinedThree
  <1>6. /\ Joined(sentQueue, a) \in Seq(Sends) /\ Joined(departed, a) \in Seq(Sends)
        /\ Len(Joined(sentQueue, a)) = Len(sentQueue) + k
    BY <1>2, <1>4, JoinedRest
  <1>7. k = 0 => Joined(sentQueue, a) = sentQueue
    <2>1. k = 0 => a = <<>>
      BY <1>2, EmptyLen
    <2> QED BY <1>4, <2>1, JoinedEmpty
  <1>8. Len(Joined(sentQueue, a)) + Len(b) = Len(sentQueue) + Len(queue)
    BY <1>2, <1>4, <1>6, LenProperties
  <1>9. b # <<>> => queue # <<>>
    <2>1. Len(queue) \in Nat /\ Len(b) \in Nat /\ Len(b) = Len(queue) - k
      BY <1>2, EmptyLen
    <2>2. Len(b) > 0 => Len(queue) > 0
      BY <2>1
    <2> QED BY <1>2, <2>1, <2>2, EmptyLen
  <1>10. before \in BOOLEAN => udpFed' \in BOOLEAN
    BY <1>3
  <1>11. sentQueue' # sentQueue => udpFed'
    <2>1. k # 0 => k > 0
      BY EmptyLen
    <2> QED BY <1>3, <1>7, <2>1
  <1> QED BY <1>2, <1>3, <1>5, <1>6, <1>8, <1>9, <1>10, <1>11

LEMMA UdpSendKeeps == ASSUME UdpInv, NEW r \in Sends, UdpSend(r) PROVE UdpInv'
  <1>1. UdpShape /\ ~udpClosing /\ ~udpFinishing /\ ~udpClosed /\ r \notin ToSet(given)
    BY DEF UdpInv, UdpTypeOK, UdpShape, ShutInOrder, UdpSend, UdpUser
  <1>2. /\ sendCount' = sendCount + 1 /\ udpActive' = TRUE /\ udpOpen' = TRUE
        /\ UNCHANGED <<recvCb, receiving, processing, callback, udpClosing, udpFinishing,
                       udpClosed, replied>>
    BY DEF UdpSend, recvVars, udpEnd
  <1>3. /\ sendQueue \in Seq(Sends) /\ sentQueue \in Seq(Sends) /\ given \in Seq(Sends)
        /\ departed \in Seq(Sends) /\ asked \in Seq(Sends) /\ replied \in Seq(Sends)
    BY <1>1 DEF UdpShape
  <1>4. /\ given = Joined(departed, sendQueue) /\ IsInjective(asked)
        /\ asked = Joined(replied, Joined(sentQueue, sendQueue))
        /\ ToSet(asked) \subseteq ToSet(given)
    BY <1>1 DEF UdpInv, InOrder
  <1> DEFINE q == Append(sendQueue, r)
  <1>5. /\ q \in Seq(Sends) /\ Len(q) = Len(sendQueue) + 1 /\ q # <<>>
        /\ q = Joined(sendQueue, One(r)) /\ One(r) \in Seq(Sends)
    <2>1. q \in Seq(Sends) /\ Len(q) = Len(sendQueue) + 1 /\ q # <<>>
      BY <1>3, AppendRest
    <2>2. q = Joined(sendQueue, One(r)) /\ One(r) \in Seq(Sends)
      BY <1>3, JoinedOne
    <2> QED BY <2>1, <2>2
  <1>6. /\ given' = Joined(given, One(r)) /\ asked' = Joined(asked, One(r))
        /\ given' \in Seq(Sends) /\ asked' \in Seq(Sends)
        /\ ToSet(asked') = ToSet(asked) \cup {r} /\ ToSet(given') = ToSet(given) \cup {r}
        /\ r \notin ToSet(asked) => IsInjective(asked')
    <2>1. given' = Append(given, r) /\ asked' = Append(asked, r)
      BY DEF UdpSend
    <2>2. /\ Append(given, r) = Joined(given, One(r)) /\ Append(given, r) \in Seq(Sends)
          /\ ToSet(Append(given, r)) = ToSet(given) \cup {r}
      <3>1. Append(given, r) = Joined(given, One(r))
        BY <1>3, JoinedOne
      <3>2. /\ Append(given, r) \in Seq(Sends)
            /\ ToSet(Append(given, r)) = ToSet(given) \cup {r}
        BY <1>3, AppendRest
      <3> QED BY <3>1, <3>2
    <2>3. /\ Append(asked, r) = Joined(asked, One(r)) /\ Append(asked, r) \in Seq(Sends)
          /\ ToSet(Append(asked, r)) = ToSet(asked) \cup {r}
          /\ r \notin ToSet(asked) => IsInjective(Append(asked, r))
      <3>1. Append(asked, r) = Joined(asked, One(r))
        BY <1>3, JoinedOne
      <3>2. /\ Append(asked, r) \in Seq(Sends)
            /\ ToSet(Append(asked, r)) = ToSet(asked) \cup {r}
            /\ r \notin ToSet(asked) => IsInjective(Append(asked, r))
        BY <1>3, <1>4, AppendRest
      <3> QED BY <3>1, <3>2
    <2> QED BY <2>1, <2>2, <2>3
  <1>7. \/ /\ sendCount = 0 /\ ~processing /\ SendsDatagrams(q, udpFed)
           /\ wants' = IF sendQueue' = <<>> THEN wants ELSE wants \cup {"out"}
        \/ /\ sendQueue' = q /\ wants' = wants \cup {"out"}
           /\ UNCHANGED <<sentQueue, departed, udpFed>>
    BY DEF UdpSend
  <1> HIDE DEF q
  <1>8. /\ sendQueue' \in Seq(Sends) /\ sentQueue' \in Seq(Sends) /\ departed' \in Seq(Sends)
        /\ Joined(departed', sendQueue') = Joined(departed, q)
        /\ Joined(sentQueue', sendQueue') = Joined(sentQueue, q)
        /\ Len(sentQueue') + Len(sendQueue') = Len(sentQueue) + Len(q)
        /\ udpFed' \in BOOLEAN /\ wants' \in SUBSET {"in", "out"}
        /\ sendQueue' # <<>> => "out" \in wants'
        /\ sentQueue' # <<>> => udpFed' \/ processing
    <2>1. CASE /\ sendCount = 0 /\ ~processing /\ SendsDatagrams(q, udpFed)
               /\ wants' = IF sendQueue' = <<>> THEN wants ELSE wants \cup {"out"}
      <3>1. sentQueue = <<>>
        <4>1. Len(sentQueue) \in Nat /\ Len(sendQueue) \in Nat /\ Len(sentQueue) = 0
          BY <1>3, <2>1, LenProperties DEF UdpInv, SendsAreWatched
        <4> QED BY <1>3, <4>1, EmptySeq
      <3>2. udpFed \in BOOLEAN /\ wants \in SUBSET {"in", "out"}
        BY <1>1 DEF UdpShape
      <3> QED BY <1>1, <1>5, <2>1, <3>1, <3>2, SendingKeeps
    <2>2. CASE /\ sendQueue' = q /\ wants' = wants \cup {"out"}
               /\ UNCHANGED <<sentQueue, departed, udpFed>>
      BY <1>1, <1>3, <1>5, <2>2 DEF UdpShape, UdpInv, SendsAreWatched
    <2> QED BY <1>7, <2>1, <2>2
  <1>9. given' = Joined(departed, q) /\ asked' = Joined(replied, Joined(sentQueue, q))
    <2>1. Joined(given, One(r)) = Joined(departed, q)
      BY <1>3, <1>4, <1>5, JoinedThree
    <2>2. /\ Joined(sentQueue, sendQueue) \in Seq(Sends)
          /\ Joined(Joined(sentQueue, sendQueue), One(r)) = Joined(sentQueue, q)
      BY <1>3, <1>5, JoinedThree, JoinedRest
    <2>3. Joined(asked, One(r)) = Joined(replied, Joined(sentQueue, q))
      BY <1>3, <1>4, <1>5, <2>2, JoinedThree
    <2> QED BY <1>6, <2>1, <2>3
  <1>10. UdpShape'
    BY <1>1, <1>2, <1>6, <1>8 DEF UdpShape
  <1>11. InOrder'
    BY <1>1, <1>2, <1>4, <1>6, <1>8, <1>9 DEF InOrder
  <1>12. ShutInOrder'
    BY <1>1, <1>2 DEF ShutInOrder
  <1>13. SendsAreWatched'
    <2>1. sendCount' = Len(sendQueue') + Len(sentQueue')
      <3>1. /\ Len(sentQueue') \in Nat /\ Len(sendQueue') \in Nat /\ Len(sendQueue) \in Nat
            /\ Len(sentQueue) \in Nat
        BY <1>3, <1>8, LenProperties
      <3> QED BY <1>2, <1>5, <1>8, <3>1 DEF UdpInv, SendsAreWatched
    <2> QED BY <1>1, <1>2, <1>8, <2>1 DEF SendsAreWatched
  <1> QED BY <1>10, <1>11, <1>12, <1>13, UdpBounds

LEMMA UdpTrySendKeeps == ASSUME UdpInv, NEW r \in Sends, UdpTrySend(r) PROVE UdpInv'
  <1> USE DEF UdpTrySend, queues, recvVars, udpEnd
  <1>1. UdpShape /\ ~udpClosing /\ ~udpFinishing /\ ~udpClosed /\ sendCount = 0
    BY DEF UdpInv, UdpTypeOK, UdpShape, ShutInOrder, UdpUser
  <1>2. sendQueue = <<>>
    <2>1. Len(sentQueue) \in Nat /\ Len(sendQueue) \in Nat /\ Len(sendQueue) = 0
      BY <1>1, LenProperties DEF UdpInv, SendsAreWatched, UdpShape
    <2> QED BY <1>1, <2>1, EmptySeq DEF UdpShape
  <1>3. /\ given' \in Seq(Sends) /\ departed' \in Seq(Sends) /\ given' = Joined(departed', <<>>)
        /\ ToSet(given) \subseteq ToSet(given')
    <2>1. given = departed /\ given \in Seq(Sends)
      BY <1>1, <1>2, JoinedEmpty DEF UdpInv, InOrder, UdpShape
    <2>2. /\ Append(given, r) \in Seq(Sends)
          /\ ToSet(Append(given, r)) = ToSet(given) \cup {r}
      BY <2>1, AppendRest
    <2>3. given' = departed' /\ given' \in Seq(Sends) /\ ToSet(given) \subseteq ToSet(given')
      BY <2>1, <2>2
    <2> QED BY <2>3, JoinedEmpty
  <1>4. UdpShape'
    BY <1>1, <1>3 DEF UdpShape
  <1>5. InOrder'
    BY <1>1, <1>2, <1>3 DEF UdpInv, InOrder
  <1>6. ShutInOrder' /\ SendsAreWatched'
    BY DEF UdpInv, ShutInOrder, SendsAreWatched
  <1> QED BY <1>4, <1>5, <1>6, UdpBounds

(* The steps of the receiving side, and of the user's that send nothing.   *)
LEMMA UdpQuietKeeps ==
  ASSUME UdpInv,
         \/ UdpRecvStart \/ UdpRecvStop \/ UdpClose \/ UdpReceives \/ RecvReturns
         \/ SenderReturns \/ UNCHANGED udpVars
  PROVE  UdpInv'
  <1> USE DEF UdpRecvStart, UdpRecvStop, UdpClose, UdpReceives, RecvReturns, SenderReturns,
              udpVars, socketVars, recvVars, queues, udpEnd, udpHistory
  <1>1. UdpShape /\ UdpShape'
    <2>1. UdpShape
      BY DEF UdpInv, UdpTypeOK, UdpShape
    <2>2. receiving' \in 0..RecvBatch
      BY <2>1, UdpAssumption DEF UdpShape
    <2>3. UNCHANGED <<sendQueue, sentQueue, udpHistory>>
      OBVIOUS
    <2>4. /\ udpOpen' \in BOOLEAN /\ wants' \in SUBSET {"in", "out"}
          /\ udpFed' \in BOOLEAN /\ udpActive' \in BOOLEAN /\ recvCb' \in BOOLEAN
      BY <2>1 DEF UdpShape
    <2>5. /\ processing' \in BOOLEAN /\ callback' \in {"none", "recv", "send"}
          /\ udpClosing' \in BOOLEAN /\ udpFinishing' \in BOOLEAN /\ udpClosed' \in BOOLEAN
      BY <2>1 DEF UdpShape
    <2> QED BY ONLY <2>1, <2>2, <2>3, <2>4, <2>5 DEF UdpShape, udpHistory
  <1>2. InOrder'
    BY DEF UdpInv, InOrder
  <1>3. ShutInOrder'
    BY DEF UdpInv, ShutInOrder, UdpUser
  <1>4. SendsAreWatched'
    BY <1>1 DEF UdpInv, SendsAreWatched, UdpShape, ShutInOrder
  <1> QED BY <1>1, <1>2, <1>3, <1>4, UdpBounds

LEMMA UdpIoKeeps == ASSUME UdpInv, UdpWrites \/ UdpRunsPending PROVE UdpInv'
  <1> USE DEF UdpWrites, UdpRunsPending, recvVars, udpEnd
  <1>1. /\ UdpShape /\ ~udpClosing /\ ~udpFinishing /\ ~udpClosed
        /\ processing' = TRUE
        /\ UNCHANGED <<udpOpen, wants, udpActive, recvCb, receiving, sendCount, callback,
                       udpClosing, udpFinishing, udpClosed, given, asked, replied>>
    BY DEF UdpInv, UdpTypeOK, UdpShape, ShutInOrder
  <1>2. SendsDatagrams(sendQueue, udpFed) \/ SendsDatagrams(sendQueue, FALSE)
    OBVIOUS
  <1>3. /\ sendQueue' \in Seq(Sends) /\ sentQueue' \in Seq(Sends) /\ departed' \in Seq(Sends)
        /\ Joined(departed', sendQueue') = Joined(departed, sendQueue)
        /\ Joined(sentQueue', sendQueue') = Joined(sentQueue, sendQueue)
        /\ Len(sentQueue') + Len(sendQueue') = Len(sentQueue) + Len(sendQueue)
        /\ udpFed' \in BOOLEAN /\ (sendQueue' # <<>> => sendQueue # <<>>)
    BY <1>1, <1>2, SendingKeeps DEF UdpShape
  <1> HIDE DEF UdpWrites, UdpRunsPending
  <1>4. UdpShape'
    BY <1>1, <1>3 DEF UdpShape
  <1>5. InOrder' /\ ShutInOrder'
    BY <1>1, <1>3 DEF UdpInv, InOrder, ShutInOrder
  <1>6. SendsAreWatched'
    <2>1. sendCount' = Len(sendQueue') + Len(sentQueue')
      <3>1. /\ Len(sentQueue') \in Nat /\ Len(sendQueue') \in Nat /\ Len(sendQueue) \in Nat
            /\ Len(sentQueue) \in Nat
        BY <1>1, <1>3, LenProperties DEF UdpShape
      <3> QED BY <1>1, <1>3, <3>1 DEF UdpInv, SendsAreWatched
    <2> QED BY <1>1, <1>3, <2>1 DEF UdpInv, SendsAreWatched
  <1> QED BY <1>4, <1>5, <1>6, UdpBounds

LEMMA CallsSenderKeeps == ASSUME UdpInv, CallsSender PROVE UdpInv'
  <1> USE DEF CallsSender, socketVars, recvVars, udpEnd
  <1>1. UdpShape /\ sentQueue # <<>>
    BY DEF UdpInv, UdpTypeOK, UdpShape
  <1> DEFINE x == Head(sentQueue)
             q == Tail(sentQueue)
  <1>2. /\ x \in Sends /\ q \in Seq(Sends) /\ Len(q) = Len(sentQueue) - 1
        /\ sentQueue = Joined(One(x), q) /\ One(x) \in Seq(Sends)
    BY <1>1, JoinedHead DEF UdpShape
  <1>3. sentQueue' = q /\ replied' = Append(replied, x) /\ UNCHANGED <<sendQueue, asked>>
    OBVIOUS
  <1>4. replied' \in Seq(Sends) /\ replied' = Joined(replied, One(x))
    <2>1. replied \in Seq(Sends)
      BY <1>1 DEF UdpShape
    <2> HIDE DEF x, q, CallsSender
    <2>2. Append(replied, x) = Joined(replied, One(x))
      BY <1>2, <2>1, JoinedOne
    <2>3. Append(replied, x) \in Seq(Sends)
      BY <1>2, <2>1, AppendRest
    <2> QED BY <1>3, <2>2, <2>3
  <1> HIDE DEF x, q, CallsSender
  <1>5. asked = Joined(replied', Joined(q, sendQueue))
    <2>1. sendQueue \in Seq(Sends) /\ replied \in Seq(Sends)
      BY <1>1 DEF UdpShape
    <2>2. /\ Joined(sentQueue, sendQueue) = Joined(One(x), Joined(q, sendQueue))
          /\ Joined(q, sendQueue) \in Seq(Sends)
      BY <1>2, <2>1, JoinedThree, JoinedRest
    <2>3. Joined(replied, Joined(One(x), Joined(q, sendQueue))) = Joined(replied', Joined(q, sendQueue))
      BY <1>2, <1>4, <2>1, <2>2, JoinedThree
    <2> QED BY <2>2, <2>3 DEF UdpInv, InOrder
  <1> USE DEF CallsSender
  <1>6. UdpShape'
    BY <1>1, <1>2, <1>3, <1>4 DEF UdpShape
  <1>7. InOrder'
    BY <1>3, <1>5 DEF UdpInv, InOrder
  <1>8. ShutInOrder'
    BY <1>1 DEF UdpInv, ShutInOrder
  <1>9. SendsAreWatched'
    <2>1. sendCount' = Len(sendQueue') + Len(sentQueue')
      <3>1. Len(sendQueue) \in Nat /\ Len(sentQueue) \in Nat
        BY <1>1, LenProperties DEF UdpShape
      <3> QED BY <1>2, <1>3, <3>1 DEF UdpInv, SendsAreWatched
    <2> QED BY <2>1 DEF UdpInv, SendsAreWatched
  <1> QED BY <1>6, <1>7, <1>8, <1>9, UdpBounds

LEMMA RunCompletedKeeps == ASSUME UdpInv, RunCompletedEnds PROVE UdpInv'
  <1> USE DEF RunCompletedEnds, queues, udpHistory
  <1>1. UdpShape /\ UdpShape'
    BY DEF UdpInv, UdpTypeOK, UdpShape
  <1>2. InOrder' /\ ShutInOrder'
    BY <1>1 DEF UdpInv, InOrder, ShutInOrder, UdpShape
  <1>3. SendsAreWatched'
    BY <1>1 DEF UdpInv, SendsAreWatched, UdpShape
  <1> QED BY <1>1, <1>2, <1>3, UdpBounds

LEMMA FinishesUdpKeeps == ASSUME UdpInv, FinishesUdp PROVE UdpInv'
  <1> USE DEF FinishesUdp, socketVars, recvVars, udpHistory
  <1>1. UdpShape /\ udpClosing /\ ~udpFinishing
    BY DEF UdpInv, UdpTypeOK, UdpShape
  <1>2. /\ sentQueue' \in Seq(Sends) /\ Len(sentQueue') = Len(sentQueue) + Len(sendQueue)
        /\ sendQueue' = <<>> /\ Joined(sentQueue', <<>>) = Joined(sentQueue, sendQueue)
    <2>1. sentQueue' = Joined(sentQueue, sendQueue) /\ sendQueue' = <<>>
      BY DEF Joined
    <2>2. /\ Joined(sentQueue, sendQueue) \in Seq(Sends)
          /\ Len(Joined(sentQueue, sendQueue)) = Len(sentQueue) + Len(sendQueue)
      BY <1>1, JoinedRest DEF UdpShape
    <2> HIDE DEF FinishesUdp
    <2>3. Joined(Joined(sentQueue, sendQueue), <<>>) = Joined(sentQueue, sendQueue)
      BY <2>2, JoinedEmpty
    <2> QED BY <2>1, <2>2, <2>3
  <1>3. IsPrefix(departed, given)
    BY <1>1, JoinedBegins DEF UdpShape, UdpInv, InOrder
  <1>4. UdpShape'
    BY <1>1, <1>2 DEF UdpShape
  <1>5. InOrder' /\ ShutInOrder'
    BY <1>1, <1>2, <1>3 DEF UdpInv, InOrder, ShutInOrder
  <1>6. SendsAreWatched'
    <2>1. Len(sentQueue) \in Nat /\ Len(sendQueue) \in Nat /\ Len(<<>>) = 0
      BY <1>1, LenProperties, EmptySeq DEF UdpShape
    <2>2. sendCount' = Len(sendQueue') + Len(sentQueue')
      BY <1>2, <2>1 DEF UdpInv, SendsAreWatched
    <2> QED BY <1>1, <1>2, <2>2 DEF UdpInv, SendsAreWatched
  <1> QED BY <1>4, <1>5, <1>6, UdpBounds

LEMMA UdpStep == UdpInv /\ [UdpNext]_udpVars => UdpInv'
  BY UdpSendKeeps, UdpTrySendKeeps, UdpQuietKeeps, UdpIoKeeps, CallsSenderKeeps,
     RunCompletedKeeps, FinishesUdpKeeps DEF UdpNext, UdpGoesOn

LEMMA UdpConcludes == UdpInv => UdpTypeOK /\ SendsAreWatched /\ DatagramsKeepOrder
  <1> SUFFICES ASSUME UdpInv PROVE DatagramsKeepOrder
    BY DEF UdpInv
  <1>1. UdpShape
    BY DEF UdpInv, UdpTypeOK, UdpShape
  <1>2. IsPrefix(departed, given)
    BY <1>1, JoinedBegins DEF UdpShape, UdpInv, InOrder
  <1>3. /\ Joined(sentQueue, sendQueue) \in Seq(Sends)
        /\ asked = Joined(replied, Joined(sentQueue, sendQueue))
    BY <1>1, JoinedRest DEF UdpShape, UdpInv, InOrder
  <1>4. IsPrefix(replied, asked)
    BY <1>1, <1>3, JoinedBegins DEF UdpShape
  <1>5. ASSUME udpClosed PROVE replied = asked
    <2>1. sentQueue = <<>> /\ sendQueue = <<>>
      BY <1>5 DEF UdpInv, ShutInOrder, InOrder
    <2>2. <<>> \in Seq(Sends) /\ replied \in Seq(Sends)
      BY <1>1, EmptySeq DEF UdpShape
    <2>3. Joined(<<>>, <<>>) = <<>> /\ Joined(replied, <<>>) = replied
      BY <2>2, JoinedEmpty
    <2> QED BY <1>3, <2>1, <2>3
  <1> QED BY <1>2, <1>4, <1>5 DEF DatagramsKeepOrder

-----------------------------------------------------------------------------
(* Signals.  What is on its way to a handle is the difference of its       *)
(* counters; while a signal handler has the lock, the handles it has to    *)
(* tell watch its number; a handle that is closed watches none.            *)

To(q, h) == {i \in DOMAIN q : q[i].to = h}

Bit(b) == IF b THEN 1 ELSE 0

\* A message that will call the handle.
Told(h) == \E m \in ToSet(Underway) : m.to = h /\ m.number = signum[h]

CountersAgree == \A h \in Signals :
  caught[h] + Bit(wrote = h) = dispatched[h] + Cardinality(To(Underway, h))

WithinArrivals ==
  /\ IsFiniteSet(arrived)
  /\ \A h \in Signals :
       caught[h] + Bit(wrote = h) + Bit(h \in toNotify) + Cardinality(arrived) <= arrivals

LockedOut ==
  /\ \A h \in toNotify : handling # NoNumber /\ signum[h] = handling
  /\ wrote # NoSignal => handling # NoNumber /\ signum[wrote] = handling

ClosedIsQuiet ==
  /\ \A h \in signalClosing : signum[h] = NoNumber
  /\ \A h \in signalClosed : \A m \in ToSet(Underway) : m.to # h

RegularsAreCaught == \A h \in Signals :
  h \notin oneShot /\ signum[h] # NoNumber => disposition[signum[h]] = "catch"

Noticed == \A h \in Signals \ unheard :
  signum[h] # NoNumber /\ disposition[signum[h]] = "default" =>
    \/ signum[h] \in arrived
    \/ handling = signum[h] /\ h \in toNotify
    \/ Told(h)

OnceHeard == \A h \in oneShot \cap heard : signum[h] = NoNumber \/ signalRuns = h

\* The types without the bounds of the two counters, which follow from the rest.
SignalShape ==
  /\ signum \in [Signals -> Numbers \cup {NoNumber}] /\ oneShot \in SUBSET Signals
  /\ disposition \in [Numbers -> {"default", "catch", "once"}]
  /\ arrived \in SUBSET Numbers /\ handling \in Numbers \cup {NoNumber}
  /\ toNotify \in SUBSET Signals /\ wrote \in Signals \cup {NoSignal}
  /\ messages \in Seq(Messages) /\ Len(messages) <= SignalPipeSize
  /\ reading \in Seq(Messages) /\ signalRuns \in Signals \cup {NoSignal}
  /\ caught \in [Signals -> Nat] /\ dispatched \in [Signals -> Nat]
  /\ signalClosing \in SUBSET Signals /\ signalClosed \in SUBSET signalClosing
  /\ heard \in SUBSET Signals /\ unheard \in SUBSET Signals
  /\ arrivals \in 0..MaxArrivals /\ signalUses \in 0..MaxSignalUses

SignalParts == /\ SignalShape /\ CountersAgree /\ WithinArrivals /\ LockedOut /\ ClosedIsQuiet
               /\ RegularsAreCaught /\ Noticed /\ OnceHeard

SignalInv == SignalTypeOK /\ SignalParts

LEMMA BitIs == \A b \in BOOLEAN : Bit(b) \in {0, 1} /\ (Bit(b) = 0 <=> ~b)
  BY DEF Bit

(* The messages to a handle on a queue, with one more and with one less.   *)
LEMMA ToFinite ==
  ASSUME NEW q \in Seq(Messages), NEW h
  PROVE  /\ IsFiniteSet(To(q, h)) /\ Cardinality(To(q, h)) \in Nat
         /\ (Cardinality(To(q, h)) = 0 <=> \A m \in ToSet(q) : m.to # h)
  <1>1. Len(q) \in Nat /\ DOMAIN q = 1..Len(q) /\ IsFiniteSet(1..Len(q))
    BY EmptyLen, FS_Interval
  <1>2. To(q, h) \in SUBSET (1..Len(q))
    BY <1>1 DEF To
  <1>3. IsFiniteSet(To(q, h))
    BY <1>1, <1>2, FS_Subset
  <1>4. To(q, h) = {} <=> \A m \in ToSet(q) : m.to # h
    BY DEF To, ToSet
  <1> QED BY <1>3, <1>4, FS_CardinalityType, FS_EmptySet

LEMMA ToAtEnd ==
  ASSUME NEW q \in Seq(Messages), NEW m \in Messages, NEW h
  PROVE  Cardinality(To(Append(q, m), h)) = Cardinality(To(q, h)) + Bit(m.to = h)
  <1> DEFINE r == Append(q, m)
             n == Len(q) + 1
  <1>1. /\ DOMAIN r = 1..n /\ r[n] = m /\ \A i \in 1..Len(q) : r[i] = q[i]
        /\ Len(q) \in Nat /\ DOMAIN q = 1..Len(q)
    BY AppendRest, EmptyLen
  <1> HIDE DEF r
  <1>2. To(r, h) = IF m.to = h THEN To(q, h) \cup {n} ELSE To(q, h)
    BY <1>1 DEF To
  <1>3. n \notin To(q, h)
    BY <1>1 DEF To
  <1>4. Cardinality(To(q, h) \cup {n}) = Cardinality(To(q, h)) + 1 /\ Cardinality(To(q, h)) \in Nat
    BY <1>3, ToFinite, FS_AddElement
  <1> QED BY <1>2, <1>4 DEF Bit, r

LEMMA ToAtFront ==
  ASSUME NEW q \in Seq(Messages), NEW m \in Messages, NEW h
  PROVE  /\ Cardinality(To(Joined(One(m), q), h)) = Cardinality(To(q, h)) + Bit(m.to = h)
         /\ ToSet(Joined(One(m), q)) = ToSet(q) \cup {m}
  <1> DEFINE r == Joined(One(m), q)
  <1>1. /\ r \in Seq(Messages) /\ DOMAIN r = 1..Len(q) + 1 /\ r[1] = m
        /\ \A i \in 1..Len(q) : r[i + 1] = q[i]
        /\ ToSet(r) = ToSet(q) \cup {m}
    BY PrependRest DEF Joined, One
  <1>2. Len(q) \in Nat /\ DOMAIN q = 1..Len(q)
    BY EmptyLen
  <1> HIDE DEF r
  <1> DEFINE A == To(q, h)
             B == To(r, h) \ {1}
             F == [i \in A |-> i + 1]
  <1>3. \A i \in A : i \in 1..Len(q) /\ i + 1 \in B
    BY <1>1, <1>2 DEF To
  <1>4. \A j \in B : j - 1 \in A /\ (j - 1) + 1 = j
    <2> SUFFICES ASSUME NEW j \in B PROVE j - 1 \in A /\ (j - 1) + 1 = j
      OBVIOUS
    <2>1. j \in 1..Len(q) + 1 /\ j # 1 /\ r[j].to = h
      BY <1>1 DEF To
    <2>2. j - 1 \in 1..Len(q) /\ (j - 1) + 1 = j
      BY <1>2, <2>1
    <2>3. r[(j - 1) + 1] = q[j - 1]
      BY <1>1, <2>2
    <2> QED BY <1>2, <2>1, <2>2, <2>3 DEF To
  <1>5. F \in Bijection(A, B)
    <2> HIDE DEF A, B
    <2>1. F \in [A -> B]
      BY <1>3
    <2>2. \A a, b \in A : F[a] = F[b] => a = b
      BY <1>3
    <2>3. \A t \in B : \E s \in A : F[s] = t
      BY <1>4
    <2> QED BY <2>1, <2>2, <2>3, Fun_IsBij
  <1>6. Cardinality(B) = Cardinality(A) /\ IsFiniteSet(A) /\ Cardinality(A) \in Nat
    <2>1. IsFiniteSet(A) /\ Cardinality(A) \in Nat
      BY ToFinite
    <2> HIDE DEF A, B, F
    <2> QED BY <1>5, <2>1, FS_Bijection DEF ExistsBijection
  <1>7. /\ IsFiniteSet(To(r, h)) /\ Cardinality(To(r, h)) \in Nat
        /\ 1 \in To(r, h) <=> m.to = h
        /\ Cardinality(B) = IF 1 \in To(r, h) THEN Cardinality(To(r, h)) - 1
                            ELSE Cardinality(To(r, h))
    <2>1. IsFiniteSet(To(r, h)) /\ Cardinality(To(r, h)) \in Nat
      BY <1>1, ToFinite
    <2>2. 1 \in To(r, h) <=> m.to = h
      BY <1>1, <1>2 DEF To
    <2> QED BY <2>1, <2>2, FS_RemoveElement
  <1> HIDE DEF A, B, F
  <1>8. Cardinality(To(r, h)) = Cardinality(A) + Bit(m.to = h)
    BY <1>6, <1>7 DEF Bit
  <1> QED BY <1>1, <1>8 DEF A, r

(* Before and after a step.                                                *)
LEMMA SignalBounds ==
  /\ SignalParts => SignalInv
  /\ SignalParts' => SignalInv'
  <1>1. ASSUME SignalParts PROVE SignalInv
    <2> USE <1>1 DEF SignalParts
    <2>1. Underway \in Seq(Messages)
      BY JoinedRest DEF SignalShape, Underway, Joined
    <2>2. ASSUME NEW h \in Signals
          PROVE  caught[h] \in 0..MaxArrivals /\ dispatched[h] \in 0..MaxArrivals
      <3>1. /\ caught[h] \in Nat /\ dispatched[h] \in Nat /\ arrivals \in 0..MaxArrivals
            /\ Cardinality(To(Underway, h)) \in Nat /\ Cardinality(arrived) \in Nat
        BY <2>1, <2>2, ToFinite, FS_CardinalityType DEF SignalShape, WithinArrivals
      <3>2. Bit(wrote = h) \in {0, 1} /\ Bit(h \in toNotify) \in {0, 1}
        BY DEF Bit
      <3>3. /\ caught[h] + Bit(wrote = h) = dispatched[h] + Cardinality(To(Underway, h))
            /\ caught[h] + Bit(wrote = h) + Bit(h \in toNotify) + Cardinality(arrived)
                 <= arrivals
        BY <2>2 DEF CountersAgree, WithinArrivals
      <3> QED BY <3>1, <3>2, <3>3, SignalAssumption
    <2>3. caught \in [Signals -> 0..MaxArrivals] /\ dispatched \in [Signals -> 0..MaxArrivals]
      BY <2>2 DEF SignalShape
    <2> QED BY <2>3 DEF SignalInv, SignalTypeOK, SignalShape
  <1>2. ASSUME SignalParts' PROVE SignalInv'
    <2> USE <1>2 DEF SignalParts
    <2>1. Underway' \in Seq(Messages)
      BY JoinedRest DEF SignalShape, Underway, Joined
    <2>2. ASSUME NEW h \in Signals
          PROVE  caught'[h] \in 0..MaxArrivals /\ dispatched'[h] \in 0..MaxArrivals
      <3>1. /\ caught'[h] \in Nat /\ dispatched'[h] \in Nat /\ arrivals' \in 0..MaxArrivals
            /\ Cardinality(To(Underway', h)) \in Nat /\ Cardinality(arrived') \in Nat
        BY <2>1, <2>2, ToFinite, FS_CardinalityType DEF SignalShape, WithinArrivals
      <3>2. Bit(wrote' = h) \in {0, 1} /\ Bit(h \in toNotify') \in {0, 1}
        BY DEF Bit
      <3>3. /\ caught'[h] + Bit(wrote' = h) = dispatched'[h] + Cardinality(To(Underway', h))
            /\ caught'[h] + Bit(wrote' = h) + Bit(h \in toNotify') + Cardinality(arrived')
                 <= arrivals'
        BY <2>2 DEF CountersAgree, WithinArrivals
      <3> QED BY <3>1, <3>2, <3>3, SignalAssumption
    <2>3. caught' \in [Signals -> 0..MaxArrivals] /\ dispatched' \in [Signals -> 0..MaxArrivals]
      BY <2>2 DEF SignalShape
    <2> QED BY <2>3 DEF SignalInv, SignalTypeOK, SignalShape
  <1> QED BY <1>1, <1>2

LEMMA SignalStart == SignalInit => SignalInv
  <1> SUFFICES ASSUME SignalInit PROVE SignalParts
    BY SignalBounds
  <1> USE DEF SignalInit
  <1>1. <<>> \in Seq(Messages) /\ Len(<<>>) = 0
    BY EmptySeq
  <1>2. messages \in Seq(Messages) /\ reading \in Seq(Messages) /\ Len(messages) = 0
    BY <1>1
  <1>3. SignalShape
    BY <1>2, SignalAssumption DEF SignalShape
  <1>4. Underway = <<>>
    <2>1. Joined(<<>>, <<>>) = <<>>
      BY <1>1, JoinedEmpty
    <2> QED BY <2>1 DEF Underway, Joined
  <1>5. ASSUME NEW h PROVE Cardinality(To(Underway, h)) = 0
    BY <1>4, EmptyRest, FS_EmptySet DEF To
  <1>6. CountersAgree
    BY <1>5, SignalAssumption DEF CountersAgree, Bit
  <1>7. WithinArrivals
    BY FS_EmptySet, SignalAssumption DEF WithinArrivals, Bit
  <1>8. LockedOut /\ ClosedIsQuiet /\ RegularsAreCaught /\ Noticed /\ OnceHeard
    BY DEF LockedOut, ClosedIsQuiet, RegularsAreCaught, Noticed, OnceHeard
  <1> QED BY <1>3, <1>6, <1>7, <1>8 DEF SignalParts

(* What a step leaves alone is what its invariant says as before.          *)
LEMMA QueueIsKept ==
  ASSUME SignalInv, UNCHANGED <<messages, reading>>
  PROVE  Underway' = Underway
  BY DEF Underway

LEMMA Underways == SignalInv => Underway \in Seq(Messages) /\ Underway = Joined(reading, messages)
  BY JoinedRest DEF SignalInv, SignalParts, SignalShape, Underway, Joined

(* The signal handler.                                                     *)
LEMMA ArrivesKeeps == ASSUME SignalInv, NEW n \in Numbers, SignalArrives(n) PROVE SignalInv'
  <1> USE DEF SignalArrives, dispatchVars, signalCounts, signalClose, signalHistory
  <1>1. SignalParts /\ Underway' = Underway
    BY QueueIsKept DEF SignalInv
  <1>2. SignalShape'
    BY <1>1, SignalAssumption DEF SignalParts, SignalShape
  <1>3. CountersAgree' /\ LockedOut' /\ ClosedIsQuiet' /\ OnceHeard'
    BY <1>1 DEF SignalParts, CountersAgree, LockedOut, ClosedIsQuiet, OnceHeard
  <1>4. WithinArrivals'
    <2>1. /\ IsFiniteSet(arrived') /\ Cardinality(arrived') = Cardinality(arrived) + 1
          /\ Cardinality(arrived) \in Nat
      BY <1>1, FS_AddElement, FS_CardinalityType DEF SignalParts, WithinArrivals
    <2>2. ASSUME NEW h \in Signals
          PROVE  caught'[h] + Bit(wrote' = h) + Bit(h \in toNotify') + Cardinality(arrived')
                   <= arrivals'
      <3>1. /\ caught[h] \in Nat /\ Bit(wrote = h) \in {0, 1} /\ Bit(h \in toNotify) \in {0, 1}
            /\ arrivals \in Nat
            /\ caught[h] + Bit(wrote = h) + Bit(h \in toNotify) + Cardinality(arrived) <= arrivals
        BY <1>1 DEF SignalParts, SignalShape, WithinArrivals, Bit
      <3> QED BY <2>1, <3>1
    <2> QED BY <2>1, <2>2 DEF WithinArrivals
  <1>5. RegularsAreCaught'
    BY <1>1 DEF SignalParts, SignalShape, RegularsAreCaught
  <1>6. Noticed'
    BY <1>1 DEF SignalParts, SignalShape, Noticed, Told
  <1> QED BY <1>2, <1>3, <1>4, <1>5, <1>6, SignalBounds DEF SignalParts

LEMMA LocksKeeps == ASSUME SignalInv, NEW n \in Numbers, HandlerLocks(n) PROVE SignalInv'
  <1> USE DEF HandlerLocks, treeVars, dispatchVars, signalCounts, signalClose, signalHistory
  <1>1. SignalParts /\ Underway' = Underway
    BY QueueIsKept DEF SignalInv
  <1>2. SignalShape'
    BY <1>1 DEF SignalParts, SignalShape, Watching
  <1>3. CountersAgree' /\ ClosedIsQuiet' /\ OnceHeard' /\ RegularsAreCaught'
    BY <1>1 DEF SignalParts, CountersAgree, ClosedIsQuiet, OnceHeard, RegularsAreCaught
  <1>4. LockedOut'
    BY <1>1, SignalAssumption DEF SignalParts, LockedOut, Watching
  <1>5. WithinArrivals'
    <2>1. /\ IsFiniteSet(arrived') /\ Cardinality(arrived') = Cardinality(arrived) - 1
          /\ Cardinality(arrived) \in Nat
      BY <1>1, FS_RemoveElement, FS_CardinalityType DEF SignalParts, WithinArrivals
    <2>2. ASSUME NEW h \in Signals
          PROVE  caught'[h] + Bit(wrote' = h) + Bit(h \in toNotify') + Cardinality(arrived')
                   <= arrivals'
      <3>1. h \notin toNotify
        BY <1>1 DEF SignalParts, LockedOut
      <3>2. /\ caught[h] \in Nat /\ Bit(wrote = h) \in {0, 1} /\ Bit(h \in toNotify) = 0
            /\ Bit(h \in toNotify') \in {0, 1} /\ arrivals \in Nat
            /\ caught[h] + Bit(wrote = h) + Bit(h \in toNotify) + Cardinality(arrived) <= arrivals
        BY <1>1, <3>1 DEF SignalParts, SignalShape, WithinArrivals, Bit
      <3> QED BY <2>1, <3>2
    <2> QED BY <2>1, <2>2 DEF WithinArrivals
  <1>6. Noticed'
    BY <1>1 DEF SignalParts, SignalShape, LockedOut, Noticed, Told, Watching
  <1> QED BY <1>2, <1>3, <1>4, <1>5, <1>6, SignalBounds DEF SignalParts

LEMMA WritesKeeps == ASSUME SignalInv, NEW h \in Signals, HandlerWrites(h) PROVE SignalInv'
  <1> USE DEF HandlerWrites, treeVars, signalCounts, signalClose
  <1>1. SignalParts /\ Underway \in Seq(Messages) /\ handling \in Numbers /\ signum[h] = handling
    BY Underways DEF SignalInv, SignalParts, SignalShape, LockedOut
  <1> DEFINE m == [to |-> h, number |-> handling]
  <1>2. m \in Messages /\ m.to = h /\ m.number = handling
    BY <1>1 DEF Messages
  <1>3. CASE Len(messages) < SignalPipeSize
    <2>1. messages' = Append(messages, m) /\ wrote' = h /\ UNCHANGED unheard
      BY <1>3
    <2> HIDE DEF m
    <2>2. Underway' = Append(Underway, m)
      <3>1. reading \in Seq(Messages) /\ messages \in Seq(Messages)
        BY <1>1 DEF SignalParts, SignalShape
      <3>2. /\ Append(messages, m) = Joined(messages, One(m)) /\ One(m) \in Seq(Messages)
            /\ Append(Underway, m) = Joined(Underway, One(m))
        BY <1>1, <1>2, <3>1, JoinedOne
      <3>3. Joined(Joined(reading, messages), One(m)) = Joined(reading, Joined(messages, One(m)))
        BY <3>1, <3>2, JoinedThree
      <3>4. Underway = Joined(reading, messages) /\ Underway' = Joined(reading, messages')
        BY DEF Underway, Joined
      <3> QED BY <2>1, <3>2, <3>3, <3>4
    <2>3. ToSet(Underway') = ToSet(Underway) \cup {m}
      BY <1>1, <1>2, <2>2, AppendRest
    <2>4. SignalShape'
      <3>1. messages' \in Seq(Messages) /\ Len(messages') = Len(messages) + 1
        BY <1>1, <1>2, <2>1, AppendRest DEF SignalParts, SignalShape
      <3>2. Len(messages') <= SignalPipeSize
        <4>1. Len(messages) \in Nat
          BY <1>1, EmptyLen DEF SignalParts, SignalShape
        <4> QED BY <1>3, <3>1, <4>1, SignalAssumption
      <3> QED BY <1>1, <2>1, <3>1, <3>2 DEF SignalParts, SignalShape
    <2>5. CountersAgree'
      <3> SUFFICES ASSUME NEW g \in Signals
                   PROVE  caught'[g] + Bit(wrote' = g)
                            = dispatched'[g] + Cardinality(To(Underway', g))
        BY DEF CountersAgree
      <3>1. /\ caught[g] \in Nat /\ dispatched[g] \in Nat /\ Cardinality(To(Underway, g)) \in Nat
            /\ caught[g] = dispatched[g] + Cardinality(To(Underway, g))
        <4>1. /\ caught[g] \in Nat /\ dispatched[g] \in Nat
              /\ Cardinality(To(Underway, g)) \in Nat
          BY <1>1, ToFinite DEF SignalParts, SignalShape
        <4>2. Bit(wrote = g) = 0
          BY SignalAssumption DEF Bit
        <4>3. caught[g] + Bit(wrote = g) = dispatched[g] + Cardinality(To(Underway, g))
          BY <1>1 DEF SignalParts, CountersAgree
        <4> QED BY <4>1, <4>2, <4>3
      <3>2. Cardinality(To(Underway', g)) = Cardinality(To(Underway, g)) + Bit(m.to = g)
        BY <1>1, <1>2, <2>2, ToAtEnd
      <3>3. Bit(wrote' = g) = Bit(m.to = g) /\ Bit(m.to = g) \in {0, 1}
        BY <1>2, <2>1 DEF Bit
      <3> QED BY <3>1, <3>2, <3>3
    <2>6. WithinArrivals'
      <3>1. ASSUME NEW g \in Signals
            PROVE  Bit(wrote' = g) + Bit(g \in toNotify') = Bit(wrote = g) + Bit(g \in toNotify)
        BY <1>1, <2>1, <3>1, SignalAssumption DEF Bit, SignalParts, SignalShape
      <3>2. ASSUME NEW g \in Signals
            PROVE  caught'[g] + Bit(wrote' = g) + Bit(g \in toNotify') + Cardinality(arrived')
                     <= arrivals'
        <4>1. /\ caught[g] \in Nat /\ Bit(wrote' = g) \in {0, 1} /\ Bit(g \in toNotify') \in {0, 1}
              /\ Bit(wrote = g) \in {0, 1} /\ Bit(g \in toNotify) \in {0, 1}
              /\ Cardinality(arrived) \in Nat
              /\ caught[g] + Bit(wrote = g) + Bit(g \in toNotify) + Cardinality(arrived) <= arrivals
          BY <1>1, FS_CardinalityType DEF SignalParts, SignalShape, WithinArrivals, Bit
        <4> QED BY <3>1, <4>1
      <3> QED BY <1>1, <3>2 DEF SignalParts, WithinArrivals
    <2>7. LockedOut' /\ RegularsAreCaught' /\ OnceHeard'
      BY <1>1, <2>1, SignalAssumption
      DEF SignalParts, SignalShape, LockedOut, RegularsAreCaught, OnceHeard
    <2>8. ClosedIsQuiet'
      BY <1>1, <1>2, <2>3, SignalAssumption DEF SignalParts, SignalShape, ClosedIsQuiet
    <2>9. Noticed'
      BY <1>1, <1>2, <2>1, <2>3 DEF SignalParts, Noticed, Told
    <2> QED BY <2>4, <2>5, <2>6, <2>7, <2>8, <2>9, SignalBounds DEF SignalParts
  <1>4. CASE ~(Len(messages) < SignalPipeSize)
    <2>1. unheard' = unheard \cup {h} /\ UNCHANGED <<messages, wrote>> /\ Underway' = Underway
      BY <1>4, QueueIsKept
    <2>2. SignalShape' /\ CountersAgree' /\ LockedOut' /\ ClosedIsQuiet'
      BY <1>1, <2>1 DEF SignalParts, SignalShape, CountersAgree, LockedOut, ClosedIsQuiet
    <2>3. RegularsAreCaught' /\ Noticed' /\ OnceHeard'
      BY <1>1, <2>1 DEF SignalParts, RegularsAreCaught, Noticed, Told, OnceHeard
    <2>4. WithinArrivals'
      <3>1. ASSUME NEW g \in Signals
            PROVE  caught'[g] + Bit(wrote' = g) + Bit(g \in toNotify') + Cardinality(arrived')
                     <= arrivals'
        <4>1. /\ caught[g] \in Nat /\ Bit(wrote = g) \in {0, 1} /\ Bit(g \in toNotify') \in {0, 1}
              /\ Bit(g \in toNotify) \in {0, 1} /\ Bit(g \in toNotify') <= Bit(g \in toNotify)
              /\ Cardinality(arrived) \in Nat /\ arrivals \in Nat
              /\ caught[g] + Bit(wrote = g) + Bit(g \in toNotify) + Cardinality(arrived) <= arrivals
          BY <1>1, FS_CardinalityType DEF SignalParts, SignalShape, WithinArrivals, Bit
        <4> QED BY <2>1, <4>1
      <3> QED BY <1>1, <3>1 DEF SignalParts, WithinArrivals
    <2> QED BY <2>2, <2>3, <2>4, SignalBounds DEF SignalParts
  <1> QED BY <1>3, <1>4

LEMMA CountsKeeps == ASSUME SignalInv, HandlerCounts PROVE SignalInv'
  <1> USE DEF HandlerCounts, treeVars, dispatchVars, signalClose, signalHistory
  <1>1. SignalParts /\ Underway' = Underway /\ wrote \in Signals
    BY QueueIsKept DEF SignalInv, SignalParts, SignalShape
  <1>2. SignalShape'
    BY <1>1 DEF SignalParts, SignalShape
  <1>3. ASSUME NEW h \in Signals
        PROVE  /\ caught'[h] + Bit(wrote' = h) = caught[h] + Bit(wrote = h)
               /\ caught[h] \in Nat /\ caught'[h] \in Nat
    BY <1>1, <1>2, <1>3, SignalAssumption DEF SignalParts, SignalShape, Bit
  <1>4. CountersAgree' /\ WithinArrivals'
    BY <1>1, <1>3 DEF SignalParts, CountersAgree, WithinArrivals
  <1>5. LockedOut' /\ ClosedIsQuiet' /\ OnceHeard' /\ RegularsAreCaught' /\ Noticed'
    BY <1>1 DEF SignalParts, LockedOut, ClosedIsQuiet, OnceHeard, RegularsAreCaught, Noticed, Told
  <1> QED BY <1>2, <1>4, <1>5, SignalBounds DEF SignalParts

LEMMA UnlocksKeeps ==
  ASSUME SignalInv, HandlerUnlocks \/ UNCHANGED signalVars PROVE SignalInv'
  <1> USE DEF HandlerUnlocks, signalVars, handlerVars, treeVars, dispatchVars, signalCounts,
              signalClose, signalHistory
  <1>1. SignalParts /\ Underway' = Underway
    BY QueueIsKept DEF SignalInv
  <1>2. SignalShape' /\ CountersAgree' /\ WithinArrivals' /\ LockedOut' /\ ClosedIsQuiet'
    BY <1>1 DEF SignalParts, SignalShape, CountersAgree, WithinArrivals, LockedOut, ClosedIsQuiet
  <1>3. OnceHeard' /\ RegularsAreCaught' /\ Noticed'
    BY <1>1 DEF SignalParts, OnceHeard, RegularsAreCaught, Noticed, Told
  <1> QED BY <1>2, <1>3, SignalBounds DEF SignalParts

(* The user.                                                               *)
LEMMA StopsKeeps ==
  ASSUME SignalParts, NEW h \in Signals, SignalStops(h)
  PROVE  /\ signum' \in [Signals -> Numbers \cup {NoNumber}]
         /\ disposition' \in [Numbers -> {"default", "catch", "once"}]
         /\ signum'[h] = NoNumber /\ (\A g \in Signals \ {h} : signum'[g] = signum[g])
         /\ signum[h] # NoNumber => handling = NoNumber
         /\ \A g \in Signals : g \notin oneShot /\ signum'[g] # NoNumber =>
              disposition'[signum'[g]] = "catch"
         /\ \A g \in Signals : signum'[g] # NoNumber /\ disposition'[signum'[g]] = "default" =>
              disposition[signum[g]] = "default"
  <1>0. SignalShape /\ RegularsAreCaught
    BY DEF SignalParts
  <1>1. CASE signum[h] = NoNumber
    BY <1>0, <1>1 DEF SignalStops, SignalShape, RegularsAreCaught
  <1>2. CASE signum[h] # NoNumber
    <2> DEFINE n == signum[h]
               others == Watching(n) \ {h}
    <2>1. /\ LockIsFree /\ signum' = [signum EXCEPT ![h] = NoNumber]
          /\ disposition' =
                IF others = {} THEN [disposition EXCEPT ![n] = "default"]
                ELSE IF OnlyOneShots(others) /\ h \notin oneShot
                THEN [disposition EXCEPT ![n] = "once"]
                ELSE disposition
      BY <1>2 DEF SignalStops
    <2>2. /\ signum' \in [Signals -> Numbers \cup {NoNumber}] /\ n \in Numbers
          /\ signum'[h] = NoNumber /\ \A g \in Signals \ {h} : signum'[g] = signum[g]
          /\ \A g \in Signals \ {h} : g \in others <=> signum'[g] = n
      BY <1>0, <1>2, <2>1 DEF SignalShape, Watching
    <2> HIDE DEF others, n
    <2>3. CASE others = {}
      BY <1>0, <2>1, <2>2, <2>3 DEF SignalShape, RegularsAreCaught, LockIsFree
    <2>4. CASE others # {} /\ OnlyOneShots(others) /\ h \notin oneShot
      BY <1>0, <2>1, <2>2, <2>4 DEF SignalShape, RegularsAreCaught, LockIsFree, OnlyOneShots
    <2>5. CASE others # {} /\ ~(OnlyOneShots(others) /\ h \notin oneShot)
      BY <1>0, <2>1, <2>2, <2>5 DEF SignalShape, RegularsAreCaught, LockIsFree
    <2> QED BY <2>3, <2>4, <2>5
  <1> QED BY <1>1, <1>2

LEMMA StartKeeps ==
  ASSUME SignalInv, NEW h \in Signals, NEW n \in Numbers, NEW once \in BOOLEAN,
         StartSignal(h, n, once)
  PROVE  SignalInv'
  <1> USE DEF StartSignal, SignalUser, LockIsFree, handlerVars, dispatchVars, signalCounts,
              signalClose
  <1>1. SignalParts /\ Underway' = Underway /\ n # NoNumber
    BY QueueIsKept, SignalAssumption DEF SignalInv
  <1>2. /\ signum' \in [Signals -> Numbers \cup {NoNumber}]
        /\ signum'[h] = n /\ \A g \in Signals \ {h} : signum'[g] = signum[g]
    BY <1>1 DEF SignalParts, SignalShape
  <1>3. /\ disposition' \in [Numbers -> {"default", "catch", "once"}]
        /\ oneShot' \in SUBSET Signals /\ unheard' \in SUBSET Signals
    BY <1>1 DEF SignalParts, SignalShape
  <1>4. SignalShape'
    BY <1>1, <1>2, <1>3, SignalAssumption DEF SignalParts, SignalShape
  <1>5. CountersAgree' /\ WithinArrivals'
    BY <1>1 DEF SignalParts, CountersAgree, WithinArrivals
  <1>6. LockedOut'
    BY <1>1 DEF SignalParts, LockedOut
  <1>7. ClosedIsQuiet'
    BY <1>1, <1>2 DEF SignalParts, SignalShape, ClosedIsQuiet
  <1>8. RegularsAreCaught'
    <2>1. \A g \in Watching(n) : g \in Signals /\ g # h /\ signum[g] = n
      BY <1>1 DEF Watching
    <2>2. CASE Watching(n) = {}
      BY <1>1, <1>2, <2>2 DEF SignalParts, SignalShape, RegularsAreCaught, Watching
    <2>3. CASE Watching(n) # {} /\ ~once /\ OnlyOneShots(Watching(n))
      BY <1>1, <1>2, <2>3 DEF SignalParts, SignalShape, RegularsAreCaught, Watching
    <2>4. CASE Watching(n) # {} /\ ~once /\ ~OnlyOneShots(Watching(n))
      <3>1. disposition' = disposition /\ oneShot' = oneShot
        BY <2>4
      <3>2. disposition[n] = "catch"
        BY <1>1, <2>1, <2>4 DEF SignalParts, SignalShape, RegularsAreCaught, OnlyOneShots
      <3> QED BY <1>1, <1>2, <3>1, <3>2 DEF SignalParts, RegularsAreCaught
    <2>5. CASE Watching(n) # {} /\ once
      BY <1>1, <1>2, <2>5 DEF SignalParts, RegularsAreCaught
    <2> QED BY <2>2, <2>3, <2>4, <2>5
  <1>11. ASSUME NEW g \in Signals \ {h} PROVE Told(g) <=> Told(g)'
    BY <1>1, <1>2 DEF Told
  <1>9. Noticed'
    <2> DEFINE registers == \/ Watching(n) = {}
                            \/ ~once /\ OnlyOneShots(Watching(n))
    <2>1. CASE registers
      <3>1. disposition'[n] # "default" /\ \A k \in Numbers \ {n} : disposition'[k] = disposition[k]
        BY <1>1, <2>1 DEF SignalParts, SignalShape
      <3>2. \A g \in Signals \ unheard' : signum'[g] # n => g \notin unheard /\ g # h
        BY <1>1, <1>2, <2>1 DEF SignalParts, SignalShape, Watching
      <3> QED BY <1>1, <1>2, <1>11, <3>1, <3>2 DEF SignalParts, SignalShape, Noticed
    <2>2. CASE ~registers
      <3>1. disposition' = disposition
        BY <2>2
      <3>2. unheard \ {h} \subseteq unheard' /\ (disposition[n] = "default" => h \in unheard')
        BY <2>2
      <3> QED BY <1>1, <1>2, <1>11, <3>1, <3>2 DEF SignalParts, SignalShape, Noticed
    <2> QED BY <2>1, <2>2
  <1>10. OnceHeard'
    BY <1>1, <1>2 DEF SignalParts, SignalShape, OnceHeard
  <1> QED BY <1>4, <1>5, <1>6, <1>7, <1>8, <1>9, <1>10, SignalBounds DEF SignalParts

LEMMA StopKeeps ==
  ASSUME SignalInv, NEW h \in Signals, StopSignal(h) \/ CloseSignal(h) PROVE SignalInv'
  <1> USE DEF StopSignal, CloseSignal, SignalUser, handlerVars, dispatchVars, signalCounts,
              signalClose, signalHistory
  <1>1. SignalParts /\ SignalStops(h) /\ Underway' = Underway
    BY QueueIsKept DEF SignalInv
  <1>2. /\ signum' \in [Signals -> Numbers \cup {NoNumber}]
        /\ disposition' \in [Numbers -> {"default", "catch", "once"}]
        /\ signum'[h] = NoNumber /\ \A g \in Signals \ {h} : signum'[g] = signum[g]
        /\ signum[h] # NoNumber => handling = NoNumber
        /\ \A g \in Signals : g \notin oneShot /\ signum'[g] # NoNumber =>
             disposition'[signum'[g]] = "catch"
        /\ \A g \in Signals : signum'[g] # NoNumber /\ disposition'[signum'[g]] = "default" =>
             disposition[signum[g]] = "default"
    BY <1>1, StopsKeeps
  <1>3. SignalShape'
    BY <1>1, <1>2, SignalAssumption DEF SignalParts, SignalShape
  <1>4. CountersAgree' /\ WithinArrivals'
    BY <1>1 DEF SignalParts, CountersAgree, WithinArrivals
  <1>5. LockedOut'
    BY <1>1, <1>2, SignalAssumption DEF SignalParts, SignalShape, LockedOut
  <1>6. ClosedIsQuiet'
    BY <1>1, <1>2 DEF SignalParts, SignalShape, ClosedIsQuiet
  <1>7. RegularsAreCaught'
    BY <1>2 DEF RegularsAreCaught
  <1>8. Noticed'
    BY <1>1, <1>2 DEF SignalParts, Noticed, Told
  <1>9. OnceHeard'
    BY <1>1, <1>2 DEF SignalParts, SignalShape, OnceHeard
  <1> QED BY <1>3, <1>4, <1>5, <1>6, <1>7, <1>8, <1>9, SignalBounds DEF SignalParts

(* The loop.                                                               *)
LEMMA ReadsKeeps == ASSUME SignalInv, ReadsMessages PROVE SignalInv'
  <1> USE DEF ReadsMessages, treeVars, handlerVars, signalCounts, signalClose, signalHistory
  <1>1. SignalParts
    BY DEF SignalInv
  <1>0. messages \in Seq(Messages) /\ Len(messages) \in Nat
    BY <1>1 DEF SignalParts, SignalShape
  <1>6. PICK n \in 1..Len(messages) : /\ reading' = SubSeq(messages, 1, n)
                                     /\ messages' = SubSeq(messages, n + 1, Len(messages))
    OBVIOUS
  <1>7. n \in 0..Len(messages)
    BY <1>0
  <1>8. /\ reading' \in Seq(Messages) /\ messages' \in Seq(Messages)
        /\ Len(messages') = Len(messages) - n
        /\ messages = Joined(reading', messages')
    BY <1>0, <1>6, <1>7, CutRest
  <1>2. Underway' = Underway
    <2>1. Joined(<<>>, messages) = messages
      BY <1>0, JoinedEmpty
    <2>2. Underway = Joined(reading, messages) /\ Underway' = Joined(reading', messages')
      BY DEF Underway, Joined
    <2> QED BY <1>8, <2>1, <2>2
  <1>3. SignalShape'
    <2>1. Len(messages') <= SignalPipeSize
      <3>1. Len(messages) <= SignalPipeSize /\ n \in Nat
        BY <1>1 DEF SignalParts, SignalShape
      <3> QED BY <1>0, <1>8, <3>1, SignalAssumption
    <2> QED BY <1>1, <1>8, <2>1 DEF SignalParts, SignalShape
  <1>4. CountersAgree' /\ WithinArrivals' /\ LockedOut' /\ ClosedIsQuiet'
    BY <1>1, <1>2 DEF SignalParts, CountersAgree, WithinArrivals, LockedOut, ClosedIsQuiet
  <1>5. OnceHeard' /\ RegularsAreCaught' /\ Noticed'
    BY <1>1, <1>2 DEF SignalParts, OnceHeard, RegularsAreCaught, Noticed, Told
  <1> QED BY <1>3, <1>4, <1>5, SignalBounds DEF SignalParts

LEMMA CallsKeeps == ASSUME SignalInv, CallsSignal PROVE SignalInv'
  <1> USE DEF CallsSignal, treeVars, handlerVars, signalCounts, signalClose
  <1>1. SignalParts /\ Underway' = Underway
    BY QueueIsKept DEF SignalInv
  <1>2. Head(reading).to \in Signals
    <2>1. reading \in Seq(Messages) /\ reading # <<>>
      BY <1>1 DEF SignalParts, SignalShape
    <2>2. Head(reading) \in Messages
      BY <2>1, TailRest
    <2> QED BY <2>2 DEF Messages
  <1>3. SignalShape'
    BY <1>1, <1>2 DEF SignalParts, SignalShape
  <1>4. CountersAgree' /\ WithinArrivals' /\ LockedOut' /\ ClosedIsQuiet'
    BY <1>1 DEF SignalParts, CountersAgree, WithinArrivals, LockedOut, ClosedIsQuiet
  <1>5. RegularsAreCaught' /\ Noticed'
    BY <1>1 DEF SignalParts, RegularsAreCaught, Noticed, Told
  <1>6. OnceHeard'
    BY <1>1, SignalAssumption DEF SignalParts, SignalShape, OnceHeard
  <1> QED BY <1>3, <1>4, <1>5, <1>6, SignalBounds DEF SignalParts

LEMMA DispatchKeeps == ASSUME SignalInv, DispatchesMessage PROVE SignalInv'
  <1> DEFINE m == Head(reading)
             r == Tail(reading)
             q == Joined(r, messages)
  <1> USE DEF DispatchesMessage, handlerVars, signalClose, signalHistory
  <1>1. SignalParts /\ reading \in Seq(Messages) /\ messages \in Seq(Messages) /\ reading # <<>>
    BY DEF SignalInv, SignalParts, SignalShape
  <1>2. /\ m \in Messages /\ m.to \in Signals /\ r \in Seq(Messages)
        /\ q \in Seq(Messages) /\ Underway' = q /\ Underway = Joined(One(m), q)
    <2>1. /\ m \in Messages /\ r \in Seq(Messages) /\ One(m) \in Seq(Messages)
          /\ reading = Joined(One(m), r) /\ reading' = r
      BY <1>1, JoinedHead
    <2>2. m.to \in Signals
      BY <2>1 DEF Messages
    <2> HIDE DEF m, r
    <2>3. q \in Seq(Messages)
      BY <1>1, <2>1, JoinedRest
    <2>4. Joined(Joined(One(m), r), messages) = Joined(One(m), q)
      BY <1>1, <2>1, JoinedThree
    <2>5. Underway = Joined(reading, messages) /\ Underway' = Joined(reading', messages')
      BY DEF Underway, Joined
    <2>6. Underway' = q
      BY <2>1, <2>5
    <2>7. Underway = Joined(One(m), q)
      BY <2>1, <2>4, <2>5
    <2> QED BY <2>1, <2>2, <2>3, <2>6, <2>7
  <1> HIDE DEF q, r
  <1>3. ToSet(Underway) = ToSet(Underway') \cup {m}
    BY <1>2, ToAtFront
  <1>4. /\ dispatched' = [dispatched EXCEPT ![m.to] = @ + 1] /\ UNCHANGED <<caught, wrote>>
        /\ reading' = r /\ messages' = messages /\ signalRuns' = NoSignal
        /\ signalRuns = m.to \/ (signalRuns = NoSignal /\ ~IsCurrent(m))
        /\ UNCHANGED <<oneShot, arrived, handling, toNotify, signalClosing, signalClosed,
                       heard, unheard, arrivals, signalUses>>
    BY DEF r
  <1>5. /\ signum' \in [Signals -> Numbers \cup {NoNumber}]
        /\ disposition' \in [Numbers -> {"default", "catch", "once"}]
        /\ m.to \in oneShot => signum'[m.to] = NoNumber
        /\ m.to \notin oneShot => signum'[m.to] = signum[m.to]
        /\ \A g \in Signals \ {m.to} : signum'[g] = signum[g]
        /\ signum'[m.to] # signum[m.to] => handling = NoNumber
        /\ \A g \in Signals : g \notin oneShot /\ signum'[g] # NoNumber =>
             disposition'[signum'[g]] = "catch"
        /\ \A g \in Signals : signum'[g] # NoNumber /\ disposition'[signum'[g]] = "default" =>
             disposition[signum[g]] = "default"
    <2>1. CASE m.to \in oneShot
      <3>1. SignalStops(m.to)
        BY <2>1
      <3> HIDE DEF m, DispatchesMessage
      <3>2. /\ signum' \in [Signals -> Numbers \cup {NoNumber}]
            /\ disposition' \in [Numbers -> {"default", "catch", "once"}]
            /\ signum'[m.to] = NoNumber /\ (\A g \in Signals \ {m.to} : signum'[g] = signum[g])
            /\ signum[m.to] # NoNumber => handling = NoNumber
            /\ \A g \in Signals : g \notin oneShot /\ signum'[g] # NoNumber =>
                 disposition'[signum'[g]] = "catch"
            /\ \A g \in Signals : signum'[g] # NoNumber /\ disposition'[signum'[g]] = "default" =>
                 disposition[signum[g]] = "default"
        BY <1>1, <1>2, <3>1, StopsKeeps
      <3> QED BY <2>1, <3>2
    <2>2. CASE m.to \notin oneShot
      <3>1. UNCHANGED <<signum, disposition>>
        BY <2>2
      <3> HIDE DEF m, DispatchesMessage
      <3> QED BY <1>1, <2>2, <3>1 DEF SignalParts, SignalShape, RegularsAreCaught
    <2> QED BY <2>1, <2>2
  <1> HIDE DEF m, DispatchesMessage
  <1>6. SignalShape'
    <2>1. dispatched' \in [Signals -> Nat]
      BY <1>1, <1>2, <1>4 DEF SignalParts, SignalShape
    <2> QED BY <1>1, <1>2, <1>4, <1>5, <2>1 DEF SignalParts, SignalShape
  <1>7. CountersAgree'
    <2> SUFFICES ASSUME NEW g \in Signals
                 PROVE  caught'[g] + Bit(wrote' = g)
                          = dispatched'[g] + Cardinality(To(Underway', g))
      BY DEF CountersAgree
    <2>1. Cardinality(To(Underway, g)) = Cardinality(To(Underway', g)) + Bit(m.to = g)
      BY <1>2, ToAtFront
    <2>2. Cardinality(To(Underway', g)) \in Nat
      BY <1>2, ToFinite
    <2>3. /\ dispatched[g] \in Nat /\ dispatched'[g] = dispatched[g] + Bit(m.to = g)
          /\ Bit(m.to = g) \in {0, 1}
      BY <1>1, <1>2, <1>4 DEF SignalParts, SignalShape, Bit
    <2>4. caught'[g] + Bit(wrote' = g) = dispatched[g] + Cardinality(To(Underway, g))
      BY <1>1, <1>4 DEF SignalParts, CountersAgree
    <2> QED BY <2>1, <2>2, <2>3, <2>4
  <1>8. WithinArrivals' /\ RegularsAreCaught'
    BY <1>1, <1>4, <1>5 DEF SignalParts, WithinArrivals, RegularsAreCaught
  <1>9. LockedOut'
    BY <1>1, <1>4, <1>5, SignalAssumption DEF SignalParts, SignalShape, LockedOut
  <1>10. ClosedIsQuiet'
    BY <1>1, <1>2, <1>3, <1>4, <1>5 DEF SignalParts, SignalShape, ClosedIsQuiet
  <1>11. Noticed'
    <2> SUFFICES ASSUME NEW g \in Signals \ unheard', signum'[g] # NoNumber,
                        disposition'[signum'[g]] = "default"
                 PROVE  \/ signum'[g] \in arrived'
                        \/ handling' = signum'[g] /\ g \in toNotify'
                        \/ Told(g)'
      BY DEF Noticed
    <2>1. g # m.to /\ signum'[g] = signum[g] /\ disposition[signum[g]] = "default"
      BY <1>2, <1>4, <1>5
    <2>2. \/ signum[g] \in arrived
          \/ handling = signum[g] /\ g \in toNotify
          \/ Told(g)
      BY <1>1, <1>4, <2>1 DEF SignalParts, Noticed
    <2>3. Told(g) => Told(g)'
      BY <1>3, <2>1 DEF Told
    <2> QED BY <1>4, <2>1, <2>2, <2>3
  <1>12. OnceHeard'
    BY <1>1, <1>2, <1>4, <1>5, SignalAssumption DEF SignalParts, SignalShape, OnceHeard
  <1> QED BY <1>6, <1>7, <1>8, <1>9, <1>10, <1>11, <1>12, SignalBounds DEF SignalParts

LEMMA FinishKeeps == ASSUME SignalInv, NEW h \in Signals, FinishesSignal(h) PROVE SignalInv'
  <1> USE DEF FinishesSignal, treeVars, handlerVars, dispatchVars, signalCounts, signalHistory
  <1>1. SignalParts /\ Underway' = Underway /\ Underway \in Seq(Messages)
    BY QueueIsKept, Underways DEF SignalInv
  <1>2. \A m \in ToSet(Underway) : m.to # h
    <2>1. wrote # h
      BY <1>1, SignalAssumption DEF SignalParts, SignalShape, LockedOut, ClosedIsQuiet
    <2>2. /\ caught[h] \in Nat /\ dispatched[h] \in Nat /\ Cardinality(To(Underway, h)) \in Nat
          /\ Bit(wrote = h) = 0
      BY <1>1, <2>1, ToFinite DEF SignalParts, SignalShape, Bit
    <2>3. /\ caught[h] + Bit(wrote = h) = dispatched[h] + Cardinality(To(Underway, h))
          /\ caught[h] <= dispatched[h]
      BY <1>1 DEF SignalParts, CountersAgree
    <2>4. Cardinality(To(Underway, h)) = 0
      BY <2>2, <2>3
    <2> QED BY <1>1, <2>4, ToFinite
  <1>3. SignalShape' /\ CountersAgree' /\ WithinArrivals' /\ LockedOut'
    BY <1>1 DEF SignalParts, SignalShape, CountersAgree, WithinArrivals, LockedOut
  <1>4. ClosedIsQuiet'
    BY <1>1, <1>2 DEF SignalParts, ClosedIsQuiet
  <1>5. OnceHeard' /\ RegularsAreCaught' /\ Noticed'
    BY <1>1 DEF SignalParts, OnceHeard, RegularsAreCaught, Noticed, Told
  <1> QED BY <1>3, <1>4, <1>5, SignalBounds DEF SignalParts

LEMMA SignalStep == SignalInv /\ [SignalNext]_signalVars => SignalInv'
  BY ArrivesKeeps, LocksKeeps, WritesKeeps, CountsKeeps, UnlocksKeeps, StartKeeps, StopKeeps,
     ReadsKeeps, CallsKeeps, DispatchKeeps, FinishKeeps DEF SignalNext, HandlerStep, SignalLoop

LEMMA SignalConcludes ==
  SignalInv => SignalTypeOK /\ SignalsAreAccounted /\ WatchedIsHandled
  <1> SUFFICES ASSUME SignalInv PROVE SignalsAreAccounted /\ WatchedIsHandled
    BY DEF SignalInv
  <1>1. SignalParts /\ Underway \in Seq(Messages)
    BY Underways DEF SignalInv
  <1>2. \A h : MessagesTo(h) = To(Underway, h)
    BY DEF MessagesTo, To
  <1>3. \A h \in Signals :
          caught[h] + (IF wrote = h THEN 1 ELSE 0) = dispatched[h] + Cardinality(MessagesTo(h))
    BY <1>1, <1>2 DEF SignalParts, CountersAgree, Bit
  <1>4. \A h \in signalClosed : MessagesTo(h) = {} /\ h \notin toNotify /\ wrote # h
    <2> SUFFICES ASSUME NEW h \in signalClosed
                 PROVE  MessagesTo(h) = {} /\ h \notin toNotify /\ wrote # h
      OBVIOUS
    <2>1. h \in Signals /\ signum[h] = NoNumber
      BY <1>1 DEF SignalParts, SignalShape, ClosedIsQuiet
    <2>2. MessagesTo(h) = {}
      BY <1>1 DEF MessagesTo, SignalParts, ClosedIsQuiet, ToSet
    <2>3. h \notin toNotify /\ wrote # h
      BY <1>1, <2>1, SignalAssumption DEF SignalParts, SignalShape, LockedOut
    <2> QED BY <2>2, <2>3
  <1>5. \A i \in DOMAIN Underway :
          IsCurrent(Underway[i]) => Underway[i].to \notin signalClosing
    <2> SUFFICES ASSUME NEW i \in DOMAIN Underway, IsCurrent(Underway[i]),
                        Underway[i].to \in signalClosing
                 PROVE  FALSE
      OBVIOUS
    <2>1. Underway[i] \in Messages
      BY <1>1
    <2>2. Underway[i].number \in Numbers /\ signum[Underway[i].to] = Underway[i].number
      BY <2>1 DEF Messages, IsCurrent
    <2> QED BY <1>1, <2>2, SignalAssumption DEF SignalParts, ClosedIsQuiet
  <1>6. ASSUME NEW h, Told(h) PROVE \E i \in MessagesTo(h) : IsCurrent(Underway[i])
    BY <1>6 DEF Told, ToSet, MessagesTo, IsCurrent
  <1>7. WatchedIsHandled
    BY <1>1, <1>6 DEF SignalParts, Noticed, WatchedIsHandled
  <1> QED BY <1>3, <1>4, <1>5, <1>7 DEF SignalsAreAccounted

LEMMA SignalCalledOnce ==
  SignalInv /\ [SignalNext]_signalVars =>
    [signalRuns' \in oneShot /\ signalRuns # signalRuns' => signalRuns' \notin heard]_signalVars
  <1> SUFFICES ASSUME SignalInv, SignalNext, signalRuns' \in oneShot, signalRuns # signalRuns'
               PROVE  signalRuns' \notin heard
    BY DEF signalVars, dispatchVars
  <1>1. SignalParts
    BY DEF SignalInv
  <1>2. CASE CallsSignal
    <2>1. reading \in Seq(Messages) /\ reading # <<>> /\ signalRuns = NoSignal
      BY <1>1, <1>2 DEF SignalParts, SignalShape, CallsSignal
    <2>2. Head(reading) \in Messages
      BY <2>1, TailRest
    <2>3. signum[signalRuns'] \in Numbers /\ signalRuns' \in Signals
      BY <1>2, <2>2 DEF CallsSignal, IsCurrent, Messages
    <2> QED BY <1>1, <2>1, <2>3, SignalAssumption DEF SignalParts, OnceHeard
  <1>3. CASE DispatchesMessage
    BY <1>1, <1>3, SignalAssumption DEF SignalParts, SignalShape, DispatchesMessage
  <1>4. CASE ~CallsSignal /\ ~DispatchesMessage
    BY <1>4 DEF SignalNext, HandlerStep, SignalLoop, SignalArrives, HandlerLocks, HandlerWrites,
                HandlerCounts, HandlerUnlocks, StartSignal, StopSignal, CloseSignal,
                ReadsMessages, FinishesSignal, dispatchVars
  <1> QED BY <1>2, <1>3, <1>4

-----------------------------------------------------------------------------
(* Polling of a path.  The list goes down in numbers, and the context of   *)
(* an active handle is the newest; who is at work has a request under way. *)

ContextsInOrder ==
  /\ ToSet(contexts) = {c \in Contexts : context[c] \notin {"none", "freed"}}
  /\ \A i, j \in DOMAIN contexts : i < j => contexts[i] > contexts[j]

Numbered == \A c \in Contexts : context[c] = "none" <=> c > starts

NewestIsActive ==
  pollActive => ~pollClosing /\ starts # 0 /\ context[starts] \in {"stat", "timer", "due"}

PollsHaveRequests == polls # 0 => context[polls] = "stat"

ClosedIsEmpty == pollPending => pollClosing /\ contexts = <<>>

(* Without a start while an older context was at work or due, nothing but  *)
(* the newest context of an active handle has a timer or a request, and a  *)
(* timer that is due is that of the newest, active or not.                 *)
NewestIsAlone ==
  ~overlapped => \A c \in Contexts :
                   /\ context[c] = "timer" => pollActive
                   /\ context[c] = "due" => c = starts
                   /\ context[c] \in {"stat", "timer"} /\ pollActive => c = starts

FsPollInv == /\ FsPollTypeOK /\ ContextsInOrder /\ Numbered /\ NewestIsActive
             /\ PollsHaveRequests /\ ClosedIsEmpty /\ NewestIsAlone

LEMMA FsPollStart == FsPollInit => FsPollInv
  <1> SUFFICES ASSUME FsPollInit PROVE FsPollInv
    OBVIOUS
  <1>1. /\ contexts = <<>> /\ context \in [Contexts -> {"none"}]
        /\ pollActive = FALSE /\ pollClosing = FALSE /\ pollPending = FALSE
        /\ pollClosed = FALSE /\ polls = 0 /\ starts = 0 /\ overlapped = FALSE
    BY DEF FsPollInit
  <1>2. FsPollTypeOK
    <2>1. contexts \in Seq(Contexts)
      BY <1>1
    <2>2. context \in [Contexts -> ContextStates]
      BY <1>1 DEF ContextStates
    <2>3. starts \in 0..MaxStarts
      BY <1>1, FsPollAssumption
    <2> QED BY <1>1, <2>1, <2>2, <2>3 DEF FsPollTypeOK
  <1>3. ContextsInOrder
    BY <1>1, EmptyRest DEF ContextsInOrder
  <1>4. Numbered
    BY <1>1 DEF Numbered, Contexts
  <1> QED BY <1>1, <1>2, <1>3, <1>4
          DEF FsPollInv, NewestIsActive, PollsHaveRequests, ClosedIsEmpty, NewestIsAlone

(* The first of the list is the newest of those that are left.             *)
LEMMA FirstIsNewest ==
  ASSUME FsPollInv, NEW c \in Contexts, context[c] \notin {"none", "freed"}
  PROVE  contexts # <<>> /\ Head(contexts) \in Contexts /\ Head(contexts) >= c
         /\ context[Head(contexts)] \notin {"none", "freed"}
  <1>1. contexts \in Seq(Contexts) /\ Contexts \subseteq Nat
    BY DEF FsPollInv, FsPollTypeOK, Contexts
  <1>2. PICK i \in DOMAIN contexts : contexts[i] = c
    BY DEF FsPollInv, ContextsInOrder, ToSet
  <1>3. /\ Len(contexts) \in Nat /\ DOMAIN contexts = 1..Len(contexts) /\ i \in 1..Len(contexts)
        /\ contexts # <<>> /\ Head(contexts) = contexts[1] /\ 1 \in DOMAIN contexts
    BY <1>1, <1>2
  <1>4. contexts[1] \in Contexts
    BY <1>1, <1>3
  <1>5. contexts[1] >= c
    <2>1. CASE i = 1
      BY <2>1, <1>1, <1>2
    <2>2. CASE i # 1
      <3>1. 1 < i
        BY <2>2, <1>3
      <3>2. contexts[1] > contexts[i]
        BY <3>1, <1>3 DEF FsPollInv, ContextsInOrder
      <3>3. contexts[1] \in Nat /\ c \in Nat
        BY <1>1, <1>4 DEF Contexts
      <3> QED BY <3>2, <3>3, <1>2
    <2> QED BY <2>1, <2>2
  <1>6. contexts[1] \in ToSet(contexts)
    BY <1>3 DEF ToSet
  <1> QED BY <1>3, <1>4, <1>5, <1>6 DEF FsPollInv, ContextsInOrder

LEMMA NewestIsFirst ==
  ASSUME FsPollInv, starts \in Contexts, context[starts] \notin {"none", "freed"}
  PROVE  contexts # <<>> /\ Head(contexts) = starts
  <1>1. /\ contexts # <<>> /\ Head(contexts) \in Contexts /\ Head(contexts) >= starts
        /\ context[Head(contexts)] \notin {"none", "freed"}
    BY FirstIsNewest
  <1>2. ~(Head(contexts) > starts)
    BY <1>1 DEF FsPollInv, Numbered
  <1> QED BY <1>1, <1>2 DEF Contexts

LEMMA ActiveIsFirst ==
  ASSUME FsPollInv, pollActive
  PROVE  starts \in Contexts /\ contexts # <<>> /\ Head(contexts) = starts
  <1>1. starts \in Contexts /\ context[starts] \notin {"none", "freed"}
    BY FsPollAssumption DEF FsPollInv, NewestIsActive, FsPollTypeOK, Contexts
  <1> QED BY <1>1, NewestIsFirst

(* A context that is at work, or waits, turns to something else it may do. *)
LEMMA BecomesKeeps ==
  ASSUME FsPollInv, NEW c \in Contexts, NEW state \in {"stat", "timer", "timerClosing"},
         context[c] \notin {"none", "freed"}, Becomes(c, state)
  PROVE  /\ context' \in [Contexts -> ContextStates]
         /\ UNCHANGED <<contexts, starts>> => ContextsInOrder' /\ Numbered'
  <1>1. context' = [context EXCEPT ![c] = state]
        /\ context \in [Contexts -> ContextStates]
    BY DEF Becomes, FsPollInv, FsPollTypeOK
  <1>2. \A d \in Contexts : context'[d] = IF d = c THEN state ELSE context[d]
    BY <1>1
  <1>3. {d \in Contexts : context'[d] \notin {"none", "freed"}}
         = {d \in Contexts : context[d] \notin {"none", "freed"}}
    BY <1>2
  <1>4. \A d \in Contexts : context'[d] = "none" <=> context[d] = "none"
    BY <1>2
  <1>5. context' \in [Contexts -> ContextStates]
    BY <1>1 DEF ContextStates
  <1> QED BY <1>3, <1>4, <1>5 DEF ContextsInOrder, Numbered, FsPollInv

LEMMA StartPollingKeeps == FsPollInv /\ StartPolling => FsPollInv'
  <1> SUFFICES ASSUME FsPollInv, StartPolling PROVE FsPollInv'
    OBVIOUS
  <1> DEFINE c == starts + 1
  <1>1. /\ starts' = c /\ c \in Contexts /\ starts \in Nat /\ contexts \in Seq(Contexts)
        /\ contexts' = <<c>> \o contexts
        /\ context \in [Contexts -> ContextStates]
        /\ context' = [context EXCEPT ![c] = "stat"]
        /\ ~pollActive /\ pollActive' = TRUE /\ ~pollClosing
        /\ overlapped' = (overlapped \/ \E d \in Contexts : context[d] \in {"stat", "due"})
        /\ UNCHANGED <<pollEnd, polls>>
    BY FsPollAssumption
       DEF StartPolling, FsPollInv, FsPollTypeOK, Contexts, Becomes
  <1> HIDE DEF c
  <1>2. \A d \in Contexts : context'[d] = IF d = c THEN "stat" ELSE context[d]
    BY <1>1
  <1>3. context[c] = "none" /\ c > starts
    BY <1>1 DEF FsPollInv, Numbered, c
  <1>4. FsPollTypeOK'
    <2>1. contexts' \in Seq(Contexts)
      BY <1>1, PrependRest
    <2>2. context' \in [Contexts -> ContextStates]
      BY <1>1 DEF ContextStates
    <2>3. overlapped' \in BOOLEAN
      BY <1>1
    <2>4. starts' \in 0..MaxStarts
      BY <1>1, FsPollAssumption DEF Contexts
    <2> QED BY <1>1, <2>1, <2>2, <2>3, <2>4 DEF FsPollInv, FsPollTypeOK, pollEnd
  <1>5. ContextsInOrder'
    <2>1. /\ ToSet(contexts') = ToSet(contexts) \cup {c}
          /\ DOMAIN contexts' = 1..Len(contexts) + 1 /\ contexts'[1] = c
          /\ \A i \in 1..Len(contexts) : contexts'[i + 1] = contexts[i]
      BY <1>1, PrependRest
    <2>2. ToSet(contexts') = {d \in Contexts : context'[d] \notin {"none", "freed"}}
      BY <1>1, <1>2, <2>1 DEF FsPollInv, ContextsInOrder
    <2>3. \A i \in 1..Len(contexts) : contexts[i] < c /\ contexts[i] \in Nat
      <3> SUFFICES ASSUME NEW i \in 1..Len(contexts)
                   PROVE  contexts[i] < c /\ contexts[i] \in Nat
        OBVIOUS
      <3>1. contexts[i] \in Contexts /\ contexts[i] \in ToSet(contexts)
        BY <1>1 DEF ToSet
      <3>2. context[contexts[i]] # "none" /\ contexts[i] \in Nat
        BY <3>1 DEF FsPollInv, ContextsInOrder, Contexts
      <3>3. ~(contexts[i] > starts)
        BY <3>1, <3>2 DEF FsPollInv, Numbered
      <3> QED BY <1>1, <3>2, <3>3 DEF c
    <2>4. ASSUME NEW i \in DOMAIN contexts', NEW j \in DOMAIN contexts', i < j
          PROVE  contexts'[i] > contexts'[j]
      <3>1. /\ j - 1 \in 1..Len(contexts) /\ contexts'[j] = contexts[j - 1]
            /\ Len(contexts) \in Nat
        BY <1>1, <2>1, <2>4
      <3>2. CASE i = 1
        BY <1>1, <2>1, <2>3, <3>1, <3>2 DEF Contexts
      <3>3. CASE i # 1
        <4>1. i - 1 \in 1..Len(contexts) /\ contexts'[i] = contexts[i - 1] /\ i - 1 < j - 1
          BY <2>1, <2>4, <3>1, <3>3
        <4>2. DOMAIN contexts = 1..Len(contexts)
          BY <1>1
        <4> QED BY <3>1, <4>1, <4>2 DEF FsPollInv, ContextsInOrder
      <3> QED BY <3>2, <3>3
    <2> QED BY <2>2, <2>4 DEF ContextsInOrder
  <1>6. Numbered'
    <2> SUFFICES ASSUME NEW d \in Contexts
                 PROVE  context'[d] = "none" <=> d > starts'
      BY DEF Numbered
    <2>1. context[d] = "none" <=> d > starts
      BY DEF FsPollInv, Numbered
    <2> QED BY <1>1, <1>2, <1>3, <2>1 DEF Contexts, c
  <1>7. NewestIsActive' /\ PollsHaveRequests' /\ ClosedIsEmpty'
    BY <1>1, <1>2, <1>3
       DEF FsPollInv, FsPollTypeOK, NewestIsActive, PollsHaveRequests, ClosedIsEmpty, pollEnd,
           Contexts
  <1>8. NewestIsAlone'
    BY <1>1, <1>2 DEF FsPollInv, NewestIsAlone
  <1> QED BY <1>4, <1>5, <1>6, <1>7, <1>8 DEF FsPollInv

(* uv_fs_poll_stop() and uv_close().                                       *)
LEMMA PollingStopsKeeps ==
  ASSUME FsPollInv, PollingStops, UNCHANGED <<contexts, pollClosed, polls, starts, overlapped>>,
         pollClosing' \in BOOLEAN, pollClosing => pollClosing',
         pollPending' = pollPending \/ (pollPending' = (contexts = <<>>) /\ pollClosing')
  PROVE  FsPollInv'
  <1>1. /\ pollActive' = FALSE
        /\ context \in [Contexts -> ContextStates]
    BY DEF PollingStops, FsPollInv, FsPollTypeOK
  <1>2. pollPending' \in BOOLEAN /\ ClosedIsEmpty'
    BY DEF FsPollInv, FsPollTypeOK, ClosedIsEmpty
  <1>3. CASE pollActive /\ context[Head(contexts)] = "timer"
    <2>1. starts \in Contexts /\ Head(contexts) = starts /\ context[starts] = "timer"
      BY <1>3, ActiveIsFirst
    <2>2. Becomes(starts, "timerClosing")
      BY <1>3, <2>1 DEF PollingStops, Becomes
    <2>3. /\ context' \in [Contexts -> ContextStates]
          /\ ContextsInOrder' /\ Numbered'
      BY <2>1, <2>2, BecomesKeeps
    <2>4. \A c \in Contexts : context'[c] = IF c = starts THEN "timerClosing" ELSE context[c]
      BY <1>1, <2>2 DEF Becomes
    <2>5. FsPollTypeOK'
      BY <1>1, <1>2, <2>3 DEF FsPollInv, FsPollTypeOK
    <2>6. NewestIsActive' /\ PollsHaveRequests'
      BY <1>1, <2>1, <2>4 DEF FsPollInv, FsPollTypeOK, NewestIsActive, PollsHaveRequests
    <2>7. NewestIsAlone'
      BY <1>1, <1>3, <2>4 DEF FsPollInv, NewestIsAlone
    <2> QED BY <1>2, <2>3, <2>5, <2>6, <2>7 DEF FsPollInv
  <1>4. CASE ~(pollActive /\ context[Head(contexts)] = "timer")
    <2>1. context' = context
      BY <1>4 DEF PollingStops
    <2>2. FsPollTypeOK' /\ ContextsInOrder' /\ Numbered' /\ NewestIsActive' /\ PollsHaveRequests'
      BY <1>1, <1>2, <2>1
         DEF FsPollInv, FsPollTypeOK, ContextsInOrder, Numbered, NewestIsActive, PollsHaveRequests
    <2>3. NewestIsAlone'
      <3>1. ASSUME ~overlapped, NEW c \in Contexts, context[c] = "timer"
            PROVE  FALSE
        <4>1. pollActive /\ c = starts
          BY <3>1 DEF FsPollInv, NewestIsAlone
        <4> QED BY <3>1, <4>1, <1>4, ActiveIsFirst
      <3>2. ASSUME ~overlapped, NEW c \in Contexts, context[c] = "due"
            PROVE  c = starts
        BY <3>2 DEF FsPollInv, NewestIsAlone
      <3> QED BY <1>1, <2>1, <3>1, <3>2 DEF NewestIsAlone
    <2> QED BY <1>2, <2>2, <2>3 DEF FsPollInv
  <1> QED BY <1>3, <1>4

(* uv__run_timers() takes what is due out of the heap.                     *)
LEMMA TimersDueKeeps == FsPollInv /\ TimersDue => FsPollInv'
  <1> SUFFICES ASSUME FsPollInv, TimersDue PROVE FsPollInv'
    OBVIOUS
  <1>1. PICK due \in (SUBSET {c \in Contexts : context[c] = "timer"}) \ {{}} :
           context' = [c \in Contexts |-> IF c \in due THEN "due" ELSE context[c]]
    BY DEF TimersDue
  <1>2. /\ context \in [Contexts -> ContextStates]
        /\ UNCHANGED <<contexts, pollActive, pollEnd, polls, starts, overlapped>>
    BY DEF TimersDue, FsPollInv, FsPollTypeOK
  <1>3. \A c \in Contexts : \/ context'[c] = context[c]
                            \/ context[c] = "timer" /\ context'[c] = "due"
    BY <1>1
  <1>4. context' \in [Contexts -> ContextStates]
    BY <1>1, <1>2 DEF ContextStates
  <1>5. FsPollTypeOK'
    BY <1>2, <1>4 DEF FsPollInv, FsPollTypeOK, pollEnd
  <1>6. ContextsInOrder'
    <2>1. {c \in Contexts : context'[c] \notin {"none", "freed"}}
           = {c \in Contexts : context[c] \notin {"none", "freed"}}
      BY <1>3
    <2> QED BY <1>2, <2>1 DEF FsPollInv, ContextsInOrder
  <1>7. Numbered' /\ ClosedIsEmpty'
    BY <1>2, <1>3 DEF FsPollInv, Numbered, ClosedIsEmpty, pollEnd
  <1>8. NewestIsActive' /\ PollsHaveRequests'
    <2>1. pollActive => starts \in Contexts
      BY ActiveIsFirst
    <2>2. polls # 0 => polls \in Contexts
      BY DEF FsPollInv, FsPollTypeOK
    <2> QED BY <1>2, <1>3, <2>1, <2>2
            DEF FsPollInv, NewestIsActive, PollsHaveRequests, pollEnd
  <1>9. NewestIsAlone'
    BY <1>2, <1>3 DEF FsPollInv, NewestIsAlone
  <1> QED BY <1>5, <1>6, <1>7, <1>8, <1>9 DEF FsPollInv

(* The steps of poll_cb() and timer_cb(), which change one context.        *)
LEMMA PollingTurnsKeeps ==
  ASSUME FsPollInv, NEW c \in Contexts, NEW state \in {"stat", "timer", "timerClosing"},
         Becomes(c, state), context[c] \in {"stat", "due"},
         state = "stat" => context[c] = "due",
         state = "timer" => context[c] = "stat" /\ pollActive,
         state = "timerClosing" => ~pollActive,
         polls' = 0 \/ (polls' = polls /\ polls # c),
         UNCHANGED <<contexts, pollActive, pollEnd, starts, overlapped>>
  PROVE  FsPollInv'
  <1>1. /\ context' \in [Contexts -> ContextStates]
        /\ ContextsInOrder' /\ Numbered'
    BY BecomesKeeps
  <1>2. \A d \in Contexts : context'[d] = IF d = c THEN state ELSE context[d]
    BY DEF Becomes, FsPollInv, FsPollTypeOK
  <1>3. FsPollTypeOK'
    BY <1>1 DEF FsPollInv, FsPollTypeOK, pollEnd
  <1>4. pollActive => starts \in Contexts
    BY ActiveIsFirst
  <1>5. NewestIsActive' /\ PollsHaveRequests' /\ ClosedIsEmpty'
    BY <1>2, <1>4
       DEF FsPollInv, FsPollTypeOK, NewestIsActive, PollsHaveRequests, ClosedIsEmpty, pollEnd
  <1>6. NewestIsAlone'
    BY <1>2 DEF FsPollInv, NewestIsAlone
  <1> QED BY <1>1, <1>3, <1>5, <1>6 DEF FsPollInv

LEMMA EndsPollKeeps ==
  ASSUME FsPollInv, NEW c \in Contexts, EndsPoll(c), context[c] = "stat", polls' = 0,
         UNCHANGED <<contexts, pollActive, pollEnd, starts, overlapped>>
  PROVE  FsPollInv'
  <1>1. Live <=> pollActive
    BY DEF Live, FsPollInv, NewestIsActive
  <1>2. Becomes(c, IF pollActive THEN "timer" ELSE "timerClosing")
    BY <1>1 DEF EndsPoll
  <1> QED BY <1>2, PollingTurnsKeeps

LEMMA TimerClosedKeeps ==
  ASSUME FsPollInv, NEW c \in Contexts, TimerClosed(c)
  PROVE  FsPollInv'
  <1>1. /\ context[c] = "timerClosing" /\ contexts \in Seq(Contexts)
        /\ context \in [Contexts -> ContextStates]
        /\ context' = [context EXCEPT ![c] = "freed"]
        /\ contexts' = Unlink(c, contexts)
        /\ pollPending' = (pollPending \/ (contexts' = <<>> /\ pollClosing))
        /\ UNCHANGED <<pollActive, pollClosing, pollClosed, polls, starts, overlapped>>
    BY DEF TimerClosed, Becomes, FsPollInv, FsPollTypeOK
  <1>2. \A d \in Contexts : context'[d] = IF d = c THEN "freed" ELSE context[d]
    BY <1>1
  <1>3. \A i \in DOMAIN contexts : contexts[i] \in Nat
    BY <1>1 DEF Contexts
  <1>4. IsInjective(contexts)
    <2> SUFFICES ASSUME NEW i \in DOMAIN contexts, NEW j \in DOMAIN contexts, i # j
                 PROVE  contexts[i] # contexts[j]
      BY DEF IsInjective
    <2>1. i < j \/ j < i
      BY <1>1
    <2> QED BY <2>1, <1>3 DEF FsPollInv, ContextsInOrder
  <1>5. /\ contexts' \in Seq(Contexts) /\ ToSet(contexts') = ToSet(contexts) \ {c}
        /\ \A i, j \in DOMAIN contexts' : i < j =>
              \E m, n \in DOMAIN contexts : /\ m < n /\ contexts'[i] = contexts[m]
                                           /\ contexts'[j] = contexts[n]
    BY <1>1, <1>4, UnlinkRest
  <1>6. ContextsInOrder'
    <2>1. ToSet(contexts') = {d \in Contexts : context'[d] \notin {"none", "freed"}}
      BY <1>2, <1>5 DEF FsPollInv, ContextsInOrder
    <2>2. \A i, j \in DOMAIN contexts' : i < j => contexts'[i] > contexts'[j]
      BY <1>5 DEF FsPollInv, ContextsInOrder
    <2> QED BY <2>1, <2>2 DEF ContextsInOrder
  <1>7. c \in ToSet(contexts)
    BY <1>1 DEF FsPollInv, ContextsInOrder
  <1>8. contexts # <<>>
    BY <1>7, EmptyRest
  <1>9. ClosedIsEmpty' /\ pollPending' \in BOOLEAN
    BY <1>1, <1>8 DEF FsPollInv, FsPollTypeOK, ClosedIsEmpty
  <1>10. FsPollTypeOK'
    <2>1. context' \in [Contexts -> ContextStates]
      BY <1>1 DEF ContextStates
    <2> QED BY <1>1, <1>5, <1>9, <2>1 DEF FsPollInv, FsPollTypeOK
  <1>11. Numbered'
    BY <1>1, <1>2 DEF FsPollInv, Numbered
  <1>12. pollActive => starts \in Contexts
    BY ActiveIsFirst
  <1>13. NewestIsActive' /\ PollsHaveRequests'
    BY <1>1, <1>2, <1>12 DEF FsPollInv, FsPollTypeOK, NewestIsActive, PollsHaveRequests
  <1>14. NewestIsAlone'
    BY <1>1, <1>2 DEF FsPollInv, NewestIsAlone
  <1> QED BY <1>6, <1>9, <1>10, <1>11, <1>13, <1>14 DEF FsPollInv

LEMMA FsPollStep == FsPollInv /\ [FsPollNext]_fsPollVars => FsPollInv'
  <1> SUFFICES ASSUME FsPollInv, [FsPollNext]_fsPollVars PROVE FsPollInv'
    OBVIOUS
  <1>1. CASE StartPolling
    BY <1>1, StartPollingKeeps
  <1>2. CASE StopPolling
    BY <1>2, PollingStopsKeeps DEF StopPolling, pollEnd, FsPollInv, FsPollTypeOK
  <1>3. CASE ClosePolling
    <2>1. ~pollPending
      BY <1>3 DEF ClosePolling, FsPollInv, FsPollTypeOK, ClosedIsEmpty
    <2> QED BY <1>3, <2>1, PollingStopsKeeps DEF ClosePolling
  <1>4. CASE UserReturns
    <2>1. polls \in Contexts /\ context[polls] = "stat"
      BY <1>4 DEF UserReturns, FsPollInv, FsPollTypeOK, PollsHaveRequests
    <2>2. PICK c \in Contexts : c = polls
      BY <2>1
    <2>3. EndsPoll(c) /\ context[c] = "stat"
      BY <1>4, <2>1, <2>2 DEF UserReturns
    <2> QED BY <1>4, <2>3, EndsPollKeeps DEF UserReturns
  <1>5. CASE FinishesPoll
    BY <1>5 DEF FinishesPoll, FsPollInv, FsPollTypeOK, ContextsInOrder, Numbered, NewestIsActive,
                PollsHaveRequests, ClosedIsEmpty, NewestIsAlone
  <1>6. ASSUME NEW c \in Contexts, StatReturns(c) PROVE FsPollInv'
    <2>1. CASE polls' = c /\ UNCHANGED context
      BY <1>6, <2>1
         DEF StatReturns, FsPollInv, FsPollTypeOK, ContextsInOrder, Numbered, NewestIsActive,
             PollsHaveRequests, ClosedIsEmpty, NewestIsAlone, pollEnd
    <2>2. CASE EndsPoll(c) /\ UNCHANGED polls
      BY <1>6, <2>2, EndsPollKeeps DEF StatReturns
    <2> QED BY <1>6, <2>1, <2>2 DEF StatReturns
  <1>7. ASSUME NEW c \in Contexts, TimerFires(c) PROVE FsPollInv'
    <2>1. polls # c
      BY <1>7 DEF TimerFires, FsPollInv, PollsHaveRequests, Contexts
    <2> QED BY <1>7, <2>1, PollingTurnsKeeps DEF TimerFires
  <1>10. CASE TimersDue
    BY <1>10, TimersDueKeeps
  <1>8. ASSUME NEW c \in Contexts, TimerClosed(c) PROVE FsPollInv'
    BY <1>8, TimerClosedKeeps
  <1>9. CASE UNCHANGED fsPollVars
    BY <1>9 DEF fsPollVars, pollEnd, FsPollInv, FsPollTypeOK, ContextsInOrder, Numbered, NewestIsActive,
                PollsHaveRequests, ClosedIsEmpty, NewestIsAlone
  <1> QED BY <1>1, <1>2, <1>3, <1>4, <1>5, <1>6, <1>7, <1>8, <1>9, <1>10
          DEF FsPollNext, FsPollLoop

LEMMA FsPollConcludes ==
  FsPollInv => FsPollTypeOK /\ ContextsAreListed /\ TimersAreCurrent
  <1> SUFFICES ASSUME FsPollInv PROVE FsPollTypeOK /\ ContextsAreListed /\ TimersAreCurrent
    OBVIOUS
  <1>1. FsPollTypeOK /\ ContextsAreListed
    BY DEF FsPollInv, ContextsInOrder, ClosedIsEmpty, ContextsAreListed
  <1>2. ASSUME ~overlapped, NEW c \in Contexts
        PROVE  /\ context[c] = "timer" => pollActive /\ c = Head(contexts)
               /\ context[c] = "due" => c = Head(contexts)
    <2>1. context[c] = "timer" => pollActive /\ c = Head(contexts)
      BY <1>2, ActiveIsFirst DEF FsPollInv, NewestIsAlone
    <2>2. ASSUME context[c] = "due" PROVE c = Head(contexts)
      <3>1. c = starts
        BY <1>2, <2>2 DEF FsPollInv, NewestIsAlone
      <3> QED BY <2>2, <3>1, NewestIsFirst
    <2> QED BY <2>1, <2>2
  <1> QED BY <1>1, <1>2 DEF TimersAreCurrent
=============================================================================
