-------------------------- MODULE UvThreads_proofs ---------------------------
(***************************************************************************)
(* What the threads share: the queues, which the other parts of libuv use  *)
(* as well, wakeups from other threads, the thread pool, and the barrier.  *)
(***************************************************************************)
EXTENDS UvThreadPool, UvBarrier, FiniteSetTheorems, FunctionTheorems,
        SequenceTheorems, TLAPS

-----------------------------------------------------------------------------
(***************************************************************************)
(* What the operations on libuv's queues do to their elements.             *)
(***************************************************************************)

(* An element is in the set of a sequence if it is on the queue.           *)
LEMMA InIsMember == \A x, q : In(x, q) <=> x \in ToSet(q)
  BY DEF In, ToSet

(* Taking an element out closes the gap and leaves the rest in its order.  *)
LEMMA UnlinkGap ==
  ASSUME NEW S, NEW q \in Seq(S), NEW x, In(x, q)
  PROVE  \E k \in 1..Len(q) :
           /\ q[k] = x
           /\ Unlink(x, q) \in Seq(S)
           /\ Len(Unlink(x, q)) = Len(q) - 1
           /\ \A i \in 1..Len(q) - 1 :
                Unlink(x, q)[i] = IF i < k THEN q[i] ELSE q[i + 1]
  <1> DEFINE k == CHOOSE i \in DOMAIN q : q[i] = x
             r == Unlink(x, q)
  <1>1. k \in DOMAIN q /\ q[k] = x
    BY DEF In
  <1> HIDE DEF k
  <1>2. Len(q) \in Nat /\ DOMAIN q = 1..Len(q) /\ k \in 1..Len(q)
    BY <1>1
  <1>3. r = SubSeq(q, 1, k - 1) \o SubSeq(q, k + 1, Len(q))
    BY DEF Unlink, RemoveAt, k
  <1> DEFINE before == SubSeq(q, 1, k - 1)
             after  == SubSeq(q, k + 1, Len(q))
  <1>4. /\ before \in Seq(S) /\ Len(before) = k - 1
        /\ \A i \in 1..k - 1 : before[i] = q[i]
    <2>1. \A i \in 1..k - 1 : q[i] \in S
      BY <1>2
    <2> QED BY <2>1, <1>2, SubSeqProperties
  <1>5. /\ after \in Seq(S) /\ Len(after) = Len(q) - k
        /\ \A i \in 1..Len(q) - k : after[i] = q[k + i]
    <2>1. \A i \in k + 1..Len(q) : q[i] \in S
      BY <1>2
    <2>2. /\ after \in Seq(S)
          /\ Len(after) = IF k + 1 <= Len(q) THEN Len(q) - (k + 1) + 1 ELSE 0
          /\ \A i \in 1..Len(q) - (k + 1) + 1 : after[i] = q[(k + 1) + i - 1]
      BY <2>1, <1>2, SubSeqProperties
    <2> HIDE DEF after
    <2>3. Len(after) = Len(q) - k
      <3>1. ASSUME NEW n \in Nat, k \in 1..n
            PROVE  (IF k + 1 <= n THEN n - (k + 1) + 1 ELSE 0) = n - k
        BY <3>1
      <3> QED BY <3>1, <2>2, <1>2
    <2>4. ASSUME NEW i \in 1..Len(q) - k PROVE after[i] = q[k + i]
      <3>1. Len(q) \in Int /\ k \in Int /\ i \in Int /\ i \in 1..Len(q) - k
        BY <2>4, <1>2
      <3>2. Len(q) - (k + 1) + 1 = Len(q) - k /\ (k + 1) + i - 1 = k + i
        BY <3>1
      <3> QED BY <3>1, <3>2, <2>2
    <2> QED BY <2>2, <2>3, <2>4
  <1> HIDE DEF before, after
  <1>6. /\ r \in Seq(S) /\ Len(r) = Len(q) - 1
        /\ \A i \in 1..Len(q) - 1 :
             r[i] = IF i <= k - 1 THEN before[i] ELSE after[i - (k - 1)]
    <2>1. r = before \o after
      BY <1>3 DEF before, after
    <2> HIDE DEF r
    <2>2. /\ r \in Seq(S) /\ Len(r) = Len(before) + Len(after)
          /\ \A i \in 1..Len(before) + Len(after) :
               r[i] = IF i <= Len(before) THEN before[i] ELSE after[i - Len(before)]
      BY <2>1, <1>4, <1>5, ConcatProperties
    <2>3. /\ r \in Seq(S) /\ Len(r) = (k - 1) + (Len(q) - k)
          /\ \A i \in 1..(k - 1) + (Len(q) - k) :
               r[i] = IF i <= k - 1 THEN before[i] ELSE after[i - (k - 1)]
      BY <2>2, <1>4, <1>5
    <2>4. (k - 1) + (Len(q) - k) = Len(q) - 1
      BY <1>2
    <2> QED BY <2>3, <2>4
  <1>7. \A i \in 1..Len(q) - 1 : r[i] = IF i < k THEN q[i] ELSE q[i + 1]
    <2> SUFFICES ASSUME NEW i \in 1..Len(q) - 1
                 PROVE  r[i] = IF i < k THEN q[i] ELSE q[i + 1]
      OBVIOUS
    <2>1. CASE i < k
      <3>1. i \in 1..k - 1
        BY <2>1, <1>2
      <3> QED BY <3>1, <2>1, <1>4, <1>6
    <2>2. CASE ~(i < k)
      <3>1. /\ i - (k - 1) \in 1..Len(q) - k /\ k + (i - (k - 1)) = i + 1
            /\ ~(i <= k - 1)
        BY <2>2, <1>2
      <3>2. r[i] = after[i - (k - 1)]
        BY <3>1, <1>6
      <3> QED BY <3>1, <3>2, <2>2, <1>5
    <2> QED BY <2>1, <2>2
  <1> QED BY <1>1, <1>2, <1>6, <1>7

(* The element that is taken out is gone if it was there once; the others  *)
(* stay, each behind those it was behind.                                  *)
LEMMA UnlinkRest ==
  ASSUME NEW S, NEW q \in Seq(S), NEW x, IsInjective(q)
  PROVE  /\ Unlink(x, q) \in Seq(S) /\ IsInjective(Unlink(x, q))
         /\ ToSet(Unlink(x, q)) = ToSet(q) \ {x}
         /\ \A i, j \in DOMAIN Unlink(x, q) : i < j =>
              \E m, n \in DOMAIN q : /\ m < n
                                     /\ Unlink(x, q)[i] = q[m] /\ Unlink(x, q)[j] = q[n]
  <1>1. CASE ~In(x, q)
    <2>1. Unlink(x, q) = q /\ x \notin ToSet(q)
      BY <1>1, InIsMember DEF Unlink
    <2> QED BY <2>1
  <1>2. CASE In(x, q)
    <2> DEFINE r == Unlink(x, q)
    <2>1. PICK k \in 1..Len(q) :
           /\ q[k] = x /\ r \in Seq(S) /\ Len(r) = Len(q) - 1
           /\ \A i \in 1..Len(q) - 1 : r[i] = IF i < k THEN q[i] ELSE q[i + 1]
      BY <1>2, UnlinkGap
    <2> HIDE DEF r
    <2>2. Len(q) \in Nat /\ DOMAIN q = 1..Len(q) /\ DOMAIN r = 1..Len(q) - 1
      BY <2>1
    <2> DEFINE old(i) == IF i < k THEN i ELSE i + 1
    <2>3. \A i \in DOMAIN r : /\ old(i) \in DOMAIN q /\ r[i] = q[old(i)] /\ old(i) # k
      BY <2>1, <2>2
    <2>4. \A i, j \in DOMAIN r : i < j => old(i) < old(j)
      BY <2>1, <2>2
    <2>5. \A i \in DOMAIN q : i # k => \E j \in DOMAIN r : old(j) = i
      <3> SUFFICES ASSUME NEW i \in DOMAIN q, i # k PROVE \E j \in DOMAIN r : old(j) = i
        OBVIOUS
      <3>1. CASE i < k
        <4>1. i \in DOMAIN r /\ old(i) = i
          BY <2>1, <2>2, <3>1
        <4> QED BY <4>1
      <3>2. CASE i > k
        <4>1. i - 1 \in DOMAIN r /\ old(i - 1) = i
          BY <2>1, <2>2, <3>2
        <4> QED BY <4>1
      <3> QED BY <3>1, <3>2, <2>2
    <2>6. \A i, j \in DOMAIN r : i # j => old(i) # old(j)
      BY <2>2, <2>4
    <2> HIDE DEF old
    <2>7. IsInjective(r)
      BY <2>3, <2>6 DEF IsInjective
    <2>8. ToSet(r) = ToSet(q) \ {x}
      <3>1. \A i \in DOMAIN q : q[i] = x <=> i = k
        BY <2>1, <2>2 DEF IsInjective
      <3>2. \A y \in ToSet(r) : y \in ToSet(q) /\ y # x
        BY <2>3, <3>1 DEF ToSet
      <3>3. ASSUME NEW y \in ToSet(q), y # x PROVE y \in ToSet(r)
        <4>1. PICK i \in DOMAIN q : q[i] = y
          BY DEF ToSet
        <4>2. PICK j \in DOMAIN r : old(j) = i
          BY <2>5, <3>1, <3>3, <4>1
        <4> QED BY <2>3, <4>1, <4>2 DEF ToSet
      <3> QED BY <3>2, <3>3
    <2>9. \A i, j \in DOMAIN r : i < j =>
            \E m, n \in DOMAIN q : m < n /\ r[i] = q[m] /\ r[j] = q[n]
      BY <2>3, <2>4
    <2> QED BY <2>1, <2>7, <2>8, <2>9 DEF r
  <1> QED BY <1>1, <1>2

(* One more at the end.                                                    *)
LEMMA AppendRest ==
  ASSUME NEW S, NEW q \in Seq(S), NEW x \in S
  PROVE  /\ Append(q, x) \in Seq(S) /\ Append(q, x) # <<>>
         /\ Len(Append(q, x)) = Len(q) + 1 /\ DOMAIN Append(q, x) = 1..Len(q) + 1
         /\ \A i \in 1..Len(q) : Append(q, x)[i] = q[i]
         /\ Append(q, x)[Len(q) + 1] = x
         /\ ToSet(Append(q, x)) = ToSet(q) \cup {x}
         /\ IsInjective(q) /\ x \notin ToSet(q) => IsInjective(Append(q, x))
  <1> DEFINE r == Append(q, x)
  <1>1. /\ r \in Seq(S) /\ Len(r) = Len(q) + 1 /\ DOMAIN r = 1..Len(q) + 1
        /\ \A i \in 1..Len(q) : r[i] = q[i]
        /\ r[Len(q) + 1] = x /\ Len(q) \in Nat /\ DOMAIN q = 1..Len(q)
    OBVIOUS
  <1> HIDE DEF r
  <1>2. ToSet(r) = ToSet(q) \cup {x}
    <2>1. \A y \in ToSet(r) : y \in ToSet(q) \/ y = x
      BY <1>1 DEF ToSet
    <2>2. \A y \in ToSet(q) : y \in ToSet(r)
      BY <1>1 DEF ToSet
    <2>3. x \in ToSet(r)
      BY <1>1 DEF ToSet
    <2> QED BY <2>1, <2>2, <2>3
  <1>3. ASSUME IsInjective(q), x \notin ToSet(q) PROVE IsInjective(r)
    BY <1>1, <1>3 DEF IsInjective, ToSet
  <1>4. r # <<>>
    BY <1>1
  <1> QED BY <1>1, <1>2, <1>3, <1>4 DEF r

(* One more at the front.                                                  *)
LEMMA PrependRest ==
  ASSUME NEW S, NEW q \in Seq(S), NEW x \in S
  PROVE  /\ <<x>> \o q \in Seq(S) /\ <<x>> \o q # <<>> /\ Head(<<x>> \o q) = x
         /\ Len(<<x>> \o q) = Len(q) + 1 /\ DOMAIN (<<x>> \o q) = 1..Len(q) + 1
         /\ \A i \in 1..Len(q) : (<<x>> \o q)[i + 1] = q[i]
         /\ (<<x>> \o q)[1] = x
         /\ ToSet(<<x>> \o q) = ToSet(q) \cup {x}
         /\ IsInjective(q) /\ x \notin ToSet(q) => IsInjective(<<x>> \o q)
  <1> DEFINE r == <<x>> \o q
  <1>1. /\ r \in Seq(S) /\ Len(r) = Len(q) + 1 /\ Len(q) \in Nat /\ DOMAIN q = 1..Len(q)
        /\ \A i \in 1..Len(q) + 1 : r[i] = IF i = 1 THEN x ELSE q[i - 1]
    OBVIOUS
  <1> HIDE DEF r
  <1>2. /\ DOMAIN r = 1..Len(q) + 1 /\ r[1] = x
        /\ \A i \in 1..Len(q) : r[i + 1] = q[i]
        /\ \A i \in 1..Len(q) + 1 : i # 1 => r[i] = q[i - 1] /\ i - 1 \in 1..Len(q)
    BY <1>1
  <1>3. ToSet(r) = ToSet(q) \cup {x}
    <2>1. \A y \in ToSet(r) : y \in ToSet(q) \/ y = x
      BY <1>1, <1>2 DEF ToSet
    <2>2. \A y \in ToSet(q) : y \in ToSet(r)
      <3> SUFFICES ASSUME NEW i \in 1..Len(q) PROVE q[i] \in ToSet(r)
        BY <1>1 DEF ToSet
      <3>1. i + 1 \in DOMAIN r /\ r[i + 1] = q[i]
        BY <1>1, <1>2
      <3> QED BY <3>1 DEF ToSet
    <2>3. x \in ToSet(r)
      BY <1>1, <1>2 DEF ToSet
    <2> QED BY <2>1, <2>2, <2>3
  <1>4. ASSUME IsInjective(q), x \notin ToSet(q) PROVE IsInjective(r)
    <2> SUFFICES ASSUME NEW i \in DOMAIN r, NEW j \in DOMAIN r, r[i] = r[j]
                 PROVE  i = j
      BY DEF IsInjective
    <2>1. \A m \in 1..Len(q) : q[m] # x
      BY <1>1, <1>4 DEF ToSet
    <2>2. CASE i = 1 \/ j = 1
      BY <2>1, <2>2, <1>1, <1>2
    <2>3. CASE i # 1 /\ j # 1
      <3>1. i - 1 \in DOMAIN q /\ j - 1 \in DOMAIN q /\ q[i - 1] = q[j - 1]
        BY <2>3, <1>1, <1>2
      <3>2. i - 1 = j - 1
        BY <3>1, <1>4 DEF IsInjective
      <3> QED BY <3>2, <1>1, <1>2
    <2> QED BY <2>2, <2>3
  <1>5. r # <<>> /\ Head(r) = x
    BY <1>1, <1>2
  <1> QED BY <1>1, <1>2, <1>3, <1>4, <1>5 DEF r

(* The first one taken off.                                                *)
LEMMA TailRest ==
  ASSUME NEW S, NEW q \in Seq(S), q # <<>>
  PROVE  /\ Head(q) \in S /\ Head(q) \in ToSet(q) /\ Tail(q) \in Seq(S)
         /\ Len(Tail(q)) = Len(q) - 1 /\ DOMAIN Tail(q) = 1..Len(q) - 1
         /\ \A i \in 1..Len(q) - 1 : Tail(q)[i] = q[i + 1]
         /\ q = <<Head(q)>> \o Tail(q)
         /\ ToSet(q) = ToSet(Tail(q)) \cup {Head(q)}
         /\ IsInjective(q) => IsInjective(Tail(q)) /\ Head(q) \notin ToSet(Tail(q))
  <1> DEFINE r == Tail(q)
             x == Head(q)
  <1>1. /\ r \in Seq(S) /\ Len(r) = Len(q) - 1 /\ Len(q) \in Nat \ {0}
        /\ DOMAIN q = 1..Len(q) /\ DOMAIN r = 1..Len(q) - 1
        /\ \A i \in 1..Len(q) - 1 : r[i] = q[i + 1]
        /\ x = q[1] /\ x \in S
    OBVIOUS
  <1>2. q = <<x>> \o r
    OBVIOUS
  <1> HIDE DEF r, x
  <1>3. x \in ToSet(q)
    BY <1>1 DEF ToSet
  <1>4. ToSet(q) = ToSet(r) \cup {x}
    BY <1>1, <1>2, PrependRest
  <1>5. ASSUME IsInjective(q) PROVE IsInjective(r) /\ x \notin ToSet(r)
    <2>1. \A i \in DOMAIN r : i + 1 \in DOMAIN q /\ i + 1 # 1 /\ r[i] = q[i + 1]
      BY <1>1
    <2>2. \A i, j \in DOMAIN r : i + 1 = j + 1 => i = j
      BY <1>1
    <2>3. 1 \in DOMAIN q /\ q[1] = x
      BY <1>1
    <2>4. IsInjective(r)
      BY <2>1, <2>2, <1>5 DEF IsInjective
    <2>5. \A i \in DOMAIN r : r[i] # x
      BY <2>1, <2>3, <1>5 DEF IsInjective
    <2> QED BY <2>4, <2>5 DEF ToSet
  <1> QED BY <1>1, <1>2, <1>3, <1>4, <1>5 DEF r, x

(* A queue holds finitely many, as many as it is long if none is twice.    *)
LEMMA QueueFinite ==
  ASSUME NEW S, NEW q \in Seq(S)
  PROVE  /\ IsFiniteSet(ToSet(q)) /\ Cardinality(ToSet(q)) \in Nat
         /\ IsInjective(q) => Cardinality(ToSet(q)) = Len(q)
  <1>1. /\ Len(q) \in Nat /\ q \in [1..Len(q) -> S] /\ DOMAIN q = 1..Len(q)
        /\ IsFiniteSet(1..Len(q)) /\ Cardinality(1..Len(q)) = Len(q)
    <2>1. Len(q) \in Nat /\ q \in [1..Len(q) -> S]
      OBVIOUS
    <2>2. /\ IsFiniteSet(1..Len(q))
          /\ Cardinality(1..Len(q)) = IF 1 > Len(q) THEN 0 ELSE Len(q) - 1 + 1
      BY <2>1, FS_Interval
    <2>3. Cardinality(1..Len(q)) = Len(q)
      <3>1. \A n \in Nat : (IF 1 > n THEN 0 ELSE n - 1 + 1) = n
        OBVIOUS
      <3> QED BY <2>1, <2>2, <3>1
    <2> QED BY <2>1, <2>2, <2>3
  <1>2. q \in [1..Len(q) -> ToSet(q)] /\ \A y \in ToSet(q) : \E i \in 1..Len(q) : q[i] = y
    BY <1>1 DEF ToSet
  <1>3. q \in Surjection(1..Len(q), ToSet(q))
    BY <1>2, Fun_IsSurj
  <1>4. /\ IsFiniteSet(ToSet(q))
        /\ Cardinality(ToSet(q)) = Len(q) <=> q \in Injection(1..Len(q), ToSet(q))
    BY <1>1, <1>3, FS_Surjection
  <1>5. IsInjective(q) => q \in Injection(1..Len(q), ToSet(q))
    BY <1>1, <1>2, Fun_IsInj DEF IsInjective
  <1> QED BY <1>4, <1>5, FS_CardinalityType

LEMMA EmptyRest == ToSet(<<>>) = {} /\ IsInjective(<<>>)
  BY DEF ToSet, IsInjective

LEMMA NoneOnIt ==
  ASSUME NEW S, NEW q \in Seq(S)
  PROVE  q = <<>> <=> ToSet(q) = {}
  <1>1. q = <<>> => ToSet(q) = {}
    BY EmptyRest
  <1>2. q # <<>> => ToSet(q) # {}
    BY TailRest
  <1> QED BY <1>1, <1>2

LEMMA SingleRest ==
  ASSUME NEW x
  PROVE  ToSet(<<x>>) = {x} /\ IsInjective(<<x>>)
  <1>1. DOMAIN <<x>> = {1} /\ <<x>>[1] = x
    OBVIOUS
  <1> QED BY <1>1 DEF ToSet, IsInjective

(* Queues that are joined, end to end.  The operator keeps the provers     *)
(* from looking into them where it does not matter.                        *)
Joined(p, q) == p \o q

LEMMA JoinedRest ==
  ASSUME NEW S, NEW p \in Seq(S), NEW q \in Seq(S)
  PROVE  Joined(p, q) \in Seq(S) /\ Len(Joined(p, q)) = Len(p) + Len(q)
  BY ConcatProperties DEF Joined

(* What is on queues that are joined; nothing is on both if none is twice.  *)
LEMMA JoinedSets ==
  ASSUME NEW S, NEW p \in Seq(S), NEW q \in Seq(S)
  PROVE  /\ ToSet(Joined(p, q)) = ToSet(p) \cup ToSet(q)
         /\ IsInjective(Joined(p, q)) =>
              IsInjective(p) /\ IsInjective(q) /\ ToSet(p) \cap ToSet(q) = {}
  <1> DEFINE r == Joined(p, q)
  <1>1. /\ r \in Seq(S) /\ Len(r) = Len(p) + Len(q) /\ Len(p) \in Nat /\ Len(q) \in Nat
        /\ \A i \in 1..Len(p) + Len(q) : r[i] = IF i <= Len(p) THEN p[i] ELSE q[i - Len(p)]
    BY ConcatProperties, LenProperties DEF Joined
  <1> HIDE DEF r
  <1>2. /\ DOMAIN r = 1..Len(p) + Len(q) /\ DOMAIN p = 1..Len(p) /\ DOMAIN q = 1..Len(q)
    BY <1>1
  <1>3. \A i \in DOMAIN p : i \in DOMAIN r /\ r[i] = p[i]
    BY <1>1, <1>2
  <1>4. \A i \in DOMAIN q : i + Len(p) \in DOMAIN r /\ r[i + Len(p)] = q[i]
    <2> SUFFICES ASSUME NEW i \in 1..Len(q)
                 PROVE  i + Len(p) \in 1..Len(p) + Len(q) /\ r[i + Len(p)] = q[i]
      BY <1>2
    <2>1. i + Len(p) \in 1..Len(p) + Len(q) /\ ~(i + Len(p) <= Len(p))
      BY <1>1
    <2>2. (i + Len(p)) - Len(p) = i
      BY <1>1
    <2> QED BY <2>1, <2>2, <1>1
  <1>5. \A i \in DOMAIN r : i \in DOMAIN p \/ \E j \in DOMAIN q : i = j + Len(p)
    <2> SUFFICES ASSUME NEW i \in 1..Len(p) + Len(q), ~(i \in 1..Len(p))
                 PROVE  i - Len(p) \in 1..Len(q) /\ i = (i - Len(p)) + Len(p)
      BY <1>2
    <2> QED BY <1>1
  <1>6. ToSet(r) = ToSet(p) \cup ToSet(q)
    <2>1. \A y \in ToSet(r) : y \in ToSet(p) \/ y \in ToSet(q)
      BY <1>3, <1>4, <1>5 DEF ToSet
    <2>2. \A y \in ToSet(p) \cup ToSet(q) : y \in ToSet(r)
      BY <1>3, <1>4 DEF ToSet
    <2> QED BY <2>1, <2>2
  <1>7. ASSUME IsInjective(r) PROVE IsInjective(p)
    BY <1>3, <1>7 DEF IsInjective
  <1>8. ASSUME IsInjective(r) PROVE IsInjective(q)
    <2>1. \A i, j \in DOMAIN q : i + Len(p) = j + Len(p) => i = j
      BY <1>1, <1>2
    <2> QED BY <1>4, <1>8, <2>1 DEF IsInjective
  <1>9. ASSUME IsInjective(r) PROVE ToSet(p) \cap ToSet(q) = {}
    <2>1. \A i \in DOMAIN p, j \in DOMAIN q : i # j + Len(p)
      BY <1>1, <1>2
    <2>2. \A i \in DOMAIN p, j \in DOMAIN q : p[i] # q[j]
      BY <2>1, <1>3, <1>4, <1>9 DEF IsInjective
    <2> QED BY <2>2 DEF ToSet
  <1> QED BY <1>6, <1>7, <1>8, <1>9 DEF r

LEMMA JoinedEmpty ==
  ASSUME NEW S, NEW p \in Seq(S)
  PROVE  Joined(p, <<>>) = p /\ Joined(<<>>, p) = p
  BY ConcatEmptySeq DEF Joined

LEMMA EmptyLen ==
  ASSUME NEW S, NEW q \in Seq(S)
  PROVE  Len(q) \in Nat /\ (q = <<>> <=> Len(q) = 0)
  BY EmptySeq, LenProperties

LEMMA JoinedThree ==
  ASSUME NEW S, NEW p \in Seq(S), NEW q \in Seq(S), NEW r \in Seq(S)
  PROVE  Joined(Joined(p, q), r) = Joined(p, Joined(q, r))
  BY ConcatAssociative DEF Joined

One(x) == <<x>>

LEMMA JoinedOne ==
  ASSUME NEW S, NEW q \in Seq(S), NEW x \in S
  PROVE  Append(q, x) = Joined(q, One(x)) /\ One(x) \in Seq(S)
  <1>1. One(x) \in Seq(S)
    BY DEF One
  <1>2. Append(q, x) = Joined(q, One(x))
    BY SMTT(30), AppendIsConcat DEF Joined, One
  <1> QED BY <1>1, <1>2

LEMMA JoinedHead ==
  ASSUME NEW S, NEW q \in Seq(S), q # <<>>
  PROVE  /\ q = Joined(One(Head(q)), Tail(q)) /\ One(Head(q)) \in Seq(S)
         /\ Head(q) \in S /\ Tail(q) \in Seq(S) /\ Len(Tail(q)) = Len(q) - 1
  <1>1. /\ q = <<Head(q)>> \o Tail(q) /\ Head(q) \in S /\ Tail(q) \in Seq(S)
        /\ Len(Tail(q)) = Len(q) - 1
    BY TailRest
  <1>2. One(Head(q)) \in Seq(S)
    BY <1>1 DEF One
  <1>3. q = Joined(One(Head(q)), Tail(q))
    BY <1>1 DEF Joined, One
  <1> QED BY <1>1, <1>2, <1>3

(* A queue that is cut in two.                                             *)
LEMMA CutRest ==
  ASSUME NEW S, NEW q \in Seq(S), NEW k \in 0..Len(q)
  PROVE  /\ SubSeq(q, 1, k) \in Seq(S) /\ Len(SubSeq(q, 1, k)) = k
         /\ SubSeq(q, k + 1, Len(q)) \in Seq(S)
         /\ Len(SubSeq(q, k + 1, Len(q))) = Len(q) - k
         /\ q = Joined(SubSeq(q, 1, k), SubSeq(q, k + 1, Len(q)))
  <1>1. Len(q) \in Nat /\ k \in Int /\ k <= Len(q) /\ 0 <= k
    OBVIOUS
  <1>2. SubSeq(q, 1, k) \in Seq(S) /\ Len(SubSeq(q, 1, k)) = k
    <2>1. \A i \in 1..k : q[i] \in S
      BY <1>1
    <2>2. /\ SubSeq(q, 1, k) \in Seq(S)
          /\ Len(SubSeq(q, 1, k)) = IF 1 <= k THEN k - 1 + 1 ELSE 0
      BY <1>1, <2>1, SubSeqProperties
    <2> QED BY <1>1, <2>2
  <1>3. /\ SubSeq(q, k + 1, Len(q)) \in Seq(S)
        /\ Len(SubSeq(q, k + 1, Len(q))) = Len(q) - k
    <2>1. \A i \in k + 1..Len(q) : q[i] \in S
      BY <1>1
    <2>2. /\ SubSeq(q, k + 1, Len(q)) \in Seq(S)
          /\ Len(SubSeq(q, k + 1, Len(q)))
               = IF k + 1 <= Len(q) THEN Len(q) - (k + 1) + 1 ELSE 0
      BY <1>1, <2>1, SubSeqProperties
    <2>3. \A n \in Nat : k <= n => (IF k + 1 <= n THEN n - (k + 1) + 1 ELSE 0) = n - k
      BY <1>1
    <2> QED BY <1>1, <2>2, <2>3
  <1>4. SubSeq(q, 1, k) \o SubSeq(q, k + 1, Len(q)) = SubSeq(q, 1, Len(q))
    <2>1. 1 \in 1..Len(q) + 1 /\ k \in 1 - 1..Len(q) /\ Len(q) \in k..Len(q)
      BY <1>1
    <2> QED BY <2>1, ConcatAdjacentSubSeq
  <1> QED BY <1>2, <1>3, <1>4, SubSeqFull DEF Joined

LEMMA JoinedBegins ==
  ASSUME NEW S, NEW p \in Seq(S), NEW q \in Seq(S)
  PROVE  IsPrefix(p, Joined(p, q))
  <1> DEFINE r == p \o q
  <1>1. /\ r \in Seq(S) /\ Len(r) = Len(p) + Len(q) /\ Len(p) \in Nat /\ Len(q) \in Nat
        /\ \A i \in 1..Len(p) + Len(q) : r[i] = IF i <= Len(p) THEN p[i] ELSE q[i - Len(p)]
    BY ConcatProperties, LenProperties
  <1> HIDE DEF r
  <1>2. Len(p) <= Len(r) /\ \A i \in 1..Len(p) : r[i] = p[i]
    BY <1>1
  <1>3. Len(p) \in 0..Len(p) /\ Len(p) \in 0..Len(r)
    BY <1>1, <1>2
  <1> DEFINE s == SubSeq(r, 1, Len(p))
  <1>4. /\ s \in Seq(S) /\ Len(s) = Len(p)
    BY <1>1, <1>3, CutRest
  <1>5. \A i \in 1..Len(p) : s[i] = p[i]
    <2>1. \A i \in 1..Len(p) : r[i] \in S
      BY <1>1, <1>2
    <2>2. \A i \in 1..Len(p) - 1 + 1 : s[i] = r[1 + i - 1]
      BY <1>1, <2>1, SubSeqProperties
    <2> HIDE DEF s
    <2> QED BY <1>1, <1>2, <2>2
  <1> HIDE DEF s
  <1>6. s = p
    BY <1>4, <1>5, SeqEqual
  <1> QED BY <1>2, <1>6, SubSeqFull DEF IsPrefix, Joined, r, s

-----------------------------------------------------------------------------
(***************************************************************************)
(* For any number of handles and senders, and a pipe of any size: no send  *)
(* is lost, and nothing wakes the loop for a handle that is closed.        *)
(*                                                                         *)
(* NoSendIsLost rests on AsyncListed: a handle that is open is on one of   *)
(* the two lists, so that emptying the pipe leads to it.  NoWakeAfterClose *)
(* rests on SendersCounted: u.fd counts the senders in the section that    *)
(* uv_close() waits for, and on ShutSet: the flag of a handle that is      *)
(* being closed, or is closed, stays set, so that a sender that enters     *)
(* later goes through that section without waking anybody.                 *)
(***************************************************************************)

\* The section between the two changes of u.fd.
Section == {"marking", "waking", "leaving"}
Inside(h) == {p \in Senders : sender[p].to = h /\ sender[p].at \in Section}

SendersCounted == \A h \in Asyncs : busy[h] = Cardinality(Inside(h))
AsyncListed == /\ \A h \in Asyncs \ gone : h \in asyncHandles \cup asyncLeft
               /\ gone \cap (asyncHandles \cup asyncLeft) = {}
ShutSet == /\ closing \notin gone
           /\ closing # NoAsync => pending[closing]
           /\ \A h \in gone : pending[h]

AsyncInv == /\ AsyncTypeOK /\ SendersCounted /\ AsyncListed /\ ShutSet
        /\ NoSendIsLost /\ NoWakeAfterClose

-----------------------------------------------------------------------------
\* Lemmas on the count of the senders.

LEMMA InsideFinite == ASSUME NEW h \in Asyncs
                      PROVE /\ IsFiniteSet(Inside(h))
                            /\ Cardinality(Inside(h)) \in Nat
                            /\ Cardinality(Inside(h)) = 0 => Inside(h) = {}
<1>1. IsFiniteSet(Inside(h))
  BY AsyncAssumption, FS_Subset DEF Inside
<1> QED
  BY <1>1, FS_CardinalityType, FS_EmptySet

\* A step that keeps every sender where it is as to the section keeps the counts.
LEMMA SameInside ==
  ASSUME SendersCounted, UNCHANGED busy,
         \A g \in Asyncs, q \in Senders :
            (q \in Inside(g))' <=> q \in Inside(g)
  PROVE  SendersCounted'
<1>1. \A g \in Asyncs : Inside(g)' = Inside(g)
  BY DEF Inside
<1> QED
  BY <1>1 DEF SendersCounted

LEMMA EntersSection ==
  ASSUME AsyncTypeOK, SendersCounted, NEW p \in Senders, NEW h \in Asyncs, SendEnters(p, h)
  PROVE  SendersCounted'
<1>1. Inside(h)' = Inside(h) \cup {p} /\ p \notin Inside(h)
  BY DEF SendEnters, At, Go, Inside, AsyncTypeOK, Section
<1>2. \A g \in Asyncs \ {h} : Inside(g)' = Inside(g)
  BY DEF SendEnters, At, Go, Inside, AsyncTypeOK, Section
<1>3. Cardinality(Inside(h)') = Cardinality(Inside(h)) + 1
  BY <1>1, InsideFinite, FS_AddElement
<1>4. busy' = [busy EXCEPT ![h] = @ + 1]
  BY DEF SendEnters
<1> QED
  BY <1>2, <1>3, <1>4 DEF SendersCounted, AsyncTypeOK

LEMMA LeavesSection ==
  ASSUME AsyncTypeOK, SendersCounted, NEW p \in Senders, NEW h \in Asyncs, SendLeaves(p, h)
  PROVE  /\ SendersCounted'
         /\ busy[h] - 1 \in Nat
<1>1. Inside(h)' = Inside(h) \ {p} /\ p \in Inside(h)
  BY AsyncAssumption DEF SendLeaves, At, Inside, AsyncTypeOK, Section, Out
<1>2. \A g \in Asyncs \ {h} : Inside(g)' = Inside(g)
  BY AsyncAssumption DEF SendLeaves, At, Inside, AsyncTypeOK, Section, Out
<1>3. Cardinality(Inside(h)') = Cardinality(Inside(h)) - 1 /\ Cardinality(Inside(h)) # 0
  BY <1>1, InsideFinite, FS_RemoveElement, FS_EmptySet
<1>4. busy' = [busy EXCEPT ![h] = @ - 1]
  BY DEF SendLeaves
<1> QED
  BY <1>2, <1>3, <1>4, InsideFinite DEF SendersCounted, AsyncTypeOK

-----------------------------------------------------------------------------
\* The invariant.

LEMMA AsyncStart == AsyncInit => AsyncInv
<1> SUFFICES ASSUME AsyncInit PROVE AsyncInv
  OBVIOUS
<1> USE AsyncAssumption DEF AsyncInit, Out
<1>1. AsyncTypeOK
  BY DEF AsyncTypeOK, SenderStates
<1>2. SendersCounted
  <2>1. \A h \in Asyncs : Inside(h) = {}
    BY DEF Inside, Section
  <2> QED
    BY <2>1, FS_EmptySet DEF SendersCounted
<1>3. AsyncListed /\ ShutSet /\ NoSendIsLost /\ NoWakeAfterClose
  BY DEF AsyncListed, ShutSet, NoSendIsLost, NoWakeAfterClose
<1> QED
  BY <1>1, <1>2, <1>3 DEF AsyncInv

LEMMA SenderStep ==
  ASSUME AsyncInv, NEW p \in Senders, NEW h \in Asyncs,
         \/ SendReads(p, h) \/ SendEnters(p, h) \/ SendMarks(p, h)
         \/ SendWakes(p, h) \/ SendLeaves(p, h)
  PROVE  AsyncInv'
<1> USE AsyncAssumption DEF AsyncInv, loopVars, At, Go
<1>1. CASE SendReads(p, h)
  <2> USE DEF SendReads, Out
  <2>1. AsyncTypeOK'
    BY <1>1 DEF AsyncTypeOK, SenderStates
  <2>2. SendersCounted'
    BY <1>1, SameInside DEF AsyncTypeOK, Inside, Section
  <2>3. AsyncListed' /\ ShutSet'
    BY <1>1 DEF AsyncListed, ShutSet
  <2>4. NoSendIsLost' /\ NoWakeAfterClose'
    BY <1>1 DEF NoSendIsLost, NoWakeAfterClose, AsyncTypeOK
  <2> QED
    BY <2>1, <2>2, <2>3, <2>4
<1>2. CASE SendEnters(p, h)
  <2> USE DEF SendEnters
  <2>1. AsyncTypeOK'
    BY <1>2 DEF AsyncTypeOK, SenderStates
  <2>2. SendersCounted'
    BY <1>2, EntersSection
  <2>3. AsyncListed' /\ ShutSet'
    BY <1>2 DEF AsyncListed, ShutSet
  <2>4. NoSendIsLost' /\ NoWakeAfterClose'
    BY <1>2 DEF NoSendIsLost, NoWakeAfterClose, AsyncTypeOK
  <2> QED
    BY <2>1, <2>2, <2>3, <2>4
<1>3. CASE SendMarks(p, h)
  <2> USE DEF SendMarks
  <2>1. AsyncTypeOK'
    BY <1>3 DEF AsyncTypeOK, SenderStates
  <2>2. SendersCounted'
    BY <1>3, SameInside DEF AsyncTypeOK, Inside, Section
  <2>3. AsyncListed' /\ ShutSet'
    BY <1>3 DEF AsyncListed, ShutSet, AsyncTypeOK
  <2>4. NoSendIsLost'
    BY <1>3 DEF NoSendIsLost, AsyncTypeOK
  <2>5. NoWakeAfterClose'
    BY <1>3 DEF NoWakeAfterClose, ShutSet, AsyncTypeOK
  <2> QED
    BY <2>1, <2>2, <2>3, <2>4, <2>5
<1>4. CASE SendWakes(p, h)
  <2> USE DEF SendWakes
  <2>1. AsyncTypeOK' /\ wakeups' > 0
    BY <1>4 DEF AsyncTypeOK, SenderStates
  <2>2. SendersCounted'
    BY <1>4, SameInside DEF AsyncTypeOK, Inside, Section
  <2>3. AsyncListed' /\ ShutSet'
    BY <1>4 DEF AsyncListed, ShutSet
  <2>4. NoSendIsLost' /\ NoWakeAfterClose'
    BY <1>4, <2>1 DEF NoSendIsLost, NoWakeAfterClose, AsyncTypeOK
  <2> QED
    BY <2>1, <2>2, <2>3, <2>4
<1>5. CASE SendLeaves(p, h)
  <2> USE DEF SendLeaves, Out
  <2>1. AsyncTypeOK'
    BY <1>5, LeavesSection DEF AsyncTypeOK, SenderStates
  <2>2. SendersCounted'
    BY <1>5, LeavesSection
  <2>3. AsyncListed' /\ ShutSet'
    BY <1>5 DEF AsyncListed, ShutSet
  <2>4. NoSendIsLost' /\ NoWakeAfterClose'
    BY <1>5 DEF NoSendIsLost, NoWakeAfterClose, AsyncTypeOK
  <2> QED
    BY <2>1, <2>2, <2>3, <2>4
<1> QED
  BY <1>1, <1>2, <1>3, <1>4, <1>5

\* The loop thread leaves the senders and their counts alone.
LEMMA LoopThreadStep ==
  ASSUME AsyncInv, AsyncLoop \/ \E h \in Asyncs : AsyncCloses(h)
  PROVE  AsyncInv'
<1> USE AsyncAssumption DEF AsyncInv, sendVars
<1>1. ASSUME UNCHANGED sendVars, SendersCounted PROVE SendersCounted'
  <2>1. \A h \in Asyncs : Inside(h)' = Inside(h)
    BY <1>1 DEF Inside
  <2> QED
    BY <1>1, <2>1 DEF SendersCounted
<1>2. CASE AsyncDrains
  <2> USE DEF AsyncDrains
  <2>1. AsyncTypeOK' /\ SendersCounted'
    BY <1>1, <1>2 DEF AsyncTypeOK
  <2>2. AsyncListed' /\ ShutSet'
    BY <1>2 DEF AsyncListed, ShutSet
  <2>3. NoSendIsLost' /\ NoWakeAfterClose'
    BY <1>2 DEF NoSendIsLost, NoWakeAfterClose, AsyncListed, At
  <2> QED
    BY <2>1, <2>2, <2>3
<1>3. ASSUME NEW h \in Asyncs, AsyncTakes(h) PROVE AsyncInv'
  <2> USE DEF AsyncTakes
  <2>1. AsyncTypeOK' /\ SendersCounted'
    BY <1>1, <1>3 DEF AsyncTypeOK
  <2>2. AsyncListed' /\ ShutSet'
    BY <1>3 DEF AsyncListed, ShutSet, AsyncTypeOK
  <2>3. NoSendIsLost' /\ NoWakeAfterClose'
    BY <1>3 DEF NoSendIsLost, NoWakeAfterClose, AsyncTypeOK, At
  <2> QED
    BY <2>1, <2>2, <2>3
<1>4. CASE AsyncReturns
  <2> USE DEF AsyncReturns
  <2>1. AsyncTypeOK' /\ SendersCounted'
    BY <1>1, <1>4 DEF AsyncTypeOK
  <2>2. AsyncListed' /\ ShutSet' /\ NoSendIsLost' /\ NoWakeAfterClose'
    BY <1>4 DEF AsyncListed, ShutSet, NoSendIsLost, NoWakeAfterClose, At
  <2> QED
    BY <2>1, <2>2
<1>5. CASE AsyncClosed
  <2> USE DEF AsyncClosed
  <2>1. AsyncTypeOK' /\ SendersCounted'
    BY <1>1, <1>5 DEF AsyncTypeOK
  <2>2. AsyncListed' /\ ShutSet'
    BY <1>5 DEF AsyncListed, ShutSet, AsyncTypeOK
  <2>3. NoSendIsLost'
    BY <1>5 DEF NoSendIsLost, At, AsyncTypeOK
  <2>4. \A p \in Senders : ~At(p, closing, "waking")
    <3>1. Inside(closing) = {}
      BY <1>5, InsideFinite DEF SendersCounted, AsyncTypeOK
    <3> QED
      BY <3>1 DEF Inside, Section, At, AsyncTypeOK
  <2>5. NoWakeAfterClose'
    BY <1>5, <2>4 DEF NoWakeAfterClose, At, AsyncTypeOK
  <2> QED
    BY <2>1, <2>2, <2>3, <2>5
<1>6. ASSUME NEW h \in Asyncs, AsyncCloses(h) PROVE AsyncInv'
  <2> USE DEF AsyncCloses
  <2>1. AsyncTypeOK' /\ SendersCounted'
    BY <1>1, <1>6 DEF AsyncTypeOK
  <2>2. AsyncListed' /\ ShutSet'
    BY <1>6 DEF AsyncListed, ShutSet, AsyncTypeOK
  <2>3. NoSendIsLost' /\ NoWakeAfterClose'
    BY <1>6 DEF NoSendIsLost, NoWakeAfterClose, AsyncTypeOK, At
  <2> QED
    BY <2>1, <2>2, <2>3
<1> QED
  BY <1>2, <1>3, <1>4, <1>5, <1>6 DEF AsyncLoop

\* The invariant is inductive.
LEMMA AsyncInductive == AsyncInv /\ [AsyncNext]_asyncVars => AsyncInv'
<1> SUFFICES ASSUME AsyncInv, [AsyncNext]_asyncVars PROVE AsyncInv'
  OBVIOUS
<1>1. CASE AsyncNext
  BY <1>1, SenderStep, LoopThreadStep DEF AsyncNext, Send
<1>2. CASE UNCHANGED asyncVars
  BY <1>2 DEF asyncVars, AsyncInv, AsyncTypeOK, SendersCounted, Inside, AsyncListed, ShutSet,
              NoSendIsLost, NoWakeAfterClose, At
<1> QED
  BY <1>1, <1>2

LEMMA AsyncConcludes == AsyncInv => AsyncTypeOK /\ NoSendIsLost /\ NoWakeAfterClose
  BY DEF AsyncInv

LEMMA AsyncAlways == AsyncSpec => []AsyncInv
  BY AsyncStart, AsyncInductive, PTL DEF AsyncSpec

-----------------------------------------------------------------------------
\* The results.

\* A flag set by uv_async_send() is always seen: a wakeup is in the pipe or on its way,
\* or the loop is on its way to the handle, however the sends and uv_close() overlap.
THEOREM SendsArrive == AsyncSpec => []NoSendIsLost
  BY AsyncAlways, AsyncConcludes, PTL

\* Once uv_close() of an async handle has returned nobody wakes the loop for it.
THEOREM ClosedStaysQuiet == AsyncSpec => []NoWakeAfterClose
  BY AsyncAlways, AsyncConcludes, PTL

-----------------------------------------------------------------------------
(***************************************************************************)
(* For any number of threads and requests: the thread pool keeps the       *)
(* promise of WorkPromise.  A request is run by one thread or cancelled    *)
(* before it has begun, never both, it is answered once, and no more slow  *)
(* requests run at a time than the threshold allows.                       *)
(*                                                                         *)
(* PoolInv says where each request is: waiting for a worker, run by one,   *)
(* taken out of the queues by uv_cancel(), or handed to the loop, and      *)
(* never in two of these places, nor twice in a queue.  Neither mutex      *)
(* occurs in it: what a worker or the loop does while it holds one is a    *)
(* step of the model, and these steps keep the places apart in any order.  *)
(***************************************************************************)

Runner(t, w)  == worker[t] = "running" /\ task[t] = w
Requeueing(w) == loopAt = "requeueing" /\ target = w
WorkWaits(w)  == In(w, wq) \/ In(w, slowPending)
Handed(w)     == In(w, loopWq) \/ In(w, answering)

(* No request is twice in the queue q.                                     *)
Once(q) == \A i, j \in DOMAIN q : q[i] = q[j] /\ q[i] \in Works => i = j

PoolMessages == {SlowMessage, ExitMessage}

WorkerStates == {"waiting", "woken", "ready", "locked", "running",
                 "publishing", "sending", "exited"}

PoolShape ==
  /\ wq \in Seq(Works \cup PoolMessages)
  /\ slowPending \in Seq(SlowWorks)
  /\ loopWq \in Seq(Works) /\ answering \in Seq(Works)
  /\ worker \in [Workers -> WorkerStates]
  /\ task \in [Workers -> Works \cup {NoWork}]
  /\ work \in [Works -> {"idle", "function", "null", "cancelled"}]
  /\ loopAt \in LoopStates /\ backTo \in {"polling", "callback"}
  /\ target \in Works \cup {NoWork}
  /\ slowRunning \in Nat

PoolQueues == /\ Once(wq) /\ Once(slowPending) /\ Once(loopWq) /\ Once(answering)
              /\ \A w \in SlowWorks : ~In(w, wq)

Tasks == /\ \A t \in Workers : /\ worker[t] = "locked" => task[t] = NoWork
                               /\ worker[t] = "running" => task[t] \in Works
         /\ loopAt \in {"cancelling", "requeueing"} => target \in Works

Apart == \A w \in Works :
  /\ WorkWaits(w) => work[w] = "function" /\ ~Requeueing(w)
  /\ Requeueing(w) => work[w] \in {"function", "cancelled"} /\ ~Handed(w)
  /\ Handed(w) => work[w] \in {"null", "cancelled"}
  /\ ~(In(w, loopWq) /\ In(w, answering))
  /\ \A t \in Workers :
       Runner(t, w) => /\ work[w] = "function" /\ ~Requeueing(w) /\ ~WorkWaits(w)
                       /\ \A u \in Workers : Runner(u, w) => u = t

SlowHolders == {t \in Workers : task[t] \in SlowWorks}

PoolInv == PoolShape /\ PoolQueues /\ Tasks /\ Apart /\ slowRunning = Cardinality(SlowHolders)

-----------------------------------------------------------------------------
(* What the operations on queues do to their elements.                     *)

LEMMA EmptyQueue == Once(<<>>) /\ \A y : ~In(y, <<>>)
  BY DEF Once, In

(* A request that is appended to a queue it is not on is on it once.       *)
LEMMA AppendKeeps ==
  ASSUME NEW S, NEW q \in Seq(S), NEW x \in S
  PROVE  /\ Append(q, x) \in Seq(S)
         /\ \A y : In(y, Append(q, x)) <=> In(y, q) \/ y = x
         /\ Once(q) /\ (x \in Works => ~In(x, q)) => Once(Append(q, x))
  <1>1. Append(q, x) \in Seq(S) /\ Len(Append(q, x)) = Len(q) + 1
    OBVIOUS
  <1>2. /\ \A i \in 1..Len(q) : Append(q, x)[i] = q[i]
        /\ Append(q, x)[Len(q) + 1] = x
    OBVIOUS
  <1>3. DOMAIN q = 1..Len(q) /\ DOMAIN Append(q, x) = 1..Len(q) + 1 /\ Len(q) \in Nat
    BY <1>1
  <1>4. ASSUME NEW y
        PROVE  In(y, Append(q, x)) <=> In(y, q) \/ y = x
    <2>1. ASSUME In(y, Append(q, x)) PROVE In(y, q) \/ y = x
      <3>1. PICK i \in 1..Len(q) + 1 : Append(q, x)[i] = y
        BY <2>1, <1>3 DEF In
      <3> QED BY <3>1, <1>2, <1>3 DEF In
    <2>2. ASSUME In(y, q) PROVE In(y, Append(q, x))
      BY <2>2, <1>2, <1>3 DEF In
    <2>3. In(x, Append(q, x))
      BY <1>2, <1>3 DEF In
    <2> QED BY <2>1, <2>2, <2>3
  <1>5. ASSUME Once(q), x \in Works => ~In(x, q)
        PROVE  Once(Append(q, x))
    BY <1>5, <1>2, <1>3 DEF Once, In
  <1> QED BY <1>1, <1>4, <1>5

(* A queue without its head.                                               *)
LEMMA TailKeeps ==
  ASSUME NEW S, NEW q \in Seq(S), q # <<>>
  PROVE  /\ Head(q) \in S /\ In(Head(q), q) /\ Tail(q) \in Seq(S)
         /\ \A y : In(y, Tail(q)) => In(y, q)
         /\ \A y : In(y, q) => In(y, Tail(q)) \/ y = Head(q)
         /\ Once(q) => Once(Tail(q))
         /\ Once(q) /\ Head(q) \in Works => ~In(Head(q), Tail(q))
  <1>1. /\ Tail(q) \in Seq(S) /\ Len(q) \in Nat \ {0}
        /\ DOMAIN q = 1..Len(q) /\ DOMAIN Tail(q) = 1..Len(q) - 1
        /\ Head(q) = q[1] /\ Head(q) \in S
    OBVIOUS
  <1>2. \A i \in 1..Len(q) - 1 : Tail(q)[i] = q[i + 1] /\ i + 1 \in 1..Len(q)
    BY <1>1
  <1>3. In(Head(q), q)
    BY <1>1 DEF In
  <1>4. ASSUME NEW y, In(y, Tail(q)) PROVE In(y, q)
    BY <1>4, <1>1, <1>2 DEF In
  <1>5. ASSUME NEW y, In(y, q) PROVE In(y, Tail(q)) \/ y = Head(q)
    <2>1. PICK i \in 1..Len(q) : q[i] = y
      BY <1>5, <1>1 DEF In
    <2>2. CASE i = 1
      BY <2>1, <2>2, <1>1
    <2>3. CASE i # 1
      <3>1. i - 1 \in 1..Len(q) - 1 /\ (i - 1) + 1 = i
        BY <2>3, <1>1
      <3> QED BY <3>1, <2>1, <1>1, <1>2 DEF In
    <2> QED BY <2>2, <2>3
  <1>6. ASSUME Once(q) PROVE Once(Tail(q))
    BY <1>6, <1>1, <1>2 DEF Once
  <1>7. ASSUME Once(q), Head(q) \in Works PROVE ~In(Head(q), Tail(q))
    BY <1>7, <1>1, <1>2 DEF Once, In
  <1> QED BY <1>1, <1>3, <1>4, <1>5, <1>6, <1>7

(* Unlinking a request takes it, and it alone, off its queue.              *)
LEMMA UnlinkKeeps ==
  ASSUME NEW S, NEW q \in Seq(S), NEW x \in Works, Once(q)
  PROVE  /\ Unlink(x, q) \in Seq(S) /\ Once(Unlink(x, q))
         /\ ~In(x, Unlink(x, q))
         /\ \A y : y # x => (In(y, Unlink(x, q)) <=> In(y, q))
  <1>1. CASE ~In(x, q)
    BY <1>1 DEF Unlink
  <1>2. CASE In(x, q)
    <2> DEFINE k == CHOOSE i \in DOMAIN q : q[i] = x
               r == Unlink(x, q)
    <2>1. k \in DOMAIN q /\ q[k] = x
      BY <1>2 DEF In
    <2> HIDE DEF k
    <2>2. Len(q) \in Nat /\ DOMAIN q = 1..Len(q) /\ k \in 1..Len(q)
      BY <2>1
    <2>3. r = SubSeq(q, 1, k - 1) \o SubSeq(q, k + 1, Len(q))
      BY <1>2 DEF Unlink, RemoveAt, k
    <2> DEFINE before == SubSeq(q, 1, k - 1)
               after  == SubSeq(q, k + 1, Len(q))
    <2>4. /\ before \in Seq(S) /\ Len(before) = k - 1
          /\ \A i \in 1..k - 1 : before[i] = q[i]
      <3>1. \A i \in 1..k - 1 : q[i] \in S
        BY <2>2
      <3> QED BY <3>1, <2>2, SubSeqProperties
    <2>5. /\ after \in Seq(S) /\ Len(after) = Len(q) - k
          /\ \A i \in 1..Len(q) - k : after[i] = q[k + i]
      <3>1. \A i \in k + 1..Len(q) : q[i] \in S
        BY <2>2
      <3>2. /\ after \in Seq(S)
            /\ Len(after) = IF k + 1 <= Len(q) THEN Len(q) - (k + 1) + 1 ELSE 0
            /\ \A i \in 1..Len(q) - (k + 1) + 1 : after[i] = q[(k + 1) + i - 1]
        BY <3>1, <2>2, SubSeqProperties
      <3> HIDE DEF after
      <3>3. Len(after) = Len(q) - k
        <4>1. ASSUME NEW n \in Nat, k \in 1..n
              PROVE  (IF k + 1 <= n THEN n - (k + 1) + 1 ELSE 0) = n - k
          BY <4>1
        <4> QED BY <4>1, <3>2, <2>2
      <3>4. ASSUME NEW i \in 1..Len(q) - k PROVE after[i] = q[k + i]
        <4>1. Len(q) \in Int /\ k \in Int /\ i \in Int /\ i \in 1..Len(q) - k
          BY <3>4, <2>2
        <4>2. Len(q) - (k + 1) + 1 = Len(q) - k /\ (k + 1) + i - 1 = k + i
          BY <4>1
        <4> QED BY <4>1, <4>2, <3>2
      <3> QED BY <3>2, <3>3, <3>4
    <2> HIDE DEF before, after
    <2>6. /\ r \in Seq(S) /\ Len(r) = Len(q) - 1 /\ DOMAIN r = 1..Len(q) - 1
          /\ \A i \in 1..Len(q) - 1 :
               r[i] = IF i <= k - 1 THEN before[i] ELSE after[i - (k - 1)]
      <3>1. r = before \o after
        BY <2>3 DEF before, after
      <3> HIDE DEF r
      <3>2. /\ r \in Seq(S) /\ Len(r) = Len(before) + Len(after)
            /\ \A i \in 1..Len(before) + Len(after) :
                 r[i] = IF i <= Len(before) THEN before[i] ELSE after[i - Len(before)]
        BY <3>1, <2>4, <2>5, ConcatProperties
      <3>3. /\ r \in Seq(S) /\ Len(r) = (k - 1) + (Len(q) - k)
            /\ \A i \in 1..(k - 1) + (Len(q) - k) :
                 r[i] = IF i <= k - 1 THEN before[i] ELSE after[i - (k - 1)]
        BY <3>2, <2>4, <2>5
      <3>4. (k - 1) + (Len(q) - k) = Len(q) - 1
        BY <2>2
      <3> QED BY <3>3, <3>4
    <2>7. \A i \in 1..Len(q) - 1 : r[i] = IF i < k THEN q[i] ELSE q[i + 1]
      <3> SUFFICES ASSUME NEW i \in 1..Len(q) - 1
                   PROVE  r[i] = IF i < k THEN q[i] ELSE q[i + 1]
        OBVIOUS
      <3>1. CASE i < k
        <4>1. i \in 1..k - 1
          BY <3>1, <2>2
        <4> QED BY <4>1, <3>1, <2>4, <2>6
      <3>2. CASE ~(i < k)
        <4>1. /\ i - (k - 1) \in 1..Len(q) - k /\ k + (i - (k - 1)) = i + 1
              /\ ~(i <= k - 1)
          BY <3>2, <2>2
        <4>2. r[i] = after[i - (k - 1)]
          BY <4>1, <2>6
        <4> QED BY <4>1, <4>2, <3>2, <2>5
      <3> QED BY <3>1, <3>2
    <2> HIDE DEF r
    <2>8. ASSUME NEW i \in DOMAIN q, q[i] = x PROVE i = k
      BY <2>8, <2>1 DEF Once
    <2>9. Once(r)
      <3> SUFFICES ASSUME NEW i \in 1..Len(q) - 1, NEW j \in 1..Len(q) - 1,
                          r[i] = r[j], r[i] \in Works
                   PROVE  i = j
        BY <2>6 DEF Once
      <3>1. PICK m \in 1..Len(q) : r[i] = q[m] /\ m = IF i < k THEN i ELSE i + 1
        BY <2>2, <2>7
      <3>2. PICK n \in 1..Len(q) : r[j] = q[n] /\ n = IF j < k THEN j ELSE j + 1
        BY <2>2, <2>7
      <3>3. m = n
        BY <3>1, <3>2, <2>2 DEF Once
      <3> QED BY <3>1, <3>2, <3>3, <2>2
    <2>10. ASSUME NEW y, In(y, r) PROVE In(y, q) /\ y # x
      <3>1. PICK i \in 1..Len(q) - 1 : r[i] = y
        BY <2>10, <2>6 DEF In
      <3>2. PICK m \in 1..Len(q) : y = q[m] /\ m # k
        BY <3>1, <2>2, <2>7
      <3> QED BY <3>2, <2>2, <2>8 DEF In
    <2>11. ASSUME NEW y, y # x, In(y, q) PROVE In(y, r)
      <3>1. PICK i \in 1..Len(q) : q[i] = y
        BY <2>11, <2>2 DEF In
      <3>2. CASE i < k
        <4>1. i \in 1..Len(q) - 1 /\ r[i] = y
          BY <3>1, <3>2, <2>2, <2>7
        <4> QED BY <4>1, <2>6 DEF In
      <3>3. CASE i > k
        <4>1. i - 1 \in 1..Len(q) - 1 /\ ~(i - 1 < k) /\ (i - 1) + 1 = i
          BY <3>3, <2>2
        <4>2. r[i - 1] = y
          BY <4>1, <3>1, <2>7
        <4> QED BY <4>1, <4>2, <2>6 DEF In
      <3>4. i # k
        BY <3>1, <2>1, <2>11
      <3> QED BY <3>2, <3>3, <3>4, <2>2
    <2> QED BY <2>6, <2>9, <2>10, <2>11 DEF r
  <1> QED BY <1>1, <1>2

-----------------------------------------------------------------------------
(* What a step does to the promise: nothing, or one request moves on.      *)
Stays == \A w \in Works : Status(w)' = Status(w)

Moves(w, from, to) == /\ Status(w) = from /\ Status(w)' = to
                      /\ \A v \in Works \ {w} : Status(v)' = Status(v)

(* Waking a thread is neither running a request nor holding the mutex.     *)
LEMMA SignalledKeeps ==
  ASSUME NEW others \in [Workers -> WorkerStates], NEW next \in Signalled(others)
  PROVE  /\ next \in [Workers -> WorkerStates]
         /\ \A t \in Workers : /\ next[t] = "running" <=> others[t] = "running"
                               /\ next[t] = "locked" <=> others[t] = "locked"
  BY DEF Signalled, WorkerStates

(* The steps that leave every request where it is: threads wait, wake,     *)
(* announce and exit, messages come and go, the loop goes from one         *)
(* callback to the next, and uv_cancel() begins or gives up.               *)
LEMMA QuietKeeps ==
  ASSUME PoolInv,
         UNCHANGED <<slowPending, loopWq, answering, task, work, slowRunning>>,
         wq' \in Seq(Works \cup PoolMessages), Once(wq'),
         \A w \in Works : In(w, wq') <=> In(w, wq),
         worker' \in [Workers -> WorkerStates],
         \A t \in Workers : /\ worker'[t] = "running" <=> worker[t] = "running"
                            /\ worker'[t] = "locked" => worker[t] = "locked",
         loopAt' \in LoopStates, backTo' \in {"polling", "callback"},
         target' \in Works \cup {NoWork},
         loopAt' = "cancelling" => target' \in Works,
         "requeueing" \in {loopAt, loopAt'} => UNCHANGED <<loopAt, target>>
  PROVE  PoolInv' /\ Stays
  <1> USE DEF PoolInv
  <1>1. PoolShape'
    BY DEF PoolShape
  <1>2. PoolQueues'
    BY PoolAssumption DEF PoolQueues
  <1>3. Tasks'
    BY DEF Tasks
  <1>4. \A w \in Works : /\ WorkWaits(w)' <=> WorkWaits(w)
                         /\ Handed(w)' <=> Handed(w)
                         /\ Requeueing(w)' <=> Requeueing(w)
                         /\ \A t \in Workers : Runner(t, w)' <=> Runner(t, w)
    BY DEF WorkWaits, Handed, Requeueing, Runner
  <1>5. Apart'
    BY <1>4 DEF Apart
  <1>6. (slowRunning = Cardinality(SlowHolders))'
    BY DEF SlowHolders
  <1>7. Stays
    <2> SUFFICES ASSUME NEW w \in Works PROVE Status(w)' = Status(w)
      BY DEF Stays
    <2> QED BY <1>4 DEF Status, Requeueing, Runner
  <1> QED BY <1>1, <1>2, <1>3, <1>5, <1>6, <1>7

(* The messages in the queue of the workers are not requests.              *)
LEMMA MessagesKeep ==
  ASSUME PoolInv, NEW x \in PoolMessages
  PROVE  /\ Append(wq, x) \in Seq(Works \cup PoolMessages) /\ Once(Append(wq, x))
         /\ \A w \in Works : In(w, Append(wq, x)) <=> In(w, wq)
  <1>1. wq \in Seq(Works \cup PoolMessages) /\ Once(wq) /\ x \notin Works
    BY PoolAssumption DEF PoolInv, PoolShape, PoolQueues, PoolMessages
  <1> QED BY <1>1, AppendKeeps

LEMMA MessageLeaves ==
  ASSUME PoolInv, wq # <<>>, Head(wq) \in PoolMessages
  PROVE  /\ Tail(wq) \in Seq(Works \cup PoolMessages) /\ Once(Tail(wq))
         /\ \A w \in Works : In(w, Tail(wq)) <=> In(w, wq)
         /\ \A x \in PoolMessages :
              /\ Append(Tail(wq), x) \in Seq(Works \cup PoolMessages)
              /\ Once(Append(Tail(wq), x))
              /\ \A w \in Works : In(w, Append(Tail(wq), x)) <=> In(w, wq)
  <1>1. wq \in Seq(Works \cup PoolMessages) /\ Once(wq)
    BY DEF PoolInv, PoolShape, PoolQueues
  <1>2. \A x \in PoolMessages : x \notin Works
    BY PoolAssumption DEF PoolMessages
  <1>3. /\ Tail(wq) \in Seq(Works \cup PoolMessages) /\ Once(Tail(wq))
        /\ \A w \in Works : In(w, Tail(wq)) <=> In(w, wq)
    BY <1>1, <1>2, TailKeeps
  <1>4. ASSUME NEW x \in PoolMessages
        PROVE  /\ Append(Tail(wq), x) \in Seq(Works \cup PoolMessages)
               /\ Once(Append(Tail(wq), x))
               /\ \A w \in Works : In(w, Append(Tail(wq), x)) <=> In(w, wq)
    <2> DEFINE q == Tail(wq)
    <2>1. x \notin Works /\ x \in Works \cup PoolMessages
      BY <1>2
    <2>2. q \in Seq(Works \cup PoolMessages) /\ Once(q)
      BY <1>3
    <2> HIDE DEF q
    <2>3. /\ Append(q, x) \in Seq(Works \cup PoolMessages) /\ Once(Append(q, x))
          /\ \A w : In(w, Append(q, x)) <=> In(w, q) \/ w = x
      BY <2>1, <2>2, AppendKeeps
    <2> QED BY <2>1, <2>3, <1>3 DEF q
  <1> QED BY <1>3, <1>4

(* Each quiet step of a worker.                                            *)
LEMMA QuietWorker ==
  ASSUME PoolInv, NEW t \in Workers,
         \/ WorkerWaits(t) \/ WorkerExits(t) \/ WorkerPostpones(t)
         \/ WorkerStartsOver(t) \/ WorkerAnnounces(t)
  PROVE  PoolInv' /\ Stays
  <1> USE DEF queueVars, poolSide, loopSide, cancelVars
  <1>1. /\ wq \in Seq(Works \cup PoolMessages) /\ Once(wq)
        /\ worker \in [Workers -> WorkerStates] /\ loopAt \in LoopStates
        /\ backTo \in {"polling", "callback"} /\ target \in Works \cup {NoWork}
        /\ loopAt = "cancelling" => target \in Works
    BY DEF PoolInv, PoolShape, PoolQueues, Tasks
  <1>2. CASE WorkerWaits(t)
    BY <1>1, <1>2, QuietKeeps DEF WorkerWaits, WorkerStates
  <1>3. CASE WorkerExits(t)
    <2>1. /\ worker' \in [Workers -> WorkerStates]
          /\ \A u \in Workers : /\ worker'[u] = "running" <=> worker[u] = "running"
                                /\ worker'[u] = "locked" => worker[u] = "locked"
      BY <1>1, <1>3 DEF WorkerExits, WorkerStates
    <2> QED BY <1>1, <1>3, <2>1, QuietKeeps DEF WorkerExits
  <1>4. CASE WorkerPostpones(t)
    <2>1. Append(Tail(wq), SlowMessage) \in Seq(Works \cup PoolMessages)
          /\ Once(wq') /\ \A w \in Works : In(w, wq') <=> In(w, wq)
      BY <1>4, MessageLeaves DEF WorkerPostpones, PoolMessages
    <2> QED BY <1>1, <1>4, <2>1, QuietKeeps DEF WorkerPostpones
  <1>5. CASE WorkerStartsOver(t)
    <2>1. Tail(wq) \in Seq(Works \cup PoolMessages)
          /\ Once(wq') /\ \A w \in Works : In(w, wq') <=> In(w, wq)
      BY <1>5, MessageLeaves DEF WorkerStartsOver, PoolMessages
    <2> QED BY <1>1, <1>5, <2>1, QuietKeeps DEF WorkerStartsOver
  <1>6. CASE WorkerAnnounces(t)
    <2>1. /\ worker' \in [Workers -> WorkerStates]
          /\ \A u \in Workers : /\ worker'[u] = "running" <=> worker[u] = "running"
                                /\ worker'[u] = "locked" => worker[u] = "locked"
      BY <1>1, <1>6 DEF WorkerAnnounces, WorkerStates
    <2> QED BY <1>1, <1>6, <2>1, QuietKeeps DEF WorkerAnnounces
  <1> QED BY <1>2, <1>3, <1>4, <1>5, <1>6

(* Each quiet step of the loop thread.                                     *)
LEMMA QuietLoop ==
  ASSUME PoolInv,
         \/ \E w \in Works : CancelLocks(w)
         \/ CancelAnnounces \/ LoopWakes \/ LoopLooks \/ LoopReturns \/ ShutDown
         \/ UNCHANGED poolVars
  PROVE  PoolInv' /\ Stays
  <1> USE DEF queueVars, poolSide, poolVars, cancelVars, loopQuiet
  <1>1. /\ wq \in Seq(Works \cup PoolMessages) /\ Once(wq)
        /\ worker \in [Workers -> WorkerStates] /\ loopAt \in LoopStates
        /\ backTo \in {"polling", "callback"} /\ target \in Works \cup {NoWork}
        /\ loopAt = "cancelling" => target \in Works
    BY DEF PoolInv, PoolShape, PoolQueues, Tasks
  <1>2. ASSUME NEW w \in Works, CancelLocks(w)
        PROVE  PoolInv' /\ Stays
    BY <1>1, <1>2, QuietKeeps DEF CancelLocks, InUserCode, LoopStates
  <1>3. CASE CancelAnnounces
    <2>1. /\ loopAt' \in LoopStates /\ target' \in Works \cup {NoWork}
          /\ loopAt' # "cancelling" /\ "requeueing" \notin {loopAt, loopAt'}
      BY <1>1, <1>3 DEF CancelAnnounces, LoopStates
    <2> QED BY <1>1, <1>3, <2>1, QuietKeeps DEF CancelAnnounces
  <1>4. CASE LoopReturns
    BY <1>1, <1>4, QuietKeeps DEF LoopReturns, LoopStates
  <1>5. CASE ShutDown
    <2>1. /\ wq' \in Seq(Works \cup PoolMessages) /\ Once(wq')
          /\ \A w \in Works : In(w, wq') <=> In(w, wq)
      BY <1>5, MessagesKeep DEF ShutDown, Post, PoolMessages
    <2>2. worker' \in Signalled(worker)
      BY <1>5 DEF ShutDown, Post
    <2> QED BY <1>1, <1>5, <2>1, <2>2, SignalledKeeps, QuietKeeps
            DEF ShutDown, LoopStates
  <1>6. CASE UNCHANGED poolVars
    BY <1>1, <1>6, QuietKeeps
  <1> QED BY <1>2, <1>3, <1>4, <1>5, <1>6 DEF LoopWakes, LoopLooks

-----------------------------------------------------------------------------
(* The steps that move a request.                                          *)

LEMMA WorkerLocksKeeps ==
  ASSUME PoolInv, NEW t \in Workers, WorkerLocks(t)
  PROVE  PoolInv' /\ Stays
  <1> USE DEF PoolInv, WorkerLocks, queueVars, loopSide, cancelVars
  <1>1. worker' \in [Workers -> WorkerStates] /\ task' \in [Workers -> Works \cup {NoWork}]
    BY DEF PoolShape, WorkerStates
  <1>2. \A u \in Workers, w \in Works : Runner(u, w)' <=> Runner(u, w)
    BY DEF Runner, PoolShape
  <1>3. slowRunning' \in Nat /\ slowRunning' = Cardinality(SlowHolders')
    <2>1. SlowHolders' = SlowHolders \ {t}
      BY PoolAssumption DEF SlowHolders, PoolShape
    <2>2. IsFiniteSet(SlowHolders)
      BY PoolAssumption, FS_Subset DEF SlowHolders
    <2>3. /\ Cardinality(SlowHolders \ {t}) =
               IF t \in SlowHolders THEN Cardinality(SlowHolders) - 1
                                    ELSE Cardinality(SlowHolders)
          /\ IsFiniteSet(SlowHolders \ {t})
      BY <2>2, FS_RemoveElement
    <2>4. t \in SlowHolders <=> task[t] \in SlowWorks
      BY DEF SlowHolders
    <2>5. slowRunning' = Cardinality(SlowHolders')
      BY <2>1, <2>3, <2>4
    <2> QED BY <2>1, <2>3, <2>5, FS_CardinalityType
  <1>4. PoolShape'
    BY <1>1, <1>3 DEF PoolShape
  <1>5. PoolQueues'
    BY DEF PoolQueues
  <1>6. Tasks'
    BY DEF Tasks, PoolShape
  <1>7. Apart'
    BY <1>2 DEF Apart, WorkWaits, Handed, Requeueing
  <1>8. Stays
    <2> SUFFICES ASSUME NEW w \in Works PROVE Status(w)' = Status(w)
      BY DEF Stays
    <2> QED BY <1>2 DEF Status, Runner
  <1> QED BY <1>3, <1>4, <1>5, <1>6, <1>7, <1>8

(* A worker begins to run the request w, which was the head of a queue.    *)
LEMMA RunKeeps ==
  ASSUME PoolInv, NEW t \in Workers, NEW w \in Works,
         worker[t] = "locked", WorkWaits(w),
         task' = [task EXCEPT ![t] = w],
         worker' \in [Workers -> WorkerStates],
         \A u \in Workers : /\ worker'[u] = "running" <=> u = t \/ worker[u] = "running"
                            /\ worker'[u] = "locked" => worker[u] = "locked",
         UNCHANGED <<work, loopWq, answering, loopAt, backTo, target>>,
         wq' \in Seq(Works \cup PoolMessages), Once(wq'),
         slowPending' \in Seq(SlowWorks), Once(slowPending'),
         \A v \in Works : WorkWaits(v)' <=> WorkWaits(v) /\ v # w,
         \A v \in SlowWorks : ~In(v, wq'),
         slowRunning' = slowRunning + (IF w \in SlowWorks THEN 1 ELSE 0)
  PROVE  PoolInv' /\ Moves(w, "queued", "running")
  <1> USE DEF PoolInv
  <1>1. task[t] = NoWork /\ task' \in [Workers -> Works \cup {NoWork}]
    BY DEF Tasks, PoolShape
  <1>2. \A u \in Workers, v \in Works : Runner(u, v)' <=> Runner(u, v) \/ (u = t /\ v = w)
    BY <1>1 DEF Runner, PoolShape
  <1>3. slowRunning' \in Nat /\ slowRunning' = Cardinality(SlowHolders')
    <2>1. IsFiniteSet(SlowHolders) /\ t \notin SlowHolders
      BY <1>1, PoolAssumption, FS_Subset DEF SlowHolders
    <2>2. SlowHolders' = SlowHolders \cup (IF w \in SlowWorks THEN {t} ELSE {})
      BY <1>1, PoolAssumption DEF SlowHolders, PoolShape
    <2>3. CASE w \in SlowWorks
      <3>1. SlowHolders' = SlowHolders \cup {t}
        BY <2>2, <2>3
      <3>2. Cardinality(SlowHolders \cup {t}) = Cardinality(SlowHolders) + 1
        BY <2>1, FS_AddElement
      <3> QED BY <2>3, <3>1, <3>2 DEF PoolShape
    <2>4. CASE w \notin SlowWorks
      BY <2>1, <2>2, <2>4 DEF PoolShape
    <2> QED BY <2>3, <2>4
  <1>4. PoolShape'
    BY <1>1, <1>3 DEF PoolShape
  <1>5. PoolQueues'
    BY DEF PoolQueues
  <1>6. Tasks'
    BY DEF Tasks, PoolShape
  <1>7. \A v \in Works : /\ Handed(v)' <=> Handed(v)
                         /\ Requeueing(v)' <=> Requeueing(v)
    BY DEF Handed, Requeueing
  <1>8. Apart'
    BY <1>2, <1>7 DEF Apart
  <1>9. Moves(w, "queued", "running")
    <2>1. /\ work[w] = "function" /\ ~Requeueing(w)
          /\ \A u \in Workers : ~Runner(u, w)
      BY DEF Apart
    <2>2. Status(w) = "queued" /\ Status(w)' = "running"
      BY <2>1, <1>2 DEF Status, Runner, Requeueing
    <2>3. ASSUME NEW v \in Works \ {w} PROVE Status(v)' = Status(v)
      BY <1>2 DEF Status, Runner
    <2> QED BY <2>2, <2>3 DEF Moves
  <1> QED BY <1>3, <1>4, <1>5, <1>6, <1>8, <1>9

LEMMA WorkerTakesKeeps ==
  ASSUME PoolInv, NEW t \in Workers, WorkerTakes(t)
  PROVE  PoolInv' /\ \E w \in Works \ SlowWorks : Moves(w, "queued", "running")
  <1> USE DEF WorkerTakes, Runs, loopSide, cancelVars
  <1> PICK w \in Works : w = Head(wq)
    OBVIOUS
  <1>1. /\ wq \in Seq(Works \cup PoolMessages) /\ Once(wq) /\ wq # <<>> /\ w \in Works
        /\ slowPending \in Seq(SlowWorks) /\ Once(slowPending)
        /\ \A v \in SlowWorks : ~In(v, wq)
        /\ worker \in [Workers -> WorkerStates] /\ slowRunning \in Nat
    BY DEF PoolInv, PoolShape, PoolQueues
  <1>2. /\ Tail(wq) \in Seq(Works \cup PoolMessages) /\ Once(Tail(wq)) /\ In(w, wq)
        /\ \A v \in Works : In(v, Tail(wq)) <=> In(v, wq) /\ v # w
    BY <1>1, TailKeeps
  <1>3. w \notin SlowWorks /\ WorkWaits(w)
    BY <1>1, <1>2 DEF WorkWaits
  <1>4. ~In(w, slowPending)
    BY <1>1, <1>3 DEF In
  <1>5. /\ wq' \in Seq(Works \cup PoolMessages) /\ Once(wq')
        /\ \A v \in Works : WorkWaits(v)' <=> WorkWaits(v) /\ v # w
        /\ \A v \in SlowWorks : ~In(v, wq')
    BY <1>1, <1>2, <1>4, PoolAssumption DEF WorkWaits
  <1>6. /\ worker' \in [Workers -> WorkerStates]
        /\ \A u \in Workers : /\ worker'[u] = "running" <=> u = t \/ worker[u] = "running"
                              /\ worker'[u] = "locked" => worker[u] = "locked"
    BY <1>1 DEF WorkerStates
  <1>7. slowRunning' = slowRunning + (IF w \in SlowWorks THEN 1 ELSE 0)
    BY <1>1, <1>3
  <1>8. /\ worker[t] = "locked" /\ task' = [task EXCEPT ![t] = w]
        /\ UNCHANGED <<work, loopWq, answering, loopAt, backTo, target, slowPending>>
    OBVIOUS
  <1> HIDE DEF WorkerTakes
  <1>9. PoolInv' /\ Moves(w, "queued", "running")
    BY <1>1, <1>3, <1>5, <1>6, <1>7, <1>8, RunKeeps
  <1> QED BY <1>3, <1>9

LEMMA WorkerTakesSlowKeeps ==
  ASSUME PoolInv, NEW t \in Workers, WorkerTakesSlow(t)
  PROVE  PoolInv' /\ \E w \in SlowWorks : Moves(w, "queued", "running")
  <1> USE DEF WorkerTakesSlow, loopSide, cancelVars
  <1> PICK w \in SlowWorks : w = Head(slowPending)
    BY TailKeeps DEF PoolInv, PoolShape
  <1>1. /\ wq \in Seq(Works \cup PoolMessages) /\ Once(wq) /\ wq # <<>>
        /\ slowPending \in Seq(SlowWorks) /\ Once(slowPending) /\ slowPending # <<>>
        /\ \A v \in SlowWorks : ~In(v, wq)
        /\ worker \in [Workers -> WorkerStates] /\ slowRunning \in Nat
    BY DEF PoolInv, PoolShape, PoolQueues
  <1>2. /\ Tail(slowPending) \in Seq(SlowWorks) /\ Once(Tail(slowPending))
        /\ w \in SlowWorks /\ w \in Works /\ In(w, slowPending)
        /\ \A v \in Works : In(v, Tail(slowPending)) <=> In(v, slowPending) /\ v # w
    BY <1>1, TailKeeps, PoolAssumption
  <1>3. /\ wq' \in Seq(Works \cup PoolMessages) /\ Once(wq')
        /\ \A v \in Works : In(v, wq') <=> In(v, wq)
    BY MessageLeaves DEF PoolMessages
  <1>4. /\ \A v \in Works : WorkWaits(v)' <=> WorkWaits(v) /\ v # w
        /\ \A v \in SlowWorks : ~In(v, wq')
    BY <1>1, <1>2, <1>3, PoolAssumption DEF WorkWaits
  <1>5. /\ worker' \in [Workers -> WorkerStates]
        /\ \A u \in Workers : /\ worker'[u] = "running" <=> u = t \/ worker[u] = "running"
                              /\ worker'[u] = "locked" => worker[u] = "locked"
    <2> DEFINE taken == [worker EXCEPT ![t] = "running"]
    <2>1. /\ taken \in [Workers -> WorkerStates]
          /\ \A u \in Workers : /\ taken[u] = "running" <=> u = t \/ worker[u] = "running"
                                /\ taken[u] = "locked" => worker[u] = "locked"
      BY <1>1 DEF WorkerStates
    <2>2. worker' = taken \/ worker' \in Signalled(taken)
      OBVIOUS
    <2> HIDE DEF taken
    <2> QED BY <2>1, <2>2, SignalledKeeps
  <1>6. /\ worker[t] = "locked" /\ task' = [task EXCEPT ![t] = w] /\ WorkWaits(w)
        /\ UNCHANGED <<work, loopWq, answering, loopAt, backTo, target>>
        /\ slowPending' = Tail(slowPending)
        /\ slowRunning' = slowRunning + (IF w \in SlowWorks THEN 1 ELSE 0)
    BY <1>1, <1>2 DEF WorkWaits
  <1> HIDE DEF WorkerTakesSlow
  <1>7. PoolInv' /\ Moves(w, "queued", "running")
    BY <1>2, <1>3, <1>4, <1>5, <1>6, RunKeeps
  <1> QED BY <1>7

(* No more slow requests are seen to run than slow_io_work_running says.   *)
LEMMA SlowCounted ==
  ASSUME PoolInv
  PROVE  /\ Cardinality({w \in SlowWorks : Status(w) = "running"}) \in Nat
         /\ Cardinality({w \in SlowWorks : Status(w) = "running"}) <= slowRunning
  <1> DEFINE R == {w \in SlowWorks : Status(w) = "running"}
             f == [w \in R |-> CHOOSE t \in Workers : Runner(t, w)]
  <1>1. \A w \in R : \E t \in Workers : Runner(t, w)
    BY DEF Status, Runner
  <1>2. \A w \in R : f[w] \in Workers /\ Runner(f[w], w)
    BY <1>1
  <1> HIDE DEF R
  <1>3. \A w \in R : w \in SlowWorks
    BY DEF R
  <1> HIDE DEF f
  <1>4. f \in [R -> SlowHolders]
    <2>1. \A w \in R : f[w] \in SlowHolders
      BY <1>2, <1>3 DEF SlowHolders, Runner
    <2> QED BY <2>1 DEF f
  <1>5. f \in Injection(R, SlowHolders)
    BY <1>2, <1>4 DEF Injection, IsInjective, Runner
  <1>6. IsFiniteSet(SlowHolders)
    BY PoolAssumption, FS_Subset DEF SlowHolders
  <1>7. IsFiniteSet(R) /\ Cardinality(R) <= Cardinality(SlowHolders)
    BY <1>5, <1>6, FS_Injection
  <1>8. Cardinality(R) \in Nat
    BY <1>7, FS_CardinalityType
  <1> QED BY <1>7, <1>8 DEF R, PoolInv

LEMMA WorkerPublishesKeeps ==
  ASSUME PoolInv, NEW t \in Workers, WorkerPublishes(t)
  PROVE  PoolInv' /\ \E w \in Works : Moves(w, "running", "ran")
  <1> USE DEF WorkerPublishes, poolSide, queueVars, cancelVars
  <1> PICK w \in Works : w = task[t]
    BY DEF PoolInv, Tasks
  <1>1. w \in Works /\ Runner(t, w) /\ ~Requeueing(w) /\ ~WorkWaits(w)
        /\ work[w] = "function" /\ \A u \in Workers : Runner(u, w) => u = t
    BY DEF PoolInv, Tasks, Apart, Runner
  <1>2. ~Handed(w)
    BY <1>1 DEF PoolInv, Apart
  <1>3. /\ loopWq' \in Seq(Works) /\ Once(loopWq')
        /\ \A v \in Works : In(v, loopWq') <=> In(v, loopWq) \/ v = w
    <2>1. loopWq \in Seq(Works) /\ Once(loopWq) /\ ~In(w, loopWq)
      BY <1>2 DEF PoolInv, PoolShape, PoolQueues, Handed
    <2>2. loopWq' = Append(loopWq, w)
      OBVIOUS
    <2> QED BY <1>1, <2>1, <2>2, AppendKeeps
  <1>4. /\ worker' \in [Workers -> WorkerStates]
        /\ \A u \in Workers : /\ worker'[u] = "running" <=> u # t /\ worker[u] = "running"
                              /\ worker'[u] = "locked" => worker[u] = "locked"
    BY DEF PoolInv, PoolShape, WorkerStates
  <1>5. /\ work' = [work EXCEPT ![w] = "null"]
        /\ work' \in [Works -> {"idle", "function", "null", "cancelled"}]
        /\ UNCHANGED <<wq, slowPending, slowRunning, task, answering, loopAt,
                       backTo, target>>
    BY <1>1 DEF PoolInv, PoolShape
  <1> HIDE DEF WorkerPublishes
  <1>6. /\ \A v \in Works : /\ work'[v] = IF v = w THEN "null" ELSE work[v]
                            /\ WorkWaits(v)' <=> WorkWaits(v)
                            /\ Handed(v)' <=> Handed(v) \/ v = w
                            /\ Requeueing(v)' <=> Requeueing(v)
        /\ \A v \in Works, u \in Workers : Runner(u, v)' <=> Runner(u, v) /\ v # w
    BY <1>1, <1>3, <1>4, <1>5 DEF PoolInv, PoolShape, WorkWaits, Handed, Requeueing, Runner
  <1>7. PoolShape'
    BY <1>3, <1>4, <1>5 DEF PoolInv, PoolShape
  <1>8. PoolQueues'
    BY <1>3, <1>5 DEF PoolInv, PoolQueues
  <1>9. Tasks'
    BY <1>4, <1>5 DEF PoolInv, Tasks
  <1>10. \A v \in Works : ~(In(v, loopWq') /\ In(v, answering'))
    BY <1>2, <1>3, <1>5 DEF PoolInv, Apart, Handed
  <1>11. Apart'
    BY <1>1, <1>6, <1>10 DEF PoolInv, Apart
  <1>12. (slowRunning = Cardinality(SlowHolders))'
    BY <1>5 DEF PoolInv, SlowHolders
  <1>13. Moves(w, "running", "ran")
    <2>1. Status(w) = "running"
      BY <1>1 DEF Status, Runner, Requeueing
    <2>2. Status(w)' = "ran"
      <3>1. work'[w] = "null"
        BY <1>1, <1>6
      <3> QED BY <3>1 DEF Status
    <2>3. ASSUME NEW v \in Works \ {w} PROVE Status(v)' = Status(v)
      BY <1>6 DEF Status, Runner, Requeueing
    <2> QED BY <2>1, <2>2, <2>3 DEF Moves
  <1> QED BY <1>7, <1>8, <1>9, <1>11, <1>12, <1>13 DEF PoolInv

LEMMA SubmitKeeps ==
  ASSUME PoolInv, NEW w \in Works, Submit(w)
  PROVE  PoolInv' /\ Moves(w, "idle", "queued")
  <1> USE DEF Submit
  <1>1. /\ work[w] = "idle" /\ ~WorkWaits(w) /\ ~Handed(w)
        /\ \A v \in Works : ~Requeueing(v)
        /\ \A t \in Workers : ~Runner(t, w)
    BY DEF PoolInv, Apart, Requeueing, InUserCode
  <1>2. /\ wq \in Seq(Works \cup PoolMessages) /\ slowPending \in Seq(SlowWorks)
        /\ Once(wq) /\ Once(slowPending) /\ \A v \in SlowWorks : ~In(v, wq)
        /\ worker \in [Workers -> WorkerStates]
    BY DEF PoolInv, PoolShape, PoolQueues
  <1>3. /\ wq' \in Seq(Works \cup PoolMessages) /\ Once(wq')
        /\ slowPending' \in Seq(SlowWorks) /\ Once(slowPending')
        /\ \A v \in SlowWorks : ~In(v, wq')
        /\ \A v \in Works : WorkWaits(v)' <=> WorkWaits(v) \/ v = w
    <2>1. CASE w \in SlowWorks
      <3>1. slowPending' = Append(slowPending, w) /\ ~In(w, slowPending)
        BY <1>1, <2>1 DEF WorkWaits
      <3>2. /\ slowPending' \in Seq(SlowWorks) /\ Once(slowPending')
            /\ \A v : In(v, slowPending') <=> In(v, slowPending) \/ v = w
        BY <1>2, <2>1, <3>1, AppendKeeps
      <3>3. wq' = wq \/ wq' = Append(wq, SlowMessage)
        BY <2>1 DEF Post
      <3>4. /\ wq' \in Seq(Works \cup PoolMessages) /\ Once(wq')
            /\ \A v \in Works : In(v, wq') <=> In(v, wq)
        BY <1>2, <3>3, MessagesKeep DEF PoolMessages
      <3> QED BY <1>2, <3>2, <3>4, PoolAssumption DEF WorkWaits
    <2>2. CASE w \notin SlowWorks
      <3>1. wq' = Append(wq, w) /\ ~In(w, wq) /\ slowPending' = slowPending
        BY <1>1, <2>2 DEF WorkWaits, Post
      <3>2. /\ wq' \in Seq(Works \cup PoolMessages) /\ Once(wq')
            /\ \A v : In(v, wq') <=> In(v, wq) \/ v = w
        BY <1>2, <3>1, AppendKeeps
      <3> QED BY <1>2, <2>2, <3>1, <3>2 DEF WorkWaits
    <2> QED BY <2>1, <2>2
  <1>4. /\ worker' \in [Workers -> WorkerStates]
        /\ \A u \in Workers : /\ worker'[u] = "running" <=> worker[u] = "running"
                              /\ worker'[u] = "locked" <=> worker[u] = "locked"
    <2>1. worker' = worker \/ worker' \in Signalled(worker)
      BY DEF Post
    <2> QED BY <1>2, <2>1, SignalledKeeps
  <1>5. /\ work' = [work EXCEPT ![w] = "function"]
        /\ work' \in [Works -> {"idle", "function", "null", "cancelled"}]
        /\ UNCHANGED <<slowRunning, task, loopWq, answering, loopAt, backTo, target>>
    BY DEF PoolInv, PoolShape
  <1> HIDE DEF Submit
  <1>6. /\ \A v \in Works : /\ work'[v] = IF v = w THEN "function" ELSE work[v]
                            /\ WorkWaits(v)' <=> WorkWaits(v) \/ v = w
                            /\ Handed(v)' <=> Handed(v)
                            /\ ~Requeueing(v)'
        /\ \A v \in Works, u \in Workers : Runner(u, v)' <=> Runner(u, v)
    BY <1>1, <1>3, <1>4, <1>5 DEF PoolInv, PoolShape, Handed, Requeueing, Runner
  <1>7. PoolShape'
    BY <1>3, <1>4, <1>5 DEF PoolInv, PoolShape
  <1>8. PoolQueues'
    BY <1>3, <1>5 DEF PoolInv, PoolQueues
  <1>9. Tasks'
    BY <1>4, <1>5 DEF PoolInv, Tasks
  <1>10. Apart'
    BY <1>1, <1>5, <1>6 DEF PoolInv, Apart
  <1>11. (slowRunning = Cardinality(SlowHolders))'
    BY <1>5 DEF PoolInv, SlowHolders
  <1>12. Moves(w, "idle", "queued")
    <2>1. Status(w) = "idle" /\ Status(w)' = "queued"
      BY <1>1, <1>6 DEF Status, Runner, Requeueing
    <2>2. ASSUME NEW v \in Works \ {w} PROVE Status(v)' = Status(v)
      BY <1>1, <1>6 DEF Status, Runner, Requeueing
    <2> QED BY <2>1, <2>2 DEF Moves
  <1> QED BY <1>7, <1>8, <1>9, <1>10, <1>11, <1>12 DEF PoolInv

(* uv_cancel() takes a request that has not run out of the queues.         *)
LEMMA CancelChecksKeeps ==
  ASSUME PoolInv, CancelChecks
  PROVE  PoolInv' /\ (Stays \/ \E w \in Works : Moves(w, "queued", "cancelled"))
  <1> DEFINE unlinks == Linked(target) /\ work[target] # "null"
  <1> USE DEF CancelChecks, queueVars
  <1> PICK w \in Works : w = target
    BY DEF PoolInv, Tasks
  <1>1. /\ w \in Works /\ \A v \in Works : ~Requeueing(v)
        /\ wq \in Seq(Works \cup PoolMessages) /\ slowPending \in Seq(SlowWorks)
        /\ loopWq \in Seq(Works) /\ answering \in Seq(Works)
        /\ Once(wq) /\ Once(slowPending) /\ Once(loopWq) /\ Once(answering)
        /\ worker \in [Workers -> WorkerStates] /\ backTo \in {"polling", "callback"}
    BY DEF PoolInv, PoolShape, PoolQueues, Tasks, Requeueing
  <1>2. CASE ~unlinks
    <2>1. /\ UNCHANGED <<slowPending, loopWq, answering, task, work, slowRunning, wq,
                         worker, backTo>>
          /\ loopAt' = backTo /\ target' = NoWork /\ loopAt = "cancelling"
      BY <1>2
    <2> HIDE DEF CancelChecks
    <2> QED BY <1>1, <2>1, QuietKeeps DEF LoopStates
  <1>3. CASE unlinks
    <2>1. /\ wq' = Unlink(w, wq) /\ slowPending' = Unlink(w, slowPending)
          /\ loopWq' = Unlink(w, loopWq) /\ answering' = Unlink(w, answering)
          /\ loopAt' = "requeueing"
          /\ UNCHANGED <<target, backTo, slowRunning, worker, task, work>>
      BY <1>3
    <2>2. /\ WorkWaits(w) \/ Handed(w)
          /\ work[w] \in {"function", "cancelled"}
          /\ \A t \in Workers : ~Runner(t, w)
      BY <1>1, <1>3 DEF PoolInv, Apart, Linked, WorkWaits, Handed
    <2> HIDE DEF CancelChecks
    <2>3. /\ wq' \in Seq(Works \cup PoolMessages) /\ Once(wq') /\ ~In(w, wq')
          /\ \A v : v # w => (In(v, wq') <=> In(v, wq))
      BY <1>1, <2>1, UnlinkKeeps
    <2>4. /\ slowPending' \in Seq(SlowWorks) /\ Once(slowPending') /\ ~In(w, slowPending')
          /\ \A v : v # w => (In(v, slowPending') <=> In(v, slowPending))
      BY <1>1, <2>1, UnlinkKeeps
    <2>5. /\ loopWq' \in Seq(Works) /\ Once(loopWq') /\ ~In(w, loopWq')
          /\ \A v : v # w => (In(v, loopWq') <=> In(v, loopWq))
      BY <1>1, <2>1, UnlinkKeeps
    <2>6. /\ answering' \in Seq(Works) /\ Once(answering') /\ ~In(w, answering')
          /\ \A v : v # w => (In(v, answering') <=> In(v, answering))
      BY <1>1, <2>1, UnlinkKeeps
    <2>7. /\ \A v \in Works : /\ WorkWaits(v)' <=> WorkWaits(v) /\ v # w
                              /\ Handed(v)' <=> Handed(v) /\ v # w
                              /\ Requeueing(v)' <=> v = w
          /\ \A v \in Works, t \in Workers : Runner(t, v)' <=> Runner(t, v)
      BY <2>1, <2>3, <2>4, <2>5, <2>6 DEF WorkWaits, Handed, Requeueing, Runner
    <2>8. PoolShape'
      BY <2>1, <2>3, <2>4, <2>5, <2>6 DEF PoolInv, PoolShape, LoopStates
    <2>9. PoolQueues'
      <3>1. \A v \in SlowWorks : ~In(v, wq')
        BY <2>3 DEF PoolInv, PoolQueues
      <3> QED BY <2>3, <2>4, <2>5, <2>6, <3>1 DEF PoolQueues
    <2>10. Tasks'
      BY <1>1, <2>1 DEF PoolInv, Tasks
    <2>11. \A v \in Works : ~(In(v, loopWq') /\ In(v, answering'))
      BY <2>5, <2>6 DEF PoolInv, Apart
    <2>12. Apart'
      BY <2>1, <2>2, <2>7, <2>11 DEF PoolInv, Apart
    <2>13. (slowRunning = Cardinality(SlowHolders))'
      BY <2>1 DEF PoolInv, SlowHolders
    <2>14. ASSUME NEW v \in Works \ {w} PROVE Status(v)' = Status(v)
      BY <1>1, <2>1, <2>7 DEF Status, Runner, Requeueing
    <2>15. Status(w)' = "cancelled"
      BY <1>1, <2>1, <2>2, <2>7 DEF Status, Runner, Requeueing
    <2>16. CASE work[w] = "function"
      <3>1. Status(w) = "queued"
        BY <1>1, <2>2, <2>16 DEF Status, Runner, Requeueing
      <3> QED BY <1>1, <2>8, <2>9, <2>10, <2>12, <2>13, <2>14, <2>15, <3>1
              DEF PoolInv, Moves
    <2>17. CASE work[w] = "cancelled"
      <3>1. Status(w) = "cancelled"
        BY <2>17 DEF Status
      <3> QED BY <1>1, <2>8, <2>9, <2>10, <2>12, <2>13, <2>14, <2>15, <3>1
              DEF PoolInv, Stays
    <2> QED BY <2>2, <2>16, <2>17
  <1> QED BY <1>2, <1>3

(* ... and hands it to the loop, marked.                                   *)
LEMMA CancelRequeuesKeeps ==
  ASSUME PoolInv, CancelRequeues
  PROVE  PoolInv' /\ Stays
  <1> USE DEF CancelRequeues, poolSide, queueVars, cancelVars
  <1> PICK w \in Works : w = target
    BY DEF PoolInv, Tasks
  <1>1. /\ Requeueing(w) /\ \A v \in Works : Requeueing(v) => v = w
        /\ ~Handed(w) /\ ~WorkWaits(w) /\ \A t \in Workers : ~Runner(t, w)
    BY DEF PoolInv, Apart, Requeueing
  <1>2. /\ loopWq' \in Seq(Works) /\ Once(loopWq')
        /\ \A v \in Works : In(v, loopWq') <=> In(v, loopWq) \/ v = w
    <2>1. loopWq \in Seq(Works) /\ Once(loopWq) /\ ~In(w, loopWq)
      BY <1>1 DEF PoolInv, PoolShape, PoolQueues, Handed
    <2>2. loopWq' = Append(loopWq, w)
      OBVIOUS
    <2> QED BY <2>1, <2>2, AppendKeeps
  <1>3. /\ work' = [work EXCEPT ![w] = "cancelled"]
        /\ work' \in [Works -> {"idle", "function", "null", "cancelled"}]
        /\ loopAt' = "publishing"
        /\ UNCHANGED <<wq, slowPending, slowRunning, worker, task, answering,
                       backTo, target>>
    BY DEF PoolInv, PoolShape
  <1> HIDE DEF CancelRequeues
  <1>4. /\ \A v \in Works : /\ work'[v] = IF v = w THEN "cancelled" ELSE work[v]
                            /\ WorkWaits(v)' <=> WorkWaits(v)
                            /\ Handed(v)' <=> Handed(v) \/ v = w
                            /\ ~Requeueing(v)'
        /\ \A v \in Works, t \in Workers : Runner(t, v)' <=> Runner(t, v)
    BY <1>2, <1>3 DEF PoolInv, PoolShape, WorkWaits, Handed, Requeueing, Runner
  <1>5. PoolShape'
    BY <1>2, <1>3 DEF PoolInv, PoolShape, LoopStates
  <1>6. PoolQueues'
    BY <1>2, <1>3 DEF PoolInv, PoolQueues
  <1>7. Tasks'
    BY <1>3 DEF PoolInv, Tasks
  <1>8. \A v \in Works : ~(In(v, loopWq') /\ In(v, answering'))
    BY <1>1, <1>2, <1>3 DEF PoolInv, Apart, Handed
  <1>9. Apart'
    BY <1>1, <1>4, <1>8 DEF PoolInv, Apart
  <1>10. (slowRunning = Cardinality(SlowHolders))'
    BY <1>3 DEF PoolInv, SlowHolders
  <1>11. Stays
    <2>1. Status(w) = "cancelled"
      BY <1>1 DEF Status, Requeueing, PoolInv, Apart
    <2>2. Status(w)' = "cancelled"
      BY <1>4 DEF Status
    <2>3. ASSUME NEW v \in Works \ {w} PROVE Status(v)' = Status(v)
      BY <1>1, <1>4 DEF Status, Runner, Requeueing
    <2> QED BY <2>1, <2>2, <2>3 DEF Stays
  <1> QED BY <1>5, <1>6, <1>7, <1>9, <1>10, <1>11 DEF PoolInv

(* uv__work_done() takes the whole queue of the loop.                      *)
LEMMA LoopTakesKeeps ==
  ASSUME PoolInv, LoopTakes
  PROVE  PoolInv' /\ Stays
  <1> USE DEF LoopTakes, loopQuiet, poolSide, queueVars, cancelVars
  <1>1. /\ answering' = loopWq /\ loopWq' = <<>> /\ loopAt = "polling" /\ loopAt' = "taken"
        /\ UNCHANGED <<wq, slowPending, slowRunning, worker, task, work, backTo, target>>
    OBVIOUS
  <1> HIDE DEF LoopTakes
  <1>2. /\ \A v \in Works : /\ WorkWaits(v)' <=> WorkWaits(v)
                            /\ Handed(v)' => Handed(v)
                            /\ ~Requeueing(v) /\ ~Requeueing(v)'
                            /\ ~In(v, loopWq')
        /\ \A v \in Works, t \in Workers : Runner(t, v)' <=> Runner(t, v)
    BY <1>1, EmptyQueue DEF WorkWaits, Handed, Requeueing, Runner
  <1>3. PoolShape'
    BY <1>1 DEF PoolInv, PoolShape, LoopStates
  <1>4. PoolQueues'
    BY <1>1, EmptyQueue DEF PoolInv, PoolQueues
  <1>5. Tasks'
    BY <1>1 DEF PoolInv, Tasks
  <1>6. Apart'
    BY <1>1, <1>2 DEF PoolInv, Apart
  <1>7. (slowRunning = Cardinality(SlowHolders))'
    BY <1>1 DEF PoolInv, SlowHolders
  <1>8. Stays
    <2> SUFFICES ASSUME NEW v \in Works PROVE Status(v)' = Status(v)
      BY DEF Stays
    <2> QED BY <1>1, <1>2 DEF Status, Runner, Requeueing
  <1> QED BY <1>3, <1>4, <1>5, <1>6, <1>7, <1>8 DEF PoolInv

(* ... and answers the first request that is left of it.                   *)
LEMMA LoopAnswersKeeps ==
  ASSUME PoolInv, LoopAnswers
  PROVE  /\ PoolInv'
         /\ \E w \in Works : Moves(w, "ran", "idle") \/ Moves(w, "cancelled", "idle")
  <1> USE DEF LoopAnswers, loopQuiet, poolSide, queueVars, cancelVars
  <1>1. answering \in Seq(Works) /\ Once(answering) /\ answering # <<>>
    BY DEF PoolInv, PoolShape, PoolQueues
  <1> PICK w \in Works : w = Head(answering)
    BY <1>1, TailKeeps
  <1>2. /\ answering' \in Seq(Works) /\ Once(answering') /\ In(w, answering)
        /\ \A v \in Works : In(v, answering') <=> In(v, answering) /\ v # w
    BY <1>1, TailKeeps
  <1>3. /\ work' = [work EXCEPT ![w] = "idle"]
        /\ work' \in [Works -> {"idle", "function", "null", "cancelled"}]
        /\ loopAt = "taken" /\ loopAt' = "callback"
        /\ UNCHANGED <<wq, slowPending, slowRunning, worker, task, loopWq, backTo, target>>
    BY DEF PoolInv, PoolShape
  <1> HIDE DEF LoopAnswers
  <1>4. /\ work[w] \in {"null", "cancelled"} /\ ~In(w, loopWq)
        /\ ~WorkWaits(w) /\ \A t \in Workers : ~Runner(t, w)
    BY <1>2 DEF PoolInv, Apart, Handed
  <1>5. /\ \A v \in Works : /\ work'[v] = IF v = w THEN "idle" ELSE work[v]
                            /\ WorkWaits(v)' <=> WorkWaits(v)
                            /\ Handed(v)' <=> Handed(v) /\ v # w
                            /\ ~Requeueing(v) /\ ~Requeueing(v)'
        /\ \A v \in Works, t \in Workers : Runner(t, v)' <=> Runner(t, v)
    BY <1>2, <1>3, <1>4 DEF PoolInv, PoolShape, WorkWaits, Handed, Requeueing, Runner
  <1>6. PoolShape'
    BY <1>2, <1>3 DEF PoolInv, PoolShape, LoopStates
  <1>7. PoolQueues'
    BY <1>2, <1>3 DEF PoolInv, PoolQueues
  <1>8. Tasks'
    BY <1>3 DEF PoolInv, Tasks
  <1>9. \A v \in Works : ~(In(v, loopWq') /\ In(v, answering'))
    BY <1>2, <1>3 DEF PoolInv, Apart
  <1>10. Apart'
    BY <1>4, <1>5, <1>9 DEF PoolInv, Apart
  <1>11. (slowRunning = Cardinality(SlowHolders))'
    BY <1>3 DEF PoolInv, SlowHolders
  <1>12. Moves(w, "ran", "idle") \/ Moves(w, "cancelled", "idle")
    <2>1. Status(w) \in {"ran", "cancelled"} /\ Status(w)' = "idle"
      BY <1>4, <1>5 DEF Status
    <2>2. ASSUME NEW v \in Works \ {w} PROVE Status(v)' = Status(v)
      BY <1>5 DEF Status, Runner, Requeueing
    <2> QED BY <2>1, <2>2 DEF Moves
  <1> QED BY <1>6, <1>7, <1>8, <1>10, <1>11, <1>12 DEF PoolInv

-----------------------------------------------------------------------------
(* Every step keeps the places apart, and is a step of the promise or none *)
(* at all.                                                                 *)
Kept == \/ Stays
        \/ \E w \in Works : \/ Moves(w, "idle", "queued")
                            \/ Moves(w, "running", "ran")
                            \/ Moves(w, "queued", "cancelled")
                            \/ Moves(w, "ran", "idle") \/ Moves(w, "cancelled", "idle")
        \/ \E w \in Works \ SlowWorks : Moves(w, "queued", "running")
        \/ ~AtThreshold /\ \E w \in SlowWorks : Moves(w, "queued", "running")

LEMMA PoolStep ==
  ASSUME PoolInv, [PoolNext]_<<poolVars, asyncVars>>
  PROVE  PoolInv' /\ Kept
  <1>1. ASSUME NEW t \in Workers, WorkerStep(t)
        PROVE  PoolInv' /\ Kept
    <2>1. CASE WorkerTakesSlow(t)
      BY <2>1, WorkerTakesSlowKeeps DEF Kept, WorkerTakesSlow
    <2>2. CASE WorkerTakes(t)
      BY <2>2, WorkerTakesKeeps DEF Kept
    <2>3. CASE WorkerPublishes(t)
      BY <2>3, WorkerPublishesKeeps DEF Kept
    <2>4. CASE WorkerLocks(t)
      BY <2>4, WorkerLocksKeeps DEF Kept
    <2> QED BY <1>1, <2>1, <2>2, <2>3, <2>4, QuietWorker DEF WorkerStep, Kept
  <1>2. CASE LoopStep
    <2>1. CASE CancelChecks
      BY <2>1, CancelChecksKeeps DEF Kept
    <2>2. CASE CancelRequeues
      BY <2>2, CancelRequeuesKeeps DEF Kept
    <2>3. CASE LoopTakes
      BY <2>3, LoopTakesKeeps DEF Kept
    <2>4. CASE LoopAnswers
      BY <2>4, LoopAnswersKeeps DEF Kept
    <2> QED BY <1>2, <2>1, <2>2, <2>3, <2>4, QuietLoop DEF LoopStep, Kept
  <1>3. ASSUME NEW w \in Works, Submit(w)
        PROVE  PoolInv' /\ Kept
    BY <1>3, SubmitKeeps DEF Kept
  <1>4. CASE \/ \E w \in Works : CancelLocks(w)
             \/ ShutDown
             \/ UNCHANGED <<poolVars, asyncVars>>
    BY <1>4, QuietLoop DEF Kept
  <1> QED BY <1>1, <1>2, <1>3, <1>4 DEF PoolNext

LEMMA PoolStart == PoolInit => PoolInv
  <1> SUFFICES ASSUME PoolInit PROVE PoolInv
    OBVIOUS
  <1> USE DEF PoolInit
  <1>1. PoolShape
    BY DEF PoolShape, WorkerStates, LoopStates
  <1>2. PoolQueues
    BY EmptyQueue DEF PoolQueues
  <1>3. Tasks
    BY DEF Tasks
  <1>4. Apart
    BY EmptyQueue DEF Apart, WorkWaits, Handed, Requeueing, Runner
  <1>5. slowRunning = Cardinality(SlowHolders)
    <2>1. SlowHolders = {}
      BY PoolAssumption DEF SlowHolders
    <2> QED BY <2>1, FS_EmptySet
  <1> QED BY <1>1, <1>2, <1>3, <1>4, <1>5 DEF PoolInv

(* The pool wakes the loop as any sender does: its steps are steps of      *)
(* UvAsync, or leave the handles alone.                                    *)
LEMMA PoolSends == [PoolNext]_<<poolVars, asyncVars>> => [AsyncNext]_asyncVars
  <1> SUFFICES ASSUME [PoolNext]_<<poolVars, asyncVars>> PROVE [AsyncNext]_asyncVars
    OBVIOUS
  <1>1. ASSUME NEW p \in Senders, Announces(p) \/ Sending(p) \/ Announced(p)
        PROVE  AsyncNext
    BY <1>1, PoolAssumption DEF Announces, Sending, Announced, AsyncNext, Send
  <1>2. ASSUME NEW t \in Workers, WorkerStep(t) PROVE [AsyncNext]_asyncVars
    <2>1. CASE WorkerAnnounces(t)
      <3>1. t \in Senders
        BY PoolAssumption
      <3> QED BY <2>1, <3>1, <1>1 DEF WorkerAnnounces, NeedNotAnnounce
    <2>2. CASE ~WorkerAnnounces(t)
      BY <1>2, <2>2 DEF WorkerStep, WorkerLocks, WorkerWaits, WorkerExits, WorkerTakes,
         WorkerPostpones, WorkerStartsOver, WorkerTakesSlow, WorkerPublishes, loopSide
    <2> QED BY <2>1, <2>2
  <1>3. CASE LoopStep
    <2>1. CASE CancelAnnounces
      <3>1. Loop \in Senders
        BY PoolAssumption
      <3> QED BY <2>1, <3>1, <1>1 DEF CancelAnnounces, NeedNotAnnounce
    <2>2. CASE LoopWakes \/ LoopLooks \/ LoopReturns
      BY <2>2 DEF LoopWakes, LoopLooks, LoopReturns, AsyncNext, AsyncLoop
    <2>3. CASE CancelChecks \/ CancelRequeues \/ LoopTakes \/ LoopAnswers
      BY <2>3 DEF CancelChecks, CancelRequeues, LoopTakes, LoopAnswers
    <2> QED BY <1>3, <2>1, <2>2, <2>3 DEF LoopStep
  <1>4. CASE (\E w \in Works : Submit(w) \/ CancelLocks(w)) \/ ShutDown
    BY <1>4 DEF Submit, CancelLocks, ShutDown
  <1> QED BY <1>2, <1>3, <1>4 DEF PoolNext

(* Where the requests are, and that slow_io_work_running counts the slow   *)
(* ones that run: a request is never in two places of src/threadpool.c.    *)
THEOREM WorkHasPlace == PoolSpec => []PoolInv
  <1>1. PoolInit => PoolInv
    BY PoolStart
  <1>2. PoolInv /\ [PoolNext]_<<poolVars, asyncVars>> => PoolInv'
    BY PoolStep
  <1> QED BY <1>1, <1>2, PTL DEF PoolSpec

(* Promised counts with the operator of the module it instantiates.        *)
LEMMA SameCardinality == \A S : Promised!Cardinality(S) = Cardinality(S)
  BY DEF Promised!Cardinality, Cardinality

LEMMA PromiseStart == PoolInit => Promised!Init
  <1> SUFFICES ASSUME PoolInit, NEW w \in Works PROVE Status(w) = "idle"
    BY DEF Promised!Init
  <1> QED BY DEF PoolInit, Status

LEMMA PromiseStep ==
  ASSUME PoolInv, [PoolNext]_<<poolVars, asyncVars>>
  PROVE  [Promised!Next]_([w \in Works |-> Status(w)])
  <1> DEFINE seen == [w \in Works |-> Status(w)]
  <1>1. ASSUME Stays PROVE UNCHANGED seen
    BY <1>1 DEF Stays
  <1>2. ASSUME NEW w \in Works, NEW from, NEW to, Moves(w, from, to)
        PROVE  Promised!Becomes(w, from, to)
    BY <1>2 DEF Moves, Promised!Becomes
  <1>3. Kept
    BY PoolStep
  <1>4. CASE Stays
    BY <1>1, <1>4
  <1>5. CASE \E w \in Works : \/ Moves(w, "idle", "queued")
                              \/ Moves(w, "running", "ran")
                              \/ Moves(w, "queued", "cancelled")
                              \/ Moves(w, "ran", "idle") \/ Moves(w, "cancelled", "idle")
    BY <1>2, <1>5 DEF Promised!Next, Promised!Submit, Promised!Finish, Promised!Cancel,
                      Promised!Answer
  <1>6. CASE \E w \in Works \ SlowWorks : Moves(w, "queued", "running")
    BY <1>2, <1>6 DEF Promised!Next, Promised!Run
  <1>7. CASE ~AtThreshold /\ \E w \in SlowWorks : Moves(w, "queued", "running")
    <2>1. PICK w \in SlowWorks : Moves(w, "queued", "running")
      BY <1>7
    <2>2. w \in Works
      BY PoolAssumption
    <2>3. Cardinality({v \in SlowWorks : Status(v) = "running"}) < Threshold
      <3> DEFINE n == Cardinality({v \in SlowWorks : Status(v) = "running"})
      <3>1. n \in Nat /\ n <= slowRunning
        BY SlowCounted
      <3>2. slowRunning \in Nat /\ Threshold \in Int /\ ~(slowRunning >= Threshold)
        BY <1>7, PoolAssumption, FS_CardinalityType
           DEF PoolInv, PoolShape, AtThreshold, Threshold
      <3> HIDE DEF n
      <3>3. n < Threshold
        BY <3>1, <3>2
      <3> QED BY <3>3 DEF n
    <2>4. Promised!SlowRunning = {v \in SlowWorks : Status(v) = "running"}
      BY PoolAssumption DEF Promised!SlowRunning
    <2>5. Promised!Run(w)
      <3>1. Promised!Becomes(w, "queued", "running")
        BY <1>2, <2>1, <2>2
      <3>2. Promised!Cardinality(Promised!SlowRunning) < Threshold
        BY <2>3, <2>4, SameCardinality
      <3> QED BY <3>1, <3>2 DEF Promised!Run
    <2> QED BY <2>2, <2>5 DEF Promised!Next
  <1> QED BY <1>3, <1>4, <1>5, <1>6, <1>7 DEF Kept

LEMMA PromiseStays ==
  ASSUME UNCHANGED poolVars PROVE UNCHANGED [w \in Works |-> Status(w)]
  BY DEF poolVars, Status

(* What uv_queue_work() and uv_cancel() promise: a request is run by one   *)
(* thread or cancelled before it has begun, it is answered once, and no    *)
(* more slow requests run at a time than the threshold.                    *)
THEOREM KeepsPromise == PoolSpec => WorkPromiseSpec
  BY PromiseStart, PromiseStep, WorkHasPlace, PTL
  DEF PoolSpec, WorkPromiseSpec, Promised!Spec

-----------------------------------------------------------------------------
(***************************************************************************)
(* No wakeup of a worker is lost.  EnoughRise counts: while a worker       *)
(* sleeps, at least as many others are on their way to the queue as it     *)
(* holds requests that can be run.  The message for the slow requests      *)
(* counts only below the threshold, and a worker that has run a slow       *)
(* request only from the time it has taken the mutex, as it is then that   *)
(* the threshold is seen to fall.                                          *)
(***************************************************************************)

Runnable == {x \in ToSet(wq) : x # SlowMessage \/ ~AtThreshold}

Rising == {t \in Workers : /\ worker[t] \in {"woken", "ready", "locked", "publishing", "sending"}
                           /\ task[t] \notin SlowWorks}

Sleepers == {t \in Workers : worker[t] \in {"waiting", "woken"}}

SomeWait == \E t \in Workers : worker[t] = "waiting"

QueuedOnce == /\ IsInjective(wq)
              /\ ExitMessage \in ToSet(wq) => loopAt = "shutdown"

IdleCounted == /\ \A t \in Sleepers : task[t] = NoWork
               /\ idleThreads = Cardinality(Sleepers)

EnoughRise == SomeWait => Cardinality(Runnable) <= Cardinality(Rising)

Holders == /\ mutex \in Senders \cup {NoThread} /\ wqMutex \in Senders \cup {NoThread}
           /\ calls \in 0..MaxCalls

WakeInv == QueuedOnce /\ IdleCounted /\ SlowAnnounced /\ EnoughRise /\ Holders

-----------------------------------------------------------------------------
LEMMA AreFinite ==
  ASSUME PoolInv
  PROVE  IsFiniteSet(Runnable) /\ IsFiniteSet(Rising) /\ IsFiniteSet(Sleepers)
  <1>1. IsFiniteSet(ToSet(wq))
    <2>1. wq \in Seq(Works \cup PoolMessages)
      BY DEF PoolInv, PoolShape
    <2> QED BY <2>1, QueueFinite
  <1>2. Runnable \in SUBSET ToSet(wq) /\ Rising \in SUBSET Workers /\ Sleepers \in SUBSET Workers
    BY DEF Runnable, Rising, Sleepers
  <1> QED BY <1>1, <1>2, FS_Subset, PoolAssumption

(* How the two counts are compared after a step.                           *)
LEMMA NoneMore ==
  ASSUME NEW Q, NEW R, NEW Q2, NEW R2, IsFiniteSet(Q), IsFiniteSet(R2),
         Q2 \subseteq Q, R \subseteq R2, Cardinality(Q) <= Cardinality(R)
  PROVE  Cardinality(Q2) <= Cardinality(R2)
  <1>1. /\ IsFiniteSet(Q2) /\ IsFiniteSet(R)
        /\ Cardinality(Q2) <= Cardinality(Q) /\ Cardinality(R) <= Cardinality(R2)
    BY FS_Subset
  <1>2. /\ Cardinality(Q) \in Nat /\ Cardinality(Q2) \in Nat
        /\ Cardinality(R) \in Nat /\ Cardinality(R2) \in Nat
    BY <1>1, FS_CardinalityType
  <1> QED BY <1>1, <1>2

LEMMA OneLess ==
  ASSUME NEW Q, NEW R, NEW Q2, NEW R2, NEW x \in Q, NEW t, IsFiniteSet(Q),
         IsFiniteSet(R), IsFiniteSet(R2),
         Q2 \subseteq Q \ {x}, R \ {t} \subseteq R2, Cardinality(Q) <= Cardinality(R)
  PROVE  Cardinality(Q2) <= Cardinality(R2)
  <1>1. IsFiniteSet(Q \ {x}) /\ Cardinality(Q \ {x}) = Cardinality(Q) - 1
    BY FS_RemoveElement
  <1>2. /\ IsFiniteSet(R \ {t})
        /\ Cardinality(R \ {t}) = IF t \in R THEN Cardinality(R) - 1 ELSE Cardinality(R)
    BY FS_RemoveElement
  <1>3. Cardinality(Q) \in Nat /\ Cardinality(R) \in Nat
    BY FS_CardinalityType
  <1>4. Cardinality(Q \ {x}) <= Cardinality(R \ {t})
    BY <1>1, <1>2, <1>3
  <1> QED BY <1>1, <1>4, NoneMore

LEMMA OneMore ==
  ASSUME NEW Q, NEW R, NEW Q2, NEW R2, NEW x, NEW t, IsFiniteSet(Q),
         IsFiniteSet(R), IsFiniteSet(R2), t \notin R,
         Q2 \subseteq Q \cup {x}, R \cup {t} \subseteq R2, Cardinality(Q) <= Cardinality(R)
  PROVE  Cardinality(Q2) <= Cardinality(R2)
  <1>1. /\ IsFiniteSet(Q \cup {x})
        /\ Cardinality(Q \cup {x}) = IF x \in Q THEN Cardinality(Q) ELSE Cardinality(Q) + 1
    BY FS_AddElement
  <1>2. Cardinality(R \cup {t}) = Cardinality(R) + 1
    BY FS_AddElement
  <1>3. Cardinality(Q) \in Nat /\ Cardinality(R) \in Nat
    BY FS_CardinalityType
  <1>4. Cardinality(Q \cup {x}) <= Cardinality(R \cup {t})
    BY <1>1, <1>2, <1>3
  <1> QED BY <1>1, <1>4, NoneMore

LEMMA Swapped ==
  ASSUME NEW Q, NEW R, NEW R2, NEW t, NEW u, IsFiniteSet(Q), IsFiniteSet(R),
         IsFiniteSet(R2), u \notin R, (R \ {t}) \cup {u} \subseteq R2,
         Cardinality(Q) <= Cardinality(R)
  PROVE  Cardinality(Q) <= Cardinality(R2)
  <1> DEFINE r == R \ {t}
  <1>1. /\ IsFiniteSet(r)
        /\ Cardinality(r) = IF t \in R THEN Cardinality(R) - 1 ELSE Cardinality(R)
    BY FS_RemoveElement
  <1>2. u \notin r /\ r \cup {u} \subseteq R2
    OBVIOUS
  <1> HIDE DEF r
  <1>3. IsFiniteSet(r \cup {u}) /\ Cardinality(r \cup {u}) = Cardinality(r) + 1
    BY <1>1, <1>2, FS_AddElement
  <1>4. Cardinality(R) \in Nat /\ Cardinality(Q) \in Nat
    BY FS_CardinalityType
  <1>5. Cardinality(Q) <= Cardinality(r \cup {u})
    BY <1>1, <1>3, <1>4
  <1> QED BY <1>2, <1>5, NoneMore

(* The same, of the queue and of the threads on their way to it.           *)
LEMMA RestKeeps ==
  ASSUME PoolInv, WakeInv, SomeWait' => SomeWait,
         Runnable' \subseteq Runnable, Rising \subseteq Rising'
  PROVE  EnoughRise'
  <1> DEFINE R == Rising
             R2 == Rising'
             Q == Runnable
             Q2 == Runnable'
  <1>1. IsFiniteSet(Q) /\ IsFiniteSet(R2) /\ Q2 \subseteq Q /\ R \subseteq R2
    <2>1. IsFiniteSet(R2)
      BY PoolAssumption, FS_Subset DEF Rising
    <2> QED BY <2>1, AreFinite
  <1>2. SomeWait => Cardinality(Q) <= Cardinality(R)
    BY DEF WakeInv, EnoughRise
  <1> HIDE DEF R, R2, Q, Q2
  <1>3. SomeWait => Cardinality(Q2) <= Cardinality(R2)
    BY <1>1, <1>2, NoneMore
  <1> QED BY <1>3 DEF EnoughRise, R2, Q2

LEMMA LessKeeps ==
  ASSUME PoolInv, WakeInv, SomeWait' => SomeWait, NEW x \in Runnable, NEW t,
         Runnable' \subseteq Runnable \ {x}, Rising \ {t} \subseteq Rising'
  PROVE  EnoughRise'
  <1> DEFINE R == Rising
             R2 == Rising'
             Q == Runnable
             Q2 == Runnable'
  <1>1. /\ IsFiniteSet(Q) /\ IsFiniteSet(R) /\ IsFiniteSet(R2)
        /\ x \in Q /\ Q2 \subseteq Q \ {x} /\ R \ {t} \subseteq R2
    <2>1. IsFiniteSet(R2)
      BY PoolAssumption, FS_Subset DEF Rising
    <2> QED BY <2>1, AreFinite
  <1>2. SomeWait => Cardinality(Q) <= Cardinality(R)
    BY DEF WakeInv, EnoughRise
  <1> HIDE DEF R, R2, Q, Q2
  <1>3. SomeWait => Cardinality(Q2) <= Cardinality(R2)
    BY <1>1, <1>2, OneLess
  <1> QED BY <1>3 DEF EnoughRise, R2, Q2

LEMMA MoreKeeps ==
  ASSUME PoolInv, WakeInv, SomeWait' => SomeWait, NEW x, NEW t, t \notin Rising,
         Runnable' \subseteq Runnable \cup {x}, Rising \cup {t} \subseteq Rising'
  PROVE  EnoughRise'
  <1> DEFINE R == Rising
             R2 == Rising'
             Q == Runnable
             Q2 == Runnable'
  <1>1. /\ IsFiniteSet(Q) /\ IsFiniteSet(R) /\ IsFiniteSet(R2) /\ t \notin R
        /\ Q2 \subseteq Q \cup {x} /\ R \cup {t} \subseteq R2
    <2>1. IsFiniteSet(R2)
      BY PoolAssumption, FS_Subset DEF Rising
    <2> QED BY <2>1, AreFinite
  <1>2. SomeWait => Cardinality(Q) <= Cardinality(R)
    BY DEF WakeInv, EnoughRise
  <1> HIDE DEF R, R2, Q, Q2
  <1>3. SomeWait => Cardinality(Q2) <= Cardinality(R2)
    BY <1>1, <1>2, OneMore
  <1> QED BY <1>3 DEF EnoughRise, R2, Q2

LEMMA SwapKeeps ==
  ASSUME PoolInv, WakeInv, SomeWait' => SomeWait, NEW t, NEW u, u \notin Rising,
         Runnable' \subseteq Runnable, (Rising \ {t}) \cup {u} \subseteq Rising'
  PROVE  EnoughRise'
  <1> DEFINE R == Rising
             R2 == Rising'
             Q == Runnable
             Q2 == Runnable'
  <1>1. /\ IsFiniteSet(Q) /\ IsFiniteSet(R) /\ IsFiniteSet(R2) /\ u \notin R
        /\ Q2 \subseteq Q /\ (R \ {t}) \cup {u} \subseteq R2
    <2>1. IsFiniteSet(R2)
      BY PoolAssumption, FS_Subset DEF Rising
    <2> QED BY <2>1, AreFinite
  <1>2. SomeWait => Cardinality(Q) <= Cardinality(R)
    BY DEF WakeInv, EnoughRise
  <1> HIDE DEF R, R2, Q, Q2
  <1>3. SomeWait => Cardinality(Q) <= Cardinality(R2)
    BY <1>1, <1>2, Swapped
  <1>4. SomeWait => Cardinality(Q2) <= Cardinality(R2)
    BY <1>1, <1>3, NoneMore
  <1> QED BY <1>4 DEF EnoughRise, R2, Q2

(* uv_cond_signal() wakes one if there is one.                             *)
LEMMA SignalWakes ==
  ASSUME PoolInv, WakeInv, NEW others \in [Workers -> WorkerStates],
         NEW next \in Signalled(others),
         \A t \in Workers : others[t] = "waiting" => worker[t] = "waiting"
  PROVE  \/ next = others /\ \A t \in Workers : others[t] # "waiting"
         \/ \E u \in Workers : others[u] = "waiting" /\ next = [others EXCEPT ![u] = "woken"]
  <1>1. CASE idleThreads = 0
    <2>1. Sleepers = {}
      BY <1>1, AreFinite, FS_EmptySet DEF WakeInv, IdleCounted
    <2>2. \A t \in Workers : others[t] # "waiting"
      BY <2>1 DEF Sleepers
    <2> QED BY <1>1, <2>2 DEF Signalled
  <1>2. CASE idleThreads # 0
    BY <1>2 DEF Signalled
  <1> QED BY <1>1, <1>2

-----------------------------------------------------------------------------
(* A step that leaves the queue, the threshold and the sleepers as they    *)
(* are; threads that are awake may go on on their way to the queue.        *)
LEMMA OthersKeepWake ==
  ASSUME PoolInv, WakeInv, PoolShape',
         UNCHANGED <<wq, slowPending, slowRunning, idleThreads, task>>,
         loopAt = "shutdown" => loopAt' = "shutdown",
         \A t \in Workers : worker'[t] # worker[t] =>
           /\ worker[t] \in {"running", "publishing", "sending"}
           /\ worker'[t] \in {"publishing", "sending", "ready"},
         Holders'
  PROVE  WakeInv'
  <1>1. Runnable' = Runnable /\ QueuedOnce' /\ SlowAnnounced'
    BY DEF Runnable, AtThreshold, Threshold, WakeInv, QueuedOnce, SlowAnnounced
  <1>2. Sleepers' = Sleepers /\ SomeWait' = SomeWait
    <2>1. \A t \in Workers : /\ worker'[t] = "waiting" <=> worker[t] = "waiting"
                             /\ worker'[t] = "woken" <=> worker[t] = "woken"
      OBVIOUS
    <2> QED BY <2>1 DEF Sleepers, SomeWait
  <1>3. IdleCounted'
    BY <1>2 DEF WakeInv, IdleCounted
  <1>4. Rising \subseteq Rising'
    BY DEF Rising
  <1>5. EnoughRise'
    BY <1>1, <1>2, <1>4, RestKeeps
  <1> QED BY <1>1, <1>3, <1>5 DEF WakeInv

(* A thread that takes the mutex has woken up, and is done with what it    *)
(* ran.                                                                    *)
LEMMA WorkerLocksWakes ==
  ASSUME PoolInv, WakeInv, NEW t \in Workers, WorkerLocks(t), PoolInv'
  PROVE  WakeInv'
  <1> USE DEF WorkerLocks, queueVars, loopSide, cancelVars
  <1>1. /\ worker \in [Workers -> WorkerStates] /\ task \in [Workers -> Works \cup {NoWork}]
        /\ worker' = [worker EXCEPT ![t] = "locked"] /\ task' = [task EXCEPT ![t] = NoWork]
        /\ NoWork \notin SlowWorks
    BY PoolAssumption DEF PoolInv, PoolShape
  <1>2. QueuedOnce' /\ SlowAnnounced' /\ Holders'
    BY PoolAssumption DEF WakeInv, QueuedOnce, SlowAnnounced, Holders
  <1>3. SomeWait' = SomeWait
    BY <1>1 DEF SomeWait
  <1>4. Sleepers' = Sleepers \ {t} /\ (t \in Sleepers <=> worker[t] = "woken")
    BY <1>1 DEF Sleepers
  <1>5. IdleCounted'
    <2>1. IsFiniteSet(Sleepers)
      BY AreFinite
    <2>2. Cardinality(Sleepers') = IF t \in Sleepers THEN idleThreads - 1 ELSE idleThreads
      BY <1>4, <2>1, FS_RemoveElement DEF WakeInv, IdleCounted
    <2>3. \A u \in Sleepers' : task'[u] = NoWork
      BY <1>1, <1>4 DEF WakeInv, IdleCounted, Sleepers
    <2> QED BY <1>4, <2>2, <2>3 DEF IdleCounted
  <1>6. Rising \cup {t} \subseteq Rising'
    BY <1>1 DEF Rising
  <1>7. EnoughRise'
    <2>1. CASE task[t] \in SlowWorks
      <3>1. t \notin Rising /\ Runnable' \subseteq Runnable \cup {SlowMessage}
        BY <2>1 DEF Rising, Runnable
      <3> QED BY <1>3, <1>6, <3>1, MoreKeeps
    <2>2. CASE task[t] \notin SlowWorks
      <3>1. Runnable' \subseteq Runnable
        BY <2>2 DEF Runnable, AtThreshold, Threshold
      <3> QED BY <1>3, <1>6, <3>1, RestKeeps
    <2> QED BY <2>1, <2>2
  <1> QED BY <1>2, <1>5, <1>7 DEF WakeInv

(* It waits if there is nothing to run: then nothing is runnable.          *)
LEMMA WorkerWaitsWakes ==
  ASSUME PoolInv, WakeInv, NEW t \in Workers, WorkerWaits(t), PoolInv'
  PROVE  WakeInv'
  <1> USE DEF WorkerWaits, queueVars, loopSide, cancelVars
  <1>1. /\ worker \in [Workers -> WorkerStates] /\ wq \in Seq(Works \cup PoolMessages)
        /\ worker' = [worker EXCEPT ![t] = "waiting"] /\ task[t] = NoWork
        /\ worker[t] = "locked"
    BY DEF PoolInv, PoolShape, Tasks
  <1>2. QueuedOnce' /\ SlowAnnounced' /\ Holders'
    BY DEF WakeInv, QueuedOnce, SlowAnnounced, Holders
  <1>3. Sleepers' = Sleepers \cup {t} /\ t \notin Sleepers
    BY <1>1 DEF Sleepers
  <1>4. IdleCounted'
    <2>1. IsFiniteSet(Sleepers)
      BY AreFinite
    <2>2. Cardinality(Sleepers') = idleThreads + 1
      BY <1>3, <2>1, FS_AddElement DEF WakeInv, IdleCounted
    <2>3. \A u \in Sleepers' : task'[u] = NoWork
      BY <1>1, <1>3 DEF WakeInv, IdleCounted
    <2> QED BY <2>2, <2>3 DEF IdleCounted
  <1>5. Runnable' = {}
    <2>1. wq' = wq /\ AtThreshold' = AtThreshold
      BY DEF AtThreshold, Threshold
    <2>2. ToSet(wq) = {} \/ (ToSet(wq) \subseteq {SlowMessage} /\ AtThreshold)
      <3>1. CASE wq = <<>>
        <4>1. ToSet(<<>>) = {}
          BY EmptyRest
        <4> QED BY <3>1, <4>1
      <3>2. CASE wq = <<SlowMessage>> /\ AtThreshold
        BY <3>2, SingleRest
      <3> QED BY <3>1, <3>2 DEF NothingToRun
    <2> QED BY <2>1, <2>2 DEF Runnable
  <1>6. EnoughRise'
    <2>1. IsFiniteSet(Rising')
      BY PoolAssumption, FS_Subset DEF Rising
    <2>2. Cardinality(Rising') \in Nat /\ Cardinality(Runnable') = 0
      BY <2>1, <1>5, FS_CardinalityType, FS_EmptySet
    <2> QED BY <2>2 DEF EnoughRise
  <1> QED BY <1>2, <1>4, <1>6 DEF WakeInv

(* A thread that exits wakes another one, as long as there is one.         *)
LEMMA WorkerExitsWakes ==
  ASSUME PoolInv, WakeInv, NEW t \in Workers, WorkerExits(t), PoolInv'
  PROVE  WakeInv'
  <1> USE DEF WorkerExits, queueVars, loopSide, cancelVars
  <1> DEFINE left == [worker EXCEPT ![t] = "exited"]
             waiting == {u \in Workers : left[u] = "waiting"}
  <1>1. /\ worker \in [Workers -> WorkerStates] /\ task[t] = NoWork
        /\ worker[t] = "locked"
    BY DEF PoolInv, PoolShape, Tasks
  <1>2. QueuedOnce' /\ SlowAnnounced' /\ Holders' /\ Runnable' = Runnable
    BY DEF WakeInv, QueuedOnce, SlowAnnounced, Holders, Runnable, AtThreshold, Threshold
  <1>3. worker' \in IF waiting = {} THEN {left} ELSE {[left EXCEPT ![u] = "woken"] : u \in waiting}
    OBVIOUS
  <1>4. Sleepers' = Sleepers
    BY <1>1, <1>3 DEF Sleepers
  <1>5. IdleCounted'
    BY <1>4 DEF WakeInv, IdleCounted
  <1>6. CASE waiting = {}
    <2>1. ~SomeWait'
      BY <1>1, <1>3, <1>6 DEF SomeWait
    <2> QED BY <1>2, <1>5, <2>1 DEF WakeInv, EnoughRise
  <1>7. CASE waiting # {}
    <2>1. PICK u \in waiting : worker' = [left EXCEPT ![u] = "woken"]
      BY <1>3, <1>7
    <2>2. SomeWait /\ u \in Workers /\ u # t /\ worker[u] = "waiting" /\ u \notin Rising
      BY <1>1 DEF SomeWait, Rising
    <2>3. (Rising \ {t}) \cup {u} \subseteq Rising'
      <3>1. task[u] = NoWork /\ NoWork \notin SlowWorks
        BY <2>2, PoolAssumption DEF WakeInv, IdleCounted, Sleepers
      <3> QED BY <1>1, <2>1, <2>2, <3>1 DEF Rising
    <2>4. EnoughRise'
      BY <1>2, <2>2, <2>3, SwapKeeps
    <2> QED BY <1>2, <1>5, <2>4 DEF WakeInv
  <1> QED BY <1>6, <1>7

(* One that takes a request leaves one less to be run.                     *)
LEMMA WorkerTakesWakes ==
  ASSUME PoolInv, WakeInv, NEW t \in Workers, WorkerTakes(t), PoolInv'
  PROVE  WakeInv'
  <1> USE DEF WorkerTakes, Runs, loopSide, cancelVars
  <1> DEFINE x == Head(wq)
  <1>1. /\ worker \in [Workers -> WorkerStates] /\ task \in [Workers -> Works \cup {NoWork}]
        /\ wq \in Seq(Works \cup PoolMessages) /\ IsInjective(wq)
        /\ task[t] = NoWork /\ worker[t] = "locked" /\ x # SlowMessage
        /\ worker' = [worker EXCEPT ![t] = "running"] /\ task' = [task EXCEPT ![t] = x]
    BY PoolAssumption DEF PoolInv, PoolShape, Tasks, WakeInv, QueuedOnce
  <1>2. /\ wq' \in Seq(Works \cup PoolMessages) /\ IsInjective(wq')
        /\ ToSet(wq) = ToSet(wq') \cup {x} /\ x \notin ToSet(wq')
    BY <1>1, TailRest
  <1>3. QueuedOnce'
    BY <1>2 DEF WakeInv, QueuedOnce
  <1>4. SlowAnnounced'
    BY <1>1, <1>2, InIsMember DEF WakeInv, SlowAnnounced
  <1>5. Holders' /\ SomeWait' = SomeWait /\ Sleepers' = Sleepers
    BY <1>1 DEF WakeInv, Holders, SomeWait, Sleepers
  <1>6. IdleCounted'
    BY <1>1, <1>5 DEF WakeInv, IdleCounted, Sleepers
  <1>7. Rising \ {t} \subseteq Rising' /\ Runnable' \subseteq Runnable \ {x} /\ x \in Runnable
    BY <1>1, <1>2 DEF Rising, Runnable, AtThreshold, Threshold
  <1>8. EnoughRise'
    BY <1>5, <1>7, LessKeeps
  <1> QED BY <1>3, <1>4, <1>5, <1>6, <1>8 DEF WakeInv

(* The message for the slow requests goes to the end of the queue, or      *)
(* leaves it when they have been cancelled.                                *)
LEMMA MessageStepsWake ==
  ASSUME PoolInv, WakeInv, NEW t \in Workers,
         WorkerPostpones(t) \/ WorkerStartsOver(t), PoolInv'
  PROVE  WakeInv'
  <1> USE DEF WorkerPostpones, WorkerStartsOver, loopSide, cancelVars
  <1> DEFINE q == Tail(wq)
  <1>1. /\ wq \in Seq(Works \cup PoolMessages) /\ IsInjective(wq) /\ wq # <<>>
        /\ Head(wq) = SlowMessage /\ SlowMessage \in Works \cup PoolMessages
        /\ (wq' = q /\ slowPending = <<>>) \/ wq' = Append(q, SlowMessage)
        /\ UNCHANGED <<slowPending, mutex, idleThreads, slowRunning, worker, task, wqMutex,
                       calls, loopAt>>
    BY DEF PoolInv, PoolShape, WakeInv, QueuedOnce, PoolMessages
  <1>2. /\ q \in Seq(Works \cup PoolMessages) /\ IsInjective(q)
        /\ ToSet(wq) = ToSet(q) \cup {SlowMessage} /\ SlowMessage \notin ToSet(q)
    BY <1>1, TailRest
  <1> HIDE DEF WorkerPostpones, WorkerStartsOver, q
  <1>3. /\ IsInjective(Append(q, SlowMessage))
        /\ ToSet(Append(q, SlowMessage)) = ToSet(q) \cup {SlowMessage}
    BY <1>1, <1>2, AppendRest
  <1>4. IsInjective(wq') /\ ToSet(wq') \subseteq ToSet(wq)
    BY <1>1, <1>2, <1>3
  <1>5. QueuedOnce' /\ Holders'
    BY <1>1, <1>4 DEF WakeInv, QueuedOnce, Holders
  <1>6. SlowAnnounced'
    BY <1>1, <1>3, InIsMember DEF SlowAnnounced
  <1>7. SomeWait' = SomeWait /\ Sleepers' = Sleepers /\ Rising' = Rising
    BY <1>1 DEF SomeWait, Sleepers, Rising
  <1>8. IdleCounted'
    BY <1>1, <1>7 DEF WakeInv, IdleCounted
  <1>9. Runnable' \subseteq Runnable
    BY <1>1, <1>4 DEF Runnable, AtThreshold, Threshold
  <1>10. EnoughRise'
    BY <1>7, <1>9, RestKeeps
  <1> QED BY <1>5, <1>6, <1>8, <1>10 DEF WakeInv

(* One that takes a slow request announces those that are left.            *)
LEMMA WorkerTakesSlowWakes ==
  ASSUME PoolInv, WakeInv, NEW t \in Workers, WorkerTakesSlow(t), PoolInv'
  PROVE  WakeInv'
  <1> DEFINE q == Tail(wq)
             x == Head(slowPending)
             taken == [worker EXCEPT ![t] = "running"]
  <1>1. /\ wq \in Seq(Works \cup PoolMessages) /\ IsInjective(wq) /\ wq # <<>>
        /\ Head(wq) = SlowMessage /\ SlowMessage \in Works \cup PoolMessages
        /\ worker \in [Workers -> WorkerStates] /\ task \in [Workers -> Works \cup {NoWork}]
        /\ task[t] = NoWork /\ worker[t] = "locked"
        /\ x \in Works /\ ~AtThreshold
    <2>1. slowPending \in Seq(SlowWorks) /\ slowPending # <<>>
      BY DEF PoolInv, PoolShape, WorkerTakesSlow
    <2>2. x \in Works
      BY <2>1, PoolAssumption
    <2> QED BY <2>2 DEF PoolInv, PoolShape, Tasks, WakeInv, QueuedOnce, PoolMessages, WorkerTakesSlow
  <1>2. /\ task' = [task EXCEPT ![t] = x]
        /\ mutex' = NoThread /\ UNCHANGED <<idleThreads, wqMutex, calls, loopAt>>
        /\ \/ slowPending' = <<>> /\ wq' = q /\ worker' = taken
           \/ wq' = Append(q, SlowMessage) /\ worker' \in Signalled(taken)
    BY DEF WorkerTakesSlow, loopSide, cancelVars
  <1>3. /\ q \in Seq(Works \cup PoolMessages) /\ IsInjective(q)
        /\ ToSet(wq) = ToSet(q) \cup {SlowMessage} /\ SlowMessage \notin ToSet(q)
    BY <1>1, TailRest
  <1>4. taken \in [Workers -> WorkerStates]
    BY <1>1 DEF WorkerStates
  <1> HIDE DEF q
  <1>5. /\ IsInjective(Append(q, SlowMessage))
        /\ ToSet(Append(q, SlowMessage)) = ToSet(q) \cup {SlowMessage}
    BY <1>1, <1>3, AppendRest
  <1>6. IsInjective(wq') /\ ToSet(wq') \subseteq ToSet(wq)
    BY <1>2, <1>3, <1>5
  <1>7. QueuedOnce' /\ Holders'
    BY <1>2, <1>6 DEF WakeInv, QueuedOnce, Holders
  <1>8. SlowAnnounced'
    BY <1>2, <1>5, InIsMember DEF SlowAnnounced
  <1>9. SlowMessage \in Runnable
    BY <1>1, <1>3 DEF Runnable
  <1>10. Runnable' \subseteq Runnable
    BY <1>1, <1>6 DEF Runnable
  <1>11. CASE wq' = q /\ worker' = taken
    <2>1. SomeWait' = SomeWait /\ Sleepers' = Sleepers
      BY <1>1, <1>11 DEF SomeWait, Sleepers
    <2>2. IdleCounted'
      BY <1>1, <1>2, <2>1 DEF WakeInv, IdleCounted, Sleepers
    <2>3. Runnable' \subseteq Runnable \ {SlowMessage} /\ Rising \ {t} \subseteq Rising'
      BY <1>1, <1>2, <1>3, <1>10, <1>11 DEF Runnable, Rising
    <2>4. EnoughRise'
      BY <1>9, <2>1, <2>3, LessKeeps
    <2> QED BY <1>7, <1>8, <2>2, <2>4 DEF WakeInv
  <1>12. CASE worker' \in Signalled(taken)
    <2>1. \A u \in Workers : taken[u] = "waiting" => worker[u] = "waiting"
      BY <1>1
    <2>2. \/ worker' = taken /\ \A u \in Workers : taken[u] # "waiting"
          \/ \E u \in Workers : taken[u] = "waiting" /\ worker' = [taken EXCEPT ![u] = "woken"]
      BY <1>4, <1>12, <2>1, SignalWakes
    <2>3. CASE worker' = taken /\ \A u \in Workers : taken[u] # "waiting"
      <3>1. ~SomeWait' /\ Sleepers' = Sleepers
        BY <1>1, <2>3 DEF SomeWait, Sleepers
      <3>2. IdleCounted'
        BY <1>1, <1>2, <3>1 DEF WakeInv, IdleCounted, Sleepers
      <3> QED BY <1>7, <1>8, <3>1, <3>2 DEF WakeInv, EnoughRise
    <2>4. ASSUME NEW u \in Workers, taken[u] = "waiting", worker' = [taken EXCEPT ![u] = "woken"]
          PROVE  WakeInv'
      <3>1. /\ SomeWait /\ Sleepers' = Sleepers /\ u # t /\ worker[u] = "waiting"
            /\ u \in Sleepers /\ u \notin Rising
        BY <1>1, <2>4 DEF SomeWait, Sleepers, Rising
      <3>2. IdleCounted'
        BY <1>1, <1>2, <3>1 DEF WakeInv, IdleCounted, Sleepers
      <3>3. (Rising \ {t}) \cup {u} \subseteq Rising'
        <4>1. task[u] = NoWork /\ NoWork \notin SlowWorks
          BY <3>1, PoolAssumption DEF WakeInv, IdleCounted
        <4> QED BY <1>1, <1>2, <2>4, <3>1, <4>1 DEF Rising
      <3>4. EnoughRise'
        BY <1>10, <3>1, <3>3, SwapKeeps
      <3> QED BY <1>7, <1>8, <3>2, <3>4 DEF WakeInv
    <2> QED BY <2>2, <2>3, <2>4
  <1> QED BY <1>2, <1>11, <1>12

(* post(): one more in the queue, and one more on its way if one sleeps.   *)
LEMMA PostWakes ==
  ASSUME PoolInv, WakeInv, NEW x \in Works \cup PoolMessages, Post(x), ~In(x, wq),
         x = ExitMessage => loopAt' = "shutdown",
         loopAt = "shutdown" => loopAt' = "shutdown",
         UNCHANGED <<idleThreads, slowRunning, task>>, Holders',
         slowPending' # <<>> => slowPending # <<>> \/ x = SlowMessage
  PROVE  WakeInv'
  <1>1. /\ wq \in Seq(Works \cup PoolMessages) /\ IsInjective(wq) /\ x \notin ToSet(wq)
        /\ worker \in [Workers -> WorkerStates]
        /\ wq' = Append(wq, x) /\ worker' \in Signalled(worker)
    BY InIsMember DEF PoolInv, PoolShape, WakeInv, QueuedOnce, Post
  <1>2. IsInjective(wq') /\ ToSet(wq') = ToSet(wq) \cup {x}
    BY <1>1, AppendRest
  <1>3. QueuedOnce'
    BY <1>2 DEF WakeInv, QueuedOnce
  <1>4. SlowAnnounced'
    BY <1>2, InIsMember DEF WakeInv, SlowAnnounced
  <1>5. Runnable' \subseteq Runnable \cup {x}
    BY <1>2 DEF Runnable, AtThreshold, Threshold
  <1>6. \/ worker' = worker /\ \A u \in Workers : worker[u] # "waiting"
        \/ \E u \in Workers : worker[u] = "waiting" /\ worker' = [worker EXCEPT ![u] = "woken"]
    BY <1>1, SignalWakes
  <1>7. CASE worker' = worker /\ \A u \in Workers : worker[u] # "waiting"
    <2>1. ~SomeWait' /\ Sleepers' = Sleepers
      BY <1>7 DEF SomeWait, Sleepers
    <2>2. IdleCounted'
      BY <2>1 DEF WakeInv, IdleCounted
    <2> QED BY <1>3, <1>4, <2>1, <2>2 DEF WakeInv, EnoughRise
  <1>8. ASSUME NEW u \in Workers, worker[u] = "waiting", worker' = [worker EXCEPT ![u] = "woken"]
        PROVE  WakeInv'
    <2>1. SomeWait /\ Sleepers' = Sleepers /\ u \in Sleepers /\ u \notin Rising
      BY <1>1, <1>8 DEF SomeWait, Sleepers, Rising
    <2>2. IdleCounted'
      BY <2>1 DEF WakeInv, IdleCounted
    <2>3. Rising \cup {u} \subseteq Rising'
      <3>1. task[u] = NoWork /\ NoWork \notin SlowWorks
        BY <2>1, PoolAssumption DEF WakeInv, IdleCounted
      <3> QED BY <1>1, <1>8, <2>1, <3>1 DEF Rising
    <2>4. EnoughRise'
      BY <1>5, <2>1, <2>3, MoreKeeps
    <2> QED BY <1>3, <1>4, <2>2, <2>4 DEF WakeInv
  <1> QED BY <1>6, <1>7, <1>8

LEMMA SubmitWakes ==
  ASSUME PoolInv, WakeInv, NEW w \in Works, Submit(w), PoolInv'
  PROVE  WakeInv'
  <1> USE DEF Submit
  <1>1. Holders' /\ ~In(w, wq) /\ loopAt' = loopAt
    <2>1. ~In(w, wq)
      BY DEF PoolInv, Apart, WorkWaits
    <2> QED BY <2>1, PoolAssumption DEF WakeInv, Holders
  <1>2. CASE Post(w) /\ UNCHANGED slowPending
    BY <1>1, <1>2, PostWakes, PoolAssumption
  <1>3. CASE Post(SlowMessage) /\ ~In(SlowMessage, wq)
    BY <1>1, <1>3, PostWakes, PoolAssumption DEF PoolMessages
  <1>4. CASE In(SlowMessage, wq) /\ UNCHANGED <<wq, worker>>
    <2>1. QueuedOnce' /\ SlowAnnounced' /\ IdleCounted'
      BY <1>1, <1>4 DEF WakeInv, QueuedOnce, SlowAnnounced, IdleCounted, Sleepers
    <2>2. Runnable' = Runnable /\ Rising' = Rising /\ SomeWait' = SomeWait
      BY <1>4 DEF Runnable, AtThreshold, Threshold, Rising, SomeWait
    <2> QED BY <1>1, <2>1, <2>2 DEF WakeInv, EnoughRise
  <1> QED BY <1>2, <1>3, <1>4

LEMMA ShutDownWakes ==
  ASSUME PoolInv, WakeInv, ShutDown, PoolInv'
  PROVE  WakeInv'
  <1> USE DEF ShutDown, cancelVars
  <1>1. Holders' /\ ~In(ExitMessage, wq)
    BY InIsMember DEF WakeInv, Holders, QueuedOnce
  <1> QED BY <1>1, PostWakes DEF PoolMessages

(* uv_cancel() takes a request out: none more is left to be run.           *)
LEMMA CancelChecksWakes ==
  ASSUME PoolInv, WakeInv, CancelChecks, PoolInv'
  PROVE  WakeInv'
  <1> USE DEF CancelChecks, queueVars
  <1> PICK w \in Works : w = target
    BY DEF PoolInv, Tasks
  <1>1. /\ wq \in Seq(Works \cup PoolMessages) /\ IsInjective(wq)
        /\ slowPending \in Seq(SlowWorks)
    BY DEF PoolInv, PoolShape, WakeInv, QueuedOnce
  <1>2. /\ mutex' = NoThread
        /\ UNCHANGED <<idleThreads, slowRunning, worker, task, wqMutex, calls>>
        /\ loopAt # "shutdown"
        /\ \/ wq' = wq /\ slowPending' = slowPending
           \/ wq' = Unlink(w, wq) /\ slowPending' = Unlink(w, slowPending)
    OBVIOUS
  <1> HIDE DEF CancelChecks
  <1>3. /\ IsInjective(wq') /\ ToSet(wq') \subseteq ToSet(wq)
        /\ SlowMessage \in ToSet(wq) => SlowMessage \in ToSet(wq')
    BY <1>1, <1>2, UnlinkRest, PoolAssumption
  <1>4. slowPending' # <<>> => slowPending # <<>>
    <2>1. Unlink(w, <<>>) = <<>>
      BY EmptyQueue DEF Unlink
    <2> QED BY <1>2, <2>1
  <1>5. QueuedOnce' /\ Holders'
    BY <1>2, <1>3 DEF WakeInv, QueuedOnce, Holders
  <1>6. SlowAnnounced'
    BY <1>3, <1>4, InIsMember DEF WakeInv, SlowAnnounced
  <1>7. SomeWait' = SomeWait /\ Sleepers' = Sleepers /\ Rising' = Rising
    BY <1>2 DEF SomeWait, Sleepers, Rising
  <1>8. IdleCounted'
    BY <1>2, <1>7 DEF WakeInv, IdleCounted
  <1>9. Runnable' \subseteq Runnable
    BY <1>2, <1>3 DEF Runnable, AtThreshold, Threshold
  <1>10. EnoughRise'
    BY <1>7, <1>9, RestKeeps
  <1> QED BY <1>5, <1>6, <1>8, <1>10 DEF WakeInv

LEMMA WakeStep ==
  ASSUME PoolInv, WakeInv, [PoolNext]_<<poolVars, asyncVars>>
  PROVE  WakeInv'
  <1>1. PoolInv' /\ PoolShape'
    BY PoolStep DEF PoolInv
  <1>2. ASSUME NEW t \in Workers, WorkerStep(t) PROVE WakeInv'
    <2>1. CASE WorkerPublishes(t)
      <3>1. Holders'
        BY <2>1, PoolAssumption DEF WorkerPublishes, WakeInv, Holders, poolSide, cancelVars
      <3> QED BY <1>1, <2>1, <3>1, OthersKeepWake
              DEF WorkerPublishes, poolSide, queueVars, cancelVars, PoolInv, PoolShape
    <2>2. CASE WorkerAnnounces(t)
      <3>1. Holders'
        BY <2>2 DEF WorkerAnnounces, WakeInv, Holders, poolSide, cancelVars, Announces,
                    NeedNotAnnounce, Announced
      <3> QED BY <1>1, <2>2, <3>1, OthersKeepWake
              DEF WorkerAnnounces, poolSide, queueVars, cancelVars, PoolInv, PoolShape
    <2> QED BY <1>1, <1>2, <2>1, <2>2, WorkerLocksWakes, WorkerWaitsWakes, WorkerExitsWakes,
               WorkerTakesWakes, MessageStepsWake, WorkerTakesSlowWakes DEF WorkerStep
  <1>3. CASE \/ LoopStep /\ ~CancelChecks
             \/ \E w \in Works : CancelLocks(w)
             \/ UNCHANGED <<poolVars, asyncVars>>
    <2>1. /\ UNCHANGED <<wq, slowPending, slowRunning, idleThreads, task, worker>>
          /\ Holders' /\ (loopAt = "shutdown" => loopAt' = "shutdown")
      <3>1. CASE CancelRequeues
        BY <3>1, PoolAssumption
           DEF CancelRequeues, poolSide, queueVars, cancelVars, WakeInv, Holders
      <3>2. CASE CancelAnnounces
        BY <3>2 DEF CancelAnnounces, poolSide, queueVars, WakeInv, Holders, Announces,
                    NeedNotAnnounce, Announced
      <3>3. CASE LoopWakes \/ LoopLooks \/ UNCHANGED <<poolVars, asyncVars>>
        BY <3>3 DEF LoopWakes, LoopLooks, poolVars, WakeInv, Holders
      <3>4. CASE LoopTakes \/ LoopAnswers \/ LoopReturns
        BY <3>4 DEF LoopTakes, LoopAnswers, LoopReturns, loopQuiet, poolSide, queueVars,
                    cancelVars, WakeInv, Holders
      <3>5. CASE \E w \in Works : CancelLocks(w)
        BY <3>5, PoolAssumption DEF CancelLocks, queueVars, WakeInv, Holders, InUserCode
      <3> QED BY <1>3, <3>1, <3>2, <3>3, <3>4, <3>5 DEF LoopStep
    <2> QED BY <1>1, <2>1, OthersKeepWake
  <1>4. CASE CancelChecks
    BY <1>1, <1>4, CancelChecksWakes
  <1>5. ASSUME NEW w \in Works, Submit(w) PROVE WakeInv'
    BY <1>1, <1>5, SubmitWakes
  <1>6. CASE ShutDown
    BY <1>1, <1>6, ShutDownWakes
  <1> QED BY <1>2, <1>3, <1>4, <1>5, <1>6 DEF PoolNext

LEMMA WakeStart == PoolInit => WakeInv
  <1> SUFFICES ASSUME PoolInit PROVE WakeInv
    OBVIOUS
  <1> USE DEF PoolInit
  <1>1. QueuedOnce /\ Holders
    BY EmptyRest, PoolAssumption DEF QueuedOnce, Holders
  <1>2. Sleepers = {} /\ ~SomeWait
    BY DEF Sleepers, SomeWait
  <1>3. IdleCounted
    BY <1>2, FS_EmptySet DEF IdleCounted
  <1> QED BY <1>1, <1>2, <1>3 DEF WakeInv, EnoughRise, SlowAnnounced

(* What the run checks of the pool.                                        *)
LEMMA PoolConcludes == PoolInv /\ WakeInv => PoolTypeOK /\ RequestsWakeWorkers /\ SlowAnnounced
  <1> SUFFICES ASSUME PoolInv, WakeInv PROVE PoolTypeOK /\ RequestsWakeWorkers
    BY DEF WakeInv
  <1>1. PoolTypeOK
    <2>1. IsFiniteSet(Workers) /\ Sleepers \subseteq Workers /\ SlowHolders \subseteq Workers
      BY PoolAssumption DEF Sleepers, SlowHolders
    <2>2. /\ Cardinality(Workers) \in Nat
          /\ Cardinality(Sleepers) \in Nat /\ Cardinality(Sleepers) <= Cardinality(Workers)
          /\ Cardinality(SlowHolders) \in Nat /\ Cardinality(SlowHolders) <= Cardinality(Workers)
      BY <2>1, FS_CardinalityType, FS_Subset
    <2>3. idleThreads \in 0..Cardinality(Workers) /\ slowRunning \in 0..Cardinality(Workers)
      BY <2>2 DEF PoolInv, WakeInv, IdleCounted
    <2>4. wq \in Seq(Works \cup {SlowMessage, ExitMessage})
      BY DEF PoolInv, PoolShape, PoolMessages
    <2> QED BY <2>3, <2>4 DEF PoolInv, PoolShape, WakeInv, Holders, PoolTypeOK, WorkerStates
  <1>2. RequestsWakeWorkers
    <2> SUFFICES ASSUME ~NothingToRun, SomeWait PROVE Rising # {}
      BY DEF RequestsWakeWorkers, SomeWait, Rising
    <2>1. Runnable # {}
      <3>1. wq \in Seq(Works \cup PoolMessages) /\ wq # <<>> /\ IsInjective(wq)
        BY DEF PoolInv, PoolShape, WakeInv, QueuedOnce, NothingToRun
      <3>2. Head(wq) \in ToSet(wq)
        BY <3>1, TailRest
      <3>3. CASE ~AtThreshold \/ Head(wq) # SlowMessage
        BY <3>2, <3>3 DEF Runnable
      <3>4. CASE AtThreshold /\ Head(wq) = SlowMessage
        <4>1. Len(wq) # 1
          <5>1. ASSUME Len(wq) = 1 PROVE wq = <<Head(wq)>>
            BY <3>1, <5>1
          <5> QED BY <3>4, <5>1 DEF NothingToRun
        <4>2. 1 \in DOMAIN wq /\ 2 \in DOMAIN wq /\ wq[1] = Head(wq)
          <5>1. /\ Len(wq) \in Nat /\ Len(wq) # 0 /\ DOMAIN wq = 1..Len(wq)
                /\ wq[1] = Head(wq)
            BY <3>1
          <5> QED BY <4>1, <5>1
        <4>3. wq[2] # SlowMessage /\ wq[2] \in ToSet(wq)
          <5>1. \A i, j \in DOMAIN wq : wq[i] = wq[j] => i = j
            BY <3>1 DEF IsInjective
          <5> QED BY <3>4, <4>2, <5>1 DEF ToSet
        <4> QED BY <4>3 DEF Runnable
      <3> QED BY <3>3, <3>4
    <2>2. /\ Cardinality(Runnable) \in Nat /\ Cardinality(Runnable) # 0
          /\ Cardinality(Rising) \in Nat
      BY <2>1, AreFinite, FS_CardinalityType, FS_EmptySet
    <2>3. Cardinality(Rising) # 0
      BY <2>2 DEF WakeInv, EnoughRise
    <2> QED BY <2>3, FS_EmptySet
  <1> QED BY <1>1, <1>2

-----------------------------------------------------------------------------
(***************************************************************************)
(* The barrier keeps any number of threads together for any number of      *)
(* rounds, and the thread that is told it is the last may destroy it.      *)
(*                                                                         *)
(* The argument: in and out count the threads in the hall, in while the    *)
(* round fills and out while it empties (HallCounted).  While it fills the *)
(* threads are even in the rounds they are done with, and while it empties *)
(* in those they have begun (Even); the count of the hall turns one into   *)
(* the other.  When the last has left all are even in both, and one who is *)
(* done with the last round never comes in again (AllDone).                *)
(***************************************************************************)

Hall == {t \in Parties : spot[t] \in {"hall", "hallAsleep"}}

HallCounted == /\ Cardinality(Hall) = in + out
               /\ in = 0 \/ out = 0

Even == /\ \A t \in Parties : begun[t] = IF t \in Hall THEN done[t] + 1 ELSE done[t]
        /\ out = 0 => \A s, t \in Parties : done[s] = done[t]
        /\ out # 0 => \A s, t \in Parties : begun[s] = begun[t]

AllDone == /\ \A t \in Parties : spot[t] # "away" => done[t] < MaxWaits
           /\ \A t \in serial : spot[t] = "away"
           /\ \A t \in serial : done[t] = MaxWaits =>
                \A s \in Parties : done[s] = MaxWaits

BarrierInv == BarrierTypeOK /\ HallCounted /\ Even /\ AllDone

-----------------------------------------------------------------------------
\* Lemmas on the count of the hall.

LEMMA ThresholdType == threshold \in Nat \ {0}
  BY BarrierAssumption, FS_CardinalityType, FS_EmptySet DEF threshold

LEMMA HallFinite == /\ IsFiniteSet(Hall) /\ Cardinality(Hall) \in Nat
                    /\ Cardinality(Hall) = 0 => Hall = {}
<1>1. IsFiniteSet(Hall)
  BY BarrierAssumption, FS_Subset DEF Hall
<1> QED
  BY <1>1, FS_CardinalityType, FS_EmptySet

\* All but one are in the hall if it holds one less than there are threads.
LEMMA HallAndOne ==
  ASSUME NEW t \in Parties, t \notin Hall, Cardinality(Hall) + 1 = threshold
  PROVE  Parties = Hall \cup {t}
<1>1. Cardinality(Hall \cup {t}) = Cardinality(Parties)
  BY HallFinite, FS_AddElement DEF threshold
<1>2. Hall \cup {t} \in SUBSET Parties
  BY DEF Hall
<1> QED
  BY <1>1, <1>2, BarrierAssumption, FS_Subset

\* Threads that are woken stay where they are.
LEMMA AwakeStays == ASSUME NEW p \in Spots
                    PROVE /\ Awake(p) \in Spots
                          /\ Awake(p) \in {"hall", "hallAsleep"} <=> p \in {"hall", "hallAsleep"}
                          /\ Awake(p) = "away" <=> p = "away"
  BY DEF Awake, Spots

-----------------------------------------------------------------------------
\* The invariant.

LEMMA BarrierStart == BarrierInit => BarrierInv
<1> SUFFICES ASSUME BarrierInit PROVE BarrierInv
  OBVIOUS
<1>1. Hall = {}
  BY DEF BarrierInit, Hall
<1>2. Cardinality(Hall) = 0
  BY <1>1, FS_EmptySet
<1>3. BarrierTypeOK
  <2>1. in \in 0..(threshold - 1) /\ out \in 0..(threshold - 1)
    BY ThresholdType DEF BarrierInit
  <2>2. /\ spot \in [Parties -> Spots] /\ begun \in [Parties -> 0..MaxWaits]
        /\ done \in [Parties -> 0..MaxWaits]
    BY BarrierAssumption DEF BarrierInit, Spots
  <2> QED
    BY <2>1, <2>2 DEF BarrierInit, BarrierTypeOK
<1>4. HallCounted /\ Even /\ AllDone
  BY <1>1, <1>2, BarrierAssumption DEF BarrierInit, HallCounted, Even, AllDone
<1> QED
  BY <1>3, <1>4 DEF BarrierInv

\* Steps that neither join nor leave a round.
LEMMA QuietStep ==
  ASSUME BarrierInv, Hall' = Hall, UNCHANGED <<in, out, begun, done>>,
         spot' \in [Parties -> Spots], serial' \in SUBSET serial,
         destroyed' \in BOOLEAN,
         \A s \in Parties : spot'[s] # "away" => done[s] < MaxWaits,
         \A s \in serial' : spot'[s] = "away"
  PROVE  BarrierInv'
<1>1. BarrierTypeOK'
  BY DEF BarrierInv, BarrierTypeOK, threshold
<1>2. HallCounted' /\ Even'
  BY DEF BarrierInv, HallCounted, Even
<1>3. AllDone'
  BY DEF BarrierInv, AllDone
<1> QED
  BY <1>1, <1>2, <1>3 DEF BarrierInv

LEMMA JoinStep == ASSUME BarrierInv, NEW t \in Parties, Joins(t) PROVE BarrierInv'
<1> USE DEF BarrierInv
<1>1. t \notin Hall /\ Hall' = Hall \cup {t}
  BY DEF Joins, Hall, BarrierTypeOK
<1>2. Cardinality(Hall') = Cardinality(Hall) + 1
  BY <1>1, HallFinite, FS_AddElement
<1>3. begun[t] = done[t] /\ done[t] < MaxWaits
  BY <1>1 DEF Joins, Even, AllDone
<1>4. BarrierTypeOK'
  BY <1>3, ThresholdType, BarrierAssumption DEF Joins, BarrierTypeOK, Spots, threshold
<1>5. HallCounted'
  BY <1>2 DEF Joins, HallCounted, BarrierTypeOK
<1>6. Even'
  BY <1>1, <1>3 DEF Joins, Even, BarrierTypeOK
<1>7. AllDone'
  BY <1>3 DEF Joins, AllDone, BarrierTypeOK
<1> QED
  BY <1>4, <1>5, <1>6, <1>7

LEMMA CompleteStep == ASSUME BarrierInv, NEW t \in Parties, Completes(t) PROVE BarrierInv'
<1> USE DEF BarrierInv
<1>1. spot' = [s \in Parties |-> IF s = t THEN "away" ELSE Awake(spot[s])]
  BY DEF Completes, AllAwakeBut
<1>2. t \notin Hall /\ Hall' = Hall
  BY <1>1, AwakeStays DEF Completes, Hall, BarrierTypeOK
<1>3. Cardinality(Hall) = in /\ Cardinality(Hall) + 1 = threshold
  BY HallFinite DEF Completes, HallCounted, BarrierTypeOK
<1>4. Parties = Hall \cup {t}
  BY <1>2, <1>3, HallAndOne
<1>5. begun[t] = done[t] /\ done[t] < MaxWaits
  BY <1>2 DEF Completes, Even, AllDone
<1>6. \A s \in Parties : done[s] = done[t] /\ begun'[s] = done[t] + 1
  BY <1>2, <1>4, <1>5 DEF Completes, Even, BarrierTypeOK
<1>7. BarrierTypeOK'
  <2>1. spot' \in [Parties -> Spots]
    BY <1>1, AwakeStays DEF BarrierTypeOK, Spots
  <2>2. in' \in 0..(threshold - 1) /\ out' \in 0..(threshold - 1)
    BY ThresholdType DEF Completes
  <2>3. begun' \in [Parties -> 0..MaxWaits] /\ done' \in [Parties -> 0..MaxWaits]
    BY <1>5, BarrierAssumption DEF Completes, BarrierTypeOK
  <2> QED
    BY <2>1, <2>2, <2>3 DEF Completes, BarrierTypeOK, threshold
<1>8. HallCounted'
  BY <1>2, <1>3, HallFinite, ThresholdType DEF Completes, HallCounted
<1>9. Even'
  <2>1. \A s \in Parties : begun'[s] = IF s \in Hall' THEN done'[s] + 1 ELSE done'[s]
    BY <1>2, <1>4, <1>6 DEF Completes, BarrierTypeOK
  <2>2. out' = 0 => \A s, r \in Parties : done'[s] = done'[r]
    <3>1. out' = 0 => Hall = {}
      BY <1>3, HallFinite, ThresholdType DEF Completes
    <3> QED
      BY <3>1, <1>4
  <2>3. \A s, r \in Parties : begun'[s] = begun'[r]
    BY <1>6
  <2> QED
    BY <2>1, <2>2, <2>3 DEF Even
<1>10. AllDone'
  <2>1. \A s \in Parties : spot'[s] # "away" => done'[s] < MaxWaits
    BY <1>1, AwakeStays DEF Completes, AllDone, BarrierTypeOK
  <2>2. \A s \in serial : s # t /\ done[s] # MaxWaits
    BY <1>5, BarrierAssumption DEF Completes, AllDone, BarrierTypeOK
  <2>3. ASSUME NEW s \in serial', done'[s] = MaxWaits
        PROVE  \A r \in Parties : done'[r] = MaxWaits
    <3>1. s = t /\ out' = 0
      BY <2>2, <2>3 DEF Completes, BarrierTypeOK
    <3> QED
      BY <3>1, <2>3, <1>9 DEF Even
  <2>4. \A s \in serial' : spot'[s] = "away"
    BY <1>1, AwakeStays DEF Completes, AllDone, BarrierTypeOK
  <2> QED
    BY <2>1, <2>3, <2>4 DEF AllDone
<1> QED
  BY <1>7, <1>8, <1>9, <1>10

LEMMA LeaveStep == ASSUME BarrierInv, NEW t \in Parties, Leaves(t) PROVE BarrierInv'
<1> USE DEF BarrierInv
<1>1. t \in Hall
  BY DEF Leaves, Hall
<1>2. /\ spot' \in [Parties -> Spots] /\ spot'[t] = "away"
      /\ \A s \in Parties \ {t} :
           /\ spot'[s] \in {"hall", "hallAsleep"} <=> spot[s] \in {"hall", "hallAsleep"}
           /\ spot'[s] = "away" <=> spot[s] = "away"
  BY AwakeStays DEF Leaves, AllAwakeBut, BarrierTypeOK, Spots
<1>3. Hall' = Hall \ {t}
  BY <1>2 DEF Hall
<1>4. /\ Cardinality(Hall) = out /\ out >= 1
      /\ Cardinality(Hall') = out - 1
  <2>1. Cardinality(Hall) = out
    BY DEF Leaves, HallCounted, BarrierTypeOK
  <2>2. Cardinality(Hall) # 0
    BY <1>1, HallFinite
  <2>3. Cardinality(Hall') = Cardinality(Hall) - 1
    BY <1>1, <1>3, HallFinite, FS_RemoveElement
  <2> QED
    BY <2>1, <2>2, <2>3, HallFinite
<1>5. begun[t] = done[t] + 1 /\ done[t] < MaxWaits
  BY <1>1 DEF Leaves, Even, AllDone
<1>6. out' = 0 => Hall' = {}
  <2>1. out' = 0 => Cardinality(Hall') = 0
    BY <1>4 DEF Leaves, BarrierTypeOK
  <2>2. IsFiniteSet(Hall')
    BY <1>3, HallFinite, FS_RemoveElement
  <2> QED
    BY <2>1, <2>2, FS_EmptySet
<1>7. BarrierTypeOK'
  <2>1. out' \in 0..(threshold - 1)
    BY <1>4, ThresholdType DEF Leaves, BarrierTypeOK
  <2>2. done' \in [Parties -> 0..MaxWaits]
    BY <1>5, BarrierAssumption DEF Leaves, BarrierTypeOK
  <2> QED
    BY <1>2, <2>1, <2>2 DEF Leaves, BarrierTypeOK, threshold
<1>8. HallCounted'
  BY <1>4 DEF Leaves, HallCounted, BarrierTypeOK
<1>9. Even'
  <2>1. \A s \in Parties : begun'[s] = IF s \in Hall' THEN done'[s] + 1 ELSE done'[s]
    BY <1>1, <1>3, <1>5 DEF Leaves, Even, BarrierTypeOK
  <2>2. \A s, r \in Parties : begun'[s] = begun'[r]
    BY <1>4 DEF Leaves, Even, BarrierTypeOK
  <2>3. out' = 0 => \A s, r \in Parties : done'[s] = done'[r]
    BY <2>1, <2>2, <1>6
  <2> QED
    BY <2>1, <2>2, <2>3 DEF Even
<1>10. AllDone'
  <2>1. \A s \in Parties : spot'[s] # "away" => done'[s] < MaxWaits
    BY <1>2 DEF Leaves, AllDone, BarrierTypeOK
  <2>2. \A s \in serial : s # t /\ done[s] # MaxWaits
    BY <1>5, BarrierAssumption DEF Leaves, AllDone, BarrierTypeOK
  <2>3. ASSUME NEW s \in serial', done'[s] = MaxWaits
        PROVE  \A r \in Parties : done'[r] = MaxWaits
    <3>1. s = t /\ out' = 0
      BY <2>2, <2>3 DEF Leaves, BarrierTypeOK
    <3> QED
      BY <3>1, <2>3, <1>9 DEF Even
  <2>4. \A s \in serial' : spot'[s] = "away"
    BY <1>2 DEF Leaves, AllDone, BarrierTypeOK
  <2> QED
    BY <2>1, <2>3, <2>4 DEF AllDone
<1> QED
  BY <1>7, <1>8, <1>9, <1>10

LEMMA BarrierKeeps == BarrierInv /\ [BarrierNext]_barrierVars => BarrierInv'
<1> SUFFICES ASSUME BarrierInv, [BarrierNext]_barrierVars PROVE BarrierInv'
  OBVIOUS
<1>1. ASSUME NEW t \in Parties, CallsBarrier(t) PROVE BarrierInv'
  <2>1. Hall' = Hall
    BY <1>1 DEF CallsBarrier, Hall, BarrierInv, BarrierTypeOK
  <2>2. /\ spot' \in [Parties -> Spots]
        /\ \A s \in Parties : spot'[s] # "away" => done[s] < MaxWaits
        /\ \A s \in serial' : spot'[s] = "away"
    BY <1>1 DEF CallsBarrier, BarrierInv, BarrierTypeOK, AllDone, Spots
  <2> QED
    BY <1>1, <2>1, <2>2, QuietStep DEF CallsBarrier, BarrierInv, BarrierTypeOK
<1>2. ASSUME NEW t \in Parties, WaitsAtGate(t) \/ WaitsOn(t) \/ WakesUp(t) PROVE BarrierInv'
  <2>1. Hall' = Hall
    BY <1>2, AwakeStays DEF WaitsAtGate, WaitsOn, WakesUp, Hall, BarrierInv, BarrierTypeOK
  <2>2. /\ spot' \in [Parties -> Spots]
        /\ \A s \in Parties : spot'[s] = "away" <=> spot[s] = "away"
    BY <1>2, AwakeStays DEF WaitsAtGate, WaitsOn, WakesUp, BarrierInv, BarrierTypeOK, Spots
  <2> QED
    BY <1>2, <2>1, <2>2, QuietStep
       DEF WaitsAtGate, WaitsOn, WakesUp, BarrierInv, BarrierTypeOK, AllDone
<1>3. ASSUME NEW t \in Parties, DestroysBarrier(t) PROVE BarrierInv'
  BY <1>3, QuietStep DEF DestroysBarrier, Hall, BarrierInv, BarrierTypeOK, AllDone
<1>4. ASSUME UNCHANGED barrierVars PROVE BarrierInv'
  BY <1>4, QuietStep DEF barrierVars, Hall, BarrierInv, BarrierTypeOK, AllDone
<1> QED
  BY <1>1, <1>2, <1>3, <1>4, JoinStep, CompleteStep, LeaveStep DEF BarrierNext, BarrierCall

-----------------------------------------------------------------------------
\* The theorems.

\* uv_barrier_wait(): nobody comes back before everybody has joined the round; and
\* the thread that gets 1 from its last call may destroy the barrier.
LEMMA BarrierConcludes == BarrierInv => BarrierHolds
<1> SUFFICES ASSUME BarrierInv PROVE BarrierHolds
  OBVIOUS
<1>1. NoneIsAhead
  BY DEF BarrierInv, BarrierTypeOK, Even, NoneIsAhead
<1>2. ASSUME NEW t \in serial, done[t] = MaxWaits
      PROVE  in = 0 /\ out = 0 /\ \A s \in Parties : spot[s] = "away" /\ done[s] = MaxWaits
  <2>1. \A s \in Parties : done[s] = MaxWaits
    BY <1>2 DEF BarrierInv, AllDone
  <2>2. \A s \in Parties : spot[s] = "away"
    BY <2>1, BarrierAssumption DEF BarrierInv, AllDone
  <2>3. Cardinality(Hall) = 0
    BY <2>2, FS_EmptySet DEF Hall
  <2> QED
    BY <2>1, <2>2, <2>3 DEF BarrierInv, HallCounted, BarrierTypeOK
<1> QED
  BY <1>1, <1>2 DEF BarrierHolds, SerialMayDestroy

\* The barrier of src/thread-common.c keeps the types of its counters: in and out
\* stay below the threshold, and no thread waits more often than it is to.
THEOREM BarrierTypes == BarrierSpec => []BarrierTypeOK
<1>1. BarrierInv => BarrierTypeOK
  BY DEF BarrierInv
<1> QED
  BY <1>1, BarrierStart, BarrierKeeps, PTL DEF BarrierSpec

\* The barrier of src/thread-common.c keeps its threads together, and its last
\* thread may destroy it.
THEOREM BarrierSeparates == BarrierSpec => []BarrierHolds
  BY BarrierStart, BarrierKeeps, BarrierConcludes, PTL DEF BarrierSpec
=============================================================================
