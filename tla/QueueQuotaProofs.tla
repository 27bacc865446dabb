-------------------------- MODULE QueueQuotaProofs --------------------------
(***************************************************************************)
(* What the operations of the first-in first-out queue do to its keys, and *)
(* what the usage of a set of tasks is.                                    *)
(***************************************************************************)
EXTENDS FifoQueue, Quota, SequenceTheorems, FiniteSetTheorems, TLAPS

-----------------------------------------------------------------------------
(* The queue *)

\* A key that is pushed is in the queue, once, and nobody else comes or goes.
LEMMA EnqueueProperties ==
  ASSUME NEW S, NEW q \in Seq(S), NEW k \in S, Distinct(q)
  PROVE  /\ Enqueue(q, k) \in Seq(S)
         /\ Distinct(Enqueue(q, k))
         /\ ToSet(Enqueue(q, k)) = ToSet(q) \cup {k}
<1>1. CASE Contains(q, k)
  BY <1>1 DEF Enqueue, Contains, ToSet
<1>2. CASE ~Contains(q, k)
  <2> DEFINE w == Append(q, k)
  <2>1. /\ w \in Seq(S) /\ Len(w) = Len(q) + 1
        /\ \A i \in 1..Len(q) : w[i] = q[i]
        /\ w[Len(q) + 1] = k
    BY AppendProperties
  <2>2. \A i \in 1..Len(q) : q[i] # k
    BY <1>2 DEF Contains
  <2>3. DOMAIN q = 1..Len(q) /\ DOMAIN w = 1..Len(w) /\ Len(q) \in Nat
    BY <2>1
  <2> HIDE DEF w
  <2>4. Distinct(w)
    BY <2>1, <2>2, <2>3 DEF Distinct
  <2>5. ToSet(w) = ToSet(q) \cup {k}
    BY <2>1, <2>3 DEF ToSet
  <2>6. Enqueue(q, k) = w
    BY <1>2 DEF Enqueue, w
  <2> QED BY <2>1, <2>4, <2>5, <2>6
<1> QED BY <1>1, <1>2

\* Taking out one position moves the keys behind it up.
LEMMA RemoveAtProperties ==
  ASSUME NEW S, NEW q \in Seq(S), NEW i \in 1..Len(q)
  PROVE  LET w == RemoveAt(q, i)
         IN  /\ w \in Seq(S)
             /\ Len(w) = Len(q) - 1
             /\ \A j \in 1..Len(w) : w[j] = IF j < i THEN q[j] ELSE q[j + 1]
<1> DEFINE front == SubSeq(q, 1, i - 1)
           back == SubSeq(q, i + 1, Len(q))
           n == Len(q)
<1>1. n \in Nat /\ i \in Int /\ 1 <= i /\ i <= n /\ \A j \in 1..n : q[j] \in S
  BY ElementOfSeq
<1>2. /\ front \in Seq(S) /\ Len(front) = i - 1
      /\ \A j \in 1..(i - 1) : front[j] = q[j]
  <2>1. \A j \in 1..(i - 1) : q[j] \in S
    BY <1>1
  <2>2. 1 \in Int /\ i - 1 \in Int
    BY <1>1
  <2>3. /\ front \in Seq(S) /\ Len(front) = IF 1 <= i - 1 THEN (i - 1) - 1 + 1 ELSE 0
        /\ \A j \in 1..((i - 1) - 1 + 1) : front[j] = q[1 + j - 1]
    BY <2>1, <2>2, SubSeqProperties
  <2> QED BY <2>3, <1>1
<1>3. /\ back \in Seq(S) /\ Len(back) = n - i
      /\ \A j \in 1..(n - i) : back[j] = q[i + j]
  <2>1. \A j \in (i + 1)..n : q[j] \in S
    BY <1>1
  <2>2. i + 1 \in Int /\ n \in Int
    BY <1>1
  <2>3. /\ back \in Seq(S) /\ Len(back) = IF i + 1 <= n THEN n - (i + 1) + 1 ELSE 0
        /\ \A j \in 1..(n - (i + 1) + 1) : back[j] = q[(i + 1) + j - 1]
    BY <2>1, <2>2, SubSeqProperties
  <2> QED BY <2>3, <1>1
<1>4. /\ front \o back \in Seq(S)
      /\ Len(front \o back) = Len(front) + Len(back)
      /\ \A j \in 1..(Len(front) + Len(back)) :
           (front \o back)[j] = IF j <= Len(front) THEN front[j] ELSE back[j - Len(front)]
  BY <1>2, <1>3, ConcatProperties
<1> HIDE DEF front, back
<1>5. ASSUME NEW j \in 1..(n - 1)
      PROVE  (front \o back)[j] = IF j < i THEN q[j] ELSE q[j + 1]
  <2>1. j \in 1..(Len(front) + Len(back))
    BY <1>1, <1>2, <1>3
  <2>2. CASE j < i
    BY <2>1, <2>2, <1>1, <1>2, <1>4
  <2>3. CASE ~(j < i)
    <3>1. j - (i - 1) \in 1..(n - i) /\ i + (j - (i - 1)) = j + 1 /\ ~(j <= i - 1)
      BY <2>3, <1>1
    <3>2. back[j - (i - 1)] = q[j + 1]
      BY <3>1, <1>3
    <3> QED BY <3>1, <3>2, <2>1, <2>3, <1>2, <1>4
  <2> QED BY <2>2, <2>3
<1>6. RemoveAt(q, i) = front \o back
  BY DEF RemoveAt, front, back
<1>7. Len(front \o back) = n - 1
  BY <1>1, <1>2, <1>3, <1>4
<1> QED BY <1>4, <1>5, <1>6, <1>7

\* A key that is deleted is gone, and nobody else goes with it.
LEMMA WithdrawProperties ==
  ASSUME NEW S, NEW q \in Seq(S), NEW k, Distinct(q)
  PROVE  /\ Withdraw(q, k) \in Seq(S)
         /\ Distinct(Withdraw(q, k))
         /\ ToSet(Withdraw(q, k)) = ToSet(q) \ {k}
<1>1. CASE ~Contains(q, k)
  BY <1>1 DEF Withdraw, Contains, ToSet
<1>2. CASE Contains(q, k)
  <2> DEFINE i == CHOOSE i \in 1..Len(q) : q[i] = k
             w == RemoveAt(q, i)
  <2>1. i \in 1..Len(q) /\ q[i] = k
    BY <1>2 DEF Contains
  <2> HIDE DEF i
  <2>2. /\ w \in Seq(S)
        /\ Len(w) = Len(q) - 1
        /\ \A j \in 1..Len(w) : w[j] = IF j < i THEN q[j] ELSE q[j + 1]
    BY <2>1, RemoveAtProperties
  <2> HIDE DEF w
  <2>3. Distinct(w)
    <3>1. SUFFICES ASSUME NEW x \in 1..Len(w), NEW y \in 1..Len(w), w[x] = w[y]
                   PROVE  x = y
      BY <2>2 DEF Distinct
    <3> DEFINE from(j) == IF j < i THEN j ELSE j + 1
    <3>2. from(x) \in 1..Len(q) /\ from(y) \in 1..Len(q)
      BY <2>1, <2>2
    <3>3. q[from(x)] = q[from(y)]
      BY <2>2, <3>1
    <3>4. from(x) = from(y)
      BY <3>2, <3>3 DEF Distinct
    <3> QED BY <3>4, <2>1
  <2>4. ToSet(w) = ToSet(q) \ {k}
    <3>1. ASSUME NEW x \in ToSet(w) PROVE x \in ToSet(q) \ {k}
      BY <3>1, <2>1, <2>2 DEF ToSet, Distinct
    <3>2. ASSUME NEW x \in ToSet(q) \ {k} PROVE x \in ToSet(w)
      <4>1. PICK j \in 1..Len(q) : q[j] = x /\ j # i
        BY <2>1, <3>2 DEF ToSet
      <4>2. CASE j < i
        BY <4>1, <4>2, <2>1, <2>2 DEF ToSet
      <4>3. CASE j > i
        <5>1. j - 1 \in 1..Len(w) /\ w[j - 1] = x
          BY <4>1, <4>3, <2>1, <2>2
        <5> QED BY <5>1, <2>2 DEF ToSet
      <4> QED BY <4>1, <4>2, <4>3, <2>1
    <3> QED BY <3>1, <3>2
  <2>5. Withdraw(q, k) = w
    BY <1>2 DEF Withdraw, i, w
  <2> QED BY <2>2, <2>3, <2>4, <2>5
<1> QED BY <1>1, <1>2

\* The empty queue.
LEMMA EmptyQueue ==
  ASSUME NEW S
  PROVE  <<>> \in Seq(S) /\ Distinct(<<>>) /\ ToSet(<<>>) = {}
BY DEF Distinct, ToSet

\* A queue that is loaded from a set of rows holds each of them once.
LEMMA LoadedQueue ==
  ASSUME NEW S, IsFiniteSet(S), NEW q \in SetToSeqs(S)
  PROVE  q \in Seq(S) /\ Distinct(q) /\ ToSet(q) = S
<1> DEFINE n == Cardinality(S)
<1>1. n \in Nat
  BY FS_CardinalityType
<1>2. q \in [1..n -> S] /\ \A i, j \in 1..n : i # j => q[i] # q[j]
  BY DEF SetToSeqs
<1> HIDE DEF n
<1>3. q \in Seq(S) /\ Distinct(q)
  BY <1>1, <1>2 DEF Distinct
<1>4. q \in Injection(1..n, S)
  BY <1>2 DEF Injection, IsInjective
<1>5. Cardinality(1..n) = Cardinality(S) /\ IsFiniteSet(1..n)
  BY <1>1, FS_Interval DEF n
<1>6. q \in Surjection(1..n, S)
  BY <1>4, <1>5, FS_Injection
<1> QED
  BY <1>2, <1>3, <1>6 DEF Surjection, ToSet

-----------------------------------------------------------------------------
(* The usage *)

\* What a task adds to the usage of its account.
Cost(t) == IF Slo[t] = "high" THEN Request[t] ELSE 0

\* There are finitely many units, so the usage of any set of tasks is a number.
LEMMA UsageIsNat ==
  ASSUME NEW S
  PROVE  IsFiniteSet(Units(S)) /\ Usage(S) \in Nat
<1>1. IsFiniteSet(1..MaxRequest)
  BY FS_Interval, QuotaAssumption
<1>2. IsFiniteSet(Task \X (1..MaxRequest))
  BY <1>1, FS_Product, QuotaAssumption
<1>3. Units(S) \in SUBSET (Task \X (1..MaxRequest))
  BY DEF Units
<1>4. IsFiniteSet(Units(S))
  BY <1>2, <1>3, FS_Subset
<1> QED
  BY <1>4, FS_CardinalityType DEF Usage

\* No tasks use nothing.
LEMMA UsageOfNone == Usage({}) = 0
<1>1. Units({}) = {}
  BY DEF Units
<1> QED
  BY <1>1, FS_EmptySet DEF Usage

\* A task alone uses what it requests, or nothing when it is best effort.
LEMMA UsageOfOne ==
  ASSUME NEW t \in Task
  PROVE  Usage({t}) = Cost(t) /\ Cost(t) \in Nat
<1> DEFINE n == Cost(t)
           f == [i \in 1..n |-> <<t, i>>]
<1>1. Request[t] \in 0..MaxRequest /\ MaxRequest \in Nat /\ n \in Nat /\ n <= MaxRequest
  BY QuotaAssumption DEF Cost
<1>2. Units({t}) = {<<t, i>> : i \in 1..n}
  <2>1. ASSUME NEW u \in Units({t}) PROVE u \in {<<t, i>> : i \in 1..n}
    <3>1. PICK x \in Task, i \in 1..MaxRequest : u = <<x, i>>
      BY DEF Units
    <3>2. x = t /\ Slo[t] = "high" /\ i <= Request[t]
      BY <3>1 DEF Units
    <3> QED BY <3>1, <3>2, <1>1 DEF Cost
  <2>2. ASSUME NEW i \in 1..n PROVE <<t, i>> \in Units({t})
    BY <1>1 DEF Units, Cost
  <2> QED BY <2>1, <2>2
<1>3. f \in Bijection(1..n, Units({t}))
  BY <1>2 DEF Bijection, Injection, Surjection, IsInjective
<1>4. ExistsBijection(1..n, Units({t}))
  BY <1>3 DEF ExistsBijection
<1>5. IsFiniteSet(1..n) /\ Cardinality(1..n) = n
  <2>1. n \in Int /\ 1 \in Int /\ (~(1 > n) \/ n = 0)
    BY <1>1
  <2> QED BY <1>1, <2>1, FS_Interval
<1>6. Cardinality(Units({t})) = n
  BY <1>4, <1>5, FS_Bijection
<1> QED
  BY <1>6, <1>1 DEF Usage

\* The usage grows by what the task requests when the task is added ...
LEMMA UsageAdd ==
  ASSUME NEW S, NEW t \in Task, t \notin S
  PROVE  Usage(S \cup {t}) = Usage(S) + Cost(t)
<1>1. Units(S \cup {t}) = Units(S) \cup Units({t})
  BY DEF Units
<1>2. Units(S) \cap Units({t}) = {}
  BY DEF Units
<1>3. Cardinality(Units(S) \cup Units({t}))
        = Cardinality(Units(S)) + Cardinality(Units({t})) - Cardinality(Units(S) \cap Units({t}))
  BY FS_Union, UsageIsNat
<1>4. Cardinality(Units(S) \cap Units({t})) = 0
  BY <1>2, FS_EmptySet
<1>5. /\ Usage(S \cup {t}) = Cardinality(Units(S) \cup Units({t}))
      /\ Usage(S) = Cardinality(Units(S)) /\ Usage({t}) = Cardinality(Units({t}))
  BY <1>1 DEF Usage
<1>6. Usage(S) \in Nat /\ Usage({t}) \in Nat
  BY UsageIsNat
<1>7. Usage(S \cup {t}) = Usage(S) + Usage({t})
  BY <1>3, <1>4, <1>5, <1>6
<1> QED
  BY <1>7, UsageOfOne

\* ... and shrinks by it when the task is taken away.
LEMMA UsageRemove ==
  ASSUME NEW S, NEW t \in Task, t \in S
  PROVE  Usage(S \ {t}) = Usage(S) - Cost(t)
<1>1. (S \ {t}) \cup {t} = S
  OBVIOUS
<1>2. Usage(S) = Usage(S \ {t}) + Cost(t)
  BY <1>1, UsageAdd
<1>3. Usage(S) \in Nat /\ Usage(S \ {t}) \in Nat /\ Cost(t) \in Nat
  BY UsageIsNat, UsageOfOne
<1> QED
  BY <1>2, <1>3

\* A set of tasks holds at most what a larger one holds.
LEMMA UsageMonotone ==
  ASSUME NEW S, NEW T, S \subseteq T
  PROVE  Usage(S) <= Usage(T)
<1>1. Units(S) \in SUBSET Units(T)
  BY DEF Units
<1> QED
  BY <1>1, UsageIsNat, FS_Subset DEF Usage
=============================================================================
