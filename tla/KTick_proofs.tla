---------------------------- MODULE KTick_proofs ----------------------------
(***************************************************************************)
(* The timer queue for every number of tasks, range of the time base,      *)
(* delay and period that KTickAssumption allows: no task is listed twice,  *)
(* the list stays in target order across the wrap of time, and the         *)
(* decrementer never lets the first target pass.                           *)
(***************************************************************************)
EXTENDS KTick, WellFoundedInduction, TLAPS

---------------------------------------------------------------------------
(* Lists                                                                   *)

(* A non-empty set of positions has a first one.                           *)
LEMMA LeastPosition ==
  ASSUME NEW S \in SUBSET Nat, S # {}
  PROVE  Least(S) \in S /\ \A y \in S : Least(S) <= y
<1>1. \E x \in S : \A y \in S : ~(<<y, x>> \in OpToRel(<, Nat))
  BY Zenon, NatLessThanWellFounded, WFMin
<1>2. \E x \in S : \A y \in S : ~(y < x)
  BY <1>1, Zenon DEF OpToRel
<1>3. \E x \in S : \A y \in S : x <= y
  BY <1>2
<1>. QED  BY Zenon, <1>3 DEF Least

(* Where the elements of two sequences in a row come from.                 *)
LEMMA Concatenation ==
  ASSUME NEW T, NEW s \in Seq(T), NEW r \in Seq(T)
  PROVE  /\ s \o r \in Seq(T)
         /\ Len(s \o r) = Len(s) + Len(r)
         /\ \A i \in 1..(Len(s) + Len(r)) :
              (s \o r)[i] = IF i <= Len(s) THEN s[i] ELSE r[i - Len(s)]
OBVIOUS

(* r is the list s with e put in at position i.                            *)
PutIn(r, s, i, e) ==
  \A j \in 1..(Len(s) + 1) : r[j] = IF j < i THEN s[j] ELSE IF j = i THEN e ELSE s[j - 1]

(* LinkAt puts e at position i and shifts the rest.                        *)
LEMMA LinkAtFacts ==
  ASSUME NEW T, NEW s \in Seq(T), NEW e \in T, NEW i \in 1..(Len(s) + 1)
  PROVE  /\ LinkAt(s, i, e) \in Seq(T)
         /\ Len(LinkAt(s, i, e)) = Len(s) + 1
         /\ PutIn(LinkAt(s, i, e), s, i, e)
<1> DEFINE a == SubSeq(s, 1, i - 1)
           b == SubSeq(s, i, Len(s))
<1>1. a \in Seq(T) /\ Len(a) = i - 1 /\ \A j \in 1..(i - 1) : a[j] = s[j]
  OBVIOUS
<1>2. b \in Seq(T) /\ Len(b) = Len(s) - i + 1 /\ \A j \in 1..(Len(s) - i + 1) : b[j] = s[i + j - 1]
  OBVIOUS
<1> HIDE DEF a, b
<1>3. a \o <<e>> \in Seq(T) /\ Len(a \o <<e>>) = i /\ (a \o <<e>>)[i] = e /\ \A j \in 1..(i - 1) : (a \o <<e>>)[j] = s[j]
  BY <1>1
<1> DEFINE c == a \o <<e>>
<1> HIDE DEF c
<1>4. c \in Seq(T) /\ Len(c) = i /\ c[i] = e /\ \A j \in 1..(i - 1) : c[j] = s[j]
  BY Zenon, <1>3 DEF c
<1>5. /\ c \o b \in Seq(T) /\ Len(c \o b) = Len(c) + Len(b)
      /\ \A j \in 1..(Len(c) + Len(b)) : (c \o b)[j] = IF j <= Len(c) THEN c[j] ELSE b[j - Len(c)]
  BY <1>2, <1>4, Concatenation
<1>6. /\ Len(c \o b) = Len(s) + 1
      /\ \A j \in 1..(Len(s) + 1) : (c \o b)[j] = IF j <= i THEN c[j] ELSE b[j - i]
  BY <1>2, <1>4, <1>5
<1>7. PutIn(c \o b, s, i, e)
  BY <1>2, <1>4, <1>6 DEF PutIn
<1>8. LinkAt(s, i, e) = c \o b
  BY Zenon DEF LinkAt, a, b, c
<1>. QED  BY Zenon, <1>5, <1>6, <1>7, <1>8

(* UnlinkAt drops position i.                                              *)
LEMMA UnlinkAtFacts ==
  ASSUME NEW T, NEW s \in Seq(T), NEW i \in 1..Len(s)
  PROVE  /\ UnlinkAt(s, i) \in Seq(T)
         /\ Len(UnlinkAt(s, i)) = Len(s) - 1
         /\ \A j \in 1..(Len(s) - 1) : UnlinkAt(s, i)[j] = IF j < i THEN s[j] ELSE s[j + 1]
<1> DEFINE a == SubSeq(s, 1, i - 1)
           b == SubSeq(s, i + 1, Len(s))
<1>1. a \in Seq(T) /\ Len(a) = i - 1 /\ \A j \in 1..(i - 1) : a[j] = s[j]
  OBVIOUS
<1>2. b \in Seq(T) /\ Len(b) = Len(s) - i /\ \A j \in 1..(Len(s) - i) : b[j] = s[i + j]
  OBVIOUS
<1> HIDE DEF a, b
<1>3. /\ a \o b \in Seq(T) /\ Len(a \o b) = Len(a) + Len(b)
      /\ \A j \in 1..(Len(a) + Len(b)) : (a \o b)[j] = IF j <= Len(a) THEN a[j] ELSE b[j - Len(a)]
  BY Zenon, <1>1, <1>2, Concatenation
<1>4. /\ Len(a \o b) = Len(s) - 1
      /\ \A j \in 1..(Len(s) - 1) : (a \o b)[j] = IF j < i THEN s[j] ELSE s[j + 1]
  BY <1>1, <1>2, <1>3
<1>5. UnlinkAt(s, i) = a \o b
  BY Zenon DEF UnlinkAt, a, b
<1>. QED  BY Zenon, <1>3, <1>4, <1>5

---------------------------------------------------------------------------
(* The time base                                                           *)

(* Reduction of a number that is less than one range away.                 *)
LEMMA Reduce ==
  ASSUME NEW H \in Nat \ {0}, NEW x \in Int, -H <= x, x < 2 * H
  PROVE  x % H = IF x < 0 THEN x + H ELSE IF x < H THEN x ELSE x - H
OBVIOUS

(* What the constants guarantee.                                           *)
LEMMA HorizonFacts ==
  Half \in Nat /\ MaxLag \in 0..(Half - 1) /\ Horizon = 2 * Half /\ Horizon \in Nat \ {0}
BY KTickAssumption DEF Horizon

(* The differences of two times, of which Ahead is one.                    *)
LEMMA ReduceDifference ==
  ASSUME NEW a \in 0..(Horizon - 1), NEW n \in 0..(Horizon - 1)
  PROVE  /\ (a - n) % Horizon = IF a < n THEN a - n + Horizon ELSE a - n
         /\ (a - n + MaxLag) % Horizon =
              IF a - n + MaxLag < 0 THEN a - n + MaxLag + Horizon
              ELSE IF a - n + MaxLag < Horizon THEN a - n + MaxLag ELSE a - n + MaxLag - Horizon
<1> USE HorizonFacts
<1> DEFINE H == Horizon
           d == a - n
           e == a - n + MaxLag
<1>1. H \in Nat \ {0} /\ d \in Int /\ -H <= d /\ d < 2 * H /\ d < H /\ (d < 0 <=> a < n)
  OBVIOUS
<1>2. e \in Int /\ -H <= e /\ e < 2 * H
  OBVIOUS
<1> HIDE DEF H, d, e
<1>3. d % H = IF d < 0 THEN d + H ELSE d
  BY Zenon, <1>1, Reduce
<1>4. e % H = IF e < 0 THEN e + H ELSE IF e < H THEN e ELSE e - H
  BY Zenon, <1>1, <1>2, Reduce
<1>. QED  BY <1>1, <1>3, <1>4 DEF H, d, e

(* A time plus a delay or a period.                                        *)
LEMMA ReduceSum ==
  ASSUME NEW a \in 0..(Horizon - 1), NEW p \in 0..Horizon
  PROVE  /\ (a + p) % Horizon = IF a + p < Horizon THEN a + p ELSE a + p - Horizon
         /\ (a + p) % Horizon \in 0..(Horizon - 1)
<1> USE HorizonFacts
<1> DEFINE H == Horizon
           d == a + p
<1>1. H \in Nat \ {0} /\ d \in Int /\ -H <= d /\ d < 2 * H /\ ~(d < 0)
  OBVIOUS
<1> HIDE DEF H, d
<1>2. d % H = IF d < H THEN d ELSE d - H
  BY Zenon, <1>1, Reduce
<1>3. d % H \in 0..(H - 1)
  BY <1>1, <1>2
<1>. QED  BY <1>1, <1>2, <1>3 DEF H, d

(* KTickIsSequential compares targets as Ahead orders them.                *)
LEMMA SequentialIsLess ==
  ASSUME NEW a \in 0..(Horizon - 1), NEW b \in 0..(Horizon - 1), NEW n \in 0..(Horizon - 1),
         NEW x \in 0..(Half - 1), x = (a - n + MaxLag) % Horizon,
         NEW y \in 0..(Half - 1), y = (b - n + MaxLag) % Horizon
  PROVE  KTickIsSequential(a, b) <=> x < y
<1> DEFINE m == (b - a) % Horizon
<1>1. x = a - n + MaxLag \/ x = a - n + MaxLag + Horizon \/ x = a - n + MaxLag - Horizon
  BY ReduceDifference, Zenon
<1>2. y = b - n + MaxLag \/ y = b - n + MaxLag + Horizon \/ y = b - n + MaxLag - Horizon
  BY ReduceDifference, Zenon
<1>3. m = IF b < a THEN b - a + Horizon ELSE b - a
  BY Zenon, ReduceDifference
<1>4. KTickIsSequential(a, b) <=> m \in 1..(Half - 1)
  BY Zenon DEF KTickIsSequential
<1> HIDE DEF m
<1>5. ASSUME NEW u \in Int, NEW v \in Int, u = x, v = y PROVE m \in 1..(Half - 1) <=> u < v
  BY <1>1, <1>2, <1>3, <1>5, HorizonFacts
<1>. QED  BY <1>4, <1>5

(* A task is late when its target is no further ahead than MaxLag, and the *)
(* time until the target of another one is what exceeds it.                *)
LEMMA LateIsBehind ==
  ASSUME NEW a \in 0..(Horizon - 1), NEW n \in 0..(Horizon - 1),
         NEW x \in 0..(Half - 1), x = (a - n + MaxLag) % Horizon
  PROVE  /\ KTickIsSequential(n, a) <=> x > MaxLag
         /\ x >= MaxLag => (a - n) % Horizon = x - MaxLag
         /\ x < MaxLag => (a - n) % Horizon >= Half
<1> DEFINE m == (a - n) % Horizon
<1>1. x = a - n + MaxLag \/ x = a - n + MaxLag + Horizon \/ x = a - n + MaxLag - Horizon
  BY ReduceDifference, Zenon
<1>2. m = IF a < n THEN a - n + Horizon ELSE a - n
  BY Zenon, ReduceDifference
<1>3. KTickIsSequential(n, a) <=> m \in 1..(Half - 1)
  BY Zenon DEF KTickIsSequential
<1> HIDE DEF m
<1>4. m = IF x < MaxLag THEN x - MaxLag + Horizon ELSE x - MaxLag
  BY <1>1, <1>2, HorizonFacts
<1>. QED  BY <1>3, <1>4, HorizonFacts DEF m

(* What KTickTaskStart makes of a delay.                                   *)
LEMMA StartAhead ==
  ASSUME NEW n \in 0..(Horizon - 1), NEW d \in Nat, d + MaxLag < Half
  PROVE  /\ (n + d) % Horizon \in 0..(Horizon - 1)
         /\ (((n + d) % Horizon) - n + MaxLag) % Horizon = d + MaxLag
<1> USE HorizonFacts
<1> DEFINE a == (n + d) % Horizon
<1> HIDE DEF a
<1>2. d \in 0..Horizon
  OBVIOUS
<1>3. a = n + d \/ a = n + d - Horizon
  BY ZenonT(30), ReduceSum, <1>2 DEF a
<1>4. a \in 0..(Horizon - 1)
  BY ZenonT(30), ReduceSum, <1>2 DEF a
<1> DEFINE z == (a - n + MaxLag) % Horizon
<1>5. z = IF a - n + MaxLag < 0 THEN a - n + MaxLag + Horizon
          ELSE IF a - n + MaxLag < Horizon THEN a - n + MaxLag ELSE a - n + MaxLag - Horizon
  BY Zenon, <1>4, ReduceDifference
<1> HIDE DEF z
<1>6. z = d + MaxLag
  BY <1>3, <1>4, <1>5
<1>. QED  BY Zenon, <1>4, <1>6 DEF a, z

(* What KTickTaskRun makes of a late periodic task.                        *)
LEMMA PeriodAhead ==
  ASSUME NEW n \in 0..(Horizon - 1), NEW a \in 0..(Horizon - 1), NEW p \in Nat, p + MaxLag < Half,
         (a - n + MaxLag) % Horizon <= MaxLag
  PROVE  /\ (a + p) % Horizon \in 0..(Horizon - 1)
         /\ (((a + p) % Horizon) - n + MaxLag) % Horizon = ((a - n + MaxLag) % Horizon) + p
<1> USE HorizonFacts
<1> DEFINE b == (a + p) % Horizon
           x == (a - n + MaxLag) % Horizon
<1> HIDE DEF b
<1>2. p \in 0..Horizon
  OBVIOUS
<1>3. b = a + p \/ b = a + p - Horizon
  BY ZenonT(30), ReduceSum, <1>2 DEF b
<1>4. b \in 0..(Horizon - 1)
  BY ZenonT(30), ReduceSum, <1>2 DEF b
<1>5. x = IF a - n + MaxLag < 0 THEN a - n + MaxLag + Horizon
          ELSE IF a - n + MaxLag < Horizon THEN a - n + MaxLag ELSE a - n + MaxLag - Horizon
  BY Zenon, ReduceDifference
<1>6. x \in 0..MaxLag
  BY <1>5
<1> DEFINE z == (b - n + MaxLag) % Horizon
<1>7. z = IF b - n + MaxLag < 0 THEN b - n + MaxLag + Horizon
          ELSE IF b - n + MaxLag < Horizon THEN b - n + MaxLag ELSE b - n + MaxLag - Horizon
  BY Zenon, <1>4, ReduceDifference
<1> HIDE DEF x, z
<1>8. z = x + p
  BY <1>3, <1>4, <1>5, <1>6, <1>7
<1>. QED  BY Zenon, <1>4, <1>8 DEF b, x, z

(* One tick of the clock brings a target one step nearer.                  *)
LEMMA TickAhead ==
  ASSUME NEW n \in 0..(Horizon - 1), NEW a \in 0..(Horizon - 1), (n - a) % Horizon # MaxLag
  PROVE  /\ (n + 1) % Horizon \in 0..(Horizon - 1)
         /\ (a - ((n + 1) % Horizon) + MaxLag) % Horizon = ((a - n + MaxLag) % Horizon) - 1
         /\ (a - n + MaxLag) % Horizon \in 1..(Horizon - 1)
<1> USE HorizonFacts
<1> DEFINE m == (n + 1) % Horizon
           x == (a - n + MaxLag) % Horizon
<1> HIDE DEF m
<1>2. m = n + 1 \/ m = n + 1 - Horizon
  BY ReduceSum, 1 \in 0..Horizon DEF m
<1>3. m \in 0..(Horizon - 1)
  BY ReduceSum, 1 \in 0..Horizon DEF m
<1>4. x = IF a - n + MaxLag < 0 THEN a - n + MaxLag + Horizon
          ELSE IF a - n + MaxLag < Horizon THEN a - n + MaxLag ELSE a - n + MaxLag - Horizon
  BY Zenon, ReduceDifference
<1>5. (n - a) % Horizon = IF n < a THEN n - a + Horizon ELSE n - a
  BY Zenon, ReduceDifference
<1>6. x \in 1..(Horizon - 1)
  BY <1>4, <1>5
<1> DEFINE z == (a - m + MaxLag) % Horizon
<1>7. z = IF a - m + MaxLag < 0 THEN a - m + MaxLag + Horizon
          ELSE IF a - m + MaxLag < Horizon THEN a - m + MaxLag ELSE a - m + MaxLag - Horizon
  BY Zenon, <1>3, ReduceDifference
<1> HIDE DEF x, z
<1>8. z = x - 1
  BY <1>2, <1>3, <1>4, <1>6, <1>7
<1>. QED  BY Zenon, <1>3, <1>6, <1>8 DEF m, x, z

---------------------------------------------------------------------------
(* The task list                                                           *)

(* Ahead for targets and a time that need not be the current ones.         *)
Dist(tgt, n, t) == (tgt[t] - n + MaxLag) % Horizon

Near(s, tgt, n) == \A i \in 1..Len(s) : Dist(tgt, n, s[i]) < Half

Ordered(s, tgt, n) ==
  \A i, j \in 1..Len(s) : i < j => Dist(tgt, n, s[i]) <= Dist(tgt, n, s[j])

(* A list as it should be.                                                 *)
InOrder(s, tgt, n) == s \in Seq(Tasks) /\ Distinct(s) /\ Near(s, tgt, n) /\ Ordered(s, tgt, n)

(* r is what is left of s without t.                                       *)
Without(r, s, t) ==
  /\ r \in Seq(Tasks) /\ Distinct(r) /\ t \notin Linked(r)
  /\ \A i \in 1..Len(r) : \E j \in 1..Len(s) : r[i] = s[j]
  /\ \A i, j \in 1..Len(r) : i < j => \E k, l \in 1..Len(s) : k < l /\ r[i] = s[k] /\ r[j] = s[l]

(* A distance is a number, and comparing targets compares distances.       *)
LEMMA DistFacts ==
  ASSUME NEW tgt \in [Tasks -> 0..(Horizon - 1)], NEW n \in 0..(Horizon - 1), NEW t \in Tasks
  PROVE  /\ Dist(tgt, n, t) \in 0..(Horizon - 1)
         /\ \A u \in Tasks : Dist(tgt, n, t) < Half /\ Dist(tgt, n, u) < Half
              => (KTickIsSequential(tgt[t], tgt[u]) <=> Dist(tgt, n, t) < Dist(tgt, n, u))
<1>1. \A u \in Tasks : Dist(tgt, n, u) \in 0..(Horizon - 1)
  <2> TAKE u \in Tasks
  <2> DEFINE z == (tgt[u] - n + MaxLag) % Horizon
  <2>1. tgt[u] \in 0..(Horizon - 1)
    BY Zenon
  <2>2. z = IF tgt[u] - n + MaxLag < 0 THEN tgt[u] - n + MaxLag + Horizon
            ELSE IF tgt[u] - n + MaxLag < Horizon THEN tgt[u] - n + MaxLag
                 ELSE tgt[u] - n + MaxLag - Horizon
    BY Zenon, <2>1, ReduceDifference
  <2> HIDE DEF z
  <2>3. z \in 0..(Horizon - 1)
    BY <2>1, <2>2, HorizonFacts
  <2>. QED  BY Zenon, <2>3 DEF z, Dist
<1>2. ASSUME NEW u \in Tasks, Dist(tgt, n, t) < Half, Dist(tgt, n, u) < Half
      PROVE  KTickIsSequential(tgt[t], tgt[u]) <=> Dist(tgt, n, t) < Dist(tgt, n, u)
  <2> DEFINE x == Dist(tgt, n, t)
             y == Dist(tgt, n, u)
  <2>1. x = (tgt[t] - n + MaxLag) % Horizon /\ y = (tgt[u] - n + MaxLag) % Horizon
    BY Zenon DEF Dist
  <2>2. x \in Int /\ x >= 0 /\ x < Half /\ y \in Int /\ y >= 0 /\ y < Half
    BY <1>1, <1>2, HorizonFacts
  <2> DEFINE a == tgt[t]
             b == tgt[u]
  <2>3. a \in 0..(Horizon - 1) /\ b \in 0..(Horizon - 1)
    BY Zenon
  <2>4. x = (a - n + MaxLag) % Horizon /\ y = (b - n + MaxLag) % Horizon
    BY Zenon, <2>1
  <2> HIDE DEF x, y, a, b
  <2>5. x \in 0..(Half - 1) /\ y \in 0..(Half - 1)
    BY <2>2, HorizonFacts
  <2>6. KTickIsSequential(a, b) <=> x < y
    BY <2>3, <2>4, <2>5, SequentialIsLess
  <2>. QED  BY Zenon, <2>6 DEF x, y, a, b
<1>. QED  BY Zenon, <1>1, <1>2

(* KTickTaskEnqueue keeps the list free of repetitions and in the order of *)
(* the targets; the first task is the old one or the new one.              *)
LEMMA EnqueueFacts ==
  ASSUME NEW s \in Seq(Tasks), Distinct(s), NEW t \in Tasks, t \notin Linked(s),
         NEW tgt \in [Tasks -> 0..(Horizon - 1)], NEW n \in 0..(Horizon - 1),
         Near(s, tgt, n), Ordered(s, tgt, n), Dist(tgt, n, t) < Half,
         NEW r, r = KTickTaskEnqueue(s, t, tgt)
  PROVE  /\ r \in Seq(Tasks) /\ r # <<>> /\ Distinct(r)
         /\ \A i \in 1..Len(r) : r[i] = t \/ \E j \in 1..Len(s) : r[i] = s[j]
         /\ Near(r, tgt, n) /\ Ordered(r, tgt, n)
         /\ r[1] = t \/ (s # <<>> /\ r[1] = s[1])
<1> DEFINE D(u) == Dist(tgt, n, u)
           later == {i \in 1..Len(s) : ~KTickIsSequential(tgt[s[i]], tgt[t])}
           p == KTickTaskGetInsertPosition(s, t, tgt)
<1>1. \A i \in 1..Len(s) : s[i] \in Tasks /\ s[i] # t
  BY DEF Linked
<1>2. D(t) \in Nat /\ \A i \in 1..Len(s) : D(s[i]) \in Nat
  <2>1. \A u \in Tasks : D(u) \in 0..(Horizon - 1)
    BY Zenon, DistFacts
  <2> HIDE DEF D
  <2>. QED  BY <2>1, <1>1, HorizonFacts
<1>3. \A i \in 1..Len(s) : i \in later <=> ~(D(s[i]) < D(t))
  BY Zenon, <1>1, DistFacts DEF Near
<1>4. p = IF later = {} THEN Len(s) + 1 ELSE Least(later)
  BY Zenon DEF KTickTaskGetInsertPosition
<1>5. later \in SUBSET Nat
  OBVIOUS
<1>6. later # {} => Least(later) \in later /\ \A y \in later : Least(later) <= y
  BY Zenon, <1>5, LeastPosition
<1>7. p \in 1..(Len(s) + 1) /\ (p <= Len(s) => p \in later) /\ \A i \in 1..Len(s) : i < p => i \notin later
  <2> later \subseteq 1..Len(s)
    BY Zenon
  <2> HIDE DEF later, p
  <2>. QED  BY SMTT(30), <1>4, <1>6
<1> HIDE DEF later, p, D
<1>8. \A i \in 1..Len(s) : (i < p => D(s[i]) <= D(t)) /\ (i >= p => D(t) <= D(s[i]))
  <2> TAKE i \in 1..Len(s)
  <2>1. CASE i < p
    BY <2>1, <1>2, <1>3, <1>7
  <2>2. CASE i >= p
    <3>1. p \in 1..Len(s) /\ D(t) <= D(s[p])
      BY <2>2, <1>2, <1>3, <1>7
    <3>2. D(s[p]) <= D(s[i])
      BY <3>1, <2>2, <1>2 DEF Ordered, D
    <3>. QED  BY <3>1, <3>2, <2>2, <1>2
  <2>. QED  BY Zenon, <2>1, <2>2, <1>7
<1>9. /\ r \in Seq(Tasks) /\ Len(r) = Len(s) + 1
      /\ \A j \in 1..(Len(s) + 1) : r[j] = IF j < p THEN s[j] ELSE IF j = p THEN t ELSE s[j - 1]
  <2>1. r = LinkAt(s, p, t)
    BY Zenon DEF KTickTaskEnqueue, p
  <2>2. /\ LinkAt(s, p, t) \in Seq(Tasks) /\ Len(LinkAt(s, p, t)) = Len(s) + 1
        /\ PutIn(LinkAt(s, p, t), s, p, t)
    <3>1. p \in 1..(Len(s) + 1)
      BY Zenon, <1>7
    <3>. QED  BY Zenon, <3>1, LinkAtFacts
  <2>3. Len(r) = Len(s) + 1 /\ PutIn(r, s, p, t) /\ r \in Seq(Tasks)
    BY Zenon, <2>1, <2>2
  <2>. QED  BY <2>3 DEF PutIn
<1> DEFINE from(j) == IF j < p THEN j ELSE j - 1
<1>0. \A j \in 1..Len(r) : j # p => from(j) \in 1..Len(s) /\ r[j] = s[from(j)] /\ (from(j) < p <=> j < p)
  <2> TAKE j \in 1..Len(r)
  <2> HAVE j # p
  <2>0. p \in 1..(Len(s) + 1) /\ j \in 1..(Len(s) + 1) /\ Len(s) \in Nat
    BY <1>7, <1>9
  <2>1. CASE j < p
    <3>1. from(j) = j /\ j \in 1..Len(s)
      BY <2>0, <2>1
    <3>2. r[j] = s[j]
      BY Zenon, <2>0, <2>1, <1>9
    <3>. QED  BY <2>1, <3>1, <3>2
  <2>2. CASE j > p
    <3>1. from(j) = j - 1 /\ j - 1 \in 1..Len(s) /\ ~(j - 1 < p) /\ ~(j < p)
      BY <2>0, <2>2
    <3>2. r[j] = s[j - 1]
      BY Zenon, <2>0, <3>1, <1>9
    <3>. QED  BY Zenon, <3>1, <3>2
  <2>. QED  BY <2>0, <2>1, <2>2
<1>p. r[p] = t
  BY <1>7, <1>9
<1>f. \A i, j \in 1..Len(r) : i # p /\ j # p => (i < j => from(i) < from(j)) /\ (from(i) = from(j) => i = j)
  BY <1>7
<1> HIDE DEF from
<1>10. Distinct(r)
  <2>1. SUFFICES ASSUME NEW i \in 1..Len(r), NEW j \in 1..Len(r), r[i] = r[j] PROVE i = j
    BY Zenon DEF Distinct
  <2>2. \A k, l \in 1..Len(s) : s[k] = s[l] => k = l
    BY Zenon DEF Distinct
  <2>3. CASE i = p \/ j = p
    BY ZenonT(30), <2>1, <2>3, <1>1, <1>0, <1>p
  <2>4. CASE i # p /\ j # p
    <3>1. from(i) = from(j)
      BY SMTT(30), <2>1, <2>2, <2>4, <1>0
    <3>. QED  BY Zenon, <3>1, <2>4, <1>f
  <2>. QED  BY Zenon, <2>3, <2>4
<1>11. \A i \in 1..Len(r) : r[i] = t \/ \E j \in 1..Len(s) : r[i] = s[j]
  <2> TAKE i \in 1..Len(r)
  <2>. QED  BY Zenon, <1>0, <1>p
<1>12. Near(r, tgt, n)
  BY Zenon, <1>11 DEF Near
<1>13. \A i, j \in 1..Len(r) : i < j => D(r[i]) <= D(r[j])
  <2>1. \A i, j \in 1..Len(s) : i < j => D(s[i]) <= D(s[j])
    BY Zenon DEF Ordered, D
  <2> TAKE i, j \in 1..Len(r)
  <2> HAVE i < j
  <2>2. CASE i = p
    <3>1. from(j) \in 1..Len(s) /\ r[j] = s[from(j)] /\ from(j) >= p
      BY <2>2, <1>0, <1>7
    <3>. QED  BY Zenon, <3>1, <2>2, <1>8, <1>p
  <2>3. CASE j = p
    <3>1. from(i) \in 1..Len(s) /\ r[i] = s[from(i)] /\ from(i) < p
      BY <2>3, <1>0, <1>7
    <3>. QED  BY Zenon, <3>1, <2>3, <1>8, <1>p
  <2>4. CASE i # p /\ j # p
    BY Zenon, <2>1, <2>4, <1>0, <1>f
  <2>. QED  BY Zenon, <2>2, <2>3, <2>4
<1>14. Ordered(r, tgt, n)
  BY Zenon, <1>13 DEF Ordered, D
<1>15. r # <<>> /\ (r[1] = t \/ (s # <<>> /\ r[1] = s[1]))
  BY <1>7, <1>9
<1>. QED  BY Zenon, <1>9, <1>10, <1>11, <1>12, <1>14, <1>15

(* The same of a list that is as it should be.                             *)
LEMMA EnqueueInOrder ==
  ASSUME NEW s, NEW t \in Tasks, t \notin Linked(s),
         NEW tgt \in [Tasks -> 0..(Horizon - 1)], NEW n \in 0..(Horizon - 1),
         InOrder(s, tgt, n), Dist(tgt, n, t) < Half,
         NEW r, r = KTickTaskEnqueue(s, t, tgt)
  PROVE  /\ InOrder(r, tgt, n) /\ r # <<>>
         /\ \A i \in 1..Len(r) : r[i] = t \/ \E j \in 1..Len(s) : r[i] = s[j]
         /\ r[1] = t \/ (s # <<>> /\ r[1] = s[1])
<1>1. s \in Seq(Tasks) /\ Distinct(s) /\ Near(s, tgt, n) /\ Ordered(s, tgt, n)
  BY Zenon DEF InOrder
<1>2. /\ r \in Seq(Tasks) /\ r # <<>> /\ Distinct(r)
      /\ \A i \in 1..Len(r) : r[i] = t \/ \E j \in 1..Len(s) : r[i] = s[j]
      /\ Near(r, tgt, n) /\ Ordered(r, tgt, n)
      /\ r[1] = t \/ (s # <<>> /\ r[1] = s[1])
  BY <1>1, EnqueueFacts
<1>. QED  BY Zenon, <1>2 DEF InOrder

(* KTickTaskDequeue takes the task out and keeps the order of the others.  *)
LEMMA DequeueFacts ==
  ASSUME NEW s \in Seq(Tasks), Distinct(s), NEW t \in Tasks,
         NEW r, r = KTickTaskDequeue(s, t)
  PROVE  /\ Without(r, s, t)
         /\ s # <<>> /\ s[1] # t => r # <<>> /\ r[1] = s[1]
<1>1. CASE t \notin Linked(s)
  <2>1. r = s
    BY Zenon, <1>1 DEF KTickTaskDequeue
  <2>. QED  BY Zenon, <1>1, <2>1 DEF Without
<1>2. CASE t \in Linked(s)
  <2> DEFINE at == {i \in 1..Len(s) : s[i] = t}
             p == Least(at)
  <2>1. at \in SUBSET Nat
    OBVIOUS
  <2>2. at # {}
    BY <1>2 DEF Linked
  <2>3. p \in at
    BY Zenon, <2>1, <2>2, LeastPosition
  <2>4. p \in 1..Len(s) /\ s[p] = t
    BY Zenon, <2>3
  <2>5. r = UnlinkAt(s, p)
    BY Zenon, <1>2 DEF KTickTaskDequeue
  <2> HIDE DEF at, p
  <2>6. /\ r \in Seq(Tasks) /\ Len(r) = Len(s) - 1
        /\ \A j \in 1..(Len(s) - 1) : r[j] = IF j < p THEN s[j] ELSE s[j + 1]
    BY Zenon, <2>4, <2>5, UnlinkAtFacts
  <2>7. Distinct(r)
    BY <2>4, <2>6 DEF Distinct
  <2>8. t \notin Linked(r)
    BY <2>4, <2>6 DEF Distinct, Linked
  <2> DEFINE from(i) == IF i < p THEN i ELSE i + 1
  <2>9. \A i \in 1..Len(r) : from(i) \in 1..Len(s) /\ r[i] = s[from(i)]
    BY <2>4, <2>6
  <2>10. \A i, j \in 1..Len(r) : i < j => from(i) < from(j)
    BY <2>4, <2>6
  <2>11. s # <<>> /\ s[1] # t => r # <<>> /\ r[1] = s[1]
    BY <2>4, <2>6
  <2> HIDE DEF from
  <2>. QED  BY Zenon, <2>6, <2>7, <2>8, <2>9, <2>10, <2>11 DEF Without
<1>. QED  BY Zenon, <1>1, <1>2

(* The list without its first task, as KTickTaskRun takes it off.          *)
LEMMA TailFacts ==
  ASSUME NEW s \in Seq(Tasks), Distinct(s), s # <<>>,
         NEW r, r = Tail(s), NEW t, t = Head(s)
  PROVE  /\ t \in Tasks /\ t = s[1] /\ 1 \in 1..Len(s)
         /\ Without(r, s, t)
<1>1. /\ r \in Seq(Tasks) /\ Len(r) = Len(s) - 1
      /\ \A i \in 1..Len(r) : i + 1 \in 1..Len(s) /\ r[i] = s[i + 1]
  OBVIOUS
<1>2. t \in Tasks /\ t = s[1] /\ 1 \in 1..Len(s)
  OBVIOUS
<1>3. \A i, j \in 1..Len(s) : s[i] = s[j] => i = j
  BY Zenon DEF Distinct
<1>4. Distinct(r)
  BY <1>1, <1>3 DEF Distinct
<1>5. t \notin Linked(r)
  <2>1. \A i \in 1..Len(r) : i + 1 # 1
    BY <1>1
  <2>2. \A i \in 1..Len(r) : r[i] # t
    BY Zenon, <1>1, <1>2, <1>3, <2>1
  <2>. QED  BY <1>1, <2>2 DEF Linked
<1>6. \A i, j \in 1..Len(r) : i < j => i + 1 < j + 1
  BY <1>1
<1>. QED  BY Zenon, <1>1, <1>2, <1>4, <1>5, <1>6 DEF Without

(* What is left of an ordered list is ordered, whatever becomes of the     *)
(* target of a task that is no longer in it.                               *)
LEMMA RestOrdered ==
  ASSUME NEW s, NEW r, NEW t, Without(r, s, t), NEW tgt, NEW new, NEW n,
         \A u \in Tasks : u # t => new[u] = tgt[u], InOrder(s, tgt, n)
  PROVE  InOrder(r, new, n)
<1>1. \A i \in 1..Len(r) : r[i] \in Tasks /\ r[i] # t
  BY DEF Linked, Without
<1>2. \A i \in 1..Len(r) : Dist(new, n, r[i]) = Dist(tgt, n, r[i])
  BY Zenon, <1>1 DEF Dist
<1>3. Near(r, new, n)
  BY <1>2 DEF Near, InOrder, Without
<1>4. Ordered(r, new, n)
  BY <1>2 DEF Ordered, InOrder, Without
<1>. QED  BY Zenon, <1>3, <1>4 DEF InOrder, Without

---------------------------------------------------------------------------
(* TickInv                                                                 *)

(* The two halves of the window invariant in terms of Dist.                *)
LEMMA WindowFacts ==
  ASSUME TickInv
  PROVE  /\ InOrder(list, target, now)
         /\ target \in [Tasks -> 0..(Horizon - 1)] /\ now \in 0..(Horizon - 1)
<1>1. Near(list, target, now)
  BY Zenon DEF TickInv, InWindow, Ahead, Near, Dist
<1>2. Ordered(list, target, now)
  BY Zenon DEF TickInv, ByTarget, Ahead, Ordered, Dist
<1>. QED  BY Zenon, <1>1, <1>2 DEF TickInv, TypeOK, LinkedOnce, InOrder

(* And after a step.                                                       *)
LEMMA WindowNext ==
  ASSUME InOrder(list', target', now')
  PROVE  list' \in Seq(Tasks) /\ Distinct(list') /\ InWindow' /\ ByTarget'
<1>1. InWindow'
  BY Zenon DEF InOrder, InWindow, Ahead, Near, Dist
<1>2. ByTarget'
  BY Zenon DEF InOrder, ByTarget, Ahead, Ordered, Dist
<1>. QED  BY Zenon, <1>1, <1>2 DEF InOrder

(* What KTickTaskReschedule leaves in the decrementer.                     *)
LEMMA RescheduleFacts ==
  ASSUME NEW s \in Seq(Tasks), NEW tgt \in [Tasks -> 0..(Horizon - 1)], now \in 0..(Horizon - 1),
         dec \in -1..MaxDec, due \in BOOLEAN, KTickTaskReschedule(s, tgt)
  PROVE  /\ dec' \in -1..MaxDec /\ due' \in BOOLEAN /\ due' = due
         /\ s = <<>> => dec' = dec
         /\ s # <<>> => dec' = Clamped((tgt[s[1]] - now) % Horizon)
<1>1. CASE s = <<>>
  BY Zenon, <1>1 DEF KTickTaskReschedule
<1>2. CASE s # <<>>
  <2> DEFINE a == tgt[s[1]]
             d == (a - now) % Horizon
  <2>1. a \in 0..(Horizon - 1)
    BY <1>2
  <2>2. d = IF a < now THEN a - now + Horizon ELSE a - now
    BY Zenon, <2>1, ReduceDifference
  <2>3. dec' = Clamped(d) /\ due' = due
    BY Zenon, <1>2 DEF KTickTaskReschedule
  <2> HIDE DEF d, a
  <2>4. d \in Nat
    BY <2>1, <2>2, HorizonFacts
  <2>5. Clamped(d) \in 0..MaxDec
    BY <2>4, KTickAssumption DEF Clamped
  <2>6. dec' \in -1..MaxDec
    BY <2>3, <2>5, KTickAssumption
  <2>. QED  BY Zenon, <1>2, <2>3, <2>6 DEF a, d
<1>. QED  BY Zenon, <1>1, <1>2

(* KTickTaskStart keeps the invariant: the new target is in the window.    *)
LEMMA StartStep ==
  ASSUME TickInv, NEW t \in Tasks, NEW d \in Delays, NEW p \in Periods, KTickTaskStart(t, d, p)
  PROVE  /\ TickInv' /\ list' # <<>> /\ Dist(target', now, t) < Half
         /\ target'[t] = (now + d) % Horizon
         /\ \A u \in Tasks : u # t => target'[u] = target[u]
<1> DEFINE rest == IF fn[t] THEN KTickTaskDequeue(list, t) ELSE list
<1>1. /\ InOrder(list, target, now)
      /\ target \in [Tasks -> 0..(Horizon - 1)] /\ now \in 0..(Horizon - 1)
  BY Zenon, WindowFacts
<1>2. Without(rest, list, t)
  <2>1. list \in Seq(Tasks) /\ Distinct(list)
    BY Zenon, <1>1 DEF InOrder
  <2>2. CASE fn[t]
    BY Zenon, <2>1, <2>2, DequeueFacts
  <2>3. CASE ~fn[t]
    <3>1. rest = list /\ t \notin Linked(list)
      BY <2>1, <2>3 DEF TickInv, LinkedOnce, Linked
    <3>. QED  BY Zenon, <2>1, <3>1 DEF Without
  <2>. QED  BY Zenon, <2>2, <2>3
<1>3. d \in Nat /\ d + MaxLag < Half /\ p \in Nat
  BY Zenon, KTickAssumption
<1> DEFINE a == (now + d) % Horizon
<1>4. a \in 0..(Horizon - 1) /\ (a - now + MaxLag) % Horizon = d + MaxLag
  BY Zenon, <1>1, <1>3, StartAhead
<1>5. target' = [target EXCEPT ![t] = a]
  BY Zenon DEF KTickTaskStart
<1> HIDE DEF a
<1>6. /\ target' \in [Tasks -> 0..(Horizon - 1)] /\ target'[t] = a
      /\ \A u \in Tasks : u # t => target'[u] = target[u]
  BY Zenon, <1>1, <1>4, <1>5
<1>7. list' = KTickTaskEnqueue(rest, t, target')
  BY Zenon DEF KTickTaskStart
<1> HIDE DEF rest
<1>8. Dist(target', now, t) < Half
  <2>1. Dist(target', now, t) = d + MaxLag
    BY <1>4, <1>6, Zenon DEF Dist
  <2>. QED  BY Zenon, <1>3, <2>1
<1>9. InOrder(rest, target', now)
  BY <1>1, <1>2, <1>6, RestOrdered
<1>10. /\ InOrder(list', target', now) /\ list' # <<>>
       /\ \A i \in 1..Len(list') : list'[i] = t \/ \E j \in 1..Len(rest) : list'[i] = rest[j]
  <2>1. t \notin Linked(rest)
    BY Zenon, <1>2 DEF Without
  <2>. QED  BY <1>1, <1>6, <1>7, <1>8, <1>9, <2>1, EnqueueInOrder
<1>11. now' = now /\ running' = running
  BY Zenon DEF KTickTaskStart
<1>12. list' \in Seq(Tasks) /\ Distinct(list') /\ InWindow' /\ ByTarget'
  BY Zenon, <1>10, <1>11, WindowNext
<1>13. fn' \in [Tasks -> BOOLEAN] /\ fn'[t] /\ \A u \in Tasks : fn[u] => fn'[u]
  BY Zenon DEF KTickTaskStart, TickInv, TypeOK
<1>14. LinkedOnce'
  <2>1. \A i \in 1..Len(list) : fn[list[i]] /\ list[i] \in Tasks
    BY DEF TickInv, TypeOK, LinkedOnce
  <2>2. \A i \in 1..Len(rest) : \E j \in 1..Len(list) : rest[i] = list[j]
    BY Zenon, <1>2 DEF Without
  <2>3. \A i \in 1..Len(list') : fn'[list'[i]]
    <3> TAKE i \in 1..Len(list')
    <3>1. CASE list'[i] = t
      BY Zenon, <3>1, <1>13
    <3>2. ASSUME NEW j \in 1..Len(rest), list'[i] = rest[j] PROVE fn'[list'[i]]
      BY Zenon, <3>2, <1>13, <2>1, <2>2
    <3>. QED  BY Zenon, <3>1, <3>2, <1>10
  <2>. QED  BY Zenon, <1>12, <2>3 DEF LinkedOnce
<1>15. period' \in [Tasks -> Periods \cup {0}]
  BY Zenon DEF TickInv, TypeOK, KTickTaskStart
<1>16. dec' \in -1..MaxDec /\ due' \in BOOLEAN
  <2>1. CASE UNCHANGED <<dec, due>>
    BY Zenon, <2>1 DEF TickInv, TypeOK
  <2>2. CASE KTickTaskReschedule(list', target')
    BY Zenon, <1>1, <1>6, <1>12, <2>2, RescheduleFacts DEF TickInv, TypeOK
  <2>. QED  BY Zenon, <2>1, <2>2 DEF KTickTaskStart
<1>17. TypeOK'
  BY Zenon, <1>1, <1>6, <1>11, <1>12, <1>13, <1>15, <1>16 DEF TypeOK, TickInv
<1>. QED  BY Zenon, <1>6, <1>8, <1>10, <1>12, <1>14, <1>17 DEF TickInv, a

(* KTickTaskStop keeps the invariant.                                      *)
LEMMA StopStep ==
  ASSUME TickInv, NEW t \in Tasks, KTickTaskStop(t)
  PROVE  /\ TickInv' /\ target' = target
         /\ list # <<>> /\ Head(list) # t => list' # <<>> /\ Head(list') = Head(list)
<1>1. /\ InOrder(list, target, now)
      /\ target \in [Tasks -> 0..(Horizon - 1)] /\ now \in 0..(Horizon - 1)
  BY Zenon, WindowFacts
<1>2. list \in Seq(Tasks) /\ Distinct(list)
  BY Zenon, <1>1 DEF InOrder
<1>3. list' = KTickTaskDequeue(list, t)
  BY Zenon DEF KTickTaskStop
<1>4. Without(list', list, t) /\ (list # <<>> /\ list[1] # t => list' # <<>> /\ list'[1] = list[1])
  BY Zenon, <1>2, <1>3, DequeueFacts
<1>5. target' = target /\ period' = period /\ now' = now /\ running' = running
  BY Zenon DEF KTickTaskStop
<1>6. InOrder(list', target', now')
  <2>1. InOrder(list', target, now)
    BY Zenon, <1>1, <1>4, RestOrdered
  <2>. QED  BY Zenon, <2>1, <1>5
<1>7. list' \in Seq(Tasks) /\ Distinct(list') /\ InWindow' /\ ByTarget'
  BY Zenon, <1>6, WindowNext
<1>8. fn' \in [Tasks -> BOOLEAN] /\ \A u \in Tasks : u # t => fn'[u] = fn[u]
  BY Zenon DEF KTickTaskStop, TickInv, TypeOK
<1>9. LinkedOnce'
  <2>1. \A i \in 1..Len(list) : fn[list[i]] /\ list[i] \in Tasks
    BY DEF TickInv, TypeOK, LinkedOnce
  <2>2. \A i \in 1..Len(list') : list'[i] # t /\ \E j \in 1..Len(list) : list'[i] = list[j]
    BY <1>4 DEF Without, Linked
  <2>3. \A i \in 1..Len(list') : fn'[list'[i]]
    BY <1>8, <2>1, <2>2
  <2>. QED  BY Zenon, <1>7, <2>3 DEF LinkedOnce
<1>10. dec' \in -1..MaxDec /\ due' \in BOOLEAN
  <2>1. CASE UNCHANGED <<dec, due>>
    BY Zenon, <2>1 DEF TickInv, TypeOK
  <2>2. CASE KTickTaskReschedule(list', target)
    BY Zenon, <1>1, <1>7, <2>2, RescheduleFacts DEF TickInv, TypeOK
  <2>. QED  BY Zenon, <2>1, <2>2 DEF KTickTaskStop
<1>11. TypeOK'
  BY Zenon, <1>5, <1>7, <1>8, <1>10 DEF TypeOK, TickInv
<1>. QED  BY <1>2, <1>4, <1>5, <1>7, <1>9, <1>11 DEF TickInv

(* One turn of KTickTaskRun keeps the invariant: the next target of a late *)
(* periodic task is in the window.                                         *)
LEMMA RunOneStep ==
  ASSUME TickInv, KTickTaskRunOne
  PROVE  TickInv'
<1> DEFINE t == Head(list)
           rest == Tail(list)
<1>1. /\ InOrder(list, target, now)
      /\ target \in [Tasks -> 0..(Horizon - 1)] /\ now \in 0..(Horizon - 1)
  BY Zenon, WindowFacts
<1>2. list \in Seq(Tasks) /\ Distinct(list) /\ list # <<>> /\ ~KTickIsSequential(now, target[t])
  BY Zenon, <1>1 DEF InOrder, KTickTaskRunOne, Late
<1>3. t \in Tasks /\ t = list[1] /\ 1 \in 1..Len(list) /\ Without(rest, list, t)
  BY Zenon, <1>2, TailFacts
<1>4. period' = period /\ now' = now /\ running' = running /\ dec' = dec /\ due' = due
  BY Zenon DEF KTickTaskRunOne
<1>5. /\ period[t] # 0 => target' = [target EXCEPT ![t] = NextTarget(t)]
                          /\ list' = KTickTaskEnqueue(rest, t, target') /\ fn' = fn
      /\ period[t] = 0 => list' = rest /\ fn' = [fn EXCEPT ![t] = FALSE] /\ target' = target
  BY Zenon DEF KTickTaskRunOne
<1>6. \A i \in 1..Len(list) : fn[list[i]] /\ list[i] \in Tasks
  BY DEF TickInv, TypeOK, LinkedOnce
<1> HIDE DEF t, rest
<1>7. \A i \in 1..Len(rest) : rest[i] # t /\ \E j \in 1..Len(list) : rest[i] = list[j]
  BY <1>3 DEF Without, Linked
<1>8. CASE period[t] # 0
  <2> DEFINE p == period[t]
             a == target[t]
             b == (a + p) % Horizon
  <2>1. p \in Nat /\ p + MaxLag < Half
    BY Zenon, <1>3, <1>8, KTickAssumption DEF TickInv, TypeOK
  <2>2. a \in 0..(Horizon - 1)
    BY Zenon, <1>1, <1>3
  <2>3. Dist(target, now, t) = (a - now + MaxLag) % Horizon
    BY Zenon DEF Dist
  <2>4. Dist(target, now, t) \in 0..(Half - 1)
    <3>1. Dist(target, now, t) < Half
      BY Zenon, <1>1, <1>3 DEF InOrder, Near
    <3>2. Dist(target, now, t) \in 0..(Horizon - 1)
      BY Zenon, <1>1, <1>3, DistFacts
    <3>. QED  BY <3>1, <3>2, HorizonFacts
  <2>5. target' = [target EXCEPT ![t] = b] /\ list' = KTickTaskEnqueue(rest, t, target') /\ fn' = fn
    BY Zenon, <1>5, <1>8 DEF NextTarget
  <2>6. ~KTickIsSequential(now, a)
    BY Zenon, <1>2
  <2> HIDE DEF p, a
  <2> DEFINE x == Dist(target, now, t)
  <2> HIDE DEF x
  <2>7. x \in 0..(Half - 1) /\ x = (a - now + MaxLag) % Horizon
    BY Zenon, <2>3, <2>4 DEF x
  <2>8. ~(x > MaxLag)
    BY Zenon, <1>1, <2>2, <2>6, <2>7, LateIsBehind
  <2>9. x <= MaxLag
    BY <2>7, <2>8, HorizonFacts
  <2>10. (a - now + MaxLag) % Horizon <= MaxLag
    BY Zenon, <2>7, <2>9
  <2>11. b \in 0..(Horizon - 1) /\ (b - now + MaxLag) % Horizon = ((a - now + MaxLag) % Horizon) + p
    BY Zenon, <1>1, <2>1, <2>2, <2>10, PeriodAhead
  <2> HIDE DEF b
  <2>12. /\ target' \in [Tasks -> 0..(Horizon - 1)] /\ target'[t] = b
         /\ \A u \in Tasks : u # t => target'[u] = target[u]
    BY Zenon, <1>1, <1>3, <2>5, <2>11
  <2>13. Dist(target', now, t) = x + p
    BY <2>7, <2>11, <2>12, Zenon DEF Dist
  <2>14. Dist(target', now, t) < Half
    BY <2>1, <2>7, <2>9, <2>13, HorizonFacts
  <2>15. t \in Tasks /\ t \notin Linked(rest)
    BY Zenon, <1>3 DEF Without
  <2>16. InOrder(rest, target', now)
    BY <1>1, <1>3, <2>12, RestOrdered
  <2>17. /\ InOrder(list', target', now)
         /\ \A i \in 1..Len(list') : list'[i] = t \/ \E j \in 1..Len(rest) : list'[i] = rest[j]
    <3>1. list' = KTickTaskEnqueue(rest, t, target') /\ target' \in [Tasks -> 0..(Horizon - 1)]
      BY Zenon, <2>5, <2>12
    <3>. QED  BY <1>1, <2>14, <2>15, <2>16, <3>1, EnqueueInOrder
  <2>18. list' \in Seq(Tasks) /\ Distinct(list') /\ InWindow' /\ ByTarget'
    BY Zenon, <1>4, <2>17, WindowNext
  <2>19. \A i \in 1..Len(list') : \E j \in 1..Len(list) : list'[i] = list[j]
    BY <1>3, <1>7, <2>17
  <2>20. LinkedOnce'
    BY Zenon, <1>6, <2>5, <2>18, <2>19 DEF LinkedOnce
  <2>21. TypeOK'
    BY Zenon, <1>4, <2>5, <2>12, <2>18 DEF TypeOK, TickInv
  <2>. QED  BY Zenon, <2>18, <2>20, <2>21 DEF TickInv
<1>9. CASE period[t] = 0
  <2>1. list' = rest /\ fn' = [fn EXCEPT ![t] = FALSE] /\ target' = target
    BY Zenon, <1>5, <1>9
  <2>2. InOrder(list', target', now')
    <3>1. InOrder(rest, target, now)
      BY Zenon, <1>1, <1>3, RestOrdered
    <3>. QED  BY Zenon, <3>1, <2>1, <1>4
  <2>3. list' \in Seq(Tasks) /\ Distinct(list') /\ InWindow' /\ ByTarget'
    BY Zenon, <2>2, WindowNext
  <2>4. fn' \in [Tasks -> BOOLEAN] /\ \A u \in Tasks : u # t => fn'[u] = fn[u]
    BY Zenon, <2>1 DEF TickInv, TypeOK
  <2>5. LinkedOnce'
    <3>1. \A i \in 1..Len(list') : fn'[list'[i]]
      BY <1>6, <1>7, <2>1, <2>4
    <3>. QED  BY Zenon, <3>1, <2>3 DEF LinkedOnce
  <2>6. TypeOK'
    BY Zenon, <1>4, <2>1, <2>3, <2>4 DEF TypeOK, TickInv
  <2>. QED  BY Zenon, <2>3, <2>5, <2>6 DEF TickInv
<1>. QED  BY Zenon, <1>8, <1>9

(* A tick of the clock moves every listed target one step down the window. *)
LEMMA TickStep ==
  ASSUME TickInv, Tick
  PROVE  /\ TickInv' /\ list' = list /\ running' = running
         /\ \A i \in 1..Len(list) : Dist(target', now', list[i]) = Dist(target, now, list[i]) - 1
<1>1. /\ InOrder(list, target, now)
      /\ target \in [Tasks -> 0..(Horizon - 1)] /\ now \in 0..(Horizon - 1)
  BY Zenon, WindowFacts
<1>2. list' = list /\ fn' = fn /\ target' = target /\ period' = period /\ running' = running
  BY Zenon DEF Tick, taskVars
<1>3. list \in Seq(Tasks) /\ \A i \in 1..Len(list) : list[i] \in Tasks
  BY <1>1 DEF InOrder
<1>4. now' = (now + 1) % Horizon /\ \A i \in 1..Len(list) : (now - target[list[i]]) % Horizon # MaxLag
  BY Zenon DEF Tick
<1>5. ASSUME NEW i \in 1..Len(list)
      PROVE  /\ Dist(target', now', list[i]) = Dist(target, now, list[i]) - 1
             /\ Dist(target, now, list[i]) \in Int
  <2> DEFINE a == target[list[i]]
             m == (now + 1) % Horizon
             x == (a - now + MaxLag) % Horizon
             y == (a - m + MaxLag) % Horizon
  <2>1. a \in 0..(Horizon - 1)
    <3>1. list[i] \in Tasks
      BY Zenon, <1>3
    <3>. QED  BY Zenon, <1>1, <3>1
  <2>2. (now - a) % Horizon # MaxLag /\ now' = m
    BY Zenon, <1>4
  <2> HIDE DEF a
  <2>3. y = x - 1 /\ x \in 1..(Horizon - 1)
    BY Zenon, <1>1, <2>1, <2>2, TickAhead
  <2> HIDE DEF m
  <2>4. Dist(target, now, list[i]) = x
    BY Zenon DEF Dist, a
  <2>5. Dist(target', now', list[i]) = y
    BY Zenon, <1>2, <2>2 DEF Dist, a
  <2> HIDE DEF x, y
  <2>. QED  BY <2>3, <2>4, <2>5, HorizonFacts
<1>6. InOrder(list', target', now')
  <2> DEFINE D(i) == Dist(target, now, list[i])
             E(i) == Dist(target', now', list[i])
  <2>1. \A i \in 1..Len(list) : E(i) = D(i) - 1 /\ D(i) \in Int
    BY Zenon, <1>5
  <2>2. \A i \in 1..Len(list) : D(i) < Half
    BY Zenon, <1>1 DEF InOrder, Near
  <2>3. \A i, j \in 1..Len(list) : i < j => D(i) <= D(j)
    BY Zenon, <1>1 DEF InOrder, Ordered
  <2> HIDE DEF D, E
  <2>4. \A i \in 1..Len(list) : E(i) < Half
    BY <2>1, <2>2, HorizonFacts
  <2>5. \A i, j \in 1..Len(list) : i < j => E(i) <= E(j)
    BY <2>1, <2>3
  <2>6. Near(list, target', now')
    BY Zenon, <2>4 DEF E, Near
  <2>7. Ordered(list, target', now')
    BY Zenon, <2>5 DEF E, Ordered
  <2>. QED  BY Zenon, <1>1, <1>2, <2>6, <2>7 DEF InOrder
<1>7. InWindow' /\ ByTarget'
  BY Zenon, <1>6, WindowNext
<1>8. now' \in 0..(Horizon - 1)
  BY <1>1, <1>4, ReduceSum, HorizonFacts, 1 \in 0..Horizon
<1>9. dec' \in -1..MaxDec /\ due' \in BOOLEAN
  <2>1. dec \in -1..MaxDec /\ due \in BOOLEAN
    BY Zenon DEF TickInv, TypeOK
  <2>2. dec' = IF dec = -1 THEN -1 ELSE dec - 1
    BY Zenon DEF Tick
  <2>3. dec' \in -1..MaxDec
    BY <2>1, <2>2, KTickAssumption
  <2>. QED  BY <2>1, <2>3, Zenon DEF Tick
<1>10. TypeOK'
  BY Zenon, <1>2, <1>8, <1>9 DEF TypeOK, TickInv
<1>11. LinkedOnce'
  BY Zenon, <1>2 DEF TickInv, LinkedOnce
<1>. QED  BY Zenon, <1>2, <1>5, <1>7, <1>10, <1>11 DEF TickInv

(* The steps that leave the list, the targets and the time alone.          *)
LEMMA QuietStep ==
  ASSUME TickInv, UNCHANGED <<list, target, period, now>>,
         fn' \in [Tasks -> BOOLEAN], \A i \in 1..Len(list) : fn'[list[i]],
         dec' \in -1..MaxDec, due' \in BOOLEAN, running' \in BOOLEAN
  PROVE  TickInv'
<1>1. InWindow'
  BY Zenon DEF TickInv, InWindow, Ahead
<1>2. ByTarget'
  BY Zenon DEF TickInv, ByTarget, Ahead
<1>3. LinkedOnce'
  BY Zenon DEF TickInv, LinkedOnce
<1>4. TypeOK'
  BY Zenon DEF TickInv, TypeOK
<1>. QED  BY Zenon, <1>1, <1>2, <1>3, <1>4 DEF TickInv

(* The invariant holds at boot.                                            *)
LEMMA StartInv ==
  ASSUME Init
  PROVE  TickInv
<1> USE HorizonFacts
<1>1. list = <<>> /\ Len(list) = 0 /\ list \in Seq(Tasks)
  BY DEF Init
<1>2. TypeOK
  <2>1. target \in [Tasks -> 0..(Horizon - 1)] /\ now \in 0..(Horizon - 1)
    BY DEF Init
  <2>2. dec \in -1..MaxDec
    BY KTickAssumption DEF Init
  <2>. QED  BY Zenon, <1>1, <2>1, <2>2 DEF Init, TypeOK
<1>3. LinkedOnce /\ InWindow /\ ByTarget
  BY <1>1 DEF LinkedOnce, Distinct, InWindow, ByTarget
<1>. QED  BY Zenon, <1>2, <1>3 DEF TickInv

(* Only memory that holds no listed task is reused.                        *)
LEMMA ReuseStep ==
  ASSUME TickInv, NEW t \in Tasks, Reuse(t)
  PROVE  TickInv'
<1>1. \A i \in 1..Len(list) : list[i] \in Tasks /\ fn[list[i]] /\ list[i] # t
  BY DEF Reuse, TickInv, TypeOK, LinkedOnce, Linked
<1>2. fn' \in [Tasks -> BOOLEAN] /\ \A u \in Tasks : u # t => fn'[u] = fn[u]
  BY Zenon DEF Reuse, TickInv, TypeOK
<1>3. dec' = dec /\ due' = due /\ running' = running /\ UNCHANGED <<list, target, period, now>>
  BY Zenon DEF Reuse
<1>. QED  BY Zenon, <1>1, <1>2, <1>3, QuietStep DEF TickInv, TypeOK

(* Entering and leaving KTickTaskRun leaves the list alone.                *)
LEMMA ClockStep ==
  ASSUME TickInv, KTickTaskRun \/ KTickTaskRunEnd \/ Spurious \/ UNCHANGED vars
  PROVE  TickInv'
<1>1. UNCHANGED <<list, target, period, now, fn>> /\ running' \in BOOLEAN
  BY Zenon DEF KTickTaskRun, KTickTaskRunEnd, Spurious, vars, taskVars, TickInv, TypeOK
<1>2. dec' \in -1..MaxDec /\ due' \in BOOLEAN
  <2>1. CASE KTickTaskRunEnd
    <3>1. KTickTaskReschedule(list, target)
      BY Zenon, <2>1 DEF KTickTaskRunEnd
    <3>. QED  BY Zenon, <3>1, RescheduleFacts DEF TickInv, TypeOK
  <2>2. CASE KTickTaskRun \/ Spurious \/ UNCHANGED vars
    BY Zenon, <2>2 DEF KTickTaskRun, Spurious, vars, TickInv, TypeOK
  <2>. QED  BY Zenon, <2>1, <2>2
<1>3. fn' \in [Tasks -> BOOLEAN] /\ \A i \in 1..Len(list) : fn'[list[i]]
  BY Zenon, <1>1 DEF TickInv, TypeOK, LinkedOnce
<1>. QED  BY Zenon, <1>1, <1>2, <1>3, QuietStep

(* Every step of the timer queue keeps the invariant.                      *)
LEMMA NextKeepsTickInv ==
  ASSUME TickInv, [Next]_vars
  PROVE  TickInv'
<1>1. ASSUME NEW t \in Tasks, Start(t) PROVE TickInv'
  BY Zenon, <1>1, StartStep DEF Start
<1>2. ASSUME NEW t \in Tasks, KTickTaskStop(t) PROVE TickInv'
  BY Zenon, <1>2, StopStep
<1>3. ASSUME NEW t \in Tasks, Reuse(t) PROVE TickInv'
  BY Zenon, <1>3, ReuseStep
<1>4. CASE KTickTaskRun \/ KTickTaskRunEnd \/ Spurious \/ UNCHANGED vars
  BY Zenon, <1>4, ClockStep
<1>5. CASE KTickTaskRunOne
  BY Zenon, <1>5, RunOneStep
<1>6. CASE Tick
  BY Zenon, <1>6, TickStep
<1>. QED  BY Zenon, <1>1, <1>2, <1>3, <1>4, <1>5, <1>6 DEF Next, Run

(* The time base in the terms of the list: TickInv puts every listed pair  *)
(* of targets close enough together for KTickIsSequential to order them.   *)
LEMMA SortedFacts ==
  ASSUME TickInv
  PROVE  TargetsSorted
<1>1. /\ InOrder(list, target, now)
      /\ target \in [Tasks -> 0..(Horizon - 1)] /\ now \in 0..(Horizon - 1)
  BY Zenon, WindowFacts
<1>2. SUFFICES ASSUME NEW i \in 1..Len(list), NEW j \in 1..Len(list), i < j
               PROVE  ~KTickIsSequential(target[list[j]], target[list[i]])
  BY Zenon DEF TargetsSorted
<1> DEFINE t == list[i]
           u == list[j]
<1>3. /\ t \in Tasks /\ u \in Tasks /\ Dist(target, now, t) < Half /\ Dist(target, now, u) < Half
      /\ Dist(target, now, t) <= Dist(target, now, u)
  BY <1>1, <1>2 DEF InOrder, Near, Ordered
<1> HIDE DEF t, u
<1>4. Dist(target, now, t) \in 0..(Horizon - 1) /\ Dist(target, now, u) \in 0..(Horizon - 1)
  BY Zenon, <1>1, <1>3, DistFacts
<1>5. KTickIsSequential(target[u], target[t]) <=> Dist(target, now, u) < Dist(target, now, t)
  BY Zenon, <1>1, <1>3, DistFacts
<1>6. ~(Dist(target, now, u) < Dist(target, now, t))
  BY <1>3, <1>4, HorizonFacts
<1>. QED  BY Zenon, <1>5, <1>6 DEF t, u

(* KTick.Spec keeps the task list well formed for every set of tasks: it   *)
(* holds no task twice and only tasks whose fn is set, its targets lie     *)
(* within half the range of the time base and in ascending order.          *)
THEOREM TaskListInvariant == Spec => []TickInv
<1>1. Init => TickInv
  BY Zenon, StartInv
<1>2. TickInv /\ [Next]_vars => TickInv'
  BY Zenon, NextKeepsTickInv
<1>. QED  BY <1>1, <1>2, PTL DEF Spec

(* The list that KTickTaskRun works off from the front is in target order, *)
(* also across the wrap of the time base and with periodic tasks that are  *)
(* put back in while others are late.                                      *)
THEOREM TasksAreSorted == Spec => []TargetsSorted
<1>1. TickInv => TargetsSorted
  BY Zenon, SortedFacts
<1>. QED  BY <1>1, TaskListInvariant, PTL

---------------------------------------------------------------------------
(* DecrementerCovers                                                       *)

(* The time left until a target at distance x, 0 for a late one.           *)
Slack(x) == IF x > MaxLag THEN x - MaxLag ELSE 0

(* The bound of DecrementerCovers is the slack of the first task, and      *)
(* what KTickTaskReschedule programs is no more than that.                 *)
LEMMA SlackFacts ==
  ASSUME NEW a \in 0..(Horizon - 1), NEW n \in 0..(Horizon - 1),
         NEW x \in 0..(Half - 1), x = (a - n + MaxLag) % Horizon
  PROVE  /\ (IF KTickIsSequential(n, a) THEN (a - n) % Horizon ELSE 0) = Slack(x)
         /\ Clamped((a - n) % Horizon) >= 0 /\ Clamped((a - n) % Horizon) <= Slack(x)
         /\ Slack(x) \in Nat /\ Clamped((a - n) % Horizon) \in Nat
<1> DEFINE m == (a - n) % Horizon
<1>1. /\ KTickIsSequential(n, a) <=> x > MaxLag
      /\ x >= MaxLag => m = x - MaxLag
      /\ x < MaxLag => m >= Half
  BY LateIsBehind
<1>2. m \in Nat
  <2>1. m = IF a < n THEN a - n + Horizon ELSE a - n
    BY Zenon, ReduceDifference
  <2> HIDE DEF m
  <2>. QED  BY <2>1, HorizonFacts
<1> HIDE DEF m
<1>3. (IF KTickIsSequential(n, a) THEN m ELSE 0) = Slack(x)
  BY <1>1, HorizonFacts DEF Slack
<1>4. Clamped(m) \in Nat /\ Clamped(m) <= Slack(x) /\ Slack(x) \in Nat
  BY <1>1, <1>2, HorizonFacts, KTickAssumption DEF Slack, Clamped
<1>5. Clamped(m) >= 0
  BY <1>4
<1>. QED  BY Zenon, <1>3, <1>4, <1>5 DEF m

(* DecrementerCovers in terms of the first task's distance.                *)
Covers(s, tgt, n, c, d) == s # <<>> => d \/ (c >= 0 /\ c <= Slack(Dist(tgt, n, s[1])))

(* The bounds at the front of a list.                                      *)
LEMMA FirstFacts ==
  ASSUME NEW s, NEW tgt \in [Tasks -> 0..(Horizon - 1)], NEW n \in 0..(Horizon - 1),
         InOrder(s, tgt, n), s # <<>>
  PROVE  /\ s[1] \in Tasks /\ s[1] = Head(s)
         /\ Dist(tgt, n, s[1]) \in 0..(Half - 1)
         /\ (IF KTickIsSequential(n, tgt[s[1]]) THEN (tgt[s[1]] - n) % Horizon ELSE 0)
              = Slack(Dist(tgt, n, s[1]))
         /\ Clamped((tgt[s[1]] - n) % Horizon) >= 0
         /\ Clamped((tgt[s[1]] - n) % Horizon) <= Slack(Dist(tgt, n, s[1]))
<1>1. s \in Seq(Tasks) /\ 1 \in 1..Len(s) /\ s[1] \in Tasks /\ s[1] = Head(s)
  BY DEF InOrder
<1> DEFINE t == s[1]
           a == tgt[t]
           x == Dist(tgt, n, t)
<1>2. x \in 0..(Horizon - 1)
  BY Zenon, <1>1, DistFacts
<1>3. x < Half
  BY Zenon, <1>1 DEF InOrder, Near
<1>4. x = (a - n + MaxLag) % Horizon /\ a \in 0..(Horizon - 1)
  BY Zenon, <1>1 DEF Dist
<1> HIDE DEF t, a, x
<1>5. x \in 0..(Half - 1)
  BY <1>2, <1>3, HorizonFacts
<1>6. /\ (IF KTickIsSequential(n, a) THEN (a - n) % Horizon ELSE 0) = Slack(x)
      /\ Clamped((a - n) % Horizon) >= 0 /\ Clamped((a - n) % Horizon) <= Slack(x)
  BY Zenon, <1>4, <1>5, SlackFacts
<1>. QED  BY Zenon, <1>1, <1>5, <1>6 DEF t, a, x

(* Before a step.                                                          *)
LEMMA CoversFacts ==
  ASSUME TickInv, DecrementerCovers, ~running
  PROVE  Covers(list, target, now, dec, due)
<1>1. /\ InOrder(list, target, now)
      /\ target \in [Tasks -> 0..(Horizon - 1)] /\ now \in 0..(Horizon - 1)
  BY Zenon, WindowFacts
<1>2. SUFFICES ASSUME list # <<>>, ~due PROVE dec >= 0 /\ dec <= Slack(Dist(target, now, list[1]))
  BY Zenon DEF Covers
<1>3. /\ list[1] = Head(list)
      /\ (IF KTickIsSequential(now, target[list[1]]) THEN (target[list[1]] - now) % Horizon ELSE 0)
           = Slack(Dist(target, now, list[1]))
  BY Zenon, <1>1, <1>2, FirstFacts
<1>4. dec >= 0 /\ dec <= IF Late THEN 0 ELSE (target[Head(list)] - now) % Horizon
  BY Zenon, <1>2 DEF DecrementerCovers
<1>5. Late <=> ~KTickIsSequential(now, target[list[1]])
  BY Zenon, <1>2, <1>3 DEF Late
<1>6. (IF Late THEN 0 ELSE (target[Head(list)] - now) % Horizon) = Slack(Dist(target, now, list[1]))
  BY <1>3, <1>5, Zenon
<1>. QED  BY <1>4, <1>6, Zenon

(* And after it.                                                           *)
LEMMA CoversNext ==
  ASSUME TickInv', ~running' => Covers(list', target', now', dec', due')
  PROVE  DecrementerCovers'
<1>1. /\ list' \in Seq(Tasks) /\ Distinct(list')
      /\ target' \in [Tasks -> 0..(Horizon - 1)] /\ now' \in 0..(Horizon - 1)
  BY Zenon DEF TickInv, TypeOK, LinkedOnce
<1>2. Near(list', target', now')
  BY Zenon DEF TickInv, InWindow, Ahead, Near, Dist
<1>3. Ordered(list', target', now')
  BY Zenon DEF TickInv, ByTarget, Ahead, Ordered, Dist
<1>4. InOrder(list', target', now')
  BY Zenon, <1>1, <1>2, <1>3 DEF InOrder
<1>5. SUFFICES ASSUME list' # <<>>, ~running', ~due'
               PROVE  dec' >= 0 /\ dec' <= IF Late' THEN 0 ELSE (target'[Head(list')] - now') % Horizon
  BY Zenon DEF DecrementerCovers
<1>6. dec' >= 0 /\ dec' <= Slack(Dist(target', now', list'[1]))
  BY Zenon, <1>5 DEF Covers
<1>7. /\ list'[1] = Head(list')
      /\ (IF KTickIsSequential(now', target'[list'[1]])
          THEN (target'[list'[1]] - now') % Horizon ELSE 0) = Slack(Dist(target', now', list'[1]))
  BY Zenon, <1>1, <1>4, <1>5, FirstFacts
<1>8. Late' <=> ~KTickIsSequential(now', target'[list'[1]])
  BY Zenon, <1>5, <1>7 DEF Late, KTickIsSequential
<1>9. (IF Late' THEN 0 ELSE (target'[Head(list')] - now') % Horizon)
        = Slack(Dist(target', now', list'[1]))
  BY <1>7, <1>8, Zenon
<1>. QED  BY <1>6, <1>9, Zenon

(* The decrementer covers a list it was just programmed for.               *)
LEMMA RescheduleCovers ==
  ASSUME NEW s, NEW tgt \in [Tasks -> 0..(Horizon - 1)], now \in 0..(Horizon - 1),
         InOrder(s, tgt, now), KTickTaskReschedule(s, tgt)
  PROVE  Covers(s, tgt, now, dec', due')
<1>1. SUFFICES ASSUME s # <<>> PROVE dec' >= 0 /\ dec' <= Slack(Dist(tgt, now, s[1]))
  BY Zenon DEF Covers
<1>2. dec' = Clamped((tgt[s[1]] - now) % Horizon)
  BY Zenon, <1>1 DEF KTickTaskReschedule
<1>3. /\ Clamped((tgt[s[1]] - now) % Horizon) >= 0
      /\ Clamped((tgt[s[1]] - now) % Horizon) <= Slack(Dist(tgt, now, s[1]))
  BY Zenon, <1>1, FirstFacts
<1>. QED  BY <1>2, <1>3, Zenon

(* It goes on covering a first task whose target does not move closer.     *)
LEMMA StillCovers ==
  ASSUME NEW s, NEW r, NEW tgt, NEW new, NEW n, NEW c, NEW d,
         Covers(s, tgt, n, c, d), s # <<>>, c \in Int,
         NEW x \in 0..(Half - 1), x = Dist(tgt, n, s[1]),
         NEW y \in 0..(Half - 1), y = Dist(new, n, r[1]), x <= y
  PROVE  Covers(r, new, n, c, d)
<1>1. Slack(x) <= Slack(y) /\ Slack(x) \in Int /\ Slack(y) \in Int
  BY HorizonFacts DEF Slack
<1>2. d \/ (c >= 0 /\ c <= Slack(x))
  BY Zenon DEF Covers
<1>3. d \/ (c >= 0 /\ c <= Slack(y))
  BY <1>1, <1>2
<1>. QED  BY Zenon, <1>3 DEF Covers

(* KTickTaskStart programs the decrementer when another task comes first;  *)
(* a first task that is restarted, no earlier than before, stays covered.  *)
LEMMA CarefulStartCovers ==
  ASSUME TickInv, DecrementerCovers, NEW t \in Tasks, CarefulStart(t)
  PROVE  DecrementerCovers'
<1>1. PICK d \in Delays, p \in Periods : NotEarlier(t, d) /\ KTickTaskStart(t, d, p)
  BY Zenon DEF CarefulStart
<1>2. /\ TickInv' /\ list' # <<>> /\ Dist(target', now, t) < Half
      /\ target'[t] = (now + d) % Horizon
      /\ \A u \in Tasks : u # t => target'[u] = target[u]
  BY Zenon, <1>1, StartStep
<1>3. now' = now /\ running' = running
  BY Zenon, <1>1 DEF KTickTaskStart
<1>4. /\ InOrder(list, target, now)
      /\ target \in [Tasks -> 0..(Horizon - 1)] /\ now \in 0..(Horizon - 1) /\ dec \in Int
  BY WindowFacts DEF TickInv, TypeOK
<1>5. target' \in [Tasks -> 0..(Horizon - 1)] /\ InOrder(list', target', now)
  <2>1. /\ list' \in Seq(Tasks) /\ Distinct(list') /\ target' \in [Tasks -> 0..(Horizon - 1)]
    BY Zenon, <1>2 DEF TickInv, TypeOK, LinkedOnce
  <2>2. Near(list', target', now)
    BY Zenon, <1>2, <1>3 DEF TickInv, InWindow, Ahead, Near, Dist
  <2>3. Ordered(list', target', now)
    BY Zenon, <1>2, <1>3 DEF TickInv, ByTarget, Ahead, Ordered, Dist
  <2>. QED  BY Zenon, <2>1, <2>2, <2>3 DEF InOrder
<1>6. SUFFICES ASSUME ~running PROVE Covers(list', target', now, dec', due')
  BY Zenon, <1>2, <1>3, CoversNext
<1>7. CASE list = <<>> \/ Head(list') # Head(list)
  <2>1. KTickTaskReschedule(list', target')
    BY Zenon, <1>1, <1>7 DEF KTickTaskStart
  <2>. QED  BY Zenon, <2>1, <1>4, <1>5, RescheduleCovers
<1>8. CASE list # <<>> /\ Head(list') = Head(list)
  <2> DEFINE h == list[1]
             x == Dist(target, now, h)
             y == Dist(target', now, h)
  <2>1. dec' = dec /\ due' = due
    BY Zenon, <1>1, <1>8 DEF KTickTaskStart
  <2>2. h \in Tasks /\ h = Head(list) /\ x \in 0..(Half - 1)
    BY Zenon, <1>4, <1>8, FirstFacts
  <2>3. list'[1] = h /\ y \in 0..(Half - 1)
    <3>1. list'[1] = Head(list') /\ Dist(target', now, list'[1]) \in 0..(Half - 1)
      BY Zenon, <1>2, <1>4, <1>5, FirstFacts
    <3>. QED  BY Zenon, <3>1, <2>2, <1>8
  <2>4. Covers(list, target, now, dec, due)
    BY Zenon, <1>6, CoversFacts
  <2>5. x <= y
    <3>1. CASE h # t
      <4>1. target'[h] = target[h]
        BY Zenon, <1>2, <2>2, <3>1
      <4>2. x = y
        BY Zenon, <4>1 DEF Dist
      <4>. QED  BY <4>2, <2>2, HorizonFacts
    <3>2. CASE h = t
      <4>1. ~KTickIsSequential((now + d) % Horizon, target[t])
        BY Zenon, <1>1, <1>6, <1>8, <2>2, <3>2 DEF NotEarlier
      <4>2. ~KTickIsSequential(target'[t], target[t])
        BY Zenon, <4>1, <1>2
      <4> DEFINE a == target'[t]
                 b == target[t]
      <4>3. a \in 0..(Horizon - 1) /\ b \in 0..(Horizon - 1)
        BY Zenon, <1>4, <1>5
      <4>4. y = (a - now + MaxLag) % Horizon /\ x = (b - now + MaxLag) % Horizon
        BY Zenon, <3>2 DEF Dist
      <4> HIDE DEF a, b, x, y
      <4>5. KTickIsSequential(a, b) <=> y < x
        BY <1>4, <2>2, <2>3, <4>3, <4>4, SequentialIsLess
      <4>6. ~(y < x)
        BY Zenon, <4>2, <4>5 DEF a, b
      <4>. QED  BY <4>6, <2>2, <2>3, HorizonFacts
    <3>. QED  BY Zenon, <3>1, <3>2
  <2> HIDE DEF x, y
  <2>6. x = Dist(target, now, list[1]) /\ y = Dist(target', now, list'[1])
    BY Zenon, <2>3 DEF x, y
  <2>7. Covers(list', target', now, dec, due)
    BY Zenon, <1>4, <1>8, <2>2, <2>3, <2>4, <2>5, <2>6, StillCovers
  <2>. QED  BY Zenon, <2>1, <2>7
<1>. QED  BY Zenon, <1>7, <1>8

(* KTickTaskStop programs the decrementer when it takes the first task.    *)
LEMMA StopCovers ==
  ASSUME TickInv, DecrementerCovers, NEW t \in Tasks, KTickTaskStop(t)
  PROVE  DecrementerCovers'
<1>1. /\ TickInv' /\ target' = target
      /\ list # <<>> /\ Head(list) # t => list' # <<>> /\ Head(list') = Head(list)
  BY Zenon, StopStep
<1>2. now' = now /\ running' = running
  BY Zenon DEF KTickTaskStop
<1>3. /\ InOrder(list, target, now)
      /\ target \in [Tasks -> 0..(Horizon - 1)] /\ now \in 0..(Horizon - 1)
  BY Zenon, WindowFacts
<1>4. InOrder(list', target, now)
  <2>1. list' \in Seq(Tasks) /\ Distinct(list')
    BY Zenon, <1>1 DEF TickInv, TypeOK, LinkedOnce
  <2>2. Near(list', target, now)
    BY Zenon, <1>1, <1>2 DEF TickInv, InWindow, Ahead, Near, Dist
  <2>3. Ordered(list', target, now)
    BY Zenon, <1>1, <1>2 DEF TickInv, ByTarget, Ahead, Ordered, Dist
  <2>. QED  BY Zenon, <2>1, <2>2, <2>3 DEF InOrder
<1>5. SUFFICES ASSUME ~running PROVE Covers(list', target, now, dec', due')
  BY Zenon, <1>1, <1>2, CoversNext
<1>6. CASE list # <<>> /\ Head(list) = t
  <2>1. KTickTaskReschedule(list', target)
    BY Zenon, <1>6 DEF KTickTaskStop
  <2>. QED  BY Zenon, <2>1, <1>3, <1>4, RescheduleCovers
<1>7. CASE list # <<>> /\ Head(list) # t
  <2>1. dec' = dec /\ due' = due
    BY Zenon, <1>7 DEF KTickTaskStop
  <2>2. list'[1] = list[1]
    BY <1>1, <1>3, <1>4, <1>7, FirstFacts
  <2>3. Covers(list, target, now, dec, due)
    BY Zenon, <1>5, CoversFacts
  <2>. QED  BY Zenon, <2>1, <2>2, <2>3, <1>7 DEF Covers
<1>8. CASE list = <<>>
  <2>1. Linked(list) = {}
    BY <1>8 DEF Linked
  <2>2. list' = <<>>
    BY Zenon, <1>8, <2>1 DEF KTickTaskStop, KTickTaskDequeue
  <2>. QED  BY Zenon, <2>2 DEF Covers
<1>. QED  BY Zenon, <1>6, <1>7, <1>8

(* Time runs for the decrementer as it does for the first target, and the  *)
(* exception is pending once the decrementer passes zero.                  *)
LEMMA TickCovers ==
  ASSUME TickInv, DecrementerCovers, Tick
  PROVE  DecrementerCovers'
<1>1. /\ TickInv' /\ list' = list /\ running' = running
      /\ \A i \in 1..Len(list) : Dist(target', now', list[i]) = Dist(target, now, list[i]) - 1
  BY Zenon, TickStep
<1>2. SUFFICES ASSUME ~running, list # <<>>, ~due'
               PROVE  dec' >= 0 /\ dec' <= Slack(Dist(target', now', list[1]))
  BY Zenon, <1>1, CoversNext DEF Covers
<1>3. dec \in -1..MaxDec /\ dec' = (IF dec = -1 THEN -1 ELSE dec - 1) /\ ~due /\ dec # 0
  BY Zenon, <1>2 DEF Tick, TickInv, TypeOK
<1>4. dec >= 0 /\ dec <= Slack(Dist(target, now, list[1]))
  BY Zenon, <1>2, <1>3, CoversFacts DEF Covers
<1>5. /\ InOrder(list, target, now)
      /\ target \in [Tasks -> 0..(Horizon - 1)] /\ now \in 0..(Horizon - 1)
  BY Zenon, WindowFacts
<1>6. Dist(target, now, list[1]) \in 0..(Half - 1)
  BY Zenon, <1>2, <1>5, FirstFacts
<1> DEFINE x == Dist(target, now, list[1])
           y == Dist(target', now', list[1])
<1>7. 1 \in 1..Len(list)
  BY <1>2, <1>5 DEF InOrder
<1>8. y = x - 1
  BY Zenon, <1>1, <1>7
<1> HIDE DEF x, y
<1>9. x \in 0..(Half - 1) /\ dec <= Slack(x)
  BY Zenon, <1>4, <1>6 DEF x
<1>10. dec' >= 0 /\ dec' <= Slack(y)
  BY <1>3, <1>4, <1>8, <1>9, HorizonFacts, KTickAssumption DEF Slack
<1>. QED  BY Zenon, <1>10 DEF y

(* Every step of CarefulNext keeps the first target covered.               *)
LEMMA CarefulNextCovers ==
  ASSUME TickInv, DecrementerCovers, [CarefulNext]_vars
  PROVE  DecrementerCovers'
<1>1. ASSUME NEW t \in Tasks, CarefulStart(t) PROVE DecrementerCovers'
  BY Zenon, <1>1, CarefulStartCovers
<1>2. ASSUME NEW t \in Tasks, KTickTaskStop(t) PROVE DecrementerCovers'
  BY Zenon, <1>2, StopCovers
<1>3. CASE UNCHANGED vars \/ \E t \in Tasks : Reuse(t)
  <2>1. UNCHANGED <<list, target, now, dec, due, running>>
    BY Zenon, <1>3 DEF vars, taskVars, Reuse
  <2>. QED  BY Zenon, <2>1 DEF DecrementerCovers, Late
<1>4. CASE KTickTaskRun \/ KTickTaskRunOne
  <2>1. running'
    BY <1>4 DEF KTickTaskRun, KTickTaskRunOne
  <2>. QED  BY Zenon, <2>1 DEF DecrementerCovers
<1>5. CASE KTickTaskRunEnd
  <2>1. KTickTaskReschedule(list, target) /\ UNCHANGED <<list, target, now>>
    BY Zenon, <1>5 DEF KTickTaskRunEnd, taskVars
  <2>2. /\ InOrder(list, target, now)
        /\ target \in [Tasks -> 0..(Horizon - 1)] /\ now \in 0..(Horizon - 1)
    BY Zenon, WindowFacts
  <2>3. Covers(list, target, now, dec', due')
    BY Zenon, <2>1, <2>2, RescheduleCovers
  <2>4. TickInv'
    BY Zenon, <1>5, ClockStep
  <2>. QED  BY Zenon, <2>1, <2>3, <2>4, CoversNext
<1>6. CASE Tick
  BY Zenon, <1>6, TickCovers
<1>7. CASE Spurious
  <2>1. due'
    BY Zenon, <1>7 DEF Spurious
  <2>. QED  BY Zenon, <2>1 DEF DecrementerCovers
<1>. QED  BY Zenon, <1>1, <1>2, <1>3, <1>4, <1>5, <1>6, <1>7 DEF CarefulNext, Run

(* The decrementer never lets the first target pass: while KTickTaskRun is *)
(* not at work the exception is pending, or it comes no later than the     *)
(* first target, for every set of tasks, range of time and reach of the    *)
(* decrementer; provided that a task that is first is not restarted for an *)
(* earlier time, which KTickTaskStart does not look for.                   *)
THEOREM NoTaskOversleeps == CarefulSpec => []DecrementerCovers
<1>1. Init => TickInv
  BY Zenon, StartInv
<1>2. Init => DecrementerCovers
  BY Zenon DEF Init, DecrementerCovers
<1>3. TickInv /\ [CarefulNext]_vars => TickInv'
  <2>1. [CarefulNext]_vars => [Next]_vars
    BY Zenon DEF CarefulNext, CarefulStart, Next, Start
  <2>. QED  BY Zenon, <2>1, NextKeepsTickInv
<1>4. TickInv /\ DecrementerCovers /\ [CarefulNext]_vars => DecrementerCovers'
  BY Zenon, CarefulNextCovers
<1>. QED  BY <1>1, <1>2, <1>3, <1>4, PTL DEF CarefulSpec
=============================================================================
