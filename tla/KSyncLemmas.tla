---------------------------- MODULE KSyncLemmas -----------------------------
(***************************************************************************)
(* What the linked-list operators do to a list: which threads it holds     *)
(* afterwards, and that each is there once.  Then what every proof about   *)
(* the kernel needs: how the processor changes hands, and which steps      *)
(* cannot disturb the invariant IInv of KSync.                             *)
(***************************************************************************)
EXTENDS KSync, WellFoundedInduction, TLAPS

(* A non-empty set of numbers has a least one, so Least picks a member.    *)
LEMMA LeastIsMember ==
  ASSUME NEW S \in SUBSET Nat, S # {}
  PROVE  Least(S) \in S /\ \A y \in S : Least(S) <= y
<1>1. \E x \in S : \A y \in S : ~(<<y, x>> \in OpToRel(<, Nat))
  BY Zenon, NatLessThanWellFounded, WFMin
<1>2. \E x \in S : \A y \in S : ~(y < x)
  BY <1>1, Zenon DEF OpToRel
<1>3. \E x \in S : \A y \in S : x <= y
  BY <1>2
<1>. QED  BY Zenon, <1>3 DEF Least

(* The elements of a list are those at its positions.                      *)
LEMMA RangeIsElements ==
  ASSUME NEW T, NEW s \in Seq(T), NEW x
  PROVE  /\ x \in Linked(s) <=> \E i \in 1..Len(s) : s[i] = x
         /\ Linked(s) \subseteq T
BY DEF Linked

(* What SubSeq and \o return.                                              *)
LEMMA SubSeqFacts ==
  ASSUME NEW T, NEW s \in Seq(T), NEW m \in 1..(Len(s) + 1), NEW n \in 0..Len(s), m <= n + 1
  PROVE  /\ SubSeq(s, m, n) \in Seq(T)
         /\ Len(SubSeq(s, m, n)) = n - m + 1
         /\ \A i \in 1..(n - m + 1) : SubSeq(s, m, n)[i] = s[m + i - 1]
OBVIOUS

(* The length and the elements of a concatenation.                         *)
LEMMA ConcatFacts ==
  ASSUME NEW T, NEW s \in Seq(T), NEW r \in Seq(T)
  PROVE  /\ s \o r \in Seq(T)
         /\ Len(s \o r) = Len(s) + Len(r)
         /\ \A i \in 1..(Len(s) + Len(r)) :
              (s \o r)[i] = IF i <= Len(s) THEN s[i] ELSE r[i - Len(s)]
OBVIOUS

(* r is the list s with e put in at position i.                            *)
PutIn(r, s, i, e) ==
  \A j \in 1..(Len(s) + 1) : r[j] = IF j < i THEN s[j] ELSE IF j = i THEN e ELSE s[j - 1]

(* LinkAt puts e at position i and shifts the rest.                        *)
LEMMA LinkAtElements ==
  ASSUME NEW T, NEW s \in Seq(T), NEW e \in T, NEW i \in 1..(Len(s) + 1)
  PROVE  /\ LinkAt(s, i, e) \in Seq(T)
         /\ Len(LinkAt(s, i, e)) = Len(s) + 1
         /\ PutIn(LinkAt(s, i, e), s, i, e)
<1> DEFINE a == SubSeq(s, 1, i - 1)
           b == SubSeq(s, i, Len(s))
<1>1. /\ a \in Seq(T) /\ Len(a) = i - 1
      /\ \A j \in 1..(i - 1) : a[j] = s[j]
  BY SubSeqFacts
<1>2. /\ b \in Seq(T) /\ Len(b) = Len(s) - i + 1
      /\ \A j \in 1..(Len(s) - i + 1) : b[j] = s[i + j - 1]
  BY SubSeqFacts
<1> HIDE DEF a, b
<1> DEFINE c == a \o <<e>>
<1>3. <<e>> \in Seq(T) /\ Len(<<e>>) = 1 /\ <<e>>[1] = e
  OBVIOUS
<1>4. /\ c \in Seq(T) /\ Len(c) = i
      /\ \A j \in 1..i : c[j] = IF j < i THEN s[j] ELSE e
  BY <1>1, <1>3, ConcatFacts
<1> HIDE DEF c
<1>5. /\ c \o b \in Seq(T) /\ Len(c \o b) = Len(s) + 1
      /\ \A j \in 1..(Len(s) + 1) : (c \o b)[j] = IF j <= i THEN c[j] ELSE b[j - i]
  BY <1>2, <1>4, ConcatFacts
<1>6. LinkAt(s, i, e) = c \o b
  BY Zenon DEF LinkAt, a, b, c
<1>7. PutIn(c \o b, s, i, e)
  BY <1>2, <1>4, <1>5 DEF PutIn
<1>. QED  BY Zenon, <1>5, <1>6, <1>7

(* UnlinkAt takes out position i and closes the gap.                       *)
LEMMA UnlinkAtElements ==
  ASSUME NEW T, NEW s \in Seq(T), NEW i \in 1..Len(s)
  PROVE  /\ UnlinkAt(s, i) \in Seq(T)
         /\ Len(UnlinkAt(s, i)) = Len(s) - 1
         /\ \A j \in 1..(Len(s) - 1) :
              UnlinkAt(s, i)[j] = IF j < i THEN s[j] ELSE s[j + 1]
<1> DEFINE a == SubSeq(s, 1, i - 1)
           b == SubSeq(s, i + 1, Len(s))
<1>1. /\ a \in Seq(T) /\ Len(a) = i - 1
      /\ \A j \in 1..(i - 1) : a[j] = s[j]
  BY SubSeqFacts
<1>2. /\ b \in Seq(T) /\ Len(b) = Len(s) - i
      /\ \A j \in 1..(Len(s) - i) : b[j] = s[i + j]
  BY SubSeqFacts
<1> HIDE DEF a, b
<1>3. /\ a \o b \in Seq(T) /\ Len(a \o b) = Len(s) - 1
      /\ \A j \in 1..(Len(s) - 1) : (a \o b)[j] = IF j < i THEN a[j] ELSE b[j - i + 1]
  BY <1>1, <1>2, ConcatFacts
<1>4. UnlinkAt(s, i) = a \o b
  BY Zenon DEF UnlinkAt, a, b
<1>. QED
  BY <1>1, <1>2, <1>3, <1>4

(* Inserting a thread into a queue adds that thread and no other, and      *)
(* keeps the queue free of duplicates if it was not there.                 *)
LEMMA InsertFacts ==
  ASSUME NEW s \in Seq(Threads), NEW t \in Threads, NEW p
  PROVE  /\ Insert(s, t, p) \in Seq(Threads)
         /\ Linked(Insert(s, t, p)) = Linked(s) \cup {t}
         /\ Distinct(s) /\ t \notin Linked(s) => Distinct(Insert(s, t, p))
<1> DEFINE k == GetInsertPosition(s, t, p)
           r == LinkAt(s, k, t)
<1>1. k \in 1..(Len(s) + 1)
  <2> DEFINE worse == {i \in 1..Len(s) : p[s[i]] > p[t]}
  <2>1. CASE worse = {}
    BY <2>1 DEF GetInsertPosition
  <2>2. CASE worse # {}
    <3>1. worse \in SUBSET Nat
      OBVIOUS
    <3>2. Least(worse) \in worse
      BY Zenon, <2>2, <3>1, LeastIsMember
    <3>. QED  BY <2>2, <3>2 DEF GetInsertPosition
  <2>. QED  BY Zenon, <2>1, <2>2
<1> USE <1>1
<1> HIDE DEF k
<1>2. /\ r \in Seq(Threads) /\ Len(r) = Len(s) + 1
      /\ \A j \in 1..(Len(s) + 1) :
           r[j] = IF j < k THEN s[j] ELSE IF j = k THEN t ELSE s[j - 1]
  <2>1. r \in Seq(Threads) /\ Len(r) = Len(s) + 1 /\ PutIn(r, s, k, t)
    BY Zenon, LinkAtElements
  <2> HIDE DEF r
  <2>. QED  BY <2>1 DEF PutIn
<1> USE <1>2
<1> HIDE DEF r
<1>3. Linked(r) \subseteq Linked(s) \cup {t}
  <2> SUFFICES ASSUME NEW x \in Linked(r), x # t PROVE x \in Linked(s)
    BY Zenon
  <2>1. PICK j \in 1..(Len(s) + 1) : r[j] = x
    BY RangeIsElements
  <2>2. CASE j < k
    <3>1. x = s[j] /\ j \in 1..Len(s)
      BY <2>1, <2>2
    <3>. QED  BY Zenon, <3>1, RangeIsElements
  <2>3. CASE j > k
    <3>1. x = s[j - 1] /\ j - 1 \in 1..Len(s)
      BY <2>1, <2>3
    <3>. QED  BY <3>1, RangeIsElements
  <2>. QED  BY <2>1, <2>2, <2>3
<1>4. Linked(s) \cup {t} \subseteq Linked(r)
  <2>1. t \in Linked(r)
    BY RangeIsElements
  <2>2. ASSUME NEW x \in Linked(s) PROVE x \in Linked(r)
    <3>1. PICK i \in 1..Len(s) : s[i] = x
      BY RangeIsElements
    <3> DEFINE h == IF i < k THEN i ELSE i + 1
    <3>2. r[h] = x
      BY <3>1
    <3>3. h \in 1..Len(r)
      BY <3>1
    <3> HIDE DEF h
    <3>. QED  BY Zenon, <3>2, <3>3, RangeIsElements
  <2>. QED  BY Zenon, <2>1, <2>2
<1>5. ASSUME Distinct(s), t \notin Linked(s) PROVE Distinct(r)
  <2>1. \A i \in 1..Len(s) : s[i] # t
    BY Zenon, <1>5, RangeIsElements
  <2> SUFFICES ASSUME NEW x \in 1..(Len(s) + 1), NEW y \in 1..(Len(s) + 1), r[x] = r[y]
               PROVE  x = y
    BY Zenon DEF Distinct
  <2>2. x # k => (IF x < k THEN x ELSE x - 1) \in 1..Len(s)
    OBVIOUS
  <2>3. y # k => (IF y < k THEN y ELSE y - 1) \in 1..Len(s)
    OBVIOUS
  <2>4. CASE x = k \/ y = k
    <3>1. \A z \in 1..(Len(s) + 1) : z # k => r[z] # t
      <4> SUFFICES ASSUME NEW z \in 1..(Len(s) + 1), z # k PROVE r[z] # t
        BY Zenon
      <4>1. (IF z < k THEN z ELSE z - 1) \in 1..Len(s)
        OBVIOUS
      <4>2. r[z] = s[IF z < k THEN z ELSE z - 1]
        BY Zenon
      <4>. QED  BY Zenon, <2>1, <4>1, <4>2
    <3>2. r[k] = t
      OBVIOUS
    <3>. QED  BY Zenon, <2>4, <3>1, <3>2
  <2>5. CASE x # k /\ y # k
    <3>1. s[IF x < k THEN x ELSE x - 1] = s[IF y < k THEN y ELSE y - 1]
      BY Zenon, <2>5
    <3>2. (IF x < k THEN x ELSE x - 1) = (IF y < k THEN y ELSE y - 1)
      BY Zenon, <1>5, <2>2, <2>3, <2>5, <3>1 DEF Distinct
    <3>. QED  BY <2>5, <3>2
  <2>. QED  BY Zenon, <2>4, <2>5
<1>6. Insert(s, t, p) = r
  BY Zenon DEF Insert, r, k
<1>. QED  BY Zenon, <1>3, <1>4, <1>5, <1>6

(* Taking position i out of a duplicate-free queue removes exactly the     *)
(* thread that was there.                                                  *)
LEMMA RemoveFacts ==
  ASSUME NEW s \in Seq(Threads), NEW i \in 1..Len(s), Distinct(s)
  PROVE  /\ UnlinkAt(s, i) \in Seq(Threads)
         /\ Linked(UnlinkAt(s, i)) = Linked(s) \ {s[i]}
         /\ Distinct(UnlinkAt(s, i))
<1> DEFINE r == UnlinkAt(s, i)
<1>1. /\ r \in Seq(Threads) /\ Len(r) = Len(s) - 1
      /\ \A j \in 1..(Len(s) - 1) : r[j] = IF j < i THEN s[j] ELSE s[j + 1]
  BY Zenon, UnlinkAtElements
<1> USE <1>1
<1> HIDE DEF r
<1>2. Linked(r) \subseteq Linked(s) \ {s[i]}
  <2> SUFFICES ASSUME NEW x \in Linked(r) PROVE x \in Linked(s) /\ x # s[i]
    BY Zenon
  <2>1. PICK j \in 1..(Len(s) - 1) : r[j] = x
    BY RangeIsElements
  <2> DEFINE h == IF j < i THEN j ELSE j + 1
  <2>2. h \in 1..Len(s) /\ h # i /\ s[h] = x
    BY <2>1
  <2>3. x # s[i]
    BY Zenon, <2>2 DEF Distinct
  <2>. QED  BY Zenon, <2>2, <2>3, RangeIsElements
<1>3. Linked(s) \ {s[i]} \subseteq Linked(r)
  <2> SUFFICES ASSUME NEW x \in Linked(s), x # s[i] PROVE x \in Linked(r)
    BY Zenon
  <2>1. PICK h \in 1..Len(s) : s[h] = x
    BY RangeIsElements
  <2> DEFINE j == IF h < i THEN h ELSE h - 1
  <2>2. j \in 1..Len(r) /\ r[j] = x
    BY <2>1
  <2>. QED  BY <2>2, RangeIsElements
<1>4. Distinct(r)
  <2> SUFFICES ASSUME NEW x \in 1..(Len(s) - 1), NEW y \in 1..(Len(s) - 1), r[x] = r[y]
               PROVE  x = y
    BY Zenon DEF Distinct
  <2>1. /\ (IF x < i THEN x ELSE x + 1) \in 1..Len(s)
        /\ (IF y < i THEN y ELSE y + 1) \in 1..Len(s)
    OBVIOUS
  <2>2. s[IF x < i THEN x ELSE x + 1] = s[IF y < i THEN y ELSE y + 1]
    BY Zenon
  <2>3. (IF x < i THEN x ELSE x + 1) = (IF y < i THEN y ELSE y + 1)
    BY Zenon, <2>1, <2>2 DEF Distinct
  <2>. QED  BY <2>3
<1>. QED  BY Zenon, <1>2, <1>3, <1>4 DEF r

(* Unlinking a thread from a duplicate-free queue takes out that thread    *)
(* and no other; a thread that is not there leaves the queue as it was.    *)
LEMMA UnlinkFacts ==
  ASSUME NEW s \in Seq(Threads), NEW t \in Threads, Distinct(s)
  PROVE  /\ Unlink(s, t) \in Seq(Threads)
         /\ Linked(Unlink(s, t)) = Linked(s) \ {t}
         /\ Distinct(Unlink(s, t))
<1> DEFINE here == {i \in 1..Len(s) : s[i] = t}
<1>1. CASE here = {}
  <2>1. t \notin Linked(s)
    BY <1>1, RangeIsElements
  <2>. QED  BY Zenon, <1>1, <2>1 DEF Unlink
<1>2. CASE here # {}
  <2>1. here \in SUBSET Nat
    OBVIOUS
  <2>2. Least(here) \in 1..Len(s) /\ s[Least(here)] = t
    BY Zenon, <1>2, <2>1, LeastIsMember
  <2>3. Unlink(s, t) = UnlinkAt(s, Least(here))
    BY Zenon, <1>2 DEF Unlink
  <2>. QED  BY Zenon, <2>2, <2>3, RemoveFacts
<1>. QED  BY Zenon, <1>1, <1>2

(* KThreadFindRunnable finds a runnable thread of the list if there is     *)
(* one.                                                                    *)
LEMMA FindRunnableFacts ==
  ASSUME NEW s \in Seq(Threads), NEW st, NEW t \in Linked(s), st[t] = "RUNNING"
  PROVE  /\ KThreadFindRunnable(s, st) \in Linked(s)
         /\ KThreadFindRunnable(s, st) \in Threads
         /\ st[KThreadFindRunnable(s, st)] = "RUNNING"
<1> DEFINE ready == {i \in 1..Len(s) : st[s[i]] = "RUNNING"}
<1>1. PICK i \in 1..Len(s) : s[i] = t
  BY Zenon, RangeIsElements
<1>2. i \in ready
  BY Zenon, <1>1
<1>3. ready \in SUBSET Nat
  OBVIOUS
<1>4. Least(ready) \in ready
  BY Zenon, <1>2, <1>3, LeastIsMember
<1>5. KThreadFindRunnable(s, st) = s[Least(ready)]
  BY Zenon, <1>2 DEF KThreadFindRunnable
<1> HIDE DEF ready
<1>6. Least(ready) \in 1..Len(s) /\ st[s[Least(ready)]] = "RUNNING"
  BY Zenon, <1>4 DEF ready
<1>. QED  BY Zenon, <1>5, <1>6, RangeIsElements

(* The constants are told apart.                                           *)
LEMMA ConstantFacts ==
  /\ NULL \notin Threads /\ NULL \notin Static /\ NULL \notin Mutexes /\ NULL \notin Queues
  /\ Threads \cap Static = {}
  /\ MainThread \in Threads /\ IdleThread \in Threads /\ MainThread # IdleThread
BY Zenon, KThreadAssumption DEF Queues

(* The locals of a function start out as NoOp; the tokens of wait queues.  *)
LEMMA NoOpType ==
  /\ NoOp \in Ops
  /\ Static \subseteq Queues /\ Threads \subseteq Queues
  /\ CondVars \subseteq Tokens /\ Threads \subseteq Tokens /\ Mutexes \subseteq Tokens
  /\ Objects \subseteq Tokens /\ NULL \in Tokens /\ Woken \in Tokens /\ Expired \in Tokens
<1>1. NULL \in Tokens /\ 0 \in 0..(MinPrio + 1)
  BY KThreadAssumption DEF Tokens
<1>2. NoOp \in Ops
  BY Zenon, <1>1 DEF NoOp, Ops
<1>. QED  BY Zenon, <1>1, <1>2 DEF Tokens, Queues

(* The idle thread is in the thread list, so a runnable thread is found.   *)
LEMMA IdleFacts ==
  ASSUME IInv
  PROVE  /\ IdleThread \in Linked(list) /\ state[IdleThread] = "RUNNING"
         /\ list \in Seq(Threads) /\ cur \in Threads /\ cur # NULL
         /\ KThreadFindRunnable(list, state) \in Threads
         /\ state[KThreadFindRunnable(list, state)] = "RUNNING"
<1>a. TypeOK /\ IdleReady /\ QueueIntegrity
  BY Zenon DEF IInv
<1>1. IdleThread \in Threads /\ state[IdleThread] = "RUNNING" /\ list \in Seq(Threads)
      /\ cur \in Threads /\ cur # NULL
  BY Zenon, ConstantFacts, <1>a DEF IdleReady, TypeOK
<1>2. IdleThread \in Linked(list)
  BY Zenon, <1>1, <1>a DEF QueueIntegrity, Live
<1>. QED  BY Zenon, <1>1, <1>2, FindRunnableFacts

(* KThreadReschedule leaves the processor alone, or gives it to t.         *)
LEMMA RescheduleFacts ==
  ASSUME NEW t \in Threads \cup {NULL}, KThreadReschedule(t),
         cur \in Threads, nextCtx \in Threads \cup {NULL}, prio' \in [Threads -> Int]
  PROVE  /\ op' = NoOp /\ excpt' = excpt
         /\ \/ cur' = cur /\ nextCtx' = nextCtx
            \/ t \in Threads /\ t # cur /\ ~excpt /\ cur' = t /\ nextCtx' = nextCtx
            \/ t \in Threads /\ t # cur /\ excpt /\ cur' = cur /\ nextCtx' = t
BY DEF KThreadReschedule, KThreadSwitchTo, cpuVars

(* KThrQueueBlock takes the caller off the processor.                      *)
LEMMA BlockFacts ==
  ASSUME IInv, NEW q \in Static, NEW tok \in Tokens, KThrQueueBlock(q, tok),
         ~excpt, cur # IdleThread, state[cur] = "RUNNING", UNCHANGED <<list, suspend>>
  PROVE  /\ cur \in Threads /\ cur' \in Threads /\ cur' # cur /\ state[cur'] = "RUNNING"
         /\ state' = [state EXCEPT ![cur] = "WAITING"]
         /\ token' = [token EXCEPT ![cur] = tok]
         /\ queue' = [queue EXCEPT ![cur] = q]
         /\ nextCtx' = NULL /\ excpt' = excpt /\ op' = NoOp /\ UNCHANGED prio
         /\ links' \in [Queues -> Seq(Threads)]
         /\ QueueIntegrity' /\ StatesMatchQueues'
<1>a. TypeOK /\ CpuShape /\ QueueIntegrity /\ StatesMatchQueues
  BY Zenon DEF IInv
<1> USE <1>a
<1> USE ConstantFacts
<1>1. /\ cur \in Threads /\ q \in Queues /\ links[q] \in Seq(Threads)
      /\ links \in [Queues -> Seq(Threads)] /\ nextCtx = NULL
  BY Zenon DEF TypeOK, Queues, CpuShape
<1> USE <1>1
<1>2. /\ state \in [Threads -> States] /\ queue \in [Threads -> Queues \cup {NULL}]
      /\ queue[cur] = NULL /\ q # NULL /\ suspend[cur] = 0
  BY Zenon DEF TypeOK, StatesMatchQueues
<1> USE <1>2
<1>3. /\ state' = [state EXCEPT ![cur] = "WAITING"]
      /\ token' = [token EXCEPT ![cur] = tok]
      /\ queue' = [queue EXCEPT ![cur] = q]
      /\ links' = [links EXCEPT ![q] = Insert(links[q], cur, prio)]
      /\ UNCHANGED prio
  BY Zenon DEF KThrQueueBlock
<1> USE <1>3
<1>4. /\ cur' = KThreadFindRunnable(list, state')
      /\ nextCtx' = NULL /\ excpt' = excpt /\ op' = NoOp
  BY Zenon DEF KThrQueueBlock, KThreadSwitchTo
<1>5. state'[IdleThread] = "RUNNING" /\ IdleThread \in Linked(list) /\ list \in Seq(Threads)
  BY Zenon, IdleFacts
<1>6. cur' \in Threads /\ state'[cur'] = "RUNNING"
  BY Zenon, <1>4, <1>5, FindRunnableFacts
<1>7. cur' # cur /\ state[cur'] = "RUNNING"
  BY Zenon, <1>6
<1>8. cur \notin Linked(links[q]) /\ Distinct(links[q])
  BY Zenon DEF QueueIntegrity
<1>9. /\ Insert(links[q], cur, prio) \in Seq(Threads)
      /\ Linked(Insert(links[q], cur, prio)) = Linked(links[q]) \cup {cur}
      /\ Distinct(Insert(links[q], cur, prio))
  BY Zenon, <1>8, InsertFacts
<1> USE <1>9
<1>10. links' \in [Queues -> Seq(Threads)]
  BY Zenon
<1>11. QueueIntegrity'
  <2>1. \A r \in Queues : Distinct(links'[r])
    BY DEF QueueIntegrity
  <2>2. \A r \in Queues, t \in Threads : t \in Linked(links'[r]) <=> queue'[t] = r
    <3>1. \A r \in Queues, t \in Threads : t \in Linked(links[r]) <=> queue[t] = r
      BY Zenon DEF QueueIntegrity
    <3>2. /\ links'[q] = Insert(links[q], cur, prio) /\ queue'[cur] = q
          /\ \A r \in Queues \ {q} : links'[r] = links[r]
          /\ \A t \in Threads \ {cur} : queue'[t] = queue[t]
      BY Zenon
    <3>. QED  BY <3>1, <3>2
  <2>3. \A t \in Threads : t \in Linked(list') <=> state'[t] \in Live
    BY DEF QueueIntegrity, Live
  <2>. QED  BY Zenon, <2>1, <2>2, <2>3 DEF QueueIntegrity
<1>12. StatesMatchQueues'
  BY DEF StatesMatchQueues
<1>. QED  BY Zenon, <1>4, <1>6, <1>7, <1>10, <1>11, <1>12

(* KThreadFindRunnable returns NULL or a runnable thread.                  *)
LEMMA FindRunnableType ==
  ASSUME NEW s \in Seq(Threads), NEW st
  PROVE  \/ KThreadFindRunnable(s, st) = NULL
         \/ KThreadFindRunnable(s, st) \in Threads /\ st[KThreadFindRunnable(s, st)] = "RUNNING"
<1> DEFINE ready == {i \in 1..Len(s) : st[s[i]] = "RUNNING"}
<1>1. CASE ready = {}
  BY Zenon, <1>1 DEF KThreadFindRunnable
<1>2. CASE ready # {}
  <2>0. ready \in SUBSET Nat
    OBVIOUS
  <2>1. Least(ready) \in ready
    BY Zenon, <1>2, <2>0, LeastIsMember
  <2>2. KThreadFindRunnable(s, st) = s[Least(ready)]
    BY Zenon, <1>2 DEF KThreadFindRunnable
  <2>. QED  BY <2>1, <2>2
<1>. QED  BY Zenon, <1>1, <1>2

(* Following(cur) is a sequence of threads.                                *)
LEMMA FollowingType ==
  ASSUME IInv, state[cur] \in Live
  PROVE  Following(cur) \in Seq(Threads)
<1>a. TypeOK /\ QueueIntegrity
  BY Zenon DEF IInv
<1> DEFINE mine == {i \in 1..Len(list) : list[i] = cur}
<1>1. cur \in Threads /\ list \in Seq(Threads) /\ cur \in Linked(list)
  BY Zenon, <1>a DEF TypeOK, QueueIntegrity, Live
<1> USE <1>1
<1>2. mine # {} /\ mine \in SUBSET Nat
  BY RangeIsElements
<1>3. Least(mine) \in mine
  BY Zenon, <1>2, LeastIsMember
<1>4. Least(mine) \in 1..Len(list)
  BY Zenon, <1>3
<1> HIDE DEF mine
<1>5. Least(mine) + 1 \in 1..(Len(list) + 1) /\ Len(list) \in 0..Len(list) /\ Least(mine) + 1 <= Len(list) + 1
  BY <1>4
<1>6. SubSeq(list, Least(mine) + 1, Len(list)) \in Seq(Threads)
  BY Zenon, <1>5, SubSeqFacts
<1>. QED  BY Zenon, <1>6 DEF Following, mine

(* KThreadReschedule and KThreadSwitchTo end the kernel function.          *)
LEMMA SwitchEnds ==
  ASSUME NEW t, KThreadReschedule(t) \/ KThreadSwitchTo(t)
  PROVE  op' = NoOp
BY Zenon DEF KThreadReschedule, KThreadSwitchTo

(* A step that leaves lists, states and queues alone.                      *)
LEMMA FrameStep ==
  ASSUME IInv, ~Handing, UNCHANGED <<list, state, suspend, prio, queueVars, owner, armed>>,
         baseprio' \in [Threads -> 0..(MinPrio + 1)], at' \in [Threads -> Places],
         \A t \in Threads : state[t] = "WAITING_MUTEX" => at'[t] = at[t],
         cur' \in Threads, excpt' \in BOOLEAN, nextCtx' \in Threads \cup {NULL}, op' \in Ops,
         Handing' => op'.pc = "handover" /\ op'.n = NULL,
         op'.pc = "update" => state[op'.t] \in Live,
         OpShape', CpuShape', AtShape', IdleReady', LockShape', JoinShape', TimerShape'
  PROVE  IInv'
<1>a. TypeOK /\ OpShape /\ QueueIntegrity /\ StatesMatchQueues /\ WaiterShape
  BY Zenon DEF IInv
<1> USE <1>a
<1> USE DEF queueVars
<1>1. TypeOK'
  BY Zenon DEF TypeOK
<1>2. QueueIntegrity' /\ StatesMatchQueues'
  BY Zenon DEF QueueIntegrity, StatesMatchQueues
<1>3. WaiterShape'
  <2>1. /\ WaiterShape /\ UNCHANGED <<state, token, queue, owner>>
        /\ Handing' => op'.m \in Mutexes /\ owner[op'.m] = cur'
    BY Zenon DEF OpShape
  <2>. QED  BY <2>1 DEF WaiterShape
<1>4. OwnerShape'
  <2>1. OwnerShape /\ UNCHANGED <<state, owner>>
    BY Zenon DEF IInv
  <2>. QED  BY Zenon, <2>1 DEF OwnerShape
<1>. QED  BY Zenon, <1>1, <1>2, <1>3, <1>4 DEF IInv

(* The same, and every thread stays where its code is.                     *)
LEMMA CallStep ==
  ASSUME IInv, ~Handing, UNCHANGED <<list, state, suspend, prio, queueVars, owner, armed, at>>,
         baseprio' \in [Threads -> 0..(MinPrio + 1)],
         cur' \in Threads, excpt' \in BOOLEAN, nextCtx' \in Threads \cup {NULL}, op' \in Ops,
         Handing' => op'.pc = "handover" /\ op'.n = NULL,
         op'.pc = "update" => state[op'.t] \in Live,
         OpShape', CpuShape'
  PROVE  IInv'
<1>a. TypeOK /\ AtShape /\ IdleReady /\ LockShape /\ JoinShape /\ TimerShape
  BY Zenon DEF IInv
<1> USE <1>a
<1> USE DEF queueVars
<1>1. at' \in [Threads -> Places] /\ \A t \in Threads : state[t] = "WAITING_MUTEX" => at'[t] = at[t]
  BY Zenon DEF TypeOK
<1>2. AtShape' /\ IdleReady' /\ JoinShape' /\ TimerShape'
  BY DEF AtShape, IdleReady, JoinShape, TimerShape
<1>3. LockShape'
  BY Zenon DEF LockShape
<1>. QED  BY Zenon, <1>1, <1>2, <1>3, FrameStep

(* The same, and the running thread goes to another place of its code.     *)
LEMMA PlaceStep ==
  ASSUME IInv, op.pc = "none", ~excpt, at[cur].pc # "exit",
         UNCHANGED <<list, state, suspend, prio, baseprio, queueVars, owner, cpuVars, armed>>,
         op' \in Ops, op'.pc # "update", Handing' => op'.pc = "handover" /\ op'.n = NULL,
         OpShape', NEW w \in Places, at' = [at EXCEPT ![cur] = w],
         w.pc \in {"user", "slow", "cv", "cvt"}, cur = IdleThread => w = User, cur \notin armed,
         w.pc \in {"slow", "cv", "cvt"} => w.m \in Mutexes, w.pc \in {"cv", "cvt"} => w.x \in CondVars
  PROVE  IInv'
<1>a. TypeOK /\ AtShape /\ IdleReady /\ CpuShape /\ LockShape /\ JoinShape /\ TimerShape
  BY Zenon DEF IInv
<1> USE <1>a
<1> USE ConstantFacts
<1>1. ~Handing /\ ~Bumping /\ cur \in Threads /\ state[cur] = "RUNNING" /\ UNCHANGED <<state, queue, token>>
  BY Zenon DEF Handing, Bumping, TypeOK, CpuShape, queueVars
<1> USE <1>1
<1>2. at' \in [Threads -> Places] /\ at'[cur] = w /\ \A t \in Threads \ {cur} : at'[t] = at[t]
  BY Zenon DEF TypeOK
<1> USE <1>2
<1>3. AtShape'
  BY DEF AtShape
<1>4. IdleReady' /\ CpuShape'
  BY Zenon DEF IdleReady, CpuShape, cpuVars
<1>5. LockShape'
  BY DEF LockShape
<1>6. JoinShape' /\ TimerShape'
  BY DEF JoinShape, TimerShape
<1>7. baseprio' \in [Threads -> 0..(MinPrio + 1)] /\ cur' \in Threads /\ excpt' \in BOOLEAN
      /\ nextCtx' \in Threads \cup {NULL}
  BY Zenon DEF TypeOK, cpuVars
<1>8. \A t \in Threads : state[t] = "WAITING_MUTEX" => at'[t] = at[t]
  BY Zenon
<1>. QED  BY Zenon, <1>3, <1>4, <1>5, <1>6, <1>7, <1>8, FrameStep

(* A step that only passes the processor on keeps the invariant.           *)
LEMMA SwitchStep ==
  ASSUME IInv, UNCHANGED <<threadVars, queueVars, owner, armed, at>>,
         ~Handing, op' = NoOp, excpt' = excpt, CpuShape',
         cur' \in Threads, nextCtx' \in Threads \cup {NULL}
  PROVE  IInv'
<1>a. TypeOK
  BY Zenon DEF IInv
<1> USE DEF threadVars
<1>1. op' \in Ops /\ op'.pc = "none" /\ ~Handing' /\ ~Bumping' /\ ~Setting'
  BY Zenon, NoOpType DEF Handing, Bumping, Setting, NoOp
<1>2. OpShape'
  BY Zenon, <1>1 DEF OpShape
<1>3. baseprio \in [Threads -> 0..(MinPrio + 1)] /\ baseprio' = baseprio
  BY Zenon, <1>a DEF TypeOK
<1>4. excpt' \in BOOLEAN
  BY Zenon, <1>a DEF TypeOK
<1>. QED  BY Zenon, <1>1, <1>2, <1>3, <1>4, CallStep

(* KThreadReschedule as the last step of a kernel function.                *)
LEMMA RescheduleStep ==
  ASSUME IInv, UNCHANGED <<threadVars, queueVars, owner, armed, at>>,
         NEW t \in Threads \cup {NULL}, t # NULL => state[t] = "RUNNING",
         KThreadReschedule(t), ~Handing, ~Bumping, at[cur].pc # "exit"
  PROVE  IInv'
<1>a. TypeOK /\ AtShape /\ CpuShape
  BY Zenon DEF IInv
<1> USE <1>a
<1> USE ConstantFacts
<1>1. /\ cur \in Threads /\ nextCtx \in Threads \cup {NULL} /\ prio' \in [Threads -> Int]
      /\ UNCHANGED <<state, at>>
  BY DEF TypeOK, threadVars
<1> USE <1>1
<1>2. /\ op' = NoOp /\ excpt' = excpt
      /\ \/ cur' = cur /\ nextCtx' = nextCtx
         \/ t \in Threads /\ t # cur /\ ~excpt /\ cur' = t /\ nextCtx' = nextCtx
         \/ t \in Threads /\ t # cur /\ excpt /\ cur' = cur /\ nextCtx' = t
  BY Zenon, RescheduleFacts
<1> USE <1>2
<1>3. ~Bumping'
  BY Zenon DEF Bumping, NoOp
<1>4. t # NULL => at[t].pc # "exit"
  BY Zenon DEF AtShape
<1>5. CpuShape'
  BY Zenon, <1>3, <1>4 DEF CpuShape
<1>. QED  BY Zenon, <1>5, SwitchStep

OrderedBy(s, p) == \A i, j \in 1..Len(s) : i < j => p[s[i]] <= p[s[j]]

(* Kernel functions that have no priority to bring up to date.             *)
Settled(o) == o.pc \in {"none", "unblock", "setprio", "bumped", "given"} \/ (o.pc = "handover" /\ o.n = NULL)

(* In those functions no thread is left with an old priority.              *)
LEMMA SettledFacts ==
  ASSUME Settled(op)
  PROVE  Unsettled = {} /\ op.pc # "update"
BY Zenon DEF Settled, Unsettled

(* The head of a queue is a thread of the queue.                           *)
LEMMA HeadFacts ==
  ASSUME NEW s \in Seq(Threads), s # <<>>
  PROVE  s[1] \in Threads /\ s[1] \in Linked(s) /\ 1 \in 1..Len(s)
<1>1. 1 \in 1..Len(s)
  OBVIOUS
<1>. QED  BY Zenon, <1>1, RangeIsElements

(* Priorities are integers, and lists and queues are sequences.            *)
LEMMA PrioTypes ==
  ASSUME IInv, PrioInv
  PROVE  /\ prio \in [Threads -> Int] /\ baseprio \in [Threads -> Int]
         /\ list \in Seq(Threads) /\ OrderedBy(list, prio) /\ Distinct(list)
         /\ links \in [Queues -> Seq(Threads)]
         /\ \A q \in Queues : OrderedBy(links[q], prio) /\ Distinct(links[q]) /\ links[q] \in Seq(Threads)
         /\ cur \in Threads
<1>b. PriorityOrder /\ HandoverUpdates /\ OthersSettled
  BY Zenon DEF PrioInv
<1>a. TypeOK /\ QueueIntegrity
  BY Zenon DEF IInv
<1>1. /\ prio \in [Threads -> 0..(MinPrio + 1)] /\ baseprio \in [Threads -> 0..(MinPrio + 1)]
      /\ list \in Seq(Threads) /\ links \in [Queues -> Seq(Threads)] /\ cur \in Threads
  BY Zenon, <1>a DEF TypeOK
<1>2. prio \in [Threads -> Int] /\ baseprio \in [Threads -> Int]
  BY <1>1
<1>3. OrderedBy(list, prio) /\ \A q \in Queues : OrderedBy(links[q], prio)
  BY Zenon, <1>b DEF PriorityOrder, Ordered, OrderedBy, OthersSettled
<1>4. Distinct(list) /\ \A q \in Queues : Distinct(links[q])
  BY Zenon, <1>a DEF QueueIntegrity
<1>. QED  BY Zenon, <1>1, <1>2, <1>3, <1>4
=============================================================================
