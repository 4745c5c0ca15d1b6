--------------------------- MODULE KSyncPriority ----------------------------
(***************************************************************************)
(* Priorities: the thread list and the wait queues stay ordered and every  *)
(* thread inherits the priority of its best mutex waiter.  One lemma per   *)
(* action or group of actions: from IInv and PrioInv, PrioInv again.       *)
(***************************************************************************)
EXTENDS KSyncLemmas

(* An insertion keeps the order, and the head changes only for a thread    *)
(* that is better than the old one.                                        *)
LEMMA InsertOrder ==
  ASSUME NEW s \in Seq(Threads), NEW t \in Threads, NEW p \in [Threads -> Int], OrderedBy(s, p)
  PROVE  /\ Insert(s, t, p) \in Seq(Threads) /\ Insert(s, t, p) # <<>>
         /\ OrderedBy(Insert(s, t, p), p)
         /\ Insert(s, t, p)[1] = IF s # <<>> /\ p[s[1]] <= p[t] THEN s[1] ELSE t
<1> DEFINE worse == {i \in 1..Len(s) : p[s[i]] > p[t]}
           k == GetInsertPosition(s, t, p)
           r == LinkAt(s, k, t)
<1>0. \A i \in 1..Len(s) : s[i] \in Threads /\ p[s[i]] \in Int
  OBVIOUS
<1>1. /\ k \in 1..(Len(s) + 1)
      /\ \A i \in 1..Len(s) : i < k => p[s[i]] <= p[t]
      /\ \A i \in 1..Len(s) : i >= k => p[s[i]] > p[t]
  <2>1. CASE worse = {}
    <3>1. k = Len(s) + 1
      BY Zenon, <2>1 DEF GetInsertPosition
    <3>2. \A i \in 1..Len(s) : p[s[i]] <= p[t]
      BY <1>0, <2>1
    <3>. QED  BY <3>1, <3>2
  <2>2. CASE worse # {}
    <3>1. worse \in SUBSET Nat
      OBVIOUS
    <3>2. Least(worse) \in worse /\ \A y \in worse : Least(worse) <= y
      BY ZenonT(30), <2>2, <3>1, LeastIsMember
    <3>3. k = Least(worse)
      BY Zenon, <2>2 DEF GetInsertPosition
    <3> HIDE DEF k
    <3>4. k \in 1..Len(s) /\ p[s[k]] > p[t] /\ \A i \in 1..Len(s) : p[s[i]] > p[t] => k <= i
      BY Zenon, <3>2, <3>3
    <3>5. \A i \in 1..Len(s) : i < k => p[s[i]] <= p[t]
      BY <1>0, <3>4
    <3>6. \A i \in 1..Len(s) : i >= k => p[s[i]] > p[t]
      BY <1>0, <3>4 DEF OrderedBy
    <3>. QED  BY <3>4, <3>5, <3>6
  <2>. QED  BY Zenon, <2>1, <2>2
<1> HIDE DEF k
<1>2. /\ r \in Seq(Threads) /\ Len(r) = Len(s) + 1
      /\ \A j \in 1..(Len(s) + 1) :
           r[j] = IF j < k THEN s[j] ELSE IF j = k THEN t ELSE s[j - 1]
  <2>1. r \in Seq(Threads) /\ Len(r) = Len(s) + 1 /\ PutIn(r, s, k, t)
    BY Zenon, <1>1, LinkAtElements
  <2> HIDE DEF r
  <2>. QED  BY <2>1 DEF PutIn
<1> HIDE DEF r
<1>3. OrderedBy(r, p)
  <2> SUFFICES ASSUME NEW i \in 1..Len(r), NEW j \in 1..Len(r), i < j PROVE p[r[i]] <= p[r[j]]
    BY Zenon DEF OrderedBy
  <2>1. CASE j < k
    <3>0. i < k /\ i \in 1..Len(s) /\ j \in 1..Len(s)
      <4>1. k \in 1..(Len(s) + 1) /\ Len(r) = Len(s) + 1 /\ Len(s) \in Nat
        BY <1>1, <1>2
      <4>. QED  BY <2>1, <4>1
    <3>1. r[i] = s[i] /\ r[j] = s[j] /\ i \in 1..Len(s) /\ j \in 1..Len(s)
      BY Zenon, <1>2, <2>1, <3>0
    <3>. QED  BY Zenon, <3>1 DEF OrderedBy
  <2>2. CASE j = k
    <3>1. r[i] = s[i] /\ r[j] = t /\ i \in 1..Len(s)
      BY <1>1, <1>2, <2>2
    <3>. QED  BY Zenon, <1>1, <2>2, <3>1
  <2>3. CASE j > k /\ i < k
    <3>1. r[i] = s[i] /\ r[j] = s[j - 1] /\ i \in 1..Len(s) /\ j - 1 \in 1..Len(s)
      BY <1>1, <1>2, <2>3
    <3>2. p[s[i]] <= p[t] /\ p[s[j - 1]] > p[t]
      BY <1>1, <2>3, <3>1
    <3>3. p[s[i]] \in Int /\ p[s[j - 1]] \in Int /\ p[t] \in Int
      BY Zenon, <1>0, <3>1
    <3>. QED  BY <3>1, <3>2, <3>3
  <2>4. CASE j > k /\ i = k
    <3>1. r[i] = t /\ r[j] = s[j - 1] /\ j - 1 \in 1..Len(s) /\ j - 1 >= k
      BY <1>1, <1>2, <2>4
    <3>. QED  BY <1>0, <1>1, <3>1
  <2>5. CASE i > k
    <3>1. /\ r[i] = s[i - 1] /\ r[j] = s[j - 1] /\ i - 1 < j - 1
          /\ i - 1 \in 1..Len(s) /\ j - 1 \in 1..Len(s)
      BY <1>1, <1>2, <2>5
    <3>. QED  BY Zenon, <3>1 DEF OrderedBy
  <2>. QED  BY <1>1, <2>1, <2>2, <2>3, <2>4, <2>5
<1>4. r # <<>> /\ r[1] = IF s # <<>> /\ p[s[1]] <= p[t] THEN s[1] ELSE t
  <2>1. r # <<>>
    BY <1>2
  <2>2. CASE s = <<>>
    <3>1. Len(s) = 0
      BY Zenon, <2>2
    <3>2. k = 1 /\ 1 \in 1..(Len(s) + 1)
      BY <1>1, <3>1
    <3>3. r[1] = t
      BY <1>2, <3>2
    <3>. QED  BY Zenon, <2>1, <2>2, <3>3
  <2>3. CASE s # <<>>
    <3>1. 1 \in 1..Len(s) /\ p[s[1]] \in Int /\ p[t] \in Int
      BY <1>0, <2>3
    <3>2. (1 < k => p[s[1]] <= p[t]) /\ (1 >= k => p[s[1]] > p[t])
      BY Zenon, <1>1, <3>1
    <3>3. k \in Nat /\ k >= 1 /\ r[1] = IF 1 < k THEN s[1] ELSE t
      BY <1>1, <1>2
    <3>4. CASE 1 < k
      BY Zenon, <2>1, <2>3, <3>2, <3>3, <3>4
    <3>5. CASE 1 >= k
      <4>1. ~(p[s[1]] <= p[t])
        BY <3>1, <3>2, <3>5
      <4>. QED  BY <2>1, <3>3, <3>5, <4>1
    <3>. QED  BY <3>3, <3>4, <3>5
  <2>. QED  BY Zenon, <2>1, <2>2, <2>3
<1>5. Insert(s, t, p) = r
  BY Zenon DEF Insert, r, k
<1>. QED  BY Zenon, <1>2, <1>3, <1>4, <1>5

(* Taking an element out keeps the order.                                  *)
LEMMA UnlinkAtOrder ==
  ASSUME NEW s \in Seq(Threads), NEW i \in 1..Len(s), NEW p \in [Threads -> Int], OrderedBy(s, p)
  PROVE  OrderedBy(UnlinkAt(s, i), p)
<1> DEFINE r == UnlinkAt(s, i)
<1>1. /\ r \in Seq(Threads) /\ Len(r) = Len(s) - 1
      /\ \A j \in 1..(Len(s) - 1) : r[j] = IF j < i THEN s[j] ELSE s[j + 1]
  BY Zenon, UnlinkAtElements
<1> HIDE DEF r
<1>2. OrderedBy(r, p)
  <2> SUFFICES ASSUME NEW x \in 1..Len(r), NEW y \in 1..Len(r), x < y PROVE p[r[x]] <= p[r[y]]
    BY Zenon DEF OrderedBy
  <2> DEFINE hx == IF x < i THEN x ELSE x + 1
             hy == IF y < i THEN y ELSE y + 1
  <2>0. Len(s) \in Nat /\ Len(r) = Len(s) - 1 /\ i \in 1..Len(s) /\ x \in 1..Len(r) /\ y \in 1..Len(r) /\ x < y
    BY <1>1
  <2>1. hx \in 1..Len(s) /\ hy \in 1..Len(s) /\ hx < hy
    <3>1. CASE y < i
      BY <2>0, <3>1
    <3>2. CASE ~(y < i)
      BY <2>0, <3>2
    <3>. QED  BY Zenon, <3>1, <3>2
  <2>2. r[x] = s[hx] /\ r[y] = s[hy]
    <3>1. x \in 1..(Len(s) - 1) /\ y \in 1..(Len(s) - 1)
      BY Zenon, <1>1
    <3>2. r[x] = (IF x < i THEN s[x] ELSE s[x + 1]) /\ r[y] = (IF y < i THEN s[y] ELSE s[y + 1])
      BY Zenon, <1>1, <3>1
    <3>. QED  BY Zenon, <3>2
  <2> HIDE DEF hx, hy
  <2>. QED  BY Zenon, <2>1, <2>2 DEF OrderedBy
<1>. QED  BY Zenon, <1>2 DEF r

(* Taking a thread out of a list keeps the order of the others.            *)
LEMMA UnlinkOrder ==
  ASSUME NEW s \in Seq(Threads), NEW t \in Threads, NEW p \in [Threads -> Int], OrderedBy(s, p)
  PROVE  OrderedBy(Unlink(s, t), p)
<1> DEFINE here == {i \in 1..Len(s) : s[i] = t}
<1>1. CASE here = {}
  BY Zenon, <1>1 DEF Unlink
<1>2. CASE here # {}
  <2>1. here \in SUBSET Nat
    OBVIOUS
  <2>2. Least(here) \in 1..Len(s)
    BY ZenonT(30), <1>2, <2>1, LeastIsMember
  <2>3. Unlink(s, t) = UnlinkAt(s, Least(here))
    BY Zenon, <1>2 DEF Unlink
  <2>. QED  BY Zenon, <2>2, <2>3, UnlinkAtOrder
<1>. QED  BY Zenon, <1>1, <1>2

(* A list stays ordered when only priorities of other threads change.      *)
LEMMA OrderElsewhere ==
  ASSUME NEW s \in Seq(Threads), NEW p, NEW r, OrderedBy(s, p),
         \A x \in Linked(s) : r[x] = p[x]
  PROVE  OrderedBy(s, r)
<1>1. \A i \in 1..Len(s) : r[s[i]] = p[s[i]]
  BY Zenon, RangeIsElements
<1>. QED  BY Zenon, <1>1 DEF OrderedBy

(* A thread whose priority changes is linked in again at its new place.    *)
LEMMA RequeueOrder ==
  ASSUME NEW s \in Seq(Threads), NEW t \in Threads, NEW p \in [Threads -> Int], NEW x \in Int,
         NEW r, r = [p EXCEPT ![t] = x], OrderedBy(s, p), Distinct(s)
  PROVE  OrderedBy(Insert(Unlink(s, t), t, r), r)
<1>1. /\ Unlink(s, t) \in Seq(Threads) /\ Linked(Unlink(s, t)) = Linked(s) \ {t}
  BY Zenon, UnlinkFacts
<1>2. OrderedBy(Unlink(s, t), p)
  BY Zenon, UnlinkOrder
<1>3. r \in [Threads -> Int] /\ \A u \in Threads \ {t} : r[u] = p[u]
  BY Zenon
<1>4. Linked(s) \subseteq Threads
  BY Zenon, RangeIsElements
<1>5. OrderedBy(Unlink(s, t), r)
  BY ZenonT(30), <1>1, <1>2, <1>3, <1>4, OrderElsewhere
<1>. QED  BY ZenonT(30), <1>1, <1>3, <1>5, InsertOrder

(* A step that changes no priority and no queue of mutex waiters.          *)
LEMMA PrioKept ==
  ASSUME IInv, PrioInv, Settled(op), Settled(op'), ~Handing' \/ op'.n = NULL,
         UNCHANGED <<prio, baseprio>>, OrderedBy(list', prio),
         \A q \in Static : OrderedBy(links'[q], prio),
         \A t \in Threads : links'[t] = links[t],
         \A t \in Threads : state'[t] \in Live => state[t] \in Live
  PROVE  PrioInv'
<1>b. PriorityOrder /\ HandoverUpdates /\ OthersSettled
  BY Zenon DEF PrioInv
<1>1. Unsettled = {} /\ Unsettled' = {} /\ op'.pc # "update"
  BY Zenon DEF Settled, Unsettled
<1>2. HandoverUpdates'
  BY Zenon, <1>1 DEF HandoverUpdates
<1>3. PriorityOrder'
  <2>1. \A q \in Threads : OrderedBy(links'[q], prio)
    BY Zenon, <1>b DEF PriorityOrder, Ordered, OrderedBy, Queues, OthersSettled
  <2>2. \A q \in Queues : OrderedBy(links'[q], prio)
    BY Zenon, <2>1 DEF Queues
  <2>. QED  BY Zenon, <2>2 DEF PriorityOrder, Ordered, OrderedBy
<1>4. \A t \in Threads : state'[t] \in Live => PrioSettled(t)'
  <2> SUFFICES ASSUME NEW t \in Threads, state'[t] \in Live PROVE PrioSettled(t)'
    BY Zenon
  <2>1. PrioSettled(t)
    BY Zenon, <1>b, <1>1 DEF OthersSettled
  <2>. QED  BY Zenon, <2>1 DEF PrioSettled, DynamicPrio
<1>. QED  BY Zenon, <1>2, <1>3, <1>4 DEF PrioInv, OthersSettled

(* A step that changes no list and no priority keeps PrioInv.              *)
LEMMA PrioFrame ==
  ASSUME IInv, PrioInv, Settled(op), Settled(op'), ~Handing' \/ op'.n = NULL,
         UNCHANGED <<list, links, prio, baseprio>>,
         \A t \in Threads : state'[t] \in Live => state[t] \in Live
  PROVE  PrioInv'
<1>b. PriorityOrder /\ HandoverUpdates /\ OthersSettled
  BY Zenon DEF PrioInv
<1>1. OrderedBy(list, prio) /\ \A q \in Queues : OrderedBy(links[q], prio)
  BY Zenon, <1>b DEF PriorityOrder, Ordered, OrderedBy, OthersSettled
<1>2. \A q \in Static : OrderedBy(links'[q], prio)
  BY Zenon, <1>1, NoOpType
<1>3. OrderedBy(list', prio)
  BY Zenon, <1>1
<1>. QED  BY Zenon, <1>2, <1>3, PrioKept

(* Between kernel calls no priority is left to bring up to date.           *)
LEMMA NoOpSettled == Settled(NoOp) /\ (op' = NoOp => Settled(op') /\ ~Handing')
BY DEF Settled, NoOp, Handing

(* The calls and steps that leave lists and priorities alone.              *)
LEMMA QuietCallsPrio ==
  ASSUME IInv, PrioInv,
         \/ KThreadSetPrioTail \/ KMutexLockSwitch \/ ReturnToCaller \/ KThreadYield
         \/ IrqEnter \/ IrqReturn
         \/ \E m \in Mutexes : KMutexTryLock(m) \/ KMutexLockContended(m) \/ KMutexUnlock(m)
         \/ \E c \in CondVars, m \in Mutexes, kind \in {"cv", "cvt"} : KCondVarWait(c, m, kind)
         \/ \E c \in CondVars : KCondVarSignal(c) \/ KCondVarBroadcast(c)
  PROVE  PrioInv'
<1>1. UNCHANGED <<list, links, prio, baseprio, state>>
  BY Zenon DEF KThreadSetPrioTail, KMutexLockSwitch, ReturnToCaller, KThreadYield, IrqEnter, IrqReturn,
     KMutexTryLock, KMutexLockContended, KMutexUnlock, KCondVarWait, KCondVarSignal,
     KCondVarBroadcast, threadVars, queueVars
<1>2. Settled(op)
  BY Zenon DEF KThreadSetPrioTail, KMutexLockSwitch, ReturnToCaller, KThreadYield, IrqEnter, IrqReturn,
     KMutexTryLock, KMutexLockContended, KMutexUnlock, KCondVarWait, KCondVarSignal,
     KCondVarBroadcast, Settled, InThread, Calling, Resumed
<1>3. Settled(op') /\ (~Handing' \/ op'.n = NULL)
  <2>1. CASE KThreadSetPrioTail \/ KMutexLockSwitch \/ KThreadYield
    <3>1. op' = NoOp
      BY Zenon, <2>1, SwitchEnds DEF KThreadSetPrioTail, KMutexLockSwitch, KThreadYield
    <3>. QED  BY Zenon, <3>1, NoOpSettled
  <2>2. CASE ReturnToCaller \/ IrqEnter \/ IrqReturn
    BY Zenon, <2>2 DEF ReturnToCaller, IrqEnter, IrqReturn, Resumed, Settled, Handing
  <2>3. CASE \E m \in Mutexes : KMutexTryLock(m) \/ KMutexLockContended(m)
    BY Zenon, <2>3 DEF KMutexTryLock, KMutexLockContended, InThread, Settled, Handing
  <2>4. CASE \E m \in Mutexes : KMutexUnlock(m)
    BY ZenonT(30), <2>4 DEF KMutexUnlock, StartHandover, NoOp, Settled
  <2>5. CASE \E c \in CondVars, m \in Mutexes, kind \in {"cv", "cvt"} : KCondVarWait(c, m, kind)
    BY ZenonT(30), <2>5 DEF KCondVarWait, StartHandover, NoOp, Settled
  <2>6. CASE \E c \in CondVars : KCondVarSignal(c) \/ KCondVarBroadcast(c)
    BY ZenonT(30), <2>6 DEF KCondVarSignal, KCondVarBroadcast, KThrQueueUnblock, NoOp, Settled,
       Handing
  <2>. QED  BY Zenon, <2>1, <2>2, <2>3, <2>4, <2>5, <2>6
<1>. QED  BY Zenon, <1>1, <1>2, <1>3, PrioFrame

(* KThreadResume and KThreadSuspend change only states.                    *)
LEMMA StateCallsPrio ==
  ASSUME IInv, PrioInv, NEW t \in Users, KThreadResume(t) \/ KThreadSuspendLive(t)
  PROVE  PrioInv'
<1>a. TypeOK /\ AtShape
  BY Zenon DEF IInv
<1>1. UNCHANGED <<list, links, prio, baseprio>> /\ op.pc = "none" /\ t \in Threads
  BY Zenon DEF KThreadResume, KThreadSuspendLive, KThreadSuspend, queueVars, Calling, InThread, Users
<1>2. op' = op \/ op' = NoOp
  BY Zenon, SwitchEnds DEF KThreadResume, KThreadSuspendLive, KThreadSuspend
<1>3. Settled(op) /\ Settled(op') /\ ~Handing'
  BY <1>2, <1>1 DEF Settled, Handing, NoOp
<1>4. state[t] \in Live /\ state \in [Threads -> States]
  <2>1. state \in [Threads -> States] /\ state[t] \in States
    BY Zenon, <1>a, <1>1 DEF TypeOK
  <2>2. state[t] \in {"UNINIT", "FINISHED"} => suspend[t] = 0
    BY Zenon, <1>a, <1>1 DEF AtShape
  <2>3. suspend[t] > 0 \/ state[t] \in Live
    BY Zenon DEF KThreadResume, KThreadSuspendLive
  <2>. QED  BY <2>1, <2>2, <2>3 DEF States
<1>5. \E x : state' = [state EXCEPT ![t] = x] \/ state' = state
  BY Zenon DEF KThreadResume, KThreadSuspendLive, KThreadSuspend
<1>6. \A u \in Threads : state'[u] \in Live => state[u] \in Live
  BY Zenon, <1>4, <1>5
<1>. QED  BY Zenon, <1>3, <1>6, PrioFrame, <1>1

(* Changing a static queue to another ordered one.                         *)
LEMMA StaticQueuePrio ==
  ASSUME IInv, PrioInv, Settled(op), Settled(op'), ~Handing' \/ op'.n = NULL,
         NEW q \in Static, NEW s, links' = [links EXCEPT ![q] = s], OrderedBy(s, prio),
         UNCHANGED <<list, prio, baseprio>>,
         \A t \in Threads : state'[t] \in Live => state[t] \in Live
  PROVE  PrioInv'
<1>1. links \in [Queues -> Seq(Threads)] /\ q \in Queues
  BY Zenon, PrioTypes, NoOpType
<1>2. \A r \in Static : OrderedBy(links'[r], prio)
  BY Zenon, <1>1, PrioTypes, NoOpType
<1>3. \A t \in Threads : links'[t] = links[t]
  BY <1>1, ConstantFacts
<1>4. OrderedBy(list', prio)
  BY Zenon, PrioTypes
<1>. QED  BY Zenon, <1>2, <1>3, <1>4, PrioKept

(* KThrQueueBlock.                                                         *)
LEMMA BlockPrio ==
  ASSUME IInv, PrioInv, Settled(op), NEW q \in Static, NEW tok, KThrQueueBlock(q, tok),
         state[cur] \in Live, UNCHANGED <<list, baseprio>>
  PROVE  PrioInv'
<1>a. TypeOK
  BY Zenon DEF IInv
<1>1. /\ state' = [state EXCEPT ![cur] = "WAITING"] /\ UNCHANGED prio
      /\ links' = [links EXCEPT ![q] = Insert(links[q], cur, prio)]
  BY Zenon DEF KThrQueueBlock
<1>2. Settled(op') /\ ~Handing'
  BY Zenon, SwitchEnds, NoOpSettled DEF KThrQueueBlock
<1>3. OrderedBy(Insert(links[q], cur, prio), prio)
  BY Zenon, PrioTypes, InsertOrder, NoOpType
<1>4. \A t \in Threads : state'[t] \in Live => state[t] \in Live
  BY Zenon, <1>1, <1>a DEF TypeOK
<1>. QED  BY ZenonT(30), <1>1, <1>2, <1>3, <1>4, StaticQueuePrio

(* KThreadSleepTicks and KThreadJoin.                                      *)
LEMMA SleepJoinPrio ==
  ASSUME IInv, PrioInv, KThreadSleepTicks \/ (\E t \in Users : KThreadJoin(t))
  PROVE  PrioInv'
<1>a. CpuShape
  BY Zenon DEF IInv
<1>1. /\ InThread /\ UNCHANGED <<list, baseprio>>
      /\ \E q \in {"join", "sleep"}, tok \in Threads : KThrQueueBlock(q, tok)
  BY Zenon, PrioTypes DEF KThreadSleepTicks, KThreadJoin, Users
<1>2. Settled(op) /\ state[cur] \in Live
  BY Zenon, <1>1, <1>a DEF InThread, Settled, CpuShape, Bumping, Live
<1>. QED  BY Zenon, <1>1, <1>2, BlockPrio DEF Static

(* KThreadExit.                                                            *)
LEMMA ExitPrio ==
  ASSUME IInv, PrioInv, KThreadExit
  PROVE  PrioInv'
<1>a. TypeOK
  BY Zenon DEF IInv
<1>1. /\ op.pc = "none" /\ list' = Unlink(list, cur) /\ state' = [state EXCEPT ![cur] = "FINISHED"]
      /\ UNCHANGED <<links, prio, baseprio>>
      /\ op' = [NoOp EXCEPT !.pc = "unblock", !.q = "join", !.ref = cur, !.max = -1]
  BY Zenon DEF KThreadExit, InThread, queueVars
<1>2. Settled(op) /\ Settled(op') /\ ~Handing'
  BY Zenon, <1>1 DEF Settled, Handing, NoOp
<1>3. OrderedBy(list', prio)
  BY Zenon, PrioTypes, UnlinkOrder, <1>1
<1>4. \A t \in Threads : state'[t] \in Live => state[t] \in Live
  BY Zenon, PrioTypes, <1>a, <1>1 DEF TypeOK, Live
<1>5. (\A q \in Static : OrderedBy(links'[q], prio)) /\ \A t \in Threads : links'[t] = links[t]
  BY Zenon, PrioTypes, NoOpType, <1>1
<1>. QED  BY Zenon, <1>2, <1>3, <1>4, <1>5, PrioKept, <1>1

(* KThrQueueUnblockCommon.                                                 *)
LEMMA UnblockPrio ==
  ASSUME IInv, PrioInv, KThrQueueUnblockCommon
  PROVE  PrioInv'
<1>a. TypeOK /\ OpShape /\ QueueIntegrity /\ StatesMatchQueues
  BY Zenon DEF IInv
<1> DEFINE s   == links[op.q]
           hit == {i \in 1..Len(s) : token[s[i]] = op.ref}
           t   == s[Least(hit)]
<1>1. op.pc = "unblock" /\ UNCHANGED <<list, prio, baseprio>> /\ op.q \in Static
  BY ZenonT(30), <1>a DEF KThrQueueUnblockCommon, OpShape
<1>2. Settled(op)
  BY Zenon, <1>1 DEF Settled
<1>3. CASE ~(op.max # 0 /\ hit # {})
  <2>1. UNCHANGED <<state, queueVars>>
    BY ZenonT(30), <1>3 DEF KThrQueueUnblockCommon
  <2>2. op' = NoOp
    BY ZenonT(30), <1>3, SwitchEnds DEF KThrQueueUnblockCommon
  <2>. QED  BY Zenon, <1>2, <2>1, <2>2, NoOpSettled, PrioFrame, <1>1 DEF queueVars
<1>4. CASE op.max # 0 /\ hit # {}
  <2>1. /\ links' = [links EXCEPT ![op.q] = UnlinkAt(s, Least(hit))]
        /\ state' = IF suspend[t] = 0 THEN [state EXCEPT ![t] = "RUNNING"] ELSE state
        /\ op' = [op EXCEPT !.max = IF @ > 0 THEN @ - 1 ELSE @,
                            !.n   = IF @ = NULL /\ suspend[t] = 0 THEN t ELSE @]
    BY ZenonT(30), <1>4 DEF KThrQueueUnblockCommon
  <2>2. op \in Ops /\ s \in Seq(Threads) /\ OrderedBy(s, prio)
    BY Zenon, PrioTypes, NoOpType, <1>a, <1>1 DEF TypeOK
  <2>3. op'.pc = "unblock"
    BY ZenonT(30), <2>1, <2>2, <1>1 DEF Ops
  <2>4. Settled(op') /\ ~Handing'
    BY Zenon, <2>3 DEF Settled, Handing
  <2>5. Least(hit) \in 1..Len(s)
    <3>1. hit \in SUBSET Nat
      OBVIOUS
    <3>2. Least(hit) \in hit
      BY ZenonT(30), <1>4, <3>1, LeastIsMember
    <3>. QED  BY Zenon, <3>2
  <2>6. t \in Threads /\ state[t] \in Live
    <3> DEFINE k == Least(hit)
    <3>0. k \in 1..Len(s) /\ t = s[k]
      BY Zenon, <2>5
    <3> HIDE DEF hit, k, s, t
    <3>1. t \in Threads /\ t \in Linked(s)
      BY Zenon, <2>2, <3>0, RangeIsElements
    <3>a. t \in Linked(links[op.q]) /\ op.q \in Queues
      BY Zenon, <3>1, NoOpType, <1>1 DEF s
    <3>2. queue[t] = op.q /\ op.q # NULL /\ state[t] \in States
      BY <3>1, <3>a, ConstantFacts, <1>a, <1>1 DEF QueueIntegrity, TypeOK
    <3>. QED  BY Zenon, <3>1, <3>2, <1>a DEF StatesMatchQueues, States, Live
  <2>7. OrderedBy(UnlinkAt(s, Least(hit)), prio)
    BY Zenon, <2>2, <2>5, PrioTypes, UnlinkAtOrder
  <2> HIDE DEF hit, s, t
  <2>8. \A u \in Threads : state'[u] \in Live => state[u] \in Live
    BY <2>1, <2>6 DEF TypeOK
  <2>. QED  BY ZenonT(30), <1>2, <2>1, <2>4, <2>7, <2>8, StaticQueuePrio, <1>1
<1>. QED  BY Zenon, <1>3, <1>4

(* A timer fires.                                                          *)
LEMMA TickTaskPrio ==
  ASSUME IInv, PrioInv, NEW t \in Users, TickTaskFires(t)
  PROVE  PrioInv'
<1>a. TypeOK
  BY Zenon DEF IInv
<1>1. op.pc = "none" /\ UNCHANGED <<list, baseprio>> /\ t \in Threads
  BY Zenon DEF TickTaskFires, Users
<1>2. Settled(op) /\ ~Handing
  BY Zenon, <1>1 DEF Settled, Handing
<1>3. CASE at[t].pc = "sleep"
  <2>1. /\ UNCHANGED <<state, prio, links>>
        /\ op' = [NoOp EXCEPT !.pc = "unblock", !.q = "sleep", !.ref = t, !.max = -1]
    BY Zenon, <1>3 DEF TickTaskFires, KThrQueueUnblock, queueVars
  <2>2. Settled(op') /\ ~Handing'
    BY Zenon, <2>1 DEF Settled, Handing, NoOp
  <2>. QED  BY Zenon, <2>1, <2>2, PrioFrame, <1>1, <1>2
<1>4. CASE at[t].pc # "sleep" /\ (state[t] # "WAITING" \/ queue[t] # "cv")
  <2>1. UNCHANGED <<state, prio, links, op>>
    BY Zenon, <1>4 DEF TickTaskFires, KThrQueueCancel, queueVars
  <2>. QED  BY Zenon, <2>1, PrioFrame, <1>1, <1>2 DEF Handing
<1>5. CASE at[t].pc # "sleep" /\ ~(state[t] # "WAITING" \/ queue[t] # "cv")
  <2>1. /\ links' = [links EXCEPT !["cv"] = Unlink(links["cv"], t)] /\ UNCHANGED prio
        /\ state' = IF suspend[t] = 0 THEN [state EXCEPT ![t] = "RUNNING"] ELSE state
        /\ op' = NoOp
    BY Zenon, <1>5, SwitchEnds DEF TickTaskFires, KThrQueueCancel
  <2>2. "cv" \in Static /\ "cv" \in Queues
    BY Zenon DEF Static, Queues
  <2>3. OrderedBy(Unlink(links["cv"], t), prio)
    BY Zenon, <2>2, PrioTypes, UnlinkOrder, <1>1
  <2>4. \A u \in Threads : state'[u] \in Live => state[u] \in Live
    BY Zenon, <1>5, <2>1, <1>a DEF TypeOK, Live
  <2>. QED  BY ZenonT(30), <2>1, <2>2, <2>3, <2>4, NoOpSettled, StaticQueuePrio, <1>1, <1>2
<1>. QED  BY Zenon, <1>3, <1>4, <1>5

(* The end of a hand-over.                                                 *)
LEMMA GivenPrio ==
  ASSUME IInv, PrioInv, Given
  PROVE  PrioInv'
<1>a. OpShape
  BY Zenon DEF IInv
<1>1. op.pc = "given" /\ UNCHANGED <<list, baseprio>> /\ Handing
  BY Zenon DEF Given, Handing
<1>2. Settled(op) /\ state[cur] \in Live /\ at[cur].pc \in {"user", "cv", "cvt"}
  BY Zenon, <1>a, <1>1 DEF Settled, OpShape, Live
<1>3. CASE at[cur].pc = "user"
  <2>1. UNCHANGED <<state, prio, queueVars>> /\ op' = NoOp
    BY Zenon, <1>3, SwitchEnds DEF Given
  <2>. QED  BY Zenon, <1>2, <2>1, NoOpSettled, PrioFrame, <1>1 DEF queueVars
<1>4. CASE at[cur].pc # "user"
  <2>1. KThrQueueBlock("cv", at[cur].x)
    BY Zenon, <1>4 DEF Given
  <2>. QED  BY Zenon, <1>2, <2>1, BlockPrio, <1>1 DEF Static
<1>. QED  BY Zenon, <1>3, <1>4

(* Outside a hand-over, a thread's own queue holds those that wait for it. *)
LEMMA WaitersOf ==
  ASSUME IInv, ~Handing, NEW t \in Threads, NEW u \in Threads
  PROVE  u \in Linked(links[t]) <=> WaitsFor(u, t)
<1>a. TypeOK /\ QueueIntegrity /\ StatesMatchQueues /\ WaiterShape
  BY Zenon DEF IInv
<1>1. u \in Linked(links[t]) <=> queue[u] = t
  BY Zenon, NoOpType, <1>a DEF QueueIntegrity
<1>2. state[u] \in States
  BY Zenon, <1>a DEF TypeOK
<1>3. queue[u] = t => state[u] = "WAITING_MUTEX"
  BY Zenon, <1>2, <1>a, ConstantFacts DEF StatesMatchQueues, States, Live
<1>4. state[u] = "WAITING_MUTEX" => queue[u] = owner[token[u]]
  BY Zenon, <1>a DEF WaiterShape
<1>. QED  BY Zenon, <1>1, <1>3, <1>4 DEF WaitsFor

(* A change of another thread's priority leaves v settled if that thread   *)
(* does not wait for v.                                                    *)
LEMMA SettledElsewhere ==
  ASSUME IInv, NEW t \in Threads, NEW x, prio' = [prio EXCEPT ![t] = x],
         NEW v \in Threads \ {t}, links'[v] = links[v], baseprio'[v] = baseprio[v],
         t \notin Linked(links[v]), PrioSettled(v)
  PROVE  PrioSettled(v)'
<1>a. TypeOK
  BY Zenon DEF IInv
<1>1. links[v] \in Seq(Threads) /\ prio \in [Threads -> 0..(MinPrio + 1)]
  BY Zenon, NoOpType, <1>a DEF TypeOK
<1>2. links[v] # <<>> => links[v][1] \in Threads /\ links[v][1] # t
  BY Zenon, <1>1, HeadFacts
<1>3. prio'[v] = prio[v] /\ (links[v] # <<>> => prio'[links[v][1]] = prio[links[v][1]])
  BY Zenon, <1>1, <1>2
<1>. QED  BY Zenon, <1>3 DEF PrioSettled, DynamicPrio

(* KThreadPrepare.                                                         *)
LEMMA PreparePrio ==
  ASSUME IInv, PrioInv, NEW t \in Users, NEW p \in 0..MinPrio, KThreadPrepare(t, p)
  PROVE  PrioInv'
<1>a. TypeOK /\ OwnerShape /\ QueueIntegrity /\ StatesMatchQueues
  BY Zenon DEF IInv
<1>1. /\ op.pc = "none" /\ op' = op /\ state[t] = "UNINIT" /\ t \in Threads /\ p \in Int
      /\ prio' = [prio EXCEPT ![t] = p] /\ baseprio' = [baseprio EXCEPT ![t] = p]
      /\ list' = Insert(list, t, prio') /\ links' = links
      /\ state' = [state EXCEPT ![t] = "WAITING"]
  BY KThreadAssumption DEF KThreadPrepare, InThread, Users, queueVars
<1>2. ~Handing /\ ~Handing' /\ Unsettled = {} /\ Unsettled' = {} /\ op'.pc # "update"
  BY Zenon, <1>1 DEF Handing, Unsettled
<1>3. /\ prio' \in [Threads -> Int] /\ prio'[t] = p
      /\ \A u \in Threads \ {t} : prio'[u] = prio[u]
  BY Zenon, PrioTypes, <1>1
<1>4. t \notin Linked(list) /\ \A q \in Queues : t \notin Linked(links[q])
  <2>1. queue[t] = NULL
    BY Zenon, <1>a, <1>1 DEF StatesMatchQueues
  <2>2. t \notin Linked(list)
    BY Zenon, <1>a, <1>1 DEF QueueIntegrity, Live
  <2>. QED  BY <2>1, <2>2, <1>a, ConstantFacts, <1>1 DEF QueueIntegrity
<1>5. OrderedBy(list', prio')
  <2>1. Linked(list) \subseteq Threads /\ \A u \in Linked(list) : prio'[u] = prio[u]
    BY Zenon, <1>3, <1>4, PrioTypes, RangeIsElements
  <2>2. OrderedBy(list, prio')
    BY ZenonT(30), <2>1, PrioTypes, OrderElsewhere
  <2>. QED  BY ZenonT(30), <1>3, <2>2, PrioTypes, InsertOrder, <1>1
<1>6. ASSUME NEW q \in Queues PROVE OrderedBy(links'[q], prio')
  <2>1. links[q] \in Seq(Threads) /\ OrderedBy(links[q], prio)
    BY Zenon, PrioTypes
  <2>2. Linked(links[q]) \subseteq Threads
    BY Zenon, <2>1, RangeIsElements
  <2>3. \A u \in Linked(links[q]) : prio'[u] = prio[u]
    BY Zenon, <1>3, <1>4, <2>2
  <2>. QED  BY ZenonT(30), <2>1, <2>3, OrderElsewhere, <1>1
<1>7. PriorityOrder'
  BY ZenonT(30), <1>5, <1>6 DEF PriorityOrder, Ordered, OrderedBy
<1>8. ASSUME NEW v \in Threads, state'[v] \in Live PROVE PrioSettled(v)'
  <2>1. CASE v = t
    <3>1. links[t] \in Seq(Threads)
      BY Zenon, PrioTypes, NoOpType, <1>1
    <3>2. \A u \in Threads : ~WaitsFor(u, t)
      <4>1. \A u \in Threads : WaitsFor(u, t) => token[u] \in Mutexes
        BY Zenon, <1>a DEF StatesMatchQueues, WaitsFor
      <4>2. \A m \in Mutexes : owner[m] # t
        BY Zenon, <1>a, ConstantFacts, <1>1 DEF OwnerShape, Live
      <4>. QED  BY Zenon, <4>1, <4>2 DEF WaitsFor
    <3>3. links[t] = <<>>
      BY Zenon, <1>2, <3>1, <3>2, HeadFacts, WaitersOf, <1>1
    <3>. QED  BY Zenon, <1>3, <2>1, <3>3, PrioTypes, <1>1 DEF PrioSettled, DynamicPrio
  <2>2. CASE v # t
    <3>1. PrioSettled(v)
      <4>1. state[v] \in Live
        BY <1>8, <2>2, <1>1 DEF TypeOK
      <4>. QED  BY Zenon, <1>2, <4>1 DEF PrioInv, OthersSettled
    <3>2. links'[v] = links[v] /\ baseprio'[v] = baseprio[v] /\ t \notin Linked(links[v])
      BY Zenon, <1>4, <2>2, PrioTypes, NoOpType, <1>1
    <3>. QED  BY ZenonT(30), <2>2, <3>1, <3>2, SettledElsewhere, <1>1
  <2>. QED  BY Zenon, <2>1, <2>2
<1>9. HandoverUpdates'
  BY Zenon, <1>2 DEF HandoverUpdates
<1>. QED  BY Zenon, <1>2, <1>7, <1>8, <1>9 DEF PrioInv, OthersSettled

(* KThreadSetPrio: t is the one thread whose priority may be wrong now.    *)
LEMMA SetPrioPrio ==
  ASSUME IInv, PrioInv, NEW t \in Users, NEW p \in 0..MinPrio, KThreadSetPrio(t, p)
  PROVE  PrioInv'
<1>b. PriorityOrder /\ HandoverUpdates /\ OthersSettled
  BY Zenon DEF PrioInv
<1>1. /\ op.pc = "none" /\ t \in Threads /\ UNCHANGED <<list, links, prio, state>>
      /\ baseprio' = [baseprio EXCEPT ![t] = p]
      /\ op' = [NoOp EXCEPT !.pc = "update", !.t = t, !.n = t, !.prio = prio[cur], !.ret = "setprio"]
  BY Zenon DEF KThreadSetPrio, Calling, InThread, Users, queueVars
<1>2. op'.pc = "update" /\ op'.ret = "setprio" /\ op'.t = t
  BY Zenon, <1>1 DEF NoOp
<1>3. Unsettled = {} /\ Unsettled' = {t}
  BY Zenon, <1>2, <1>1 DEF Unsettled
<1>4. HandoverUpdates'
  BY Zenon, <1>2 DEF HandoverUpdates, Handing
<1>5. PriorityOrder'
  BY Zenon, <1>b, <1>1 DEF PriorityOrder, Ordered, OthersSettled
<1>6. ASSUME NEW v \in Threads \ {t}, state'[v] \in Live PROVE PrioSettled(v)'
  <2>1. PrioSettled(v)
    BY Zenon, <1>3, <1>6, <1>b, <1>1 DEF OthersSettled
  <2>2. baseprio'[v] = baseprio[v]
    BY Zenon, PrioTypes, <1>1
  <2>. QED  BY Zenon, <2>1, <2>2, <1>1 DEF PrioSettled, DynamicPrio
<1>. QED  BY Zenon, <1>3, <1>4, <1>5, <1>6 DEF PrioInv, OthersSettled

(* UpdateNextOwner.                                                        *)
LEMMA NextOwnerPrio ==
  ASSUME IInv, PrioInv, UpdateNextOwner
  PROVE  PrioInv'
<1>b. PriorityOrder /\ HandoverUpdates /\ OthersSettled
  BY Zenon DEF PrioInv
<1>a. TypeOK
  BY Zenon DEF IInv
<1>1. /\ op.pc = "next" /\ UNCHANGED <<list, links, prio, baseprio, state, queue, cur>>
      /\ op' = [op EXCEPT !.pc = "update", !.t = op.n, !.ret = "given"] /\ op \in Ops
  BY Zenon, <1>a DEF UpdateNextOwner, threadVars, queueVars, cpuVars, TypeOK
<1>2. op'.pc = "update" /\ op'.ret = "given" /\ op'.t = op.n /\ op'.n = op.n
  BY Zenon, <1>1 DEF Ops
<1>3. Unsettled = {op.n} /\ Unsettled' = {op.n}
  BY Zenon, <1>2, <1>1 DEF Unsettled
<1>4. HandoverUpdates'
  BY Zenon, <1>2, <1>b, <1>1 DEF HandoverUpdates, Handing, OthersSettled
<1>5. PriorityOrder'
  BY Zenon, <1>b, <1>1 DEF PriorityOrder, Ordered, OthersSettled
<1>6. \A v \in Threads : PrioSettled(v)' <=> PrioSettled(v)
  BY Zenon, <1>1 DEF PrioSettled, DynamicPrio
<1>. QED  BY Zenon, <1>3, <1>4, <1>5, <1>6, <1>1 DEF PrioInv, OthersSettled

(* The priority DynamicPrio computes does not depend on the old one,       *)
(* unless the thread waits for itself.                                     *)
LEMMA SettledHere ==
  ASSUME IInv, NEW t \in Threads, prio' = [prio EXCEPT ![t] = DynamicPrio(t)],
         links'[t] = links[t], baseprio'[t] = baseprio[t], t \notin Linked(links[t])
  PROVE  PrioSettled(t)'
<1>a. TypeOK
  BY Zenon DEF IInv
<1>1. links[t] \in Seq(Threads) /\ prio \in [Threads -> 0..(MinPrio + 1)]
  BY Zenon, NoOpType, <1>a DEF TypeOK
<1>2. links[t] # <<>> => links[t][1] \in Threads /\ links[t][1] # t
  BY Zenon, <1>1, HeadFacts
<1>3. prio'[t] = DynamicPrio(t) /\ (links[t] # <<>> => prio'[links[t][1]] = prio[links[t][1]])
  BY Zenon, <1>1, <1>2
<1>. QED  BY Zenon, <1>3 DEF PrioSettled, DynamicPrio

(* The priority that a thread should have is a number.                     *)
LEMMA DynamicPrioType ==
  ASSUME IInv, NEW t \in Threads
  PROVE  DynamicPrio(t) \in Int
<1>a. TypeOK
  BY Zenon DEF IInv
<1>1. /\ links[t] \in Seq(Threads) /\ prio \in [Threads -> 0..(MinPrio + 1)]
      /\ baseprio[t] \in 0..(MinPrio + 1)
  BY Zenon, NoOpType, <1>a DEF TypeOK
<1>2. links[t] # <<>> => links[t][1] \in Threads
  BY Zenon, <1>1, HeadFacts
<1>. QED  BY <1>1, <1>2 DEF DynamicPrio

(* One turn of KThreadUpdateDynamicPrio.                                   *)
LEMMA UpdatePrio ==
  ASSUME IInv, PrioInv, KThreadUpdateDynamicPrio
  PROVE  PrioInv'
<1>b. PriorityOrder /\ HandoverUpdates /\ OthersSettled
  BY Zenon DEF PrioInv
<1>a. TypeOK /\ OpShape /\ OwnerShape /\ QueueIntegrity /\ StatesMatchQueues /\ WaiterShape
  BY Zenon DEF IInv
<1> DEFINE t == op.t
           q == queue[t]
<1>1. /\ op.pc = "update" /\ UNCHANGED <<state, baseprio, queue, token, owner, cur>>
      /\ t \in Threads /\ op \in Ops /\ op.ret \in {"setprio", "bumped", "next", "given"}
      /\ state[t] \in Live /\ q \in Queues \cup {NULL}
  <2>1. op.pc = "update" /\ UNCHANGED <<state, baseprio, queue, token, owner, cur>>
    BY Zenon DEF KThreadUpdateDynamicPrio, cpuVars
  <2>2. op.t \in Threads /\ op.ret # "none" /\ op \in Ops /\ state[op.t] \in Live
    BY Zenon, <2>1, <1>a DEF OpShape, TypeOK, OwnerShape
  <2>. QED  BY Zenon, <2>1, <2>2, <1>a DEF Ops, TypeOK
<1>2. Unsettled = IF op.ret = "next" THEN {t, op.n} ELSE {t}
  BY Zenon, <1>1 DEF Unsettled
<1>3. ASSUME op' = [op EXCEPT !.pc = op.ret]
      PROVE  HandoverUpdates' /\ Unsettled' = IF op.ret = "next" THEN {op.n} ELSE {}
  <2>1. op'.pc = op.ret /\ op'.n = op.n /\ op'.ret = op.ret
    BY <1>3 DEF Ops
  <2>2. HandoverUpdates'
    BY Zenon, <2>1, <1>b, <1>1 DEF HandoverUpdates, Handing, OthersSettled
  <2>. QED  BY Zenon, <2>1, <2>2, <1>1 DEF Unsettled
<1>4. \A r \in Queues : t \in Linked(links[r]) <=> q = r
  BY Zenon, <1>a, <1>1 DEF QueueIntegrity
<1>5. CASE PrioSettled(t)
  <2>1. UNCHANGED <<list, prio, links>> /\ op' = [op EXCEPT !.pc = op.ret]
    BY Zenon, <1>5 DEF KThreadUpdateDynamicPrio
  <2>2. PriorityOrder'
    BY Zenon, <2>1, <1>b DEF PriorityOrder, Ordered, OthersSettled
  <2>3. \A v \in Threads : PrioSettled(v)' <=> PrioSettled(v)
    BY Zenon, <2>1, <1>1 DEF PrioSettled, DynamicPrio
  <2>4. \A v \in Threads \ Unsettled' : state'[v] \in Live => PrioSettled(v)'
    BY Zenon, <1>2, <1>5, <2>1, <2>3, <1>b, <1>1, <1>3 DEF OthersSettled
  <2>. QED  BY Zenon, <2>1, <2>2, <2>4, <1>3 DEF PrioInv, OthersSettled
<1>6. CASE ~PrioSettled(t)
  <2>1. /\ prio' = [prio EXCEPT ![t] = DynamicPrio(t)]
        /\ list' = Insert(Unlink(list, t), t, prio')
    BY Zenon, <1>6 DEF KThreadUpdateDynamicPrio
  <2>2. /\ prio' \in [Threads -> Int] /\ DynamicPrio(t) \in Int
        /\ \A u \in Threads \ {t} : prio'[u] = prio[u]
    BY Zenon, PrioTypes, DynamicPrioType, <1>1, <2>1
  <2>3. OrderedBy(list', prio')
    BY ZenonT(30), <2>2, PrioTypes, RequeueOrder, <1>1, <2>1
  <2>4. ASSUME NEW r \in Queues, r # q PROVE OrderedBy(links[r], prio')
    <3>1. links[r] \in Seq(Threads) /\ OrderedBy(links[r], prio)
      BY Zenon, PrioTypes
    <3>2. Linked(links[r]) \subseteq Threads
      BY Zenon, <3>1, RangeIsElements
    <3>3. \A u \in Linked(links[r]) : prio'[u] = prio[u]
      BY Zenon, <1>4, <2>2, <2>4, <3>2
    <3>. QED  BY ZenonT(30), <3>1, <3>3, OrderElsewhere
  <2>5. ASSUME NEW v \in Threads, v # q, links'[v] = links[v], v = t \/ PrioSettled(v)
        PROVE  PrioSettled(v)'
    <3>1. baseprio'[v] = baseprio[v] /\ t \notin Linked(links[v])
      BY Zenon, <1>4, <2>5, NoOpType, <1>1
    <3>2. CASE v = t
      BY ZenonT(30), <2>5, <3>1, <3>2, SettledHere, <2>1
    <3>3. CASE v # t
      BY ZenonT(30), <2>5, <3>1, <3>3, SettledElsewhere, <1>1, <2>1
    <3>. QED  BY Zenon, <3>2, <3>3
  <2>6. CASE state[t] = "RUNNING" \/ q = NULL
    <3>1. UNCHANGED links /\ op' = [op EXCEPT !.pc = op.ret]
      BY Zenon, <1>6, <2>6 DEF KThreadUpdateDynamicPrio
    <3>2. q = NULL
      BY Zenon, <2>6, <1>a, <1>1 DEF StatesMatchQueues
    <3>3. PriorityOrder'
      BY ZenonT(30), <2>3, <2>4, <3>1, <3>2, ConstantFacts DEF PriorityOrder, Ordered, OrderedBy
    <3>4. \A v \in Threads \ Unsettled' : state'[v] \in Live => PrioSettled(v)'
      <4> SUFFICES ASSUME NEW v \in Threads \ Unsettled', state'[v] \in Live PROVE PrioSettled(v)'
        BY Zenon
      <4>1. v = t \/ PrioSettled(v)
        BY Zenon, <1>2, <3>1, <1>b, <1>1, <1>3 DEF OthersSettled
      <4>. QED  BY Zenon, <2>5, <3>1, <3>2, <4>1, ConstantFacts
    <3>. QED  BY Zenon, <3>1, <3>3, <3>4, <1>3 DEF PrioInv, OthersSettled
  <2>7. CASE ~(state[t] = "RUNNING" \/ q = NULL)
    <3>1. links' = [links EXCEPT ![q] = Insert(Unlink(links[q], t), t, prio')] /\ q \in Queues
      BY Zenon, <1>6, <2>7, <1>1 DEF KThreadUpdateDynamicPrio
    <3>2. OrderedBy(Insert(Unlink(links[q], t), t, prio'), prio')
      BY ZenonT(30), <2>2, <3>1, PrioTypes, RequeueOrder, <1>1, <2>1
    <3>3. PriorityOrder'
      <4>1. links'[q] = Insert(Unlink(links[q], t), t, prio')
            /\ \A r \in Queues \ {q} : links'[r] = links[r]
        BY Zenon, <3>1, PrioTypes
      <4>2. \A r \in Queues : OrderedBy(links'[r], prio')
        BY ZenonT(30), <2>4, <3>2, <4>1
      <4>. QED  BY ZenonT(30), <2>3, <4>2 DEF PriorityOrder, Ordered, OrderedBy
    <3>4. \A v \in Threads : v # q => links'[v] = links[v]
      BY Zenon, <3>1, PrioTypes, NoOpType
    <3>5. CASE state[t] # "WAITING_MUTEX"
      <4>1. op' = [op EXCEPT !.pc = op.ret]
        BY Zenon, <1>6, <2>7, <3>5 DEF KThreadUpdateDynamicPrio
      <4>2. q \in Static
        BY Zenon, <2>7, <3>5, <1>b, <1>a, <1>1 DEF StatesMatchQueues, Live
      <4>3. \A v \in Threads \ Unsettled' : state'[v] \in Live => PrioSettled(v)'
        <5> SUFFICES ASSUME NEW v \in Threads \ Unsettled', state'[v] \in Live PROVE PrioSettled(v)'
          BY Zenon
        <5>1. v = t \/ PrioSettled(v)
          BY Zenon, <1>2, <4>1, <1>b, <1>1, <1>3 DEF OthersSettled
        <5>. QED  BY Zenon, <2>5, <3>4, <4>2, <5>1, ConstantFacts
      <4>. QED  BY Zenon, <3>3, <4>1, <4>3, <1>3 DEF PrioInv, OthersSettled
    <3>6. CASE state[t] = "WAITING_MUTEX"
      <4>1. op' = [op EXCEPT !.t = owner[token[t]]]
        BY Zenon, <1>6, <2>7, <3>6 DEF KThreadUpdateDynamicPrio
      <4>2. ~Handing
        <5>1. op.ret # "next"
          BY Zenon, <3>6, <1>b, <1>a, <1>1 DEF HandoverUpdates, OpShape, Handing, OthersSettled
        <5>2. op.ret # "given"
          BY Zenon, <2>7, <5>1, <1>b, ConstantFacts, <1>1 DEF HandoverUpdates, OpShape, Handing,
             OthersSettled
        <5>. QED  BY Zenon, <5>1, <5>2, <1>1 DEF Handing
      <4>3. q = owner[token[t]]
        BY Zenon, <3>6, <4>2, <1>a, <1>1 DEF WaiterShape
      <4>4. op'.pc = "update" /\ op'.ret = op.ret /\ op'.t = q /\ op.ret \notin {"next", "given"}
        BY Zenon, <4>1, <4>2, <4>3, <1>1 DEF Ops, Handing
      <4>5. HandoverUpdates' /\ Unsettled' = {q}
        BY Zenon, <4>4 DEF HandoverUpdates, Handing, Unsettled
      <4>6. \A v \in Threads \ Unsettled' : state'[v] \in Live => PrioSettled(v)'
        <5> SUFFICES ASSUME NEW v \in Threads, v # q, state'[v] \in Live PROVE PrioSettled(v)'
          BY Zenon, <4>5
        <5>1. v = t \/ PrioSettled(v)
          BY Zenon, <1>2, <4>4, <1>b, <1>1 DEF OthersSettled
        <5>. QED  BY Zenon, <2>5, <3>4, <5>1
      <4>. QED  BY Zenon, <3>3, <4>5, <4>6 DEF PrioInv, OthersSettled
    <3>. QED  BY Zenon, <3>5, <3>6
  <2>. QED  BY Zenon, <2>6, <2>7
<1>. QED  BY Zenon, <1>5, <1>6

(* KMutexLock, or the relock after a condition wait, has to wait: the      *)
(* owner needs a new priority only if the caller is better.                *)
LEMMA LockWaitPrio ==
  ASSUME IInv, PrioInv, NEW m \in Mutexes, owner[m] # NULL, LockWait(m), op.pc = "none",
         state[cur] \in Live
  PROVE  PrioInv'
<1>b. PriorityOrder /\ HandoverUpdates /\ OthersSettled
  BY Zenon DEF PrioInv
<1>a. TypeOK /\ OwnerShape
  BY Zenon DEF IInv
<1>0. PICK o \in Threads : o = owner[m]
  BY Zenon, <1>a DEF TypeOK
<1> DEFINE s == Insert(links[o], cur, prio)
<1>1. /\ state' = [state EXCEPT ![cur] = "WAITING_MUTEX"]
      /\ links' = [links EXCEPT ![o] = s]
      /\ UNCHANGED <<list, prio, baseprio>>
  BY Zenon, <1>0 DEF LockWait
<1>2. o \in Threads /\ o \in Queues /\ state[o] \in Live /\ cur \in Threads
  BY Zenon, NoOpType, <1>a, <1>0 DEF TypeOK, OwnerShape
<1>3. /\ OrderedBy(s, prio) /\ s # <<>>
      /\ s[1] = IF links[o] # <<>> /\ prio[links[o][1]] <= prio[cur] THEN links[o][1] ELSE cur
  BY ZenonT(30), PrioTypes, InsertOrder, <1>2
<1>4. Unsettled = {}
  BY Zenon DEF Unsettled
<1>5. links'[o] = s /\ \A r \in Queues \ {o} : links'[r] = links[r]
  BY Zenon, PrioTypes, <1>1, <1>2
<1>6. PriorityOrder'
  <2>1. \A r \in Queues : OrderedBy(links'[r], prio)
    BY Zenon, PrioTypes, <1>1, <1>3
  <2>. QED  BY Zenon, <2>1, <1>1 DEF PrioInv, PriorityOrder, Ordered, OrderedBy, OthersSettled
<1>7. \A v \in Threads : state'[v] \in Live => state[v] \in Live
  BY <1>1 DEF TypeOK, Live
<1>8. \A v \in Threads \ {o} : state'[v] \in Live => PrioSettled(v)'
  <2> SUFFICES ASSUME NEW v \in Threads \ {o}, state'[v] \in Live PROVE PrioSettled(v)'
    BY Zenon
  <2>1. PrioSettled(v) /\ links'[v] = links[v]
    BY Zenon, <1>4, <1>7, NoOpType, <1>b, <1>5 DEF OthersSettled
  <2>. QED  BY Zenon, <2>1, <1>1 DEF PrioSettled, DynamicPrio
<1>9. CASE prio[cur] < prio[o]
  <2>1. op' = [NoOp EXCEPT !.pc = "update", !.t = o, !.m = m, !.ret = "bumped"]
    BY Zenon, <1>9, <1>0 DEF LockWait
  <2>2. op'.pc = "update" /\ op'.ret = "bumped" /\ op'.t = o
    BY Zenon, <2>1 DEF NoOp
  <2>3. Unsettled' = {o} /\ HandoverUpdates'
    BY Zenon, <2>2 DEF Unsettled, HandoverUpdates, Handing
  <2>. QED  BY Zenon, <1>6, <1>8, <2>3 DEF PrioInv, OthersSettled
<1>10. CASE ~(prio[cur] < prio[o])
  <2>1. op' = NoOp
    BY Zenon, <1>10, SwitchEnds, <1>0 DEF LockWait
  <2>2. Unsettled' = {} /\ HandoverUpdates'
    BY Zenon, <2>1 DEF Unsettled, HandoverUpdates, Handing, NoOp
  <2>3. PrioSettled(o)'
    <3>1. prio[o] = DynamicPrio(o)
      BY Zenon, <1>4, <1>b, <1>2 DEF PrioSettled, OthersSettled
    <3>2. prio[o] \in Int /\ prio[cur] \in Int /\ baseprio[o] \in Int /\ prio[cur] >= prio[o]
      BY <1>10, PrioTypes
    <3>3. links[o] # <<>> => links[o][1] \in Threads /\ prio[links[o][1]] \in Int
      <4>1. links[o] \in Seq(Threads)
        BY Zenon, PrioTypes, <1>2
      <4>. QED  BY Zenon, <4>1, HeadFacts, PrioTypes
    <3>4. DynamicPrio(o)' = IF prio[s[1]] < baseprio[o] THEN prio[s[1]] ELSE baseprio[o]
      <4>1. links'[o] = s /\ s # <<>> /\ prio' = prio /\ baseprio' = baseprio /\ owner' = owner
        BY Zenon, <1>0, <1>1, <1>3, <1>5 DEF LockWait
      <4> HIDE DEF s
      <4>. QED  BY Zenon, <4>1 DEF DynamicPrio
    <3> HIDE DEF s
    <3>5. DynamicPrio(o)' = DynamicPrio(o)
      <4>1. CASE links[o] # <<>> /\ prio[links[o][1]] <= prio[cur]
        BY Zenon, <3>4, <4>1, <1>3 DEF DynamicPrio
      <4>2. CASE ~(links[o] # <<>> /\ prio[links[o][1]] <= prio[cur])
        <5>1. s[1] = cur
          BY Zenon, <4>2, <1>3
        <5>2. links[o] # <<>> => prio[links[o][1]] > prio[cur]
          BY <3>3, <4>2, <3>2
        <5>3. DynamicPrio(o) = baseprio[o]
          BY <3>3, <5>2, <3>1, <3>2 DEF DynamicPrio
        <5>. QED  BY <3>1, <3>2, <3>4, <5>1, <5>3
      <4>. QED  BY Zenon, <4>1, <4>2
    <3>. QED  BY Zenon, <3>5, <1>1, <3>1 DEF PrioSettled
  <2>. QED  BY Zenon, <1>6, <1>8, <2>2, <2>3 DEF PrioInv, OthersSettled
<1>. QED  BY Zenon, <1>9, <1>10

(* The ways back into KMutexLock.                                          *)
LEMMA LockAgainPrio ==
  ASSUME IInv, PrioInv, KMutexLockSlow \/ Relock
  PROVE  PrioInv'
<1>a. TypeOK /\ AtShape /\ CpuShape
  BY Zenon DEF IInv
<1> DEFINE m == at[cur].m
<1>1. op.pc = "none" /\ ~excpt /\ at[cur].pc \in {"slow", "cv", "cvt"} /\ cur \in Threads
  BY Zenon, <1>a DEF KMutexLockSlow, Relock, Resumed, TypeOK
<1>2. m \in Mutexes /\ state[cur] \in Live
  BY Zenon, <1>a, <1>1 DEF AtShape, CpuShape, Bumping, Live
<1>3. CASE owner[m] = NULL
  <2>1. UNCHANGED <<threadVars, queueVars, op>>
    BY Zenon, <1>3 DEF KMutexLockSlow, Relock
  <2>2. Settled(op) /\ ~Handing'
    BY Zenon, <2>1, <1>1 DEF Settled, Handing
  <2>. QED  BY Zenon, <2>1, <2>2, PrioFrame DEF threadVars, queueVars
<1>4. CASE owner[m] # NULL
  <2>1. LockWait(m)
    BY Zenon, <1>4 DEF KMutexLockSlow, Relock
  <2>. QED  BY Zenon, <1>2, <1>4, <2>1, LockWaitPrio, <1>1
<1>. QED  BY Zenon, <1>3, <1>4

(* One turn of KThreadRemoveWaiter: only the old and the next owner's      *)
(* waiters change.                                                         *)
LEMMA RemoveWaiterPrio ==
  ASSUME IInv, PrioInv, KThreadRemoveWaiter
  PROVE  PrioInv'
<1>b. PriorityOrder /\ HandoverUpdates /\ OthersSettled
  BY Zenon DEF PrioInv
<1>a. TypeOK /\ OpShape /\ QueueIntegrity /\ StatesMatchQueues
  BY Zenon DEF IInv
<1> DEFINE k == Least(Waiting)
           t == links[cur][k]
           cut == UnlinkAt(links[cur], k)
           rest == [links EXCEPT ![cur] = cut]
<1>1. /\ op.pc = "handover" /\ UNCHANGED <<list, prio, baseprio, cur>> /\ op \in Ops
      /\ Handing /\ op.n # cur /\ cur \in Threads /\ cur \in Queues
  BY Zenon, NoOpType, <1>a DEF KThreadRemoveWaiter, cpuVars, Handing, OpShape, TypeOK
<1>2. op.n \in Threads \cup {NULL}
  BY Zenon, <1>1 DEF Ops
<1>3. Unsettled = IF op.n = NULL THEN {} ELSE {cur, op.n}
  BY Zenon, <1>1 DEF Unsettled
<1>4. CASE Waiting = {}
  <2>1. /\ UNCHANGED <<state, queue, links>>
        /\ op' = IF op.n = NULL THEN [op EXCEPT !.pc = "given"]
                 ELSE [op EXCEPT !.pc = "update", !.t = cur, !.ret = "next"]
    BY Zenon, <1>4 DEF KThreadRemoveWaiter
  <2>2. PriorityOrder' /\ \A v \in Threads : PrioSettled(v)' <=> PrioSettled(v)
    BY Zenon, <1>b, <1>1, <2>1 DEF PriorityOrder, Ordered, PrioSettled, DynamicPrio, OthersSettled
  <2>3. CASE op.n = NULL
    <3>1. op'.pc = "given" /\ op'.n = NULL
      BY <2>3, <2>1 DEF Ops
    <3>2. Unsettled' = {} /\ HandoverUpdates'
      BY Zenon, <3>1 DEF Unsettled, HandoverUpdates
    <3>. QED  BY <2>2, <2>3, <3>2, <1>3, <2>1 DEF PrioInv, OthersSettled
  <2>4. CASE op.n # NULL
    <3>1. op'.pc = "update" /\ op'.n = op.n /\ op'.t = cur /\ op'.ret = "next"
      BY <2>4, <2>1 DEF Ops
    <3>2. Unsettled' = {cur, op.n} /\ HandoverUpdates'
      BY <2>4, <3>1, <1>b, <1>1, <2>1 DEF Unsettled, HandoverUpdates, OthersSettled
    <3>. QED  BY <2>2, <2>4, <3>2, <1>3, <2>1 DEF PrioInv, OthersSettled
  <2>. QED  BY Zenon, <2>3, <2>4
<1>5. CASE Waiting # {}
  <2>1. k \in 1..Len(links[cur]) /\ links[cur] \in Seq(Threads)
    <3>1. Waiting \in SUBSET Nat
      BY DEF Waiting
    <3>2. k \in Waiting
      BY Zenon, <1>5, <3>1, LeastIsMember
    <3>. QED  BY Zenon, <3>2, PrioTypes, <1>1 DEF Waiting
  <2> HIDE DEF k
  <2>2. t \in Threads /\ t \in Linked(links[cur]) /\ queue[t] = cur
    <3>1. t \in Threads /\ t \in Linked(links[cur])
      BY Zenon, RangeIsElements, <2>1
    <3>. QED  BY Zenon, <3>1, <1>a, <1>1 DEF QueueIntegrity
  <2>3. OrderedBy(cut, prio) /\ cut \in Seq(Threads)
    <3>1. cut \in Seq(Threads)
      BY Zenon, UnlinkAtElements, <2>1
    <3>2. OrderedBy(links[cur], prio) /\ prio \in [Threads -> Int]
      BY Zenon, PrioTypes, <1>1
    <3>. QED  BY Zenon, <3>1, <3>2, UnlinkAtOrder, <2>1
  <2>4. state[t] = "WAITING_MUTEX" /\ state \in [Threads -> States] /\ t # cur
    <3>1. state \in [Threads -> States] /\ state[t] \in States /\ queue[t] \in Threads
      BY Zenon, <1>a, <2>2 DEF TypeOK
    <3> HIDE DEF t
    <3>2. state[t] = "WAITING_MUTEX"
      BY Zenon, <3>1, <1>a, ConstantFacts, <2>2 DEF StatesMatchQueues, States, Live
    <3>3. state[cur] = "RUNNING"
      BY Zenon, <1>a, <1>1 DEF OpShape
    <3>. QED  BY Zenon, <3>1, <3>2, <3>3
  <2> HIDE DEF cut, t
  <2>5. CASE op.n = NULL
    <3>1. /\ links' = rest /\ queue' = [queue EXCEPT ![t] = NULL]
          /\ state' = [state EXCEPT ![t] = IF suspend[t] = 0 THEN "RUNNING" ELSE "WAITING"]
          /\ op' = [op EXCEPT !.n = t]
      BY Zenon, <1>5, <2>5 DEF KThreadRemoveWaiter, k, t, cut
    <3>2. op'.pc = "handover" /\ op'.n = t /\ t # NULL
      BY Zenon, ConstantFacts, <1>1, <2>2, <3>1 DEF Ops
    <3>3. Unsettled' = {cur, t}
      BY Zenon, <3>2, <1>1 DEF Unsettled
    <3>4. HandoverUpdates'
      <4>1. queue'[t] = NULL
        BY Zenon, <1>a, <2>2, <3>1 DEF TypeOK
      <4>. QED  BY Zenon, <3>2, <4>1 DEF HandoverUpdates
    <3>5. links'[cur] = cut /\ \A r \in Queues \ {cur} : links'[r] = links[r]
      BY Zenon, PrioTypes, <1>1, <3>1
    <3>6. PriorityOrder'
      <4>1. \A r \in Queues : OrderedBy(links'[r], prio)
        BY Zenon, <3>5, PrioTypes, <2>3
      <4>. QED  BY Zenon, <4>1, <1>1 DEF PrioInv, PriorityOrder, Ordered, OrderedBy, OthersSettled
    <3>7. ASSUME NEW v \in Threads \ {cur, t}, state'[v] \in Live PROVE PrioSettled(v)'
      <4>1. state'[v] = state[v] /\ links'[v] = links[v]
        BY Zenon, <2>4, <3>5, <3>7, NoOpType, <3>1
      <4>2. PrioSettled(v)
        BY Zenon, <2>5, <3>7, <4>1, <1>b, <1>3 DEF OthersSettled
      <4>. QED  BY Zenon, <4>1, <4>2, <1>1 DEF PrioSettled, DynamicPrio
    <3>. QED  BY Zenon, <3>3, <3>4, <3>6, <3>7 DEF PrioInv, OthersSettled
  <2>6. CASE op.n # NULL
    <3>1. /\ links' = [rest EXCEPT ![op.n] = Insert(links[op.n], t, prio)]
          /\ queue' = [queue EXCEPT ![t] = op.n] /\ UNCHANGED <<state, op>>
      <4>1. links' = [rest EXCEPT ![op.n] = Insert(rest[op.n], t, prio)]
            /\ queue' = [queue EXCEPT ![t] = op.n] /\ UNCHANGED <<state, op>>
        BY ZenonT(30), <1>5, <2>6 DEF KThreadRemoveWaiter, k, t, cut
      <4>2. rest[op.n] = links[op.n]
        BY <2>6, PrioTypes, NoOpType, <1>1
      <4>. QED  BY Zenon, <4>1, <4>2, <1>1
    <3>2. Unsettled' = {cur, op.n}
      BY Zenon, <2>6, <1>1, <3>1 DEF Unsettled
    <3>3. HandoverUpdates'
      <4>1. queue[op.n] = NULL
        BY Zenon, <2>6, <1>b, <1>1 DEF HandoverUpdates, OthersSettled
      <4>2. op.n # t
        BY Zenon, <4>1, ConstantFacts, <1>1, <2>2
      <4>3. queue'[op.n] = NULL
        BY <2>6, <4>1, <4>2, <3>1 DEF TypeOK
      <4>. QED  BY Zenon, <4>3, <1>1, <3>1 DEF HandoverUpdates
    <3>4. /\ links'[cur] = cut /\ links'[op.n] = Insert(links[op.n], t, prio)
          /\ \A r \in Queues \ {cur, op.n} : links'[r] = links[r]
      <4>1. op.n \in Queues /\ rest \in [Queues -> Seq(Threads)]
        BY Zenon, <2>6, PrioTypes, NoOpType, <1>2, <2>3
      <4>. QED  BY <4>1, PrioTypes, <3>1
    <3>5. PriorityOrder'
      <4>1. op.n \in Queues
        BY Zenon, <2>6, NoOpType, <1>2
      <4>2. OrderedBy(Insert(links[op.n], t, prio), prio)
        BY ZenonT(30), <4>1, PrioTypes, InsertOrder, <2>2
      <4>3. \A r \in Queues : OrderedBy(links'[r], prio)
        BY ZenonT(30), <3>4, <4>2, PrioTypes, <2>3
      <4>. QED  BY ZenonT(30), <4>3, <1>1 DEF PrioInv, PriorityOrder, Ordered, OrderedBy,
           OthersSettled
    <3>6. ASSUME NEW v \in Threads \ {cur, op.n}, state'[v] \in Live PROVE PrioSettled(v)'
      <4>1. links'[v] = links[v] /\ state'[v] = state[v]
        BY ZenonT(30), <3>4, <3>6, NoOpType, <3>1
      <4>2. PrioSettled(v)
        BY Zenon, <2>6, <3>6, <4>1, <1>b, <1>3 DEF OthersSettled
      <4>. QED  BY Zenon, <4>1, <4>2, <1>1 DEF PrioSettled, DynamicPrio
    <3>. QED  BY Zenon, <3>2, <3>3, <3>5, <3>6 DEF PrioInv, OthersSettled
  <2>. QED  BY Zenon, <2>5, <2>6
<1>. QED  BY Zenon, <1>4, <1>5

(* KThreadInit: nobody waits, so every thread has its own priority.        *)
LEMMA InitPrio == Init => PrioInv
<1> SUFFICES ASSUME Init PROVE PrioInv
  BY Zenon
<1>1. op.pc = "none" /\ Unsettled = {} /\ ~Handing
  BY Zenon DEF NoOp, Unsettled, Handing, Init, KThreadInit
<1>2. \A q \in Queues : links[q] = <<>> /\ OrderedBy(links[q], prio)
  BY DEF OrderedBy, Init, KThreadInit
<1>3. OrderedBy(list, prio)
  <2>1. /\ list = <<MainThread, IdleThread>> /\ prio[MainThread] = MainPrio
        /\ prio[IdleThread] = MinPrio + 1 /\ MainPrio <= MinPrio /\ MainPrio \in Nat /\ MinPrio \in Nat
    BY KThreadAssumption DEF Init, KThreadInit
  <2>2. Len(list) = 2 /\ list[1] = MainThread /\ list[2] = IdleThread
    BY Zenon, <2>1
  <2>3. prio[list[1]] <= prio[list[2]]
    BY <2>1, <2>2
  <2>. QED  BY <2>2, <2>3 DEF OrderedBy
<1>4. \A t \in Threads : PrioSettled(t)
  BY Zenon, <1>2, NoOpType DEF PrioSettled, DynamicPrio, Init, KThreadInit
<1>5. PriorityOrder
  BY Zenon, <1>2, <1>3 DEF PriorityOrder, Ordered, OrderedBy
<1>6. HandoverUpdates
  BY Zenon, <1>1 DEF HandoverUpdates
<1>. QED  BY Zenon, <1>4, <1>5, <1>6 DEF PrioInv, OthersSettled

(* Every step keeps PrioInv.                                               *)
LEMMA NextPrio ==
  ASSUME IInv, PrioInv, [Next]_vars
  PROVE  PrioInv'
<1>1. CASE KernelStep
  BY Zenon, <1>1, UpdatePrio, UnblockPrio, QuietCallsPrio, RemoveWaiterPrio, NextOwnerPrio, GivenPrio DEF
     KernelStep
<1>2. CASE ThreadContinues
  BY Zenon, <1>2, QuietCallsPrio, LockAgainPrio DEF ThreadContinues
<1>3. CASE MutexCall
  BY Zenon, <1>3, QuietCallsPrio DEF MutexCall
<1>4. CASE CondVarCall
  BY Zenon, <1>4, QuietCallsPrio DEF CondVarCall
<1>5. CASE ThreadCall
  BY Zenon, <1>5, PreparePrio, SetPrioPrio, StateCallsPrio, SleepJoinPrio, QuietCallsPrio, ExitPrio DEF
     ThreadCall
<1>6. CASE Interrupt
  BY Zenon, <1>6, QuietCallsPrio, TickTaskPrio DEF Interrupt
<1>7. CASE UNCHANGED vars
  <2>1. UNCHANGED <<list, links, prio, baseprio, state, queue, cur, op>>
    BY Zenon, <1>7 DEF vars, threadVars, queueVars, cpuVars
  <2>2. /\ Unsettled' = Unsettled /\ (HandoverUpdates => HandoverUpdates')
        /\ (PriorityOrder => PriorityOrder')
    BY Zenon, <2>1 DEF Unsettled, HandoverUpdates, Handing, PriorityOrder, Ordered
  <2>3. \A t \in Threads : PrioSettled(t)' <=> PrioSettled(t)
    BY Zenon, <2>1 DEF PrioSettled, DynamicPrio
  <2>. QED  BY Zenon, <2>2, <2>3, <2>1 DEF PrioInv, OthersSettled
<1>. QED  BY Zenon, <1>1, <1>2, <1>3, <1>4, <1>5, <1>6, <1>7 DEF Next
=============================================================================
