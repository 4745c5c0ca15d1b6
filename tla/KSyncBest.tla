----------------------------- MODULE KSyncBest ------------------------------
(***************************************************************************)
(* Outside handlers the processor runs a thread of the best runnable       *)
(* priority, where only the calls of CarefulSpec are made.  One lemma per  *)
(* action or group of actions: BestInv is kept, given IInv and PrioInv.    *)
(***************************************************************************)
EXTENDS KSyncLemmas

(* CarefulSpec is a part of Spec.                                          *)
LEMMA CarefulIsNext == ASSUME CarefulNext PROVE Next
BY Zenon DEF CarefulNext, Next, CarefulThreadCall, ThreadCall

(* The thread list is ordered, so the first runnable thread is a best one. *)
LEMMA FindBest ==
  ASSUME IInv, PrioInv, NEW st, st[IdleThread] = "RUNNING",
         \A t \in Threads : st[t] = "RUNNING" => state[t] \in Live
  PROVE  /\ KThreadFindRunnable(list, st) \in Threads /\ st[KThreadFindRunnable(list, st)] = "RUNNING"
         /\ \A t \in Threads : st[t] = "RUNNING" => prio[KThreadFindRunnable(list, st)] <= prio[t]
<1>a. QueueIntegrity
  BY Zenon DEF IInv
<1> DEFINE ready == {i \in 1..Len(list) : st[list[i]] = "RUNNING"}
<1>1. list \in Seq(Threads) /\ OrderedBy(list, prio) /\ prio \in [Threads -> Int]
  BY Zenon, PrioTypes
<1>2. ASSUME NEW t \in Threads, st[t] = "RUNNING" PROVE \E i \in ready : list[i] = t
  <2>1. t \in Linked(list)
    BY Zenon, <1>2, <1>a DEF QueueIntegrity
  <2>2. PICK i \in 1..Len(list) : list[i] = t
    BY Zenon, <1>1, <2>1, RangeIsElements
  <2>. QED  BY Zenon, <1>2, <2>2
<1>3. ready \in SUBSET Nat /\ ready # {}
  BY <1>2, ConstantFacts
<1>4. Least(ready) \in ready /\ \A y \in ready : Least(ready) <= y
  BY Zenon, <1>3, LeastIsMember, ConstantFacts
<1>5. KThreadFindRunnable(list, st) = list[Least(ready)]
  BY Zenon, <1>3 DEF KThreadFindRunnable
<1> DEFINE k == Least(ready)
<1>6. k \in 1..Len(list) /\ st[list[k]] = "RUNNING" /\ list[k] \in Threads /\ \A y \in ready : k <= y
  BY <1>1, <1>4
<1> HIDE DEF k
<1>7. ASSUME NEW t \in Threads, st[t] = "RUNNING" PROVE prio[list[k]] <= prio[t]
  <2>1. PICK i \in ready : list[i] = t
    BY Zenon, <1>2, <1>7
  <2>2. i \in 1..Len(list) /\ k <= i
    BY Zenon, <1>6, <2>1
  <2>3. CASE k = i
    BY <1>1, <2>1, <2>3
  <2>4. CASE k # i
    BY <1>1, <1>6, <2>1, <2>2, <2>4 DEF OrderedBy
  <2>. QED  BY Zenon, <2>3, <2>4
<1>. QED  BY Zenon, <1>5, <1>6, <1>7 DEF k

(* So KThreadFindRunnable on the list as it is finds a best thread.        *)
LEMMA BestOfAll ==
  ASSUME IInv, PrioInv
  PROVE  \A t \in Threads : state[t] = "RUNNING" => prio[KThreadFindRunnable(list, state)] <= prio[t]
<1>a. IdleReady
  BY Zenon DEF IInv
<1>1. state[IdleThread] = "RUNNING" /\ \A t \in Threads : state[t] = "RUNNING" => state[t] \in Live
  BY Zenon, <1>a DEF IdleReady, Live
<1>. QED  BY Zenon, <1>1, FindBest

(* A settled thread is no worse than its own priority and its waiters.     *)
LEMMA WaiterNoBetter ==
  ASSUME IInv, PrioInv, NEW t \in Threads, PrioSettled(t)
  PROVE  /\ prio[t] <= baseprio[t]
         /\ \A u \in Threads : queue[u] = t => prio[t] <= prio[u]
<1>a. QueueIntegrity
  BY Zenon DEF IInv
<1>1. /\ links[t] \in Seq(Threads) /\ OrderedBy(links[t], prio)
      /\ prio \in [Threads -> Int] /\ baseprio \in [Threads -> Int]
  BY Zenon, PrioTypes, NoOpType
<1>2. links[t] # <<>> => links[t][1] \in Threads
  BY Zenon, HeadFacts, <1>1
<1>3. prio[t] <= baseprio[t] /\ (links[t] # <<>> => prio[t] <= prio[links[t][1]])
  BY <1>2, <1>1 DEF PrioSettled, DynamicPrio
<1>4. ASSUME NEW u \in Threads, queue[u] = t PROVE prio[t] <= prio[u]
  <2>1. u \in Linked(links[t])
    BY Zenon, <1>4, NoOpType, <1>a DEF QueueIntegrity
  <2>2. PICK i \in 1..Len(links[t]) : links[t][i] = u
    BY <1>1, <2>1 DEF Linked
  <2>3. links[t] # <<>> /\ 1 \in 1..Len(links[t])
    BY <2>2
  <2>4. prio[links[t][1]] <= prio[u]
    <3>1. CASE i = 1
      BY <1>2, <2>2, <2>3, <3>1, <1>1
    <3>2. CASE i # 1
      BY <2>2, <2>3, <3>2, <1>1 DEF OrderedBy
    <3>. QED  BY Zenon, <3>1, <3>2
  <2>. QED  BY <1>2, <1>3, <2>3, <2>4, <1>1
<1>. QED  BY Zenon, <1>3, <1>4

(* What the invariants say of the processor.                               *)
LEMMA CpuFacts ==
  ASSUME IInv, BestInv
  PROVE  /\ cur \in Threads /\ Chosen \in Threads /\ nextCtx \in Threads \cup {NULL}
         /\ prio \in [Threads -> Int] /\ state \in [Threads -> States]
         /\ ~excpt => nextCtx = NULL /\ Chosen = cur
         /\ excpt => state[cur] = "RUNNING"
         /\ op.pc = "none" => NoneBetter(prio[Chosen])
         /\ op.pc = "none" /\ ~excpt => state[cur] = "RUNNING"
<1>a. TypeOK /\ CpuShape
  BY Zenon DEF IInv
<1>1. /\ cur \in Threads /\ nextCtx \in Threads \cup {NULL} /\ state \in [Threads -> States]
      /\ prio \in [Threads -> 0..(MinPrio + 1)]
  BY Zenon, <1>a DEF TypeOK
<1>2. nextCtx # NULL => excpt
  BY Zenon, <1>a DEF CpuShape
<1>3. op.pc = "none" /\ ~excpt => state[cur] = "RUNNING"
  BY Zenon, <1>2, <1>a DEF CpuShape, Bumping
<1>4. ChosenIsBest
  BY Zenon DEF BestInv
<1>. QED  BY <1>1, <1>2, <1>3, <1>4 DEF ChosenIsBest, Quiet, Chosen

(* No kernel function in progress: BestInv is about the processor only.    *)
LEMMA BestQuiet ==
  ASSUME op'.pc = "none", excpt' => state'[cur'] = "RUNNING", NoneBetter(prio[Chosen])'
  PROVE  BestInv'
BY Zenon DEF BestInv, WakingShape, SettingShape, BumpingShape, HandingShape, Setting, Bumping, Handing,
   ChosenIsBest

(* A step in which no thread becomes runnable, none that is runnable       *)
(* changes its priority, and the same thread is chosen.                    *)
LEMMA BestKept ==
  ASSUME IInv, BestInv, op.pc = "none", op'.pc = "none", Chosen' = Chosen,
         excpt' => state'[cur'] = "RUNNING", prio'[Chosen] = prio[Chosen],
         \A t \in Threads : state'[t] = "RUNNING" => state[t] = "RUNNING" /\ prio'[t] = prio[t]
  PROVE  BestInv'
<1>1. NoneBetter(prio[Chosen])
  BY Zenon, CpuFacts
<1>2. NoneBetter(prio[Chosen])'
  BY Zenon, <1>1 DEF NoneBetter
<1>. QED  BY Zenon, <1>2, BestQuiet

(* KThreadSwitchTo the best of the runnable threads, from a thread.        *)
LEMMA BestChosen ==
  ASSUME IInv, PrioInv, ~excpt, UNCHANGED prio, state'[IdleThread] = "RUNNING",
         \A t \in Threads : state'[t] = "RUNNING" => state[t] \in Live,
         KThreadSwitchTo(KThreadFindRunnable(list, state'))
  PROVE  BestInv'
<1>a. CpuShape
  BY Zenon DEF IInv
<1>1. PICK n \in Threads : n = KThreadFindRunnable(list, state')
  BY Zenon, FindBest
<1>2. \A t \in Threads : state'[t] = "RUNNING" => prio[n] <= prio[t]
  BY Zenon, <1>1, FindBest
<1>3. nextCtx = NULL
  BY Zenon, <1>a DEF CpuShape
<1>4. op' = NoOp /\ cur' = n /\ nextCtx' = NULL /\ ~excpt'
  BY Zenon, <1>1, <1>3 DEF KThreadSwitchTo
<1>5. NoneBetter(prio[Chosen])'
  BY Zenon, <1>2, <1>4 DEF NoneBetter, Chosen
<1>. QED  BY Zenon, <1>4, <1>5, BestQuiet DEF NoOp

(* KThreadReschedule(t) is enough where t is the only thread that can be   *)
(* better than the chosen one.                                             *)
LEMMA BestRescheduled ==
  ASSUME IInv, NEW t \in Threads \cup {NULL}, KThreadReschedule(t), UNCHANGED prio,
         excpt => state'[cur] = "RUNNING" /\ prio[Chosen] <= prio[cur],
         \A u \in Threads : state'[u] = "RUNNING" =>
           prio[Chosen] <= prio[u] \/ (t # NULL /\ prio[t] <= prio[u])
  PROVE  BestInv'
<1>a. TypeOK /\ CpuShape
  BY Zenon DEF IInv
<1>1. /\ cur \in Threads /\ nextCtx \in Threads \cup {NULL} /\ prio \in [Threads -> Int]
      /\ nextCtx # NULL => excpt
  <2>1. cur \in Threads /\ nextCtx \in Threads \cup {NULL} /\ prio \in [Threads -> 0..(MinPrio + 1)]
    BY Zenon, <1>a DEF TypeOK
  <2>. QED  BY <2>1, <1>a DEF CpuShape
<1>2. PICK c \in Threads : c = Chosen
  BY Zenon, <1>1 DEF Chosen
<1>3. prio[c] <= prio[cur]
  BY <1>1, <1>2 DEF Chosen
<1>4. op' = NoOp /\ excpt' = excpt /\ (excpt => cur' = cur)
  BY Zenon DEF KThreadReschedule, KThreadSwitchTo, cpuVars
<1>5. CASE t # NULL /\ prio[t] < prio[cur]
  <2>1. t \in Threads /\ KThreadSwitchTo(t)
    BY Zenon, <1>5 DEF KThreadReschedule
  <2>2. Chosen' \in {t, c} /\ prio[Chosen'] <= prio[t] /\ prio[Chosen'] <= prio[c]
    BY <1>5, <2>1, <1>1, <1>2 DEF KThreadSwitchTo, Chosen
  <2>3. NoneBetter(prio[Chosen])'
    BY <2>1, <2>2, <1>1, <1>2 DEF NoneBetter
  <2>. QED  BY Zenon, <1>4, <2>3, BestQuiet DEF NoOp
<1>6. CASE ~(t # NULL /\ prio[t] < prio[cur])
  <2>1. Chosen' = c
    BY Zenon, <1>6, <1>2 DEF KThreadReschedule, cpuVars, Chosen
  <2>2. NoneBetter(prio[Chosen])'
    BY <1>3, <1>6, <2>1, <1>1, <1>2 DEF NoneBetter
  <2>. QED  BY Zenon, <1>4, <2>2, BestQuiet DEF NoOp
<1>. QED  BY Zenon, <1>5, <1>6

(* The calls that leave the processor and the runnable threads alone, and  *)
(* the ends of interrupts.                                                 *)
LEMMA QuietCallsBest ==
  ASSUME IInv, BestInv,
         \/ ReturnToCaller \/ IrqEnter \/ IrqReturn
         \/ \E m \in Mutexes : KMutexTryLock(m) \/ KMutexLockContended(m)
  PROVE  BestInv'
<1>1. op.pc = "none" /\ op' = op /\ UNCHANGED <<state, prio>>
  BY Zenon DEF ReturnToCaller, Resumed, IrqEnter, IrqReturn, KMutexTryLock, KMutexLockContended,
     InThread, threadVars
<1>2. Chosen' = Chosen /\ (excpt' => cur' = cur)
  BY Zenon DEF ReturnToCaller, IrqEnter, IrqReturn, KMutexTryLock, KMutexLockContended, cpuVars, Chosen
<1>3. excpt' => state[cur] = "RUNNING"
  BY Zenon, <1>1, CpuFacts DEF ReturnToCaller, Resumed, IrqEnter, IrqReturn, KMutexTryLock,
     KMutexLockContended, InThread, cpuVars
<1>. QED  BY Zenon, <1>1, <1>2, <1>3, BestKept

(* A new thread does not run until it is resumed.                          *)
LEMMA PrepareBest ==
  ASSUME IInv, BestInv, NEW t \in Users, NEW p \in 0..MinPrio, KThreadPrepare(t, p)
  PROVE  BestInv'
<1>1. /\ op.pc = "none" /\ op' = op /\ state[t] = "UNINIT" /\ t \in Threads /\ ~excpt
      /\ state' = [state EXCEPT ![t] = "WAITING"] /\ prio' = [prio EXCEPT ![t] = p]
      /\ UNCHANGED <<cur, excpt, nextCtx>>
  BY Zenon DEF KThreadPrepare, InThread, cpuVars, Users
<1>2. /\ Chosen = cur /\ state[cur] = "RUNNING" /\ cur \in Threads
      /\ state \in [Threads -> States] /\ prio \in [Threads -> Int]
  BY Zenon, CpuFacts, <1>1
<1>3. Chosen' = Chosen /\ Chosen # t
  BY Zenon, <1>1, <1>2 DEF Chosen
<1>4. \A u \in Threads : state'[u] = "RUNNING" => state[u] = "RUNNING" /\ prio'[u] = prio[u]
  BY <1>1
<1>. QED  BY <1>3, <1>4, BestKept, <1>1

(* KThreadResume reschedules to the resumed thread.                        *)
LEMMA ResumeBest ==
  ASSUME IInv, BestInv, NEW t \in Users, KThreadResume(t)
  PROVE  BestInv'
<1>a. StatesMatchQueues
  BY Zenon DEF IInv
<1>1. /\ op.pc = "none" /\ suspend[t] > 0 /\ UNCHANGED prio /\ t \in Threads
      /\ \/ UNCHANGED <<state, cur, excpt, nextCtx, op>>
         \/ /\ state' = [state EXCEPT ![t] = "RUNNING"]
            /\ t # cur => KThreadReschedule(t)
  BY Zenon DEF KThreadResume, Calling, InThread, cpuVars, Users
<1>2. state[cur] = "RUNNING" /\ cur \in Threads
  BY Zenon, CpuFacts, <1>1
<1>3. t # cur
  BY <1>a, <1>1, <1>2 DEF StatesMatchQueues
<1>4. CASE UNCHANGED <<state, cur, excpt, nextCtx, op>>
  BY Zenon, <1>4, BestKept, <1>1, <1>2 DEF Chosen
<1>5. CASE state' = [state EXCEPT ![t] = "RUNNING"] /\ KThreadReschedule(t)
  <2>1. /\ NoneBetter(prio[Chosen]) /\ state \in [Threads -> States]
        /\ prio \in [Threads -> Int] /\ t # NULL
    BY Zenon, CpuFacts, ConstantFacts, <1>1
  <2>2. prio[Chosen] <= prio[cur]
    BY Zenon, <1>2, <2>1 DEF NoneBetter
  <2>3. state'[cur] = "RUNNING"
    BY <1>3, <1>5, <1>2
  <2>4. \A u \in Threads : state'[u] = "RUNNING" => prio[Chosen] <= prio[u] \/ prio[t] <= prio[u]
    BY <1>5, <2>1 DEF NoneBetter
  <2>. QED  BY Zenon, <1>5, <2>2, <2>3, <2>4, BestRescheduled, <1>1, <2>1
<1>. QED  BY Zenon, <1>3, <1>4, <1>5, <1>1

(* KThreadSuspend finds the best of the others, where the chosen thread is *)
(* suspended.                                                              *)
LEMMA SuspendBest ==
  ASSUME IInv, PrioInv, BestInv, NEW t \in Users, ~(excpt /\ t = cur), KThreadSuspendLive(t)
  PROVE  BestInv'
<1>a. IdleReady
  BY Zenon DEF IInv
<1> DEFINE n == KThreadFindRunnable(list, state')
<1>1. /\ op.pc = "none" /\ UNCHANGED prio /\ t \in Threads /\ t # IdleThread
      /\ \/ UNCHANGED <<state, cur, excpt, nextCtx, op>>
         \/ /\ state' = [state EXCEPT ![t] = "WAITING"]
            /\ \/ t = cur /\ KThreadSwitchTo(n)
               \/ t # cur /\ nextCtx' = NextCtxWithout(t, n) /\ UNCHANGED <<cur, excpt, op>>
  BY Zenon DEF KThreadSuspendLive, KThreadSuspend, Calling, InThread, cpuVars, Users
<1>2. /\ state[cur] = "RUNNING" /\ cur \in Threads /\ state \in [Threads -> States]
      /\ prio \in [Threads -> Int] /\ nextCtx \in Threads \cup {NULL}
  BY Zenon, CpuFacts, <1>1
<1>3. CASE UNCHANGED <<state, cur, excpt, nextCtx, op>>
  BY Zenon, <1>3, BestKept, <1>1, <1>2 DEF Chosen
<1>4. ASSUME state' = [state EXCEPT ![t] = "WAITING"]
      PROVE  /\ state'[IdleThread] = "RUNNING"
             /\ \A u \in Threads : state'[u] = "RUNNING" => state[u] = "RUNNING"
             /\ \A u \in Threads : state'[u] = "RUNNING" => state[u] \in Live
  <2>1. state[IdleThread] = "RUNNING"
    BY Zenon, <1>a DEF IdleReady
  <2>. QED  BY <1>4, <2>1, <1>1 DEF Live
<1>5. CASE state' = [state EXCEPT ![t] = "WAITING"] /\ t = cur /\ KThreadSwitchTo(n)
  BY Zenon, <1>5, BestChosen, <1>1, <1>4
<1>6. CASE /\ state' = [state EXCEPT ![t] = "WAITING"] /\ t # cur
           /\ nextCtx' = NextCtxWithout(t, n) /\ UNCHANGED <<cur, excpt, op>>
  <2>1. state'[cur] = "RUNNING"
    BY Zenon, <1>6, <1>2
  <2>2. CASE t # nextCtx
    <3>1. Chosen' = Chosen
      BY Zenon, <1>6, <2>2 DEF NextCtxWithout, Chosen
    <3>. QED  BY <1>6, <2>1, <3>1, BestKept, <1>1
  <2>3. CASE t = nextCtx
    <3>1. n \in Threads /\ \A u \in Threads : state'[u] = "RUNNING" => prio[n] <= prio[u]
      BY ZenonT(30), <1>6, FindBest, <1>4
    <3>2. Chosen' = n
      BY Zenon, <1>6, <2>3, <3>1, ConstantFacts DEF NextCtxWithout, Chosen
    <3>3. NoneBetter(prio[Chosen])'
      BY Zenon, <3>1, <3>2, <1>1 DEF NoneBetter
    <3>. QED  BY Zenon, <1>6, <2>1, <3>3, BestQuiet, <1>1
  <2>. QED  BY Zenon, <2>2, <2>3
<1>. QED  BY Zenon, <1>3, <1>5, <1>6, <1>1

(* KThreadYield takes a thread as good as the caller, or the best one.     *)
LEMMA YieldBest ==
  ASSUME IInv, PrioInv, BestInv, KThreadYield
  PROVE  BestInv'
<1>a. CpuShape
  BY Zenon DEF IInv
<1>1. /\ op.pc = "none" /\ UNCHANGED <<prio, state>>
      /\ at[cur].pc # "exit"
  BY Zenon, <1>a DEF KThreadYield, Calling, InThread, CpuShape
<1>2. /\ state[cur] = "RUNNING" /\ cur \in Threads /\ state \in [Threads -> States]
      /\ prio \in [Threads -> Int] /\ nextCtx \in Threads \cup {NULL}
      /\ NoneBetter(prio[Chosen]) /\ (~excpt => nextCtx = NULL)
  BY Zenon, CpuFacts, <1>1
<1>3. Following(cur) \in Seq(Threads)
  BY Zenon, FollowingType, <1>2 DEF Live
<1>4. PICK after \in Threads \cup {NULL} : after = KThreadFindRunnable(Following(cur), state)
  BY Zenon, <1>3, FindRunnableType
<1>5. PICK t \in Threads : /\ KThreadSwitchTo(t)
                          /\ t = IF after = NULL \/ prio[after] > prio[cur]
                                 THEN KThreadFindRunnable(list, state) ELSE after
  BY Zenon, <1>4, IdleFacts DEF KThreadYield
<1>6. prio[t] <= prio[cur]
  <2>1. CASE after = NULL \/ prio[after] > prio[cur]
    BY Zenon, <2>1, BestOfAll, <1>2, <1>5
  <2>2. CASE ~(after = NULL \/ prio[after] > prio[cur])
    BY <1>4, <2>2, <1>2, <1>5
  <2>. QED  BY Zenon, <2>1, <2>2
<1>7. Chosen' \in Threads /\ prio[Chosen'] <= prio[Chosen]
  BY <1>6, ConstantFacts, <1>1, <1>2, <1>5 DEF KThreadSwitchTo, Chosen
<1>8. op' = NoOp /\ excpt' = excpt /\ (excpt => cur' = cur)
  BY Zenon, <1>5 DEF KThreadSwitchTo
<1>9. NoneBetter(prio[Chosen])'
  <2>1. Chosen \in Threads
    BY Zenon, CpuFacts
  <2>. QED  BY <1>7, <2>1, <1>1, <1>2 DEF NoneBetter
<1>. QED  BY <1>8, <1>9, BestQuiet, <1>1, <1>2 DEF NoOp

(* KThreadJoin and KThreadSleepTicks block.                                *)
LEMMA BlockBest ==
  ASSUME IInv, PrioInv, NEW q, NEW tok, KThrQueueBlock(q, tok), ~excpt, cur # IdleThread
  PROVE  BestInv'
<1>a. TypeOK /\ IdleReady
  BY Zenon DEF IInv
<1>1. /\ state' = [state EXCEPT ![cur] = "WAITING"] /\ UNCHANGED prio
      /\ KThreadSwitchTo(KThreadFindRunnable(list, state'))
  BY Zenon DEF KThrQueueBlock
<1>2. state \in [Threads -> States] /\ state[IdleThread] = "RUNNING" /\ cur \in Threads
  BY Zenon, <1>a DEF IdleReady, TypeOK
<1>3. state'[IdleThread] = "RUNNING" /\ \A t \in Threads : state'[t] = "RUNNING" => state[t] \in Live
  BY <1>1, <1>2 DEF Live
<1>. QED  BY Zenon, <1>1, <1>3, BestChosen

(* A wake-up begins: nobody is woken yet, and nobody became runnable.      *)
LEMMA WakeBegins ==
  ASSUME IInv, BestInv, op.pc = "none", NEW q, NEW ref, NEW max, KThrQueueUnblock(q, ref, max),
         UNCHANGED <<prio, cur, excpt, nextCtx>>, excpt => state'[cur] = "RUNNING",
         \A t \in Threads : state'[t] = "RUNNING" => state[t] = "RUNNING"
  PROVE  BestInv'
<1>1. op'.pc = "unblock" /\ op'.n = NULL
  BY Zenon DEF KThrQueueUnblock, NoOp
<1>2. NoneBetter(prio[Chosen]) /\ Chosen' = Chosen /\ cur \in Threads /\ (excpt => state[cur] = "RUNNING")
  BY Zenon, CpuFacts DEF Chosen
<1>3. WakingShape'
  BY Zenon, <1>1, <1>2 DEF WakingShape, NoneBetter
<1>4. ~Setting' /\ ~Bumping' /\ ~Handing' /\ ~Quiet'
  BY Zenon, <1>1 DEF Setting, Bumping, Handing, Quiet
<1>5. ChosenIsBest' /\ SettingShape' /\ BumpingShape' /\ HandingShape'
  BY Zenon, <1>3, <1>4 DEF ChosenIsBest, SettingShape, BumpingShape, HandingShape
<1>. QED  BY Zenon, <1>3, <1>4, <1>5 DEF BestInv

(* KCondVarSignal and KCondVarBroadcast begin a wake-up.                   *)
LEMMA SignalBest ==
  ASSUME IInv, BestInv, NEW c, KCondVarSignal(c) \/ KCondVarBroadcast(c)
  PROVE  BestInv'
<1>1. op.pc = "none" /\ UNCHANGED <<prio, cur, excpt, nextCtx, state>>
  BY Zenon DEF KCondVarSignal, KCondVarBroadcast, Calling, InThread, threadVars, cpuVars
<1>2. excpt => state'[cur] = "RUNNING"
  BY Zenon, <1>1, CpuFacts
<1>. QED  BY Zenon, <1>1, <1>2, WakeBegins DEF KCondVarSignal, KCondVarBroadcast

(* KThreadExit begins the wake-up of the joining threads.                  *)
LEMMA ExitBest ==
  ASSUME IInv, BestInv, KThreadExit
  PROVE  BestInv'
<1>1. /\ op.pc = "none" /\ UNCHANGED <<prio, cur, excpt, nextCtx>> /\ ~excpt
      /\ state' = [state EXCEPT ![cur] = "FINISHED"] /\ KThrQueueUnblock("join", cur, -1)
  BY Zenon DEF KThreadExit, InThread, cpuVars, KThrQueueUnblock
<1>2. \A t \in Threads : state'[t] = "RUNNING" => state[t] = "RUNNING"
  BY Zenon, <1>1, CpuFacts
<1>. QED  BY Zenon, <1>1, <1>2, WakeBegins

(* A timer fires: the sleeper is woken, or the waiter taken off its queue. *)
LEMMA TickTaskBest ==
  ASSUME IInv, BestInv, NEW t \in Users, TickTaskFires(t)
  PROVE  BestInv'
<1>1. /\ op.pc = "none" /\ excpt /\ t \in Threads
      /\ \/ KThrQueueUnblock("sleep", t, -1) /\ UNCHANGED <<state, prio, cur, excpt, nextCtx>>
         \/ UNCHANGED <<state, prio, cur, excpt, nextCtx, op>>
         \/ /\ state[t] = "WAITING"
            /\ state' = IF suspend[t] = 0 THEN [state EXCEPT ![t] = "RUNNING"] ELSE state
            /\ UNCHANGED prio
            /\ KThreadReschedule(IF suspend[t] = 0 THEN t ELSE NULL)
  BY ZenonT(30) DEF TickTaskFires, KThrQueueCancel, cpuVars, Users
<1>2. /\ state[cur] = "RUNNING" /\ cur \in Threads /\ state \in [Threads -> States]
      /\ prio \in [Threads -> Int] /\ NoneBetter(prio[Chosen])
  BY Zenon, CpuFacts, <1>1
<1>3. CASE KThrQueueUnblock("sleep", t, -1) /\ UNCHANGED <<state, prio, cur, excpt, nextCtx>>
  BY Zenon, <1>3, WakeBegins, <1>1, <1>2
<1>4. CASE UNCHANGED <<state, prio, cur, excpt, nextCtx, op>>
  BY Zenon, <1>4, BestKept, <1>1, <1>2 DEF Chosen
<1>5. CASE /\ state[t] = "WAITING"
           /\ state' = IF suspend[t] = 0 THEN [state EXCEPT ![t] = "RUNNING"] ELSE state
           /\ UNCHANGED prio
           /\ KThreadReschedule(IF suspend[t] = 0 THEN t ELSE NULL)
  <2>1. PICK u \in Threads \cup {NULL} : u = IF suspend[t] = 0 THEN t ELSE NULL
    BY Zenon, <1>1
  <2>2. prio[Chosen] <= prio[cur] /\ state'[cur] = "RUNNING"
    BY Zenon, <1>5, <1>2 DEF NoneBetter
  <2>3. t # NULL
    BY Zenon, ConstantFacts, <1>1
  <2>4. \A v \in Threads : state'[v] = "RUNNING" =>
          prio[Chosen] <= prio[v] \/ (u # NULL /\ prio[u] <= prio[v])
    BY <1>5, <2>1, <2>3, <1>2 DEF NoneBetter
  <2>. QED  BY Zenon, <1>5, <2>1, <2>2, <2>4, BestRescheduled
<1>. QED  BY ZenonT(30), <1>3, <1>4, <1>5, <1>1

(* KThreadSetPrio begins.                                                  *)
LEMMA SetPrioBest ==
  ASSUME IInv, BestInv, NEW t \in Users, NEW p, ~excpt, state[t] # "WAITING_MUTEX",
         KThreadSetPrio(t, p)
  PROVE  BestInv'
<1>1. /\ op.pc = "none" /\ UNCHANGED <<state, prio, cur, excpt, nextCtx>>
      /\ op'.pc = "update" /\ op'.ret = "setprio" /\ op'.t = t /\ op'.n = t /\ op'.prio = prio[cur]
  BY Zenon DEF KThreadSetPrio, Calling, InThread, cpuVars, NoOp
<1>2. NoneBetter(prio[cur])
  BY Zenon, CpuFacts, <1>1
<1>3. SettingShape'
  BY Zenon, <1>2, <1>1 DEF SettingShape, NoneBetter
<1>4. ~Bumping' /\ ~Handing' /\ ~Quiet' /\ op'.pc # "unblock"
  BY Zenon, <1>1 DEF Bumping, Handing, Quiet
<1>5. ChosenIsBest' /\ WakingShape' /\ BumpingShape' /\ HandingShape'
  BY Zenon, <1>3, <1>4, <1>1 DEF ChosenIsBest, WakingShape, BumpingShape, HandingShape
<1>. QED  BY Zenon, <1>3, <1>4, <1>5 DEF BestInv

(* KThreadRemoveWaiter begins: the caller is as good as those that run and *)
(* as those that wait for it.                                              *)
LEMMA HandoverBegins ==
  ASSUME IInv, PrioInv, BestInv, InThread, NEW m, StartHandover(m),
         UNCHANGED <<state, prio, queue, cur, excpt, nextCtx>>
  PROVE  BestInv'
<1>b. PriorityOrder /\ HandoverUpdates /\ OthersSettled
  BY Zenon DEF PrioInv
<1>1. /\ op.pc = "none" /\ ~excpt /\ op'.pc = "handover" /\ op'.n = NULL /\ op'.prio = prio[cur]
  BY Zenon DEF InThread, StartHandover, NoOp
<1>2. NoneBetter(prio[cur]) /\ cur \in Threads /\ state[cur] = "RUNNING"
  BY Zenon, CpuFacts, <1>1
<1>3. PrioSettled(cur)
  BY Zenon, SettledFacts, <1>b, <1>1, <1>2 DEF Unsettled, Live, OthersSettled
<1>4. \A u \in Threads : queue[u] = cur => prio[cur] <= prio[u]
  BY Zenon, <1>3, WaiterNoBetter, <1>2
<1>5. HandingShape'
  BY Zenon, <1>4, <1>1, <1>2 DEF HandingShape, NoneBetter
<1>6. ~Bumping' /\ ~Setting' /\ ~Quiet' /\ op'.pc # "unblock"
  BY Zenon, <1>1 DEF Bumping, Setting, Quiet
<1>7. ChosenIsBest' /\ WakingShape' /\ BumpingShape' /\ SettingShape'
  BY Zenon, <1>5, <1>6, <1>2 DEF ChosenIsBest, WakingShape, BumpingShape, SettingShape
<1>. QED  BY Zenon, <1>5, <1>6, <1>7 DEF BestInv

(* KMutexUnlock and the condition waits begin a hand-over.                 *)
LEMMA UnlockBest ==
  ASSUME IInv, PrioInv, BestInv, NEW m,
         KMutexUnlock(m) \/ \E c \in CondVars, kind \in {"cv", "cvt"} : KCondVarWait(c, m, kind)
  PROVE  BestInv'
<1>1. InThread /\ StartHandover(m) /\ UNCHANGED <<state, prio, queue, cur, excpt, nextCtx>>
  BY Zenon DEF KMutexUnlock, KCondVarWait, threadVars, queueVars, cpuVars
<1>. QED  BY Zenon, <1>1, HandoverBegins

(* KMutexLock waits: it bumps the owner first, or passes the processor on. *)
LEMMA LockWaitBest ==
  ASSUME IInv, PrioInv, BestInv, NEW m \in Mutexes, owner[m] # NULL, LockWait(m),
         op.pc = "none", ~excpt, cur # IdleThread
  PROVE  BestInv'
<1>a. TypeOK /\ IdleReady
  BY Zenon DEF IInv
<1>1. /\ state' = [state EXCEPT ![cur] = "WAITING_MUTEX"] /\ UNCHANGED <<prio, owner>>
      /\ token' = [token EXCEPT ![cur] = m]
      /\ \/ /\ op' = [NoOp EXCEPT !.pc = "update", !.t = owner[m], !.m = m, !.ret = "bumped"]
            /\ UNCHANGED <<cur, excpt, nextCtx>>
         \/ KThreadSwitchTo(KThreadFindRunnable(list, state'))
  BY Zenon DEF LockWait, cpuVars
<1>2. /\ state \in [Threads -> States] /\ state[IdleThread] = "RUNNING" /\ cur \in Threads
      /\ token \in [Threads -> Tokens]
  BY Zenon, <1>a DEF IdleReady, TypeOK
<1>3. state'[IdleThread] = "RUNNING" /\ \A t \in Threads : state'[t] = "RUNNING" => state[t] = "RUNNING"
  BY <1>2, <1>1
<1>4. CASE KThreadSwitchTo(KThreadFindRunnable(list, state'))
  BY Zenon, <1>3, <1>4, BestChosen, <1>1 DEF Live
<1>5. CASE /\ op' = [NoOp EXCEPT !.pc = "update", !.t = owner[m], !.m = m, !.ret = "bumped"]
           /\ UNCHANGED <<cur, excpt, nextCtx>>
  <2>1. op'.pc = "update" /\ op'.t = owner[m] /\ op'.m = m /\ op'.ret = "bumped"
    BY Zenon, <1>5 DEF NoOp
  <2>2. NoneBetter(prio[cur])
    BY Zenon, CpuFacts
  <2>3. BumpingShape'
    BY Zenon, <1>2, <1>3, <1>5, <2>1, <2>2, <1>1 DEF BumpingShape, NoneBetter
  <2>4. ~Setting' /\ ~Handing' /\ ~Quiet' /\ op'.pc # "unblock"
    BY Zenon, <2>1 DEF Setting, Handing, Quiet
  <2>5. ChosenIsBest' /\ WakingShape' /\ SettingShape' /\ HandingShape'
    BY Zenon, <1>5, <2>3, <2>4 DEF ChosenIsBest, WakingShape, SettingShape, HandingShape
  <2>. QED  BY Zenon, <1>5, <2>3, <2>4, <2>5 DEF BestInv
<1>. QED  BY Zenon, <1>4, <1>5, <1>1

(* KMutexLock goes on after its failed try; so does a condition wait.      *)
LEMMA LockAgainBest ==
  ASSUME IInv, PrioInv, BestInv, KMutexLockSlow \/ Relock
  PROVE  BestInv'
<1>a. TypeOK /\ AtShape /\ IdleReady
  BY Zenon DEF IInv
<1> DEFINE m == at[cur].m
<1>1. op.pc = "none" /\ ~excpt /\ at[cur].pc \in {"slow", "cv", "cvt"} /\ cur \in Threads
  BY Zenon, <1>a DEF KMutexLockSlow, Relock, Resumed, TypeOK
<1>2. m \in Mutexes /\ cur # IdleThread
  BY <1>a, <1>1 DEF AtShape, IdleReady, User
<1>3. CASE owner[m] = NULL
  <2>1. UNCHANGED <<state, prio, cur, excpt, nextCtx, op>>
    BY Zenon, <1>3 DEF KMutexLockSlow, Relock, threadVars, cpuVars
  <2>. QED  BY Zenon, <2>1, BestKept, <1>1 DEF Chosen
<1>4. CASE owner[m] # NULL
  <2>1. LockWait(m)
    BY Zenon, <1>4 DEF KMutexLockSlow, Relock
  <2>. QED  BY Zenon, <1>2, <1>4, <2>1, LockWaitBest, <1>1
<1>. QED  BY Zenon, <1>3, <1>4

(* One turn of KThreadUpdateDynamicPrio.                                   *)
LEMMA UpdateBest ==
  ASSUME IInv, PrioInv, BestInv, KThreadUpdateDynamicPrio
  PROVE  BestInv'
<1>c. ChosenIsBest /\ WakingShape /\ SettingShape /\ BumpingShape /\ HandingShape
  BY Zenon DEF BestInv
<1>b. PriorityOrder /\ HandoverUpdates /\ OthersSettled
  BY Zenon DEF PrioInv
<1>a. TypeOK /\ OpShape /\ QueueIntegrity /\ StatesMatchQueues
  BY Zenon DEF IInv
<1>1. /\ op.pc = "update" /\ UNCHANGED <<state, baseprio, queue, token, owner, cur, excpt, nextCtx>>
      /\ \/ UNCHANGED prio /\ op' = [op EXCEPT !.pc = op.ret]
         \/ /\ prio' = [prio EXCEPT ![op.t] = DynamicPrio(op.t)]
            /\ \/ op' = [op EXCEPT !.pc = op.ret]
               \/ state[op.t] = "WAITING_MUTEX" /\ op' = [op EXCEPT !.t = owner[token[op.t]]]
  BY Zenon DEF KThreadUpdateDynamicPrio, cpuVars
<1>2. /\ op.t \in Threads /\ op \in Ops /\ op.ret \in {"setprio", "bumped", "next", "given"}
      /\ prio \in [Threads -> Int] /\ baseprio \in [Threads -> Int] /\ cur \in Threads
  <2>1. op.t \in Threads /\ op.ret # "none" /\ op \in Ops
    BY Zenon, <1>a, <1>1 DEF OpShape, TypeOK
  <2>. QED  BY Zenon, <2>1, PrioTypes DEF Ops
<1>3. /\ op'.ret = op.ret /\ op'.n = op.n /\ op'.m = op.m /\ op'.prio = op.prio
      /\ op'.pc = op.ret \/ (op'.pc = "update" /\ state[op.t] = "WAITING_MUTEX")
  BY Zenon, <1>1, <1>2 DEF Ops
<1>4. \A u \in Threads \ {op.t} : prio'[u] = prio[u]
  BY Zenon, <1>1, <1>2
<1>5. op'.pc # "none" /\ op'.pc # "unblock" /\ ~Quiet'
  BY Zenon, <1>2, <1>3 DEF Quiet
<1>6. (Setting' <=> Setting) /\ (Bumping' <=> Bumping) /\ (Handing' <=> Handing)
  BY Zenon, <1>1, <1>2, <1>3 DEF Setting, Bumping, Handing
<1>7. SettingShape'
  <2> SUFFICES ASSUME Setting PROVE SettingShape'
    BY Zenon, <1>6 DEF SettingShape
  <2>1. /\ ~excpt /\ state[op.n] # "WAITING_MUTEX" /\ op.t = op.n
        /\ \A t \in Threads : t # op.n /\ state[t] = "RUNNING" => op.prio <= prio[t]
        /\ op.n # cur => prio[cur] = op.prio
    BY Zenon, <1>c, <1>1 DEF SettingShape, ChosenIsBest
  <2>2. op'.pc # "update"
    BY Zenon, <2>1, <1>2, <1>3
  <2>. QED  BY Zenon, <2>1, <2>2, <1>1, <1>2, <1>3 DEF SettingShape
<1>8. BumpingShape'
  <2> SUFFICES ASSUME Bumping PROVE BumpingShape'
    BY Zenon, <1>6 DEF BumpingShape
  <2>1. /\ state[cur] = "WAITING_MUTEX" /\ token[cur] = op.m
        /\ state[owner[op.m]] = "RUNNING" =>
             /\ op.t = owner[op.m]
             /\ \A t \in Threads : t # owner[op.m] /\ state[t] = "RUNNING" => prio[cur] <= prio[t]
    BY Zenon, <1>c, <1>1 DEF BumpingShape, ChosenIsBest
  <2>2. CASE state[owner[op.m]] # "RUNNING"
    BY Zenon, <2>2, <1>1, <1>3, <2>1 DEF BumpingShape
  <2>3. CASE state[owner[op.m]] = "RUNNING"
    <3>1. op'.pc # "update" /\ cur # op.t
      BY Zenon, <2>3, <1>2, <1>3, <2>1
    <3>. QED  BY Zenon, <2>3, <3>1, <1>1, <1>2, <1>3, <2>1 DEF BumpingShape
  <2>. QED  BY Zenon, <2>2, <2>3
<1>9. HandingShape'
  <2> SUFFICES ASSUME Handing PROVE HandingShape'
    BY Zenon, <1>6 DEF HandingShape
  <2>1. /\ \A t \in Threads \ {cur} :
             state[t] = "RUNNING" \/ queue[t] = cur \/ (op.n # NULL /\ queue[t] = op.n)
               => op.prio <= prio[t]
        /\ op.n # NULL => op.prio <= baseprio[op.n]
    BY Zenon, <1>c DEF HandingShape, ChosenIsBest
  <2>2. /\ state[cur] = "RUNNING" /\ queue[cur] = NULL /\ op.n \in Threads
        /\ (op.t = cur \/ op.t = op.n) /\ op.prio \in Int
    <3>1. state[cur] = "RUNNING" /\ op.n \in Threads
      BY Zenon, <1>a, <1>1 DEF OpShape
    <3>2. queue[cur] = NULL
      BY Zenon, <3>1, <1>a, <1>2 DEF StatesMatchQueues
    <3>3. op.ret \in {"next", "given"}
      BY Zenon, <1>1 DEF Handing
    <3>4. op.t = cur \/ op.t = op.n
      BY Zenon, <3>3, <1>b, <1>1 DEF HandoverUpdates, OthersSettled
    <3>. QED  BY <3>1, <3>2, <3>4, <1>2 DEF Ops
  <2>3. op.t # cur => op.prio <= prio'[op.t] \/ prio'[op.t] = prio[op.t]
    <3> SUFFICES ASSUME op.t = op.n, prio'[op.t] # prio[op.t] PROVE op.prio <= prio'[op.t]
      BY Zenon, <2>2
    <3>1. prio'[op.t] = DynamicPrio(op.t)
      BY Zenon, <1>1, <1>2
    <3>2. op.prio <= baseprio[op.t] /\ baseprio[op.t] \in Int
      BY Zenon, ConstantFacts, <1>2, <2>1
    <3>3. CASE links[op.t] = <<>>
      BY Zenon, <3>1, <3>2, <3>3 DEF DynamicPrio
    <3>4. CASE links[op.t] # <<>>
      <4>1. links[op.t] \in Seq(Threads) /\ op.t \in Queues
        BY Zenon, PrioTypes, NoOpType, <2>2
      <4>2. links[op.t][1] \in Threads /\ links[op.t][1] \in Linked(links[op.t])
        BY ZenonT(30), <3>4, <4>1, HeadFacts
      <4>3. PICK h \in Threads : h = links[op.t][1]
        BY Zenon, <4>2
      <4>4. queue[h] = op.t
        <5>1. QueueIntegrity
          BY Zenon, <1>a
        <5>. QED  BY Zenon, <4>1, <4>2, <4>3, <5>1 DEF QueueIntegrity
      <4>5. op.prio <= prio[h]
        BY Zenon, <4>4, ConstantFacts, <2>1, <2>2
      <4>. QED  BY Zenon, <3>1, <3>2, <4>5, <4>3 DEF DynamicPrio
    <3>. QED  BY Zenon, <3>3, <3>4
  <2>. QED  BY Zenon, <2>3, <1>1, <1>3, <1>4, <2>1 DEF HandingShape
<1>10. ChosenIsBest' /\ WakingShape'
  BY Zenon, <1>5, <1>7, <1>8, <1>9, <1>c, <1>1 DEF ChosenIsBest, WakingShape
<1>. QED  BY Zenon, <1>5, <1>7, <1>8, <1>9, <1>10 DEF BestInv

(* One turn of KThrQueueUnblockCommon wakes the best of those left.        *)
LEMMA UnblockTurnBest ==
  ASSUME IInv, PrioInv, BestInv, KThrQueueUnblockCommon,
         op.max # 0, {i \in 1..Len(links[op.q]) : token[links[op.q][i]] = op.ref} # {}
  PROVE  BestInv'
<1>c. ChosenIsBest /\ WakingShape /\ SettingShape /\ BumpingShape /\ HandingShape
  BY Zenon DEF BestInv
<1>a. TypeOK /\ OpShape /\ QueueIntegrity
  BY Zenon DEF IInv
<1> DEFINE s   == links[op.q]
           hit == {i \in 1..Len(s) : token[s[i]] = op.ref}
<1>1. /\ op.pc = "unblock" /\ op.q \in Static /\ op \in Ops /\ UNCHANGED <<prio, cur, excpt, nextCtx>>
  BY ZenonT(30), <1>a DEF KThrQueueUnblockCommon, cpuVars, OpShape, TypeOK
<1>2. /\ prio \in [Threads -> Int] /\ s \in Seq(Threads) /\ OrderedBy(s, prio) /\ op.q \in Queues
      /\ state \in [Threads -> States] /\ queue \in [Threads -> Queues \cup {NULL}]
  BY ZenonT(30), <1>1, PrioTypes, NoOpType, <1>a DEF TypeOK
<1>3. PICK k \in 1..Len(s) : k = Least(hit) /\ token[s[k]] = op.ref /\ \A j \in hit : k <= j
  <2>1. hit \in SUBSET Nat /\ hit # {}
    OBVIOUS
  <2>2. Least(hit) \in hit /\ \A j \in hit : Least(hit) <= j
    BY ZenonT(30), <2>1, LeastIsMember
  <2>. QED  BY ZenonT(30), <2>2
<1>4. PICK t \in Threads : t = s[k]
  <2> HIDE DEF s, hit
  <2>1. s[k] \in Threads
    BY <1>2
  <2>. QED  BY Zenon, <2>1
<1>5. /\ queue' = [queue EXCEPT ![t] = NULL]
      /\ token' = [token EXCEPT ![t] = Woken]
      /\ state' = IF suspend[t] = 0 THEN [state EXCEPT ![t] = "RUNNING"] ELSE state
      /\ op' = [op EXCEPT !.max = IF @ > 0 THEN @ - 1 ELSE @,
                          !.n   = IF @ = NULL /\ suspend[t] = 0 THEN t ELSE @]
  BY ZenonT(30), <1>3, <1>4 DEF KThrQueueUnblockCommon
<1>6. /\ op'.pc = "unblock" /\ op'.q = op.q /\ op'.ref = op.ref
      /\ op'.n = IF op.n = NULL /\ suspend[t] = 0 THEN t ELSE op.n
  BY Zenon, <1>1, <1>5 DEF Ops
<1>7. queue[t] = op.q /\ token[t] = op.ref /\ op.n \in Threads \cup {NULL}
  <2>1. t \in Linked(links[op.q])
    BY <1>2, <1>4, RangeIsElements
  <2>. QED  BY ZenonT(30), <1>1, <1>2, <1>3, <1>4, <2>1, <1>a DEF QueueIntegrity, Ops
<1>8. ASSUME NEW u \in Threads, queue[u] = op.q, token[u] = op.ref PROVE prio[t] <= prio[u]
  <2>1. u \in Linked(links[op.q])
    BY Zenon, <1>2, <1>8, <1>a DEF QueueIntegrity
  <2>2. PICK j \in 1..Len(s) : s[j] = u
    BY <1>2, <2>1 DEF Linked
  <2>3. k <= j
    BY Zenon, <1>3, <1>8, <2>2
  <2> HIDE DEF s, hit
  <2>4. CASE k = j
    BY <1>2, <1>4, <2>2, <2>4
  <2>5. CASE k # j
    <3>1. k \in 1..Len(s) /\ j \in 1..Len(s) /\ k < j
      BY <1>2, <2>3, <2>5
    <3>. QED  BY Zenon, <1>2, <1>4, <2>2, <3>1 DEF OrderedBy
  <2>. QED  BY Zenon, <2>4, <2>5
<1> HIDE DEF s, hit
<1>9. /\ \A u \in Threads :
           state[u] = "RUNNING" => prio[Chosen] <= prio[u] \/ (op.n # NULL /\ prio[op.n] <= prio[u])
      /\ op.n # NULL =>
           \A u \in Threads : queue[u] = op.q /\ token[u] = op.ref => prio[op.n] <= prio[u]
      /\ Chosen' = Chosen /\ (excpt => prio[Chosen] <= prio[cur])
  BY Zenon, <1>1, <1>c DEF WakingShape, Chosen, ChosenIsBest
<1>10. \A u \in Threads : queue'[u] = op.q /\ token'[u] = op.ref => queue[u] = op.q /\ token[u] = op.ref
  BY ZenonT(30), <1>1, <1>2, <1>5, <1>a, ConstantFacts DEF TypeOK
<1>11. \A u \in Threads : state'[u] = "RUNNING" => state[u] = "RUNNING" \/ (u = t /\ suspend[t] = 0)
  BY Zenon, <1>2, <1>5
<1>12. op'.n # NULL =>
         \A u \in Threads : queue'[u] = op'.q /\ token'[u] = op'.ref => prio'[op'.n] <= prio'[u]
  BY Zenon, <1>1, <1>6, <1>8, <1>9, <1>10
<1>13. ASSUME NEW u \in Threads, state'[u] = "RUNNING"
       PROVE  prio[Chosen] <= prio[u] \/ (op'.n # NULL /\ prio[op'.n] <= prio[u])
  <2>1. CASE state[u] = "RUNNING"
    BY Zenon, <1>6, <1>7, <1>9, <2>1
  <2>2. CASE u = t /\ suspend[t] = 0
    BY <1>2, <1>6, <1>7, <1>9, <2>2, ConstantFacts
  <2>. QED  BY Zenon, <1>11, <1>13, <2>1, <2>2
<1>14. WakingShape'
  BY Zenon, <1>1, <1>9, <1>12, <1>13 DEF WakingShape
<1>15. ~Setting' /\ ~Bumping' /\ ~Handing' /\ ~Quiet'
  BY Zenon, <1>6 DEF Setting, Bumping, Handing, Quiet
<1>16. excpt' => state'[cur'] = "RUNNING"
  BY Zenon, <1>1, <1>2, <1>5, <1>a, <1>c DEF TypeOK, ChosenIsBest
<1>17. ChosenIsBest' /\ SettingShape' /\ BumpingShape' /\ HandingShape'
  BY Zenon, <1>14, <1>15, <1>16 DEF ChosenIsBest, SettingShape, BumpingShape, HandingShape
<1>. QED  BY Zenon, <1>14, <1>15, <1>16, <1>17 DEF BestInv

(* The end of KThrQueueUnblockCommon.                                      *)
LEMMA UnblockEndBest ==
  ASSUME IInv, PrioInv, BestInv, KThrQueueUnblockCommon,
         ~(op.max # 0 /\ {i \in 1..Len(links[op.q]) : token[links[op.q][i]] = op.ref} # {})
  PROVE  BestInv'
<1>c. ChosenIsBest /\ WakingShape /\ SettingShape /\ BumpingShape /\ HandingShape
  BY Zenon DEF BestInv
<1>a. TypeOK /\ IdleReady /\ CpuShape
  BY Zenon DEF IInv
<1>1. /\ op.pc = "unblock" /\ op \in Ops /\ UNCHANGED <<prio, state>>
      /\ IF at[cur].pc = "exit" /\ ~(op.n # NULL /\ prio[op.n] < prio[cur])
         THEN KThreadSwitchTo(KThreadFindRunnable(list, state))
         ELSE KThreadReschedule(op.n)
  BY ZenonT(30), <1>a DEF KThrQueueUnblockCommon, TypeOK
<1>2. PICK n \in Threads \cup {NULL} : n = op.n
  BY Zenon, <1>1 DEF Ops
<1>3. /\ cur \in Threads /\ prio \in [Threads -> Int] /\ nextCtx \in Threads \cup {NULL}
      /\ Chosen \in Threads /\ (~excpt => Chosen = cur)
  BY Zenon, CpuFacts
<1>4. CASE at[cur].pc = "exit" /\ ~(op.n # NULL /\ prio[op.n] < prio[cur])
  <2>1. ~excpt
    BY Zenon, <1>4, <1>a DEF CpuShape
  <2>2. state'[IdleThread] = "RUNNING" /\ \A t \in Threads : state'[t] = "RUNNING" => state[t] \in Live
    BY Zenon, <1>a, <1>1 DEF IdleReady, Live
  <2>. QED  BY Zenon, <1>4, <2>1, <2>2, BestChosen, <1>1
<1>5. CASE ~(at[cur].pc = "exit" /\ ~(op.n # NULL /\ prio[op.n] < prio[cur]))
  <2>1. KThreadReschedule(n)
    BY Zenon, <1>2, <1>5, <1>1
  <2>2. \A u \in Threads :
          state[u] = "RUNNING" => prio[Chosen] <= prio[u] \/ (n # NULL /\ prio[n] <= prio[u])
    BY Zenon, <1>2, <1>c, <1>1 DEF WakingShape, ChosenIsBest
  <2>3. excpt => state'[cur] = "RUNNING" /\ prio[Chosen] <= prio[cur]
    BY Zenon, <1>c, <1>1 DEF WakingShape, ChosenIsBest
  <2>. QED  BY Zenon, <2>1, <2>2, <2>3, BestRescheduled, <1>1
<1>. QED  BY Zenon, <1>4, <1>5

(* The end of KThreadSetPrio.                                              *)
LEMMA SetPrioTailBest ==
  ASSUME IInv, PrioInv, BestInv, KThreadSetPrioTail
  PROVE  BestInv'
<1>c. ChosenIsBest /\ WakingShape /\ SettingShape /\ BumpingShape /\ HandingShape
  BY Zenon DEF BestInv
<1>a. TypeOK /\ OpShape
  BY Zenon DEF IInv
<1>1. /\ op.pc = "setprio" /\ Setting /\ UNCHANGED <<prio, state>>
      /\ KThreadReschedule(
           IF op.n = cur
           THEN IF prio[cur] > op.prio THEN KThreadFindRunnable(list, state) ELSE NULL
           ELSE IF state[op.n] = "RUNNING" THEN op.n ELSE NULL)
  BY Zenon DEF KThreadSetPrioTail, threadVars, Setting
<1>2. /\ cur \in Threads /\ prio \in [Threads -> Int] /\ op.n \in Threads /\ ~excpt /\ Chosen = cur
      /\ op.prio \in Int
      /\ \A t \in Threads : t # op.n /\ state[t] = "RUNNING" => op.prio <= prio[t]
      /\ op.n # cur => prio[cur] = op.prio
  <2>1. ~excpt
    BY Zenon, <1>c, <1>1 DEF SettingShape, ChosenIsBest
  <2>2. op \in Ops /\ op.n \in Threads
    BY Zenon, <1>a, <1>1 DEF TypeOK, OpShape
  <2>. QED  BY <2>1, <2>2, <1>c, CpuFacts, <1>1 DEF Ops, SettingShape
<1>3. PICK b \in Threads : b = KThreadFindRunnable(list, state)
  BY Zenon, IdleFacts
<1>4. \A t \in Threads : state[t] = "RUNNING" => prio[b] <= prio[t]
  BY Zenon, BestOfAll, <1>3
<1>5. PICK u \in Threads \cup {NULL} :
        u = IF op.n = cur THEN IF prio[cur] > op.prio THEN b ELSE NULL
            ELSE IF state[op.n] = "RUNNING" THEN op.n ELSE NULL
  BY Zenon, <1>2
<1>6. KThreadReschedule(u)
  BY Zenon, <1>5, <1>1, <1>3
<1>7. \A t \in Threads : state[t] = "RUNNING" => prio[cur] <= prio[t] \/ (u # NULL /\ prio[u] <= prio[t])
  BY <1>4, <1>5, ConstantFacts, <1>2
<1>. QED  BY Zenon, <1>6, <1>7, BestRescheduled, <1>1, <1>2

(* KMutexLock after the bump: an owner that can run is as good as the      *)
(* caller was.                                                             *)
LEMMA LockSwitchBest ==
  ASSUME IInv, PrioInv, BestInv, KMutexLockSwitch
  PROVE  BestInv'
<1>c. ChosenIsBest /\ WakingShape /\ SettingShape /\ BumpingShape /\ HandingShape
  BY Zenon DEF BestInv
<1>b. PriorityOrder /\ HandoverUpdates /\ OthersSettled
  BY Zenon DEF PrioInv
<1>a. OpShape /\ IdleReady /\ WaiterShape
  BY Zenon DEF IInv
<1>1. /\ op.pc = "bumped" /\ Bumping /\ ~Handing /\ UNCHANGED <<prio, state>>
      /\ KThreadSwitchTo(IF state[owner[op.m]] = "RUNNING" THEN owner[op.m]
                         ELSE KThreadFindRunnable(list, state))
  BY Zenon DEF KMutexLockSwitch, threadVars, Bumping, Handing
<1>2. /\ cur \in Threads /\ prio \in [Threads -> Int] /\ ~excpt /\ nextCtx = NULL
      /\ state[cur] = "WAITING_MUTEX" /\ token[cur] = op.m
  <2>1. ~excpt
    BY Zenon, <1>a, <1>1 DEF OpShape
  <2>. QED  BY Zenon, <2>1, <1>c, CpuFacts, <1>1 DEF BumpingShape
<1>3. PICK o \in Threads : o = owner[op.m]
  BY Zenon, <1>a, <1>1 DEF OpShape
<1>4. CASE state[o] # "RUNNING"
  <2>1. state'[IdleThread] = "RUNNING" /\ \A t \in Threads : state'[t] = "RUNNING" => state[t] \in Live
    BY Zenon, <1>a, <1>1 DEF IdleReady, Live
  <2>. QED  BY Zenon, <1>4, <2>1, BestChosen, <1>1, <1>2, <1>3
<1>5. CASE state[o] = "RUNNING"
  <2>1. queue[cur] = o
    BY <1>a, <1>1, <1>2, <1>3 DEF WaiterShape
  <2>2. PrioSettled(o)
    BY Zenon, <1>5, <1>b, <1>1 DEF Unsettled, Live, OthersSettled
  <2>3. prio[o] <= prio[cur]
    BY Zenon, <2>1, <2>2, WaiterNoBetter, <1>2
  <2>4. \A t \in Threads : t # o /\ state[t] = "RUNNING" => prio[cur] <= prio[t]
    BY Zenon, <1>5, <1>c, <1>1, <1>3 DEF BumpingShape, ChosenIsBest
  <2>5. op' = NoOp /\ cur' = o /\ nextCtx' = NULL /\ ~excpt'
    BY Zenon, <1>5, <1>1, <1>2, <1>3 DEF KThreadSwitchTo
  <2>6. NoneBetter(prio[Chosen])'
    BY <2>3, <2>4, <2>5, <1>1, <1>2 DEF NoneBetter, Chosen
  <2>. QED  BY Zenon, <2>5, <2>6, BestQuiet DEF NoOp
<1>. QED  BY Zenon, <1>4, <1>5

(* The hand-over: its turns, the second update, its end.                   *)
LEMMA NextOwnerBest ==
  ASSUME IInv, BestInv, UpdateNextOwner
  PROVE  BestInv'
<1>c. ChosenIsBest /\ WakingShape /\ SettingShape /\ BumpingShape /\ HandingShape
  BY Zenon DEF BestInv
<1>a. TypeOK
  BY Zenon DEF IInv
<1>1. /\ op.pc = "next" /\ op \in Ops /\ op' = [op EXCEPT !.pc = "update", !.t = op.n, !.ret = "given"]
      /\ UNCHANGED <<state, prio, baseprio, queue, cur, excpt, nextCtx>>
  BY Zenon, <1>a DEF UpdateNextOwner, threadVars, queueVars, cpuVars, TypeOK
<1>2. op'.pc = "update" /\ op'.ret = "given" /\ op'.n = op.n /\ op'.prio = op.prio
  BY Zenon, <1>1 DEF Ops
<1>3. Handing /\ ~Setting' /\ ~Bumping' /\ ~Quiet'
  BY <1>1 DEF Handing, Setting, Bumping, Quiet
<1>4. HandingShape'
  BY <1>3, <1>c, <1>1 DEF HandingShape, ChosenIsBest
<1>5. ChosenIsBest' /\ WakingShape' /\ SettingShape' /\ BumpingShape'
  BY <1>3, <1>4, <1>c, <1>1 DEF ChosenIsBest, WakingShape, SettingShape, BumpingShape
<1>. QED  BY Zenon, <1>3, <1>4, <1>5 DEF BestInv

(* The end of a hand-over lets a better thread run.                        *)
LEMMA GivenBest ==
  ASSUME IInv, PrioInv, BestInv, Given
  PROVE  BestInv'
<1>c. ChosenIsBest /\ WakingShape /\ SettingShape /\ BumpingShape /\ HandingShape
  BY Zenon DEF BestInv
<1>a. TypeOK /\ OpShape /\ IdleReady
  BY Zenon DEF IInv
<1>1. /\ op.pc = "given" /\ Handing
      /\ IF at[cur].pc = "user"
         THEN /\ UNCHANGED <<state, prio>>
              /\ KThreadReschedule(
                   IF (IF op.prio < prio[cur] THEN KThreadFindRunnable(list, state) ELSE cur) = cur
                   THEN NULL ELSE IF op.prio < prio[cur] THEN KThreadFindRunnable(list, state) ELSE cur)
         ELSE KThrQueueBlock("cv", at[cur].x)
  BY Zenon DEF Given, Handing
<1>2. ~excpt /\ state[cur] = "RUNNING" /\ at[cur].pc \in {"user", "cv", "cvt"} /\ op \in Ops
  BY Zenon, <1>a, <1>1 DEF OpShape, TypeOK
<1>3. cur \in Threads /\ prio \in [Threads -> Int] /\ Chosen = cur /\ op.prio \in Int
  BY CpuFacts, <1>2 DEF Ops
<1>4. CASE at[cur].pc # "user"
  <2>1. cur # IdleThread
    <3>1. at[IdleThread].pc = "user"
      BY <1>a DEF IdleReady, User
    <3>. QED  BY Zenon, <1>4, <3>1
  <2>. QED  BY Zenon, <1>4, <2>1, BlockBest, <1>1, <1>2
<1>5. CASE at[cur].pc = "user"
  <2>1. PICK b \in Threads : b = KThreadFindRunnable(list, state)
    BY Zenon, IdleFacts
  <2>2. \A t \in Threads : state[t] = "RUNNING" => prio[b] <= prio[t]
    BY Zenon, <2>1, BestOfAll
  <2>3. PICK u \in Threads \cup {NULL} : u = IF op.prio < prio[cur] /\ b # cur THEN b ELSE NULL
    BY Zenon
  <2>4. KThreadReschedule(u)
    BY Zenon, <1>5, <2>1, <2>3, <1>1
  <2>5. \A t \in Threads \ {cur} : state[t] = "RUNNING" => op.prio <= prio[t]
    BY Zenon, <1>c, <1>1 DEF HandingShape, ChosenIsBest
  <2>6. \A t \in Threads : state[t] = "RUNNING" => prio[cur] <= prio[t] \/ (u # NULL /\ prio[u] <= prio[t])
    BY <1>3, <2>2, <2>3, <2>5, ConstantFacts
  <2>. QED  BY <1>3, <1>5, <2>4, <2>6, BestRescheduled, <1>1, <1>2
<1>. QED  BY Zenon, <1>4, <1>5

(* One turn of KThreadRemoveWaiter: the waiter it takes was queued behind  *)
(* the caller, and is as good as those queued behind itself.               *)
LEMMA RemoveWaiterBest ==
  ASSUME IInv, PrioInv, BestInv, KThreadRemoveWaiter
  PROVE  BestInv'
<1>c. ChosenIsBest /\ WakingShape /\ SettingShape /\ BumpingShape /\ HandingShape
  BY Zenon DEF BestInv
<1>b. PriorityOrder /\ HandoverUpdates /\ OthersSettled
  BY Zenon DEF PrioInv
<1>a. TypeOK /\ OpShape /\ QueueIntegrity /\ StatesMatchQueues
  BY Zenon DEF IInv
<1>1. /\ op.pc = "handover" /\ Handing /\ op \in Ops /\ cur \in Threads
      /\ UNCHANGED <<prio, baseprio, cur, excpt, nextCtx>>
  BY Zenon, <1>a DEF KThreadRemoveWaiter, cpuVars, Handing, TypeOK
<1>2. /\ state[cur] = "RUNNING" /\ ~excpt /\ queue[cur] = NULL /\ op.n \in Threads \cup {NULL}
      /\ prio \in [Threads -> Int] /\ baseprio \in [Threads -> Int] /\ op.prio \in Int
      /\ queue \in [Threads -> Queues \cup {NULL}] /\ state \in [Threads -> States] /\ cur \in Queues
  <2>1. state[cur] = "RUNNING" /\ ~excpt
    BY Zenon, <1>1, <1>a DEF OpShape
  <2>2. queue[cur] = NULL
    BY Zenon, <1>1, <2>1, <1>a DEF StatesMatchQueues
  <2>3. op.n \in Threads \cup {NULL} /\ op.prio \in Int
    BY <1>1 DEF Ops
  <2>4. queue \in [Threads -> Queues \cup {NULL}] /\ state \in [Threads -> States] /\ cur \in Queues
    BY Zenon, <1>1, NoOpType, <1>a DEF TypeOK
  <2>. QED  BY Zenon, <2>1, <2>2, <2>3, <2>4, PrioTypes
<1>3. /\ \A u \in Threads \ {cur} :
           state[u] = "RUNNING" \/ queue[u] = cur \/ (op.n # NULL /\ queue[u] = op.n)
             => op.prio <= prio[u]
      /\ op.n # NULL => op.prio <= baseprio[op.n]
  BY Zenon, <1>1, <1>c DEF HandingShape, ChosenIsBest
<1>4. SUFFICES /\ op'.pc \in {"handover", "given"} \/ (op'.pc = "update" /\ op'.ret = "next")
               /\ HandingShape'
  BY SMTT(30), <1>1, <1>2 DEF BestInv, Quiet, Setting, Bumping, WakingShape, SettingShape, BumpingShape,
     ChosenIsBest
<1>5. CASE Waiting = {}
  <2>1. /\ UNCHANGED <<state, queue>>
        /\ op' = IF op.n = NULL THEN [op EXCEPT !.pc = "given"]
                 ELSE [op EXCEPT !.pc = "update", !.t = cur, !.ret = "next"]
    BY Zenon, <1>5 DEF KThreadRemoveWaiter
  <2>2. /\ op'.pc = "given" \/ (op'.pc = "update" /\ op'.ret = "next")
        /\ op'.n = op.n /\ op'.prio = op.prio
    BY Zenon, <1>1, <2>1 DEF Ops
  <2>. QED  BY Zenon, <1>1, <1>3, <2>1, <2>2 DEF HandingShape
<1>6. CASE Waiting # {}
  <2>1. PICK k \in 1..Len(links[cur]) : k = Least(Waiting)
    <3>1. Waiting \in SUBSET Nat
      BY DEF Waiting
    <3>2. Least(Waiting) \in Waiting
      BY Zenon, <1>6, <3>1, LeastIsMember
    <3>. QED  BY ZenonT(30), <3>2 DEF Waiting
  <2>2. links[cur] \in Seq(Threads)
    BY Zenon, <1>2, PrioTypes
  <2>3. PICK t \in Threads : t = links[cur][k]
    BY <2>2
  <2>4. queue[t] = cur /\ t # cur
    <3>1. t \in Linked(links[cur])
      BY Zenon, <2>2, <2>3, RangeIsElements
    <3>. QED  BY Zenon, <1>2, <3>1, <1>a, ConstantFacts DEF QueueIntegrity
  <2>5. op.prio <= prio[t]
    BY Zenon, <1>3, <2>4
  <2>6. CASE op.n # NULL
    <3>1. UNCHANGED <<state, op>> /\ queue' = [queue EXCEPT ![t] = op.n]
      BY ZenonT(30), <1>6, <2>1, <2>3, <2>6 DEF KThreadRemoveWaiter
    <3>2. \A u \in Threads \ {cur} :
            state'[u] = "RUNNING" \/ queue'[u] = cur' \/ (op'.n # NULL /\ queue'[u] = op'.n)
              => op'.prio <= prio'[u]
      BY Zenon, <1>1, <1>2, <1>3, <2>5, <3>1
    <3>. QED  BY Zenon, <1>1, <1>3, <3>1, <3>2 DEF HandingShape
  <2>7. CASE op.n = NULL
    <3>1. /\ op' = [op EXCEPT !.n = t] /\ queue' = [queue EXCEPT ![t] = NULL]
          /\ state' = [state EXCEPT ![t] = IF suspend[t] = 0 THEN "RUNNING" ELSE "WAITING"]
      BY Zenon, <1>6, <2>1, <2>3, <2>7 DEF KThreadRemoveWaiter
    <3>2. op'.pc = "handover" /\ op'.n = t /\ op'.prio = op.prio
      BY Zenon, <1>1, <3>1 DEF Ops
    <3>3. state[t] \in Live
      <4>1. state[t] \in States /\ queue[t] # NULL
        BY Zenon, <1>2, <2>4, ConstantFacts
      <4>. QED  BY Zenon, <4>1, <1>a DEF StatesMatchQueues, States, Live
    <3>4. PrioSettled(t)
      BY Zenon, <1>1, <2>7, <3>3, <1>b DEF Unsettled, OthersSettled
    <3>5. prio[t] <= baseprio[t] /\ \A u \in Threads : queue[u] = t => prio[t] <= prio[u]
      BY Zenon, <3>4, WaiterNoBetter
    <3>6. \A u \in Threads \ {cur} :
            state'[u] = "RUNNING" \/ queue'[u] = cur' \/ (op'.n # NULL /\ queue'[u] = op'.n)
              => op'.prio <= prio'[u]
      BY <1>1, <1>2, <1>3, <2>5, <3>1, <3>2, <3>5
    <3>7. op.prio <= baseprio[t]
      BY <1>2, <2>5, <3>5
    <3>. QED  BY Zenon, <1>1, <3>2, <3>6, <3>7 DEF HandingShape
  <2>. QED  BY Zenon, <2>6, <2>7
<1>. QED  BY Zenon, <1>5, <1>6

(* KThreadInit runs the main thread, and only the idle thread besides.     *)
LEMMA InitBest == Init => BestInv
<1> SUFFICES ASSUME Init PROVE BestInv
  BY Zenon
<1>1. /\ op = NoOp /\ ~excpt /\ nextCtx = NULL /\ cur = MainThread
      /\ prio = [t \in Threads |-> IF t = IdleThread THEN MinPrio + 1 ELSE MainPrio]
  BY Zenon DEF Init, KThreadInit
<1>2. NoneBetter(prio[Chosen])
  BY KThreadAssumption, <1>1 DEF NoneBetter, Chosen
<1>3. op.pc = "none"
  BY Zenon, <1>1 DEF NoOp
<1>4. ChosenIsBest /\ WakingShape /\ SettingShape /\ BumpingShape /\ HandingShape
  BY Zenon, <1>2, <1>3, <1>1 DEF ChosenIsBest, WakingShape, SettingShape, BumpingShape, HandingShape,
     Setting, Bumping, Handing
<1>. QED  BY Zenon, <1>2, <1>3, <1>4 DEF BestInv

(* Every step of CarefulSpec keeps BestInv.                                *)
LEMMA NextBest ==
  ASSUME IInv, PrioInv, BestInv, [CarefulNext]_vars
  PROVE  BestInv'
<1>c. ChosenIsBest /\ WakingShape /\ SettingShape /\ BumpingShape /\ HandingShape
  BY Zenon DEF BestInv
<1>1. CASE KernelStep
  BY Zenon, <1>1, UpdateBest, SetPrioTailBest, UnblockTurnBest, UnblockEndBest, LockSwitchBest,
     RemoveWaiterBest, NextOwnerBest, GivenBest DEF KernelStep
<1>2. CASE ThreadContinues
  BY Zenon, <1>2, QuietCallsBest, LockAgainBest DEF ThreadContinues
<1>3. CASE MutexCall
  BY Zenon, <1>3, QuietCallsBest, UnlockBest DEF MutexCall
<1>4. CASE CondVarCall
  BY Zenon, <1>4, UnlockBest, SignalBest DEF CondVarCall
<1>5. CASE CarefulThreadCall
  <2>1. ASSUME NEW t \in Users, KThreadJoin(t) PROVE BestInv'
    BY Zenon, <2>1, BlockBest DEF KThreadJoin, InThread
  <2>2. CASE KThreadSleepTicks
    BY Zenon, <2>2, BlockBest DEF KThreadSleepTicks, InThread
  <2>. QED  BY Zenon, <1>5, <2>1, <2>2, PrepareBest, SetPrioBest, ResumeBest, SuspendBest, YieldBest,
       ExitBest DEF CarefulThreadCall
<1>6. CASE Interrupt
  BY Zenon, <1>6, QuietCallsBest, TickTaskBest DEF Interrupt
<1>7. CASE UNCHANGED vars
  <2>1. UNCHANGED <<state, prio, baseprio, queue, token, owner, cur, excpt, nextCtx, op>>
    BY Zenon, <1>7 DEF vars, threadVars, queueVars, cpuVars
  <2>2. WakingShape' /\ SettingShape' /\ BumpingShape' /\ HandingShape'
    BY <2>1, <1>c DEF WakingShape, SettingShape, BumpingShape, HandingShape, Setting, Bumping,
       Handing, Chosen, ChosenIsBest
  <2>3. ChosenIsBest'
    BY Zenon, <2>1, <2>2, <1>c DEF ChosenIsBest, Quiet, NoneBetter, Chosen
  <2>. QED  BY Zenon, <2>1, <2>2, <2>3 DEF BestInv
<1>. QED  BY Zenon, <1>1, <1>2, <1>3, <1>4, <1>5, <1>6, <1>7 DEF CarefulNext
=============================================================================
