--------------------------- MODULE KSync_proofs -----------------------------
(***************************************************************************)
(* The invariants hold of every behaviour of the kernel, and with them its *)
(* safety properties; and which steps can touch the wait queues of the     *)
(* objects built on the kernel.                                            *)
(***************************************************************************)
EXTENDS KSyncSteps, KSyncPriority, KSyncBest

(* KThreadInit establishes the invariant.                                  *)
LEMMA InitInv == Init => IInv
<1> SUFFICES ASSUME Init PROVE IInv
  BY Zenon
<1> USE ConstantFacts DEF Init, KThreadInit
<1>1. ~Handing /\ ~Bumping /\ ~Setting /\ op.pc = "none" /\ op \in Ops
  BY Zenon, NoOpType DEF Handing, Bumping, Setting, NoOp
<1>2. User \in Places /\ User.pc = "user"
  BY Zenon DEF User, Places
<1>3. /\ MinPrio + 1 \in 0..(MinPrio + 1) /\ MainPrio \in 0..(MinPrio + 1) /\ 0 \in 0..MaxSuspend
  BY KThreadAssumption
<1>4. list \in Seq(Threads) /\ Len(list) = 2 /\ list[1] = MainThread /\ list[2] = IdleThread
  OBVIOUS
<1>5. Distinct(list)
  BY <1>4 DEF Distinct
<1>6. Linked(list) = {MainThread, IdleThread}
  BY <1>4 DEF Linked
<1>7. /\ state \in [Threads -> States] /\ state[MainThread] = "RUNNING" /\ state[IdleThread] = "RUNNING"
      /\ \A t \in Threads \ {MainThread, IdleThread} : state[t] = "UNINIT"
  BY Zenon DEF States, Live
<1>8. links \in [Queues -> Seq(Threads)] /\ \A q \in Queues : links[q] = <<>>
  OBVIOUS
<1>9. prio \in [Threads -> 0..(MinPrio + 1)]
  BY Zenon, <1>3
<1>10. TypeOK
  BY Zenon, <1>1, <1>2, <1>3, <1>4, <1>7, <1>8, <1>9, NoOpType DEF TypeOK
<1>11. OpShape /\ OwnerShape
  BY Zenon, <1>1 DEF OpShape, OwnerShape
<1>12. AtShape /\ IdleReady
  BY Zenon, <1>2, <1>7 DEF AtShape, IdleReady
<1>13. CpuShape
  BY Zenon, <1>2, <1>7 DEF CpuShape
<1>14. QueueIntegrity
  <2>1. \A q \in Queues : Distinct(links[q]) /\ Linked(links[q]) = {}
    BY <1>8 DEF Distinct, Linked
  <2>2. \A t \in Threads : t \in Linked(list) <=> state[t] \in Live
    BY Zenon, <1>6, <1>7 DEF Live
  <2>. QED  BY Zenon, <1>5, <2>1, <2>2 DEF QueueIntegrity
<1>15. StatesMatchQueues
  BY Zenon, <1>7 DEF StatesMatchQueues
<1>16. WaiterShape /\ LockShape
  BY Zenon, <1>2, <1>7 DEF WaiterShape, LockShape
<1>17. JoinShape /\ TimerShape
  BY Zenon, <1>2 DEF JoinShape, TimerShape
<1>. QED
  BY SMTT(30), <1>10, <1>11, <1>12, <1>13, <1>14, <1>15, <1>16, <1>17 DEF IInv

(* Nothing changes in a stuttering step.                                   *)
LEMMA StutterInv ==
  ASSUME IInv, UNCHANGED vars
  PROVE  IInv'
<1>a. /\ TypeOK /\ OpShape /\ AtShape /\ OwnerShape /\ IdleReady /\ CpuShape /\ QueueIntegrity
      /\ StatesMatchQueues /\ WaiterShape /\ LockShape /\ JoinShape /\ TimerShape
  BY Zenon DEF IInv
<1> USE DEF vars, threadVars, queueVars, cpuVars
<1>1. (Handing' <=> Handing) /\ (Bumping' <=> Bumping) /\ (Setting' <=> Setting)
  BY Zenon DEF Handing, Bumping, Setting
<1>2. TypeOK' /\ QueueIntegrity' /\ StatesMatchQueues'
  BY SMTT(30), <1>a DEF TypeOK, QueueIntegrity, StatesMatchQueues
<1>3. OpShape' /\ OwnerShape'
  BY SMTT(30), <1>1, <1>a DEF OpShape, OwnerShape
<1>4. AtShape' /\ IdleReady'
  BY Zenon, <1>a DEF AtShape, IdleReady
<1>5. CpuShape'
  BY Zenon, <1>1, <1>a DEF CpuShape
<1>6. WaiterShape' /\ LockShape'
  BY Zenon, <1>1, <1>a DEF WaiterShape, LockShape
<1>7. JoinShape' /\ TimerShape'
  BY Zenon, <1>a DEF JoinShape, TimerShape
<1>. QED  BY SMTT(30), <1>2, <1>3, <1>4, <1>5, <1>6, <1>7 DEF IInv

(* Every step of the kernel, of a thread or of an interrupt keeps IInv.    *)
LEMMA NextInv ==
  ASSUME IInv, [Next]_vars
  PROVE  IInv'
<1>1. CASE KernelStep
  BY SMTT(30), <1>1, UpdateStep, SetPrioTailStep, UnblockStep, LockSwitchStep, RemoveWaiterStep,
     UpdateNextOwnerStep, GivenStep DEF KernelStep
<1>2. CASE ThreadContinues
  BY Zenon, <1>2, ReturnStep, LockSlowStep, RelockStep DEF ThreadContinues
<1>3. CASE MutexCall
  BY Zenon, <1>3, TryLockStep, ContendedStep, UnlockStep DEF MutexCall
<1>4. CASE CondVarCall
  BY Zenon, <1>4, CondVarWaitStep, SignalStep, BroadcastStep DEF CondVarCall
<1>5. CASE ThreadCall
  BY SMTT(30), <1>5, PrepareStep, SetPrioStep, ResumeStep, SuspendStep, JoinStep, YieldStep, SleepStep,
     ExitStep DEF ThreadCall
<1>6. CASE Interrupt
  BY Zenon, <1>6, IrqStep, TickTaskStep DEF Interrupt
<1>7. CASE UNCHANGED vars
  BY Zenon, <1>7, StutterInv
<1>. QED  BY SMTT(30), <1>1, <1>2, <1>3, <1>4, <1>5, <1>6, <1>7 DEF Next

(* IInv holds in every reachable state, whatever the threads, mutexes,     *)
(* condition variables and priorities.                                     *)
THEOREM InductiveInvariant == Spec => []IInv
<1>1. Init => IInv
  BY Zenon, InitInv
<1>2. IInv /\ [Next]_vars => IInv'
  BY Zenon, NextInv
<1>. QED  BY <1>1, <1>2, PTL DEF Spec

(* The variables keep their types.                                         *)
THEOREM TypeCorrect == Spec => []TypeOK
<1>1. IInv => TypeOK
  BY Zenon DEF IInv
<1>. QED  BY <1>1, InductiveInvariant, PTL

(* The thread list and the wait queues never lose or duplicate a thread    *)
(* (thread_priv.h Enqueue, Insert, Remove and their callers).              *)
THEOREM QueuesIntact == Spec => [](QueueIntegrity /\ StatesMatchQueues)
<1>1. IInv => QueueIntegrity /\ StatesMatchQueues
  BY Zenon DEF IInv
<1>. QED  BY <1>1, InductiveInvariant, PTL

(* The waiters for a mutex follow it from owner to owner                   *)
(* (KThreadRemoveWaiter).                                                  *)
THEOREM WaitersAreFollowed == Spec => []WaitersFollowOwner
<1>1. IInv => WaitersFollowOwner
  BY Zenon, ConstantFacts DEF IInv, WaiterShape, WaitersFollowOwner
<1>. QED  BY <1>1, InductiveInvariant, PTL

(* KMutexLock returns to its caller only with the mutex owned.             *)
THEOREM LocksAreOwned == Spec => []LockReturnsOwned
<1>1. IInv => LockReturnsOwned
  BY Zenon DEF IInv, LockShape, LockReturnsOwned, Quiet, Handing
<1>. QED  BY <1>1, InductiveInvariant, PTL

(* KThreadJoin returns to its caller only after the thread finished.       *)
THEOREM JoinsAreFinished == Spec => []JoinReturnsFinished
<1>1. IInv => JoinReturnsFinished
  <2>1. IInv => \A t \in Threads : state[t] = "RUNNING" => queue[t] = NULL
    BY Zenon DEF IInv, StatesMatchQueues
  <2>2. NULL # "join"
    BY Zenon, ConstantFacts DEF Static
  <2>. QED  BY ZenonT(30), <2>1, <2>2 DEF IInv, JoinShape, JoinReturnsFinished
<1>. QED  BY <1>1, InductiveInvariant, PTL

(* No timer outlives the stack frame that holds it.                        *)
THEOREM TimersAreLive == Spec => []TimersOnLiveFrames
<1>1. IInv => TimersOnLiveFrames
  <2> SUFFICES ASSUME IInv, NEW t \in armed
               PROVE  at[t].pc \in {"sleep", "cvt"} /\ state[t] \in Live
    BY Zenon DEF TimersOnLiveFrames
  <2>1. t \in Threads /\ state[t] \in States
    BY Zenon DEF IInv, TypeOK
  <2>2. at[t].pc \in {"sleep", "cvt"}
    BY Zenon DEF IInv, TimerShape
  <2>3. state[t] \notin {"UNINIT", "FINISHED"}
    BY SMTT(30), <2>1, <2>2 DEF IInv, AtShape, User
  <2>. QED  BY Zenon, <2>1, <2>2, <2>3 DEF States
<1>. QED  BY <1>1, InductiveInvariant, PTL

(* The processor always has a runnable context to go on with.              *)
THEOREM NextContextIsRunnable == Spec => []NextContextRunnable
<1>1. IInv => NextContextRunnable
  BY Zenon DEF IInv, CpuShape, NextContextRunnable, Quiet, Bumping
<1>. QED  BY <1>1, InductiveInvariant, PTL

(* The priorities' part of the inductive invariant.                        *)
THEOREM PrioritiesInvariant == Spec => []PrioInv
<1>1. Init => PrioInv
  BY Zenon, InitPrio
<1>2. IInv /\ PrioInv /\ [Next]_vars => PrioInv'
  BY Zenon, NextPrio
<1>. QED  BY <1>1, <1>2, InductiveInvariant, PTL DEF Spec

(* s_firstThread and every wait queue stay ordered by dynamic priority.    *)
THEOREM ListsAreOrdered == Spec => []PriorityOrder
<1>1. PrioInv => PriorityOrder
  BY Zenon DEF PrioInv, OthersSettled
<1>. QED  BY <1>1, PrioritiesInvariant, PTL

(* Whenever no kernel function is in progress, every thread has its own    *)
(* priority or that of its best mutex waiter, along chains of owners of    *)
(* any length (KThreadUpdateDynamicPrio and its callers).                  *)
THEOREM PrioritiesAreInherited == Spec => []PriorityInheritance
<1>1. IInv /\ PrioInv => PriorityInheritance
  <2> SUFFICES ASSUME IInv, PrioInv, Quiet, NEW t \in Threads, state[t] \in Live
               PROVE  prio[t] = Least({baseprio[t]} \cup {prio[u] : u \in {v \in Threads : WaitsFor(v, t)}})
    BY Zenon DEF PriorityInheritance
  <2> DEFINE W == {v \in Threads : WaitsFor(v, t)}
             S == {baseprio[t]} \cup {prio[u] : u \in W}
  <2>1. prio[t] = DynamicPrio(t) /\ ~Handing
    BY Zenon DEF Quiet, PrioInv, Unsettled, PrioSettled, Handing, OthersSettled
  <2>2. /\ prio \in [Threads -> Nat] /\ baseprio \in [Threads -> Nat] /\ prio[t] \in Nat
        /\ links[t] \in Seq(Threads) /\ OrderedBy(links[t], prio)
    <3>1. prio \in [Threads -> 0..(MinPrio + 1)] /\ baseprio \in [Threads -> 0..(MinPrio + 1)]
      BY Zenon DEF IInv, TypeOK
    <3>. QED  BY <3>1, PrioTypes, NoOpType
  <2>3. \A u \in Threads : u \in Linked(links[t]) <=> u \in W
    BY Zenon, <2>1, WaitersOf
  <2>4. \A u \in W : links[t] # <<>> /\ prio[links[t][1]] <= prio[u]
    <3> SUFFICES ASSUME NEW u \in W PROVE links[t] # <<>> /\ prio[links[t][1]] <= prio[u]
      BY Zenon
    <3>1. PICK i \in 1..Len(links[t]) : links[t][i] = u
      <4>1. u \in Linked(links[t])
        BY Zenon, <2>3
      <4>2. links[t] \in Seq(Threads)
        BY Zenon, <2>2
      <4> HIDE DEF W
      <4>. QED  BY <4>1, <4>2 DEF Linked
    <3>2. links[t] # <<>> /\ 1 \in 1..Len(links[t])
      BY <2>2, <3>1
    <3>3. CASE i = 1
      BY <2>2, <3>1, <3>2, <3>3
    <3>4. CASE i # 1
      BY SMTT(30), <2>2, <3>1, <3>2, <3>4 DEF OrderedBy
    <3>. QED  BY Zenon, <3>3, <3>4
  <2>5. links[t] # <<>> => links[t][1] \in W
    BY Zenon, <2>2, <2>3, HeadFacts
  <2>6. S \in SUBSET Nat /\ S # {}
    BY Zenon, <2>2
  <2>7. prio[t] \in S /\ \A y \in S : prio[t] <= y
    <3>1. CASE links[t] = <<>>
      <4>1. W = {} /\ prio[t] = baseprio[t]
        BY Zenon, <2>1, <2>4, <3>1 DEF DynamicPrio
      <4>. QED  BY <2>2, <4>1
    <3>2. CASE links[t] # <<>>
      <4>1. /\ links[t][1] \in W /\ links[t][1] \in Threads
            /\ prio[t] = IF prio[links[t][1]] < baseprio[t] THEN prio[links[t][1]] ELSE baseprio[t]
        BY Zenon, <2>1, <2>5, <3>2 DEF DynamicPrio
      <4>2. prio[t] \in S
        BY Zenon, <4>1
      <4>3. prio[t] <= baseprio[t] /\ prio[t] <= prio[links[t][1]]
        BY <2>2, <4>1
      <4>4. \A u \in W : prio[t] <= prio[u]
        BY <2>2, <2>4, <4>1, <4>3
      <4>. QED  BY Zenon, <4>2, <4>3, <4>4
    <3>. QED  BY Zenon, <3>1, <3>2
  <2> HIDE DEF S
  <2>8. Least(S) \in S /\ \A y \in S : Least(S) <= y
    BY Zenon, <2>6, LeastIsMember
  <2>9. prio[t] = Least(S)
    <3>1. Least(S) \in Nat /\ Least(S) <= prio[t] /\ prio[t] <= Least(S)
      BY Zenon, <2>6, <2>7, <2>8
    <3>. QED  BY <2>2, <3>1
  <2>. QED  BY Zenon, <2>9 DEF S
<1>. QED  BY <1>1, InductiveInvariant, PrioritiesInvariant, PTL

(* KThreadRemoveWaiter hands the mutex to a waiter of the best priority.   *)
THEOREM HandoversGoToTheBest == Spec => HandoverToBest
<1> DEFINE Best == op.pc = "handover" /\ op.n = NULL /\ op'.n # NULL =>
                     \A t \in Threads : state[t] = "WAITING_MUTEX" /\ token[t] = op.m
                                          => prio[op'.n] <= prio[t]
<1>1. ASSUME IInv, PrioInv, [Next]_vars PROVE [Best]_vars
  <2> USE ConstantFacts
  <2> SUFFICES ASSUME Next, op.pc = "handover", op.n = NULL, op'.n # NULL,
                      NEW t \in Threads, state[t] = "WAITING_MUTEX", token[t] = op.m
               PROVE  prio[op'.n] <= prio[t]
    BY Zenon, <1>1
  <2>1. KThreadRemoveWaiter
    <3>1. ~ThreadContinues /\ ~MutexCall
      BY Zenon DEF ThreadContinues, ReturnToCaller, KMutexLockSlow, Relock, Resumed, MutexCall, KMutexTryLock,
         KMutexLockContended, KMutexUnlock, InThread
    <3>2. ~CondVarCall
      BY Zenon DEF CondVarCall, KCondVarWait, KCondVarSignal, KCondVarBroadcast, InThread, Calling
    <3>3. ~ThreadCall
      BY Zenon DEF ThreadCall, KThreadPrepare, KThreadSetPrio, KThreadResume, KThreadSuspendLive, KThreadSuspend,
         KThreadJoin, KThreadYield, KThreadSleepTicks, KThreadExit, InThread, Calling
    <3>4. ~Interrupt
      BY Zenon DEF Interrupt, IrqEnter, IrqReturn, TickTaskFires
    <3>5. KernelStep => KThreadRemoveWaiter
      BY Zenon DEF KernelStep, KThreadUpdateDynamicPrio, KThreadSetPrioTail, KThrQueueUnblockCommon,
         KMutexLockSwitch, UpdateNextOwner, Given
    <3>. QED  BY Zenon, <3>1, <3>2, <3>3, <3>4, <3>5 DEF Next
  <2>2. op \in Ops /\ cur \in Threads /\ Handing
    BY Zenon, <1>1 DEF IInv, TypeOK, Handing
  <2>3. Waiting # {}
    <3>1. Waiting = {} => op'.n = op.n
      BY Zenon, <2>1, <2>2 DEF KThreadRemoveWaiter, Ops
    <3>. QED  BY Zenon, <3>1
  <2>4. op'.n = links[cur][Least(Waiting)]
    BY Zenon, <2>1, <2>2, <2>3 DEF KThreadRemoveWaiter, Ops
  <2>5. /\ links[cur] \in Seq(Threads) /\ OrderedBy(links[cur], prio) /\ prio \in [Threads -> Int]
    BY Zenon, <1>1, <2>2, PrioTypes, NoOpType
  <2>6. queue[t] = cur
    <3>1. queue[t] \in {cur, NULL} /\ queue[t] \in Threads
      BY SMTT(30), <1>1, <2>2 DEF IInv, WaiterShape, StatesMatchQueues
    <3>. QED  BY ZenonT(30), <3>1
  <2>7. PICK j \in 1..Len(links[cur]) : links[cur][j] = t
    <3>1. t \in Linked(links[cur])
      BY ZenonT(30), <1>1, <2>2, <2>6, NoOpType DEF IInv, QueueIntegrity
    <3>. QED  BY <2>5, <3>1, RangeIsElements
  <2>8. Waiting \in SUBSET Nat /\ j \in Waiting
    BY <2>7 DEF Waiting
  <2>9. Least(Waiting) \in Waiting /\ Least(Waiting) <= j
    BY Zenon, <2>3, <2>8, LeastIsMember
  <2>10. Least(Waiting) \in 1..Len(links[cur])
    BY Zenon, <2>9 DEF Waiting
  <2>11. CASE Least(Waiting) = j
    BY <2>4, <2>5, <2>7, <2>11
  <2>12. CASE Least(Waiting) # j
    BY <2>4, <2>7, <2>9, <2>10, <2>12, <2>5 DEF OrderedBy
  <2>. QED  BY Zenon, <2>11, <2>12
<1>2. Spec => [][Best]_vars
  BY <1>1, InductiveInvariant, PrioritiesInvariant, PTL DEF Spec
<1>. QED  BY Zenon, <1>2 DEF HandoverToBest

(* Where handlers change no priorities and do not suspend the thread they  *)
(* interrupted, and priorities of mutex waiters are left alone, the        *)
(* scheduler of thread.c and sync.c never leaves a runnable thread waiting *)
(* for a worse one: after every wake-up, hand-over, priority change,       *)
(* suspension and interrupt return, a best runnable thread has the         *)
(* processor.                                                              *)
THEOREM BestThreadAlwaysRuns == CarefulSpec => []BestThreadRuns
<1>1. Init => IInv /\ PrioInv /\ BestInv
  BY Zenon, InitInv, InitPrio, InitBest
<1>2. IInv /\ PrioInv /\ BestInv /\ [CarefulNext]_vars => (IInv /\ PrioInv /\ BestInv)'
  BY Zenon, CarefulIsNext, NextInv, StutterInv, NextPrio, NextBest
<1>3. IInv /\ BestInv => BestThreadRuns
  BY Zenon, CpuFacts DEF BestThreadRuns, Quiet, NoneBetter
<1>. QED  BY <1>1, <1>2, <1>3, PTL DEF CarefulSpec

(* Waiting in q, and for what, is the same after the step, and no wake-up  *)
(* of q has begun.                                                         *)
LeftAlone(q) ==
  /\ \A t \in Threads : (queue'[t] = q <=> queue[t] = q) /\ (queue[t] = q => token'[t] = token[t])
  /\ ~(op'.pc = "unblock" /\ op'.q = q)

(* Steps that change no wait.queue and no wait.token.                      *)
LEMMA QuietCallsLeave ==
  ASSUME IInv, NEW q \in {"sem", "mbox"},
         \/ KThreadUpdateDynamicPrio \/ KThreadSetPrioTail \/ KMutexLockSwitch \/ UpdateNextOwner
         \/ ReturnToCaller \/ MutexCall \/ CondVarCall
         \/ (\E t \in Users, p \in 0..MinPrio : KThreadPrepare(t, p) \/ KThreadSetPrio(t, p))
         \/ (\E t \in Users : KThreadResume(t))
         \/ KThreadYield \/ KThreadExit \/ IrqEnter \/ IrqReturn
         \/ (UNCHANGED vars /\ ~(op.pc = "unblock" /\ op.q = q))
  PROVE  LeftAlone(q)
<1>a. TypeOK
  BY Zenon DEF IInv
<1> USE DEF queueVars
<1>1. CASE KThreadUpdateDynamicPrio \/ UpdateNextOwner
  <2>1. op \in Ops /\ op.pc \in {"update", "next"} /\ UNCHANGED <<queue, token>>
    BY Zenon, <1>1, <1>a DEF TypeOK, KThreadUpdateDynamicPrio, UpdateNextOwner
  <2>2. op'.pc \in {"update", op.ret}
    BY Zenon, <1>1, <2>1 DEF Ops, KThreadUpdateDynamicPrio, UpdateNextOwner
  <2>3. op'.pc # "unblock"
    BY ZenonT(30), <2>1, <2>2 DEF Ops
  <2>. QED  BY Zenon, <2>1, <2>3 DEF LeftAlone
<1>2. CASE KThreadSetPrioTail \/ KMutexLockSwitch \/ KThreadYield
  BY <1>2, SwitchEnds DEF KThreadSetPrioTail, KMutexLockSwitch, KThreadYield, LeftAlone, NoOp
<1>3. CASE ReturnToCaller \/ IrqEnter \/ IrqReturn
  BY Zenon, <1>3 DEF ReturnToCaller, Resumed, IrqEnter, IrqReturn, LeftAlone
<1>4. CASE MutexCall
  BY Zenon, <1>4 DEF MutexCall, KMutexTryLock, KMutexLockContended, KMutexUnlock, StartHandover, InThread, NoOp,
     LeftAlone
<1>5. CASE CondVarCall
  BY ZenonT(30), <1>5 DEF CondVarCall, KCondVarWait, KCondVarSignal, KCondVarBroadcast, KThrQueueUnblock, StartHandover,
     NoOp, LeftAlone
<1>6. CASE \E t \in Users, p \in 0..MinPrio : KThreadPrepare(t, p) \/ KThreadSetPrio(t, p)
  BY ZenonT(30), <1>6 DEF KThreadPrepare, KThreadSetPrio, InThread, NoOp, LeftAlone
<1>7. CASE \E t \in Users : KThreadResume(t)
  <2>1. UNCHANGED <<queue, token>> /\ (op' = op \/ op' = NoOp) /\ op.pc = "none"
    BY Zenon, <1>7, SwitchEnds DEF KThreadResume, Calling, InThread
  <2>. QED  BY <2>1 DEF LeftAlone, NoOp
<1>8. CASE KThreadExit
  BY Zenon, <1>8 DEF KThreadExit, NoOp, LeftAlone
<1>9. CASE UNCHANGED vars /\ ~(op.pc = "unblock" /\ op.q = q)
  BY Zenon, <1>9 DEF vars, LeftAlone
<1>. QED  BY Zenon, <1>1, <1>2, <1>3, <1>4, <1>5, <1>6, <1>7, <1>8, <1>9

(* A thread that runs waits nowhere: its wait.queue may be set, but not to *)
(* q.                                                                      *)
LEMMA BlockLeaves ==
  ASSUME IInv, NEW q \in {"sem", "mbox"}, NEW r \in Queues \cup {NULL}, r # q, NEW t \in Threads, queue[t] # q,
         queue' = [queue EXCEPT ![t] = r], \A u \in Threads \ {t} : token'[u] = token[u],
         ~(op'.pc = "unblock" /\ op'.q = q)
  PROVE  LeftAlone(q)
BY Zenon DEF IInv, TypeOK, LeftAlone

(* Whoever runs waits in no queue.                                         *)
LEMMA RunningWaitsNowhere ==
  ASSUME IInv, op.pc \in {"none", "given"}, ~excpt, at[cur].pc # "exit", NEW q \in Static
  PROVE  cur \in Threads /\ queue[cur] # q
<1>a. TypeOK /\ CpuShape /\ StatesMatchQueues
  BY Zenon DEF IInv
<1>1. cur \in Threads /\ state[cur] = "RUNNING"
  BY Zenon, <1>a DEF TypeOK, CpuShape, Bumping
<1>. QED  BY Zenon, <1>1, ConstantFacts, <1>a DEF StatesMatchQueues

(* The calls that block the caller somewhere else.                         *)
LEMMA BlockingCallsLeave ==
  ASSUME IInv, NEW q \in {"sem", "mbox"}, KMutexLockSlow \/ Relock \/ Given \/ KThreadSleepTicks
         \/ (\E t \in Users : KThreadJoin(t))
  PROVE  LeftAlone(q)
<1>a. TypeOK /\ OpShape /\ AtShape
  BY Zenon DEF IInv
<1> USE ConstantFacts
<1>1. q \in Static /\ q \notin Threads /\ q # NULL /\ q \notin {"cv", "join", "sleep"}
  BY Zenon DEF Static
<1>2. op.pc \in {"none", "given"} /\ ~excpt /\ at[cur].pc # "exit"
  BY Zenon, <1>a DEF KMutexLockSlow, Relock, Given, KThreadSleepTicks, KThreadJoin, InThread, Resumed, OpShape, Handing
<1>3. cur \in Threads /\ queue[cur] # q
  BY Zenon, <1>1, <1>2, RunningWaitsNowhere
<1>4. ASSUME NEW r \in {"cv", "join", "sleep"}, NEW tok, KThrQueueBlock(r, tok)
      PROVE  LeftAlone(q)
  <2>1. /\ queue' = [queue EXCEPT ![cur] = r] /\ token' = [token EXCEPT ![cur] = tok] /\ op' = NoOp
        /\ r \in Queues \cup {NULL} /\ r # q
    BY Zenon, <1>1, <1>4, SwitchEnds, NoOpType DEF KThrQueueBlock, Static
  <2>2. (\A u \in Threads \ {cur} : token'[u] = token[u]) /\ ~(op'.pc = "unblock" /\ op'.q = q)
    BY Zenon, <2>1, <1>a DEF NoOp, TypeOK
  <2>. QED  BY Zenon, <1>1, <1>3, <2>1, <2>2, BlockLeaves
<1>5. ASSUME NEW m, m \in Mutexes, owner[m] # NULL, LockWait(m)
      PROVE  LeftAlone(q)
  <2>1. owner[m] \in Threads
    BY Zenon, <1>5, <1>a DEF TypeOK
  <2>2. /\ queue' = [queue EXCEPT ![cur] = owner[m]] /\ token' = [token EXCEPT ![cur] = m]
        /\ owner[m] \in Queues \cup {NULL} /\ owner[m] # q
    BY Zenon, <1>1, <1>5, <2>1, NoOpType DEF LockWait
  <2>3. ~(op'.pc = "unblock" /\ op'.q = q)
    <3>1. op' = NoOp \/ op' = [NoOp EXCEPT !.pc = "update", !.t = owner[m], !.m = m, !.ret = "bumped"]
      BY <1>5, Zenon DEF LockWait, KThreadSwitchTo
    <3>2. CASE op' = NoOp
      BY Zenon, <3>2 DEF NoOp
    <3>3. CASE op' = [NoOp EXCEPT !.pc = "update", !.t = owner[m], !.m = m, !.ret = "bumped"]
      BY Zenon, <3>3 DEF NoOp
    <3>. QED  BY Zenon, <3>1, <3>2, <3>3
  <2>4. \A u \in Threads \ {cur} : token'[u] = token[u]
    BY Zenon, <2>2, <1>a DEF TypeOK
  <2>. QED  BY Zenon, <1>1, <1>3, <2>2, <2>3, <2>4, BlockLeaves
<1>6. at[cur].pc \in {"slow", "cv", "cvt"} => at[cur].m \in Mutexes
  BY Zenon, <1>3, <1>a DEF AtShape
<1>7. CASE KMutexLockSlow \/ Relock
  <2>1. op.pc = "none" /\ at[cur].m \in Mutexes
    BY Zenon, <1>6, <1>7 DEF KMutexLockSlow, Relock, Resumed
  <2>2. CASE UNCHANGED <<queueVars, op>>
    BY Zenon, <2>1, <2>2 DEF queueVars, LeftAlone
  <2>3. CASE owner[at[cur].m] # NULL /\ LockWait(at[cur].m)
    BY Zenon, <1>5, <2>1, <2>3
  <2>. QED  BY Zenon, <1>7, <2>2, <2>3 DEF KMutexLockSlow, Relock
<1>8. CASE Given
  <2>1. CASE at[cur].pc = "user"
    BY <1>8, <2>1, SwitchEnds DEF Given, queueVars, LeftAlone, NoOp
  <2>2. CASE at[cur].pc # "user"
    BY Zenon, <1>4, <1>8, <2>2 DEF Given
  <2>. QED  BY Zenon, <2>1, <2>2
<1>9. CASE KThreadSleepTicks \/ \E t \in Users : KThreadJoin(t)
  BY Zenon, <1>4, <1>9 DEF KThreadSleepTicks, KThreadJoin
<1>. QED  BY Zenon, <1>7, <1>8, <1>9

(* The steps that take other threads off other queues.                     *)
LEMMA UnblockingLeaves ==
  ASSUME IInv, NEW q \in {"sem", "mbox"}, ~(op.pc = "unblock" /\ op.q = q),
         \/ KThrQueueUnblockCommon \/ KThreadRemoveWaiter
         \/ (\E t \in Users : KThreadSuspendLive(t) \/ TickTaskFires(t))
  PROVE  LeftAlone(q)
<1>a. TypeOK /\ OpShape /\ QueueIntegrity /\ StatesMatchQueues
  BY Zenon DEF IInv
<1> USE ConstantFacts
<1>1. /\ q \in Static /\ q \notin Threads /\ q # NULL /\ q \notin {"cv", "join", "sleep"}
      /\ op \in Ops /\ queue \in [Threads -> Queues \cup {NULL}] /\ token \in [Threads -> Tokens]
      /\ links \in [Queues -> Seq(Threads)] /\ cur \in Threads
  BY Zenon, <1>a DEF Static, TypeOK
<1>2. ASSUME NEW r \in Queues, NEW k \in 1..Len(links[r])
      PROVE  links[r][k] \in Threads /\ queue[links[r][k]] = r
  BY <1>1, <1>2, <1>a DEF QueueIntegrity, Linked
<1>3. CASE KThrQueueUnblockCommon
  <2> DEFINE s   == links[op.q]
             hit == {i \in 1..Len(s) : token[s[i]] = op.ref}
             t   == s[Least(hit)]
  <2>1. op.pc = "unblock" /\ op.q \in Static /\ op.q # q /\ op.q \in Queues
    BY Zenon, <1>3, NoOpType, <1>a DEF KThrQueueUnblockCommon, OpShape
  <2>2. CASE op.max # 0 /\ hit # {}
    <3>1. Least(hit) \in 1..Len(s)
      <4>1. hit \in SUBSET Nat
        BY <1>1, <2>1
      <4>2. Least(hit) \in hit
        BY ZenonT(30), <2>2, <4>1, LeastIsMember
      <4>. QED  BY Zenon, <4>2
    <3>2. t \in Threads /\ queue[t] # q
      BY ZenonT(30), <1>2, <2>1, <3>1
    <3>3. /\ queue' = [queue EXCEPT ![t] = NULL] /\ token' = [token EXCEPT ![t] = Woken]
          /\ op' = [op EXCEPT !.max = op'.max, !.n = op'.n]
      BY Zenon, <1>1, <1>3, <2>2 DEF KThrQueueUnblockCommon, Ops
    <3> HIDE DEF t
    <3>5. op'.q = op.q
      BY Zenon, <1>1, <3>3 DEF Ops
    <3>4. \A u \in Threads \ {t} : token'[u] = token[u]
      BY Zenon, <1>1, <3>3
    <3>. QED  BY Zenon, <1>1, <2>1, <3>2, <3>3, <3>4, <3>5, BlockLeaves
  <2>3. CASE ~(op.max # 0 /\ hit # {})
    <3>1. UNCHANGED queueVars
      BY <1>3, <2>3, Zenon DEF KThrQueueUnblockCommon
    <3>2. op' = NoOp
      BY <1>3, <2>3, SwitchEnds, Zenon DEF KThrQueueUnblockCommon
    <3>. QED  BY Zenon, <3>1, <3>2 DEF queueVars, LeftAlone, NoOp
  <2>. QED  BY Zenon, <2>2, <2>3
<1>4. CASE KThreadRemoveWaiter
  <2> DEFINE t == links[cur][Least(Waiting)]
  <2>1. op.pc = "handover" /\ UNCHANGED token /\ op.n \in Threads \cup {NULL}
    BY Zenon, <1>1, <1>4 DEF KThreadRemoveWaiter, Ops
  <2>2. op'.pc # "unblock"
    BY Zenon, <1>1, <1>4, <2>1 DEF KThreadRemoveWaiter, Ops
  <2>3. CASE Waiting = {}
    BY Zenon, <1>4, <2>1, <2>2, <2>3 DEF KThreadRemoveWaiter, LeftAlone
  <2>4. CASE Waiting # {}
    <3>1. Least(Waiting) \in 1..Len(links[cur]) /\ cur \in Queues
      <4>1. cur \in Queues /\ links[cur] \in Seq(Threads)
        BY Zenon, <1>1, NoOpType
      <4>2. Waiting \in SUBSET Nat
        BY <4>1 DEF Waiting
      <4>3. Least(Waiting) \in Waiting
        BY Zenon, <2>4, <4>2, LeastIsMember
      <4>. QED  BY Zenon, <4>1, <4>3 DEF Waiting
    <3>2. t \in Threads /\ queue[t] # q
      BY <1>1, <1>2, <3>1
    <3>3. queue' = [queue EXCEPT ![t] = op.n]
      BY Zenon, <1>4, <2>4 DEF KThreadRemoveWaiter
    <3>4. op.n \in Queues \cup {NULL} /\ op.n # q
      BY Zenon, <1>1, <2>1, NoOpType
    <3> HIDE DEF t
    <3>. QED  BY Zenon, <1>1, <2>1, <2>2, <3>2, <3>3, <3>4, BlockLeaves
  <2>. QED  BY Zenon, <2>3, <2>4
<1>5. ASSUME NEW t \in Users, KThreadSuspendLive(t)
      PROVE  LeftAlone(q)
  <2>1. t \in Threads /\ UNCHANGED token /\ (op' = op \/ op' = NoOp) /\ op.pc = "none"
    BY Zenon, <1>5, SwitchEnds DEF KThreadSuspendLive, KThreadSuspend, Calling, InThread, Users
  <2>2. ~(op'.pc = "unblock" /\ op'.q = q)
    BY <2>1 DEF NoOp
  <2>3. UNCHANGED queue \/ (state[t] = "RUNNING" /\ queue' = [queue EXCEPT ![t] = NULL])
    BY Zenon, <1>5 DEF KThreadSuspendLive, KThreadSuspend
  <2>4. state[t] = "RUNNING" => queue[t] = NULL
    BY Zenon, <2>1, <1>a DEF StatesMatchQueues
  <2>5. CASE UNCHANGED queue
    BY Zenon, <2>1, <2>2, <2>5 DEF LeftAlone
  <2>6. CASE state[t] = "RUNNING" /\ queue' = [queue EXCEPT ![t] = NULL]
    BY Zenon, <1>1, <2>1, <2>2, <2>4, <2>6, BlockLeaves
  <2>. QED  BY Zenon, <2>3, <2>5, <2>6
<1>6. ASSUME NEW t \in Users, TickTaskFires(t)
      PROVE  LeftAlone(q)
  <2>1. t \in Threads /\ op.pc = "none"
    BY Zenon, <1>6 DEF TickTaskFires, Users
  <2>2. CASE at[t].pc = "sleep"
    BY Zenon, <1>1, <1>6, <2>2 DEF TickTaskFires, KThrQueueUnblock, queueVars, NoOp, LeftAlone
  <2>3. CASE at[t].pc # "sleep"
    <3>1. KThrQueueCancel("cv", t)
      BY Zenon, <1>6, <2>3 DEF TickTaskFires
    <3>2. CASE UNCHANGED <<queueVars, op>>
      BY Zenon, <2>1, <3>2 DEF queueVars, LeftAlone
    <3>3. CASE queue[t] = "cv" /\ queue' = [queue EXCEPT ![t] = NULL] /\ token' = [token EXCEPT ![t] = Expired]
               /\ op' = NoOp
      <4>1. (\A u \in Threads \ {t} : token'[u] = token[u]) /\ ~(op'.pc = "unblock" /\ op'.q = q)
        BY Zenon, <1>1, <3>3 DEF NoOp
      <4>. QED  BY Zenon, <1>1, <2>1, <3>3, <4>1, BlockLeaves
    <3>. QED  BY Zenon, <3>1, <3>2, <3>3, SwitchEnds DEF KThrQueueCancel
  <2>. QED  BY Zenon, <2>2, <2>3
<1>. QED  BY Zenon, <1>3, <1>4, <1>5, <1>6

(* A step of the kernel that does not wake threads of q leaves q alone.    *)
LEMMA NextLeaves ==
  ASSUME IInv, [Next]_vars, NEW q \in {"sem", "mbox"}, ~(op.pc = "unblock" /\ op.q = q)
  PROVE  LeftAlone(q)
<1>1. CASE KernelStep \/ ThreadContinues
  BY Zenon, <1>1, QuietCallsLeave, BlockingCallsLeave, UnblockingLeaves DEF KernelStep, ThreadContinues
<1>2. CASE MutexCall \/ CondVarCall \/ UNCHANGED vars
  BY Zenon, <1>2, QuietCallsLeave
<1>3. CASE ThreadCall \/ Interrupt
  BY Zenon, <1>3, QuietCallsLeave, BlockingCallsLeave, UnblockingLeaves DEF ThreadCall, Interrupt
<1>. QED  BY Zenon, <1>1, <1>2, <1>3 DEF Next

(* While a kernel function wakes threads, only that function goes on.      *)
LEMMA OnlyUnblock ==
  ASSUME IInv, Next, op.pc = "unblock"
  PROVE  KThrQueueUnblockCommon
<1>1. ~ThreadContinues
  BY Zenon DEF ThreadContinues, ReturnToCaller, KMutexLockSlow, Relock, Resumed
<1>2. ~MutexCall
  BY Zenon DEF MutexCall, KMutexTryLock, KMutexLockContended, KMutexUnlock, InThread
<1>3. ~CondVarCall
  BY Zenon DEF CondVarCall, KCondVarWait, KCondVarSignal, KCondVarBroadcast, Calling, InThread
<1>4. ~ThreadCall
  BY Zenon DEF ThreadCall, KThreadPrepare, KThreadSetPrio, KThreadResume, KThreadSuspendLive, KThreadSuspend, KThreadJoin,
     KThreadYield, KThreadSleepTicks, KThreadExit, Calling, InThread
<1>5. ~Interrupt
  BY Zenon DEF Interrupt, IrqEnter, IrqReturn, TickTaskFires
<1>6. KernelStep => KThrQueueUnblockCommon
  BY Zenon DEF KernelStep, KThreadUpdateDynamicPrio, KThreadSetPrioTail, KMutexLockSwitch, KThreadRemoveWaiter,
     UpdateNextOwner, Given
<1>. QED  BY Zenon, <1>1, <1>2, <1>3, <1>4, <1>5, <1>6 DEF Next

(* One turn of a wake-up takes one waiter off the queue, or ends with      *)
(* none left to wake.                                                      *)
LEMMA UnblockTurn ==
  ASSUME IInv, KThrQueueUnblockCommon
  PROVE  /\ op.pc = "unblock" /\ UNCHANGED at
         /\ \/ /\ op.max # 0
               /\ op'.pc = "unblock" /\ op'.q = op.q /\ op'.ref = op.ref
               /\ op'.max = IF op.max > 0 THEN op.max - 1 ELSE op.max
               /\ \E t \in Threads :
                    /\ queue[t] = op.q /\ token[t] = op.ref
                    /\ queue' = [queue EXCEPT ![t] = NULL] /\ token' = [token EXCEPT ![t] = Woken]
            \/ /\ op.max = 0 \/ \A t \in Threads : ~(queue[t] = op.q /\ token[t] = op.ref)
               /\ UNCHANGED <<queue, token>> /\ op' = NoOp
<1>a. TypeOK /\ OpShape /\ QueueIntegrity
  BY Zenon DEF IInv
<1> DEFINE s   == links[op.q]
           hit == {i \in 1..Len(s) : token[s[i]] = op.ref}
           k   == Least(hit)
           t   == s[k]
<1>1. /\ op.pc = "unblock" /\ UNCHANGED at
      /\ op \in Ops /\ op.q \in Queues /\ links[op.q] \in Seq(Threads)
  BY Zenon, NoOpType, <1>a DEF KThrQueueUnblockCommon, OpShape, TypeOK
<1>2. \A u \in Threads : queue[u] = op.q <=> \E i \in 1..Len(s) : s[i] = u
  <2>1. \A u \in Threads : u \in Linked(s) <=> queue[u] = op.q
    BY Zenon, <1>1, <1>a DEF QueueIntegrity
  <2>2. \A u \in Threads : u \in Linked(s) <=> \E i \in 1..Len(s) : s[i] = u
    <3>1. s \in Seq(Threads)
      BY Zenon, <1>1
    <3> HIDE DEF s
    <3>. QED  BY <3>1 DEF Linked
  <2>. QED  BY Zenon, <2>1, <2>2
<1>3. CASE op.max # 0 /\ hit # {}
  <2>1. k \in hit
    <3>1. hit \in SUBSET Nat
      BY <1>1
    <3>. QED  BY Zenon, <1>3, <3>1, LeastIsMember
  <2>2. t \in Threads /\ queue[t] = op.q /\ token[t] = op.ref
    <3>1. k \in 1..Len(s) /\ token[s[k]] = op.ref /\ s \in Seq(Threads)
      BY Zenon, <1>1, <2>1
    <3> HIDE DEF s, k
    <3>2. s[k] \in Threads
      BY <3>1
    <3>. QED  BY Zenon, <1>2, <3>1, <3>2 DEF t
  <2>3. /\ queue' = [queue EXCEPT ![t] = NULL] /\ token' = [token EXCEPT ![t] = Woken]
        /\ op' = [op EXCEPT !.max = IF @ > 0 THEN @ - 1 ELSE @,
                            !.n   = IF @ = NULL /\ suspend[t] = 0 THEN t ELSE @]
    BY <1>3, Zenon DEF KThrQueueUnblockCommon
  <2> HIDE DEF t
  <2>4. /\ op'.pc = "unblock" /\ op'.q = op.q /\ op'.ref = op.ref
        /\ op'.max = IF op.max > 0 THEN op.max - 1 ELSE op.max
    BY Zenon, <1>1, <2>3 DEF Ops
  <2>. QED  BY Zenon, <1>1, <1>3, <2>2, <2>3, <2>4
<1>4. CASE ~(op.max # 0 /\ hit # {})
  <2>1. UNCHANGED <<queue, token>>
    BY <1>4, Zenon DEF KThrQueueUnblockCommon, queueVars
  <2>2. op' = NoOp
    BY <1>4, SwitchEnds, Zenon DEF KThrQueueUnblockCommon
  <2>3. op.max = 0 \/ \A u \in Threads : ~(queue[u] = op.q /\ token[u] = op.ref)
    BY Zenon, <1>2, <1>4
  <2>. QED  BY Zenon, <1>1, <2>1, <2>2, <2>3
<1>. QED  BY Zenon, <1>3, <1>4
=============================================================================
