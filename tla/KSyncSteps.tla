---------------------------- MODULE KSyncSteps ------------------------------
(***************************************************************************)
(* Every step of the kernel keeps the invariant IInv of KSync, one lemma   *)
(* per action: the calls that synchronise, start, stop and await threads,  *)
(* the interrupt handlers, then KMutexLock and the loops that update       *)
(* priorities, wake threads and hand mutexes over.                         *)
(***************************************************************************)
EXTENDS KSyncLemmas

(* The end of KThreadSetPrio.                                              *)
LEMMA SetPrioTailStep ==
  ASSUME IInv, KThreadSetPrioTail
  PROVE  IInv'
<1>a. OpShape /\ CpuShape
  BY Zenon DEF IInv
<1> DEFINE t == IF op.n = cur
                THEN IF prio[cur] > op.prio THEN KThreadFindRunnable(list, state) ELSE NULL
                ELSE IF state[op.n] = "RUNNING" THEN op.n ELSE NULL
<1>1. /\ UNCHANGED <<threadVars, queueVars, owner, armed, at>> /\ KThreadReschedule(t)
      /\ op.pc = "setprio"
  BY Zenon DEF KThreadSetPrioTail
<1>2. ~Handing /\ ~Bumping /\ op.n \in Threads
  BY Zenon, <1>a, <1>1 DEF Handing, Bumping, Setting, OpShape
<1>3. t \in Threads \cup {NULL} /\ (t # NULL => state[t] = "RUNNING")
  BY Zenon, <1>2, IdleFacts
<1>4. at[cur].pc # "exit"
  BY Zenon, <1>a, <1>1 DEF CpuShape
<1>. QED  BY Zenon, <1>2, <1>3, <1>4, RescheduleStep, <1>1

(* KThreadYield finds a thread to pass the processor to.                   *)
LEMMA YieldStep ==
  ASSUME IInv, KThreadYield
  PROVE  IInv'
<1>a. TypeOK /\ AtShape /\ CpuShape
  BY Zenon DEF IInv
<1> DEFINE after == KThreadFindRunnable(Following(cur), state)
           t     == IF after = NULL \/ prio[after] > prio[cur]
                    THEN KThreadFindRunnable(list, state) ELSE after
<1>1. /\ UNCHANGED <<threadVars, queueVars, owner, armed, at>>
      /\ op.pc = "none" /\ t # cur /\ KThreadSwitchTo(t)
      /\ at[cur].pc \in {"user", "slow"} /\ (excpt \/ at[cur].pc = "user")
  BY Zenon, <1>a DEF KThreadYield, Calling, InThread, threadVars, CpuShape
<1>2. /\ cur \in Threads /\ nextCtx \in Threads \cup {NULL} /\ list \in Seq(Threads)
      /\ ~Handing /\ ~Bumping /\ state[cur] \in Live
  <2>1. /\ cur \in Threads /\ nextCtx \in Threads \cup {NULL} /\ list \in Seq(Threads)
        /\ state[cur] \in States
    BY Zenon, <1>a DEF TypeOK
  <2>2. state[cur] # "UNINIT" /\ state[cur] # "FINISHED"
    BY Zenon, <2>1, <1>a, <1>1 DEF AtShape, CpuShape
  <2>. QED  BY Zenon, <2>1, <2>2, <1>1 DEF Bumping, Handing, Live, States
<1>5. Following(cur) \in Seq(Threads)
  BY Zenon, FollowingType, <1>2
<1>6. t \in Threads /\ state[t] = "RUNNING"
  BY Zenon, <1>5, FindRunnableType, IdleFacts
<1>7. /\ excpt' = excpt /\ op' = NoOp
      /\ \/ ~excpt /\ cur' = t /\ nextCtx' = nextCtx
         \/ excpt /\ cur' = cur /\ nextCtx' \in {t, nextCtx} /\ (nextCtx = NULL => nextCtx' = t)
  BY Zenon, <1>1 DEF KThreadSwitchTo
<1>8. CpuShape'
  <2>1. at[t].pc # "exit" /\ UNCHANGED <<state, at>>
    BY Zenon, <1>a, <1>1, <1>6 DEF AtShape, threadVars
  <2>2. ~Bumping' /\ op'.pc = "none"
    BY Zenon, <1>7 DEF Bumping, NoOp
  <2>. QED  BY Zenon, <2>1, <2>2, <1>a, ConstantFacts, <1>1, <1>6, <1>7 DEF CpuShape
<1>. QED  BY Zenon, <1>8, SwitchStep, <1>1, <1>2, <1>6, <1>7

(* KMutexLock passes the processor to the bumped owner or another.         *)
LEMMA LockSwitchStep ==
  ASSUME IInv, KMutexLockSwitch
  PROVE  IInv'
<1>a. OpShape /\ AtShape /\ CpuShape
  BY Zenon DEF IInv
<1> DEFINE t == IF state[owner[op.m]] = "RUNNING" THEN owner[op.m]
                ELSE KThreadFindRunnable(list, state)
<1>1. /\ UNCHANGED <<threadVars, queueVars, owner, armed, at>>
      /\ op.pc = "bumped" /\ KThreadSwitchTo(t)
  BY Zenon DEF KMutexLockSwitch
<1>2. Bumping /\ ~Handing
  BY Zenon, <1>1 DEF Bumping, Handing
<1>3. owner[op.m] \in Threads /\ ~excpt /\ nextCtx = NULL
  BY Zenon, <1>2, <1>a DEF OpShape, CpuShape
<1>4. t \in Threads /\ state[t] = "RUNNING"
  BY Zenon, IdleFacts, <1>3
<1>5. cur' = t /\ nextCtx' = NULL /\ excpt' = excpt /\ op' = NoOp
  BY Zenon, <1>1, <1>3 DEF KThreadSwitchTo
<1>6. CpuShape'
  <2>1. at[t].pc # "exit" /\ UNCHANGED <<state, at>>
    BY Zenon, <1>a, <1>1, <1>4 DEF AtShape, threadVars
  <2>. QED  BY Zenon, <1>5, <2>1, <1>3, <1>4 DEF CpuShape
<1>. QED  BY Zenon, <1>2, <1>5, <1>6, SwitchStep, <1>1, <1>4

(* KMutexTryLock, and the fast path of KMutexLock.                         *)
LEMMA TryLockStep ==
  ASSUME IInv, NEW m \in Mutexes, KMutexTryLock(m)
  PROVE  IInv'
<1>a. /\ TypeOK /\ OpShape /\ AtShape /\ OwnerShape /\ IdleReady /\ CpuShape
      /\ QueueIntegrity /\ StatesMatchQueues
      /\ WaiterShape /\ LockShape /\ JoinShape /\ TimerShape
  BY Zenon DEF IInv
<1>1. ~Handing /\ ~Handing' /\ ~Bumping /\ ~Bumping' /\ ~Setting'
  BY Zenon DEF Handing, Bumping, Setting, KMutexTryLock, InThread
<1>2. TypeOK'
  BY Zenon, <1>a DEF TypeOK, KMutexTryLock, Acquire, threadVars, queueVars, cpuVars
<1>3. OpShape'
  BY Zenon, <1>1 DEF OpShape, KMutexTryLock, InThread
<1>4. AtShape'
  BY Zenon, <1>a DEF AtShape, KMutexTryLock, threadVars
<1>5. IdleReady'
  BY Zenon, <1>a DEF IdleReady, KMutexTryLock, threadVars
<1>6. CpuShape'
  BY Zenon, <1>a, <1>1 DEF CpuShape, KMutexTryLock, threadVars, cpuVars
<1>7. QueueIntegrity'
  BY <1>a DEF QueueIntegrity, Distinct, Linked, KMutexTryLock, threadVars, queueVars
<1>8. StatesMatchQueues'
  BY Zenon, <1>a DEF StatesMatchQueues, KMutexTryLock, threadVars, queueVars
<1>9. WaiterShape'
  BY Zenon, ConstantFacts, <1>a, <1>1 DEF WaiterShape, TypeOK, StatesMatchQueues, KMutexTryLock,
     Acquire, threadVars, queueVars
<1>10. LockShape'
  BY Zenon, ConstantFacts, <1>a, <1>1 DEF LockShape, TypeOK, AtShape, KMutexTryLock, Acquire,
     threadVars
<1>11. JoinShape'
  BY Zenon, <1>a DEF JoinShape, KMutexTryLock, threadVars, queueVars
<1>12. TimerShape'
  BY Zenon, <1>a DEF TimerShape, KMutexTryLock, queueVars
<1>13. OwnerShape'
  BY Zenon, <1>a, <1>1 DEF OwnerShape, TypeOK, CpuShape, Live, KMutexTryLock, InThread, Acquire, threadVars
<1>. QED
  BY Zenon, <1>2, <1>3, <1>4, <1>5, <1>6, <1>7, <1>8, <1>9, <1>10, <1>11, <1>12, <1>13 DEF IInv

(* KMutexLock finds the mutex taken.                                       *)
LEMMA ContendedStep ==
  ASSUME IInv, NEW m \in Mutexes, KMutexLockContended(m)
  PROVE  IInv'
<1>a. TypeOK /\ TimerShape
  BY Zenon DEF IInv
<1> DEFINE w == [pc |-> "slow", m |-> m, x |-> NULL]
<1>1. /\ op.pc = "none" /\ ~excpt /\ at[cur].pc = "user" /\ cur # IdleThread
      /\ UNCHANGED <<list, state, suspend, prio, baseprio, queueVars, owner, cpuVars, armed, op>>
      /\ at' = [at EXCEPT ![cur] = w]
  BY Zenon DEF KMutexLockContended, InThread, threadVars
<1>2. op' \in Ops /\ ~Handing' /\ w \in Places /\ cur \notin armed
  BY ZenonT(30), <1>a, <1>1 DEF TypeOK, Handing, Places, TimerShape
<1>3. OpShape'
  BY Zenon, <1>1 DEF OpShape, Handing, Bumping, Setting
<1>. QED  BY ZenonT(30), <1>2, <1>3, PlaceStep, <1>1

(* A hand-over begins.                                                     *)
LEMMA HandoverFacts ==
  ASSUME IInv, InThread, NEW m \in Mutexes, owner[m] = cur, StartHandover(m),
         UNCHANGED <<threadVars, queueVars, owner, cpuVars, armed>>, at'[cur].pc \in {"user", "cv", "cvt"}
  PROVE  /\ op' \in Ops /\ op'.pc = "handover" /\ op'.n = NULL /\ OpShape' /\ ~Handing /\ ~Bumping'
         /\ cur \in Threads /\ state[cur] = "RUNNING"
<1>a. TypeOK /\ CpuShape
  BY Zenon DEF IInv
<1>1. /\ op'.pc = "handover" /\ op'.m = m /\ op'.n = NULL /\ ~Handing /\ ~Bumping /\ ~Bumping' /\ ~Setting'
  BY Zenon DEF Handing, Bumping, Setting, StartHandover, NoOp, InThread
<1>2. state[cur] = "RUNNING" /\ cur \in Threads /\ prio[cur] \in 0..(MinPrio + 1)
  BY Zenon, <1>1, <1>a DEF CpuShape, TypeOK, InThread
<1>3. op' \in Ops
  BY Zenon, <1>2, NoOpType DEF Ops, StartHandover
<1>4. OpShape'
  BY Zenon, <1>1, <1>2, ConstantFacts DEF OpShape, InThread, threadVars, cpuVars
<1>. QED  BY Zenon, <1>1, <1>2, <1>3, <1>4

(* KMutexUnlock starts a hand-over.                                        *)
LEMMA UnlockStep ==
  ASSUME IInv, NEW m \in Mutexes, KMutexUnlock(m)
  PROVE  IInv'
<1>a. TypeOK /\ CpuShape
  BY Zenon DEF IInv
<1>1. /\ InThread /\ owner[m] = cur /\ StartHandover(m) /\ at[cur].pc = "user"
      /\ UNCHANGED <<list, state, suspend, prio, baseprio, queueVars, owner, cur, excpt, nextCtx, armed, at>>
  BY Zenon DEF KMutexUnlock, InThread, threadVars, cpuVars
<1>2. /\ op' \in Ops /\ op'.pc = "handover" /\ op'.n = NULL /\ OpShape' /\ ~Handing /\ ~Bumping'
      /\ cur \in Threads /\ state[cur] = "RUNNING"
  BY Zenon, HandoverFacts, <1>1 DEF threadVars, cpuVars
<1>3. CpuShape'
  BY Zenon, <1>2, <1>a, <1>1 DEF CpuShape
<1>4. baseprio' \in [Threads -> 0..(MinPrio + 1)] /\ excpt' \in BOOLEAN /\ nextCtx' \in Threads \cup {NULL}
  BY Zenon, <1>a, <1>1 DEF TypeOK
<1>. QED  BY Zenon, <1>2, <1>3, <1>4, CallStep, <1>1

(* A condition wait starts a hand-over.                                    *)
LEMMA CondVarWaitStep ==
  ASSUME IInv, NEW c \in CondVars, NEW m \in Mutexes, NEW kind \in {"cv", "cvt"}, KCondVarWait(c, m, kind)
  PROVE  IInv'
<1>a. TypeOK /\ TimerShape
  BY Zenon DEF IInv
<1> DEFINE w == [pc |-> kind, m |-> m, x |-> c]
<1>1. /\ InThread /\ owner[m] = cur /\ StartHandover(m) /\ at' = [at EXCEPT ![cur] = w]
      /\ UNCHANGED <<list, state, suspend, prio, baseprio, queueVars, owner, cpuVars, armed>>
      /\ op.pc = "none" /\ ~excpt /\ at[cur].pc = "user" /\ cur # IdleThread
  BY Zenon DEF KCondVarWait, InThread, threadVars
<1>2. w \in Places /\ cur \notin armed /\ at'[cur].pc = kind
  BY ZenonT(30), <1>a, <1>1 DEF TypeOK, Places, TimerShape
<1>3. op' \in Ops /\ op'.pc = "handover" /\ op'.n = NULL /\ OpShape'
  BY Zenon, <1>2, HandoverFacts, <1>1 DEF threadVars
<1>. QED  BY ZenonT(30), <1>2, <1>3, PlaceStep, <1>1

(* KThreadRemoveWaiter turns to the next owner's priority.                 *)
LEMMA UpdateNextOwnerStep ==
  ASSUME IInv, UpdateNextOwner
  PROVE  IInv'
<1>a. /\ TypeOK /\ OpShape /\ AtShape /\ OwnerShape /\ IdleReady /\ CpuShape
      /\ QueueIntegrity /\ StatesMatchQueues
      /\ WaiterShape /\ LockShape /\ JoinShape /\ TimerShape
  BY Zenon DEF IInv
<1>1. /\ Handing /\ Handing' /\ ~Bumping /\ ~Bumping' /\ ~Setting'
      /\ op'.pc = "update" /\ op'.ret = "given" /\ op'.m = op.m /\ op'.n = op.n /\ op'.t = op.n
  BY DEF Handing, Bumping, Setting, TypeOK, Ops, UpdateNextOwner
<1>2. TypeOK'
  <2>1. op' \in Ops
    BY Zenon, <1>a DEF TypeOK, Ops, OpShape, Handing, UpdateNextOwner
  <2>. QED  BY Zenon, <2>1, <1>a DEF TypeOK, UpdateNextOwner, threadVars, queueVars, cpuVars
<1>3. OpShape'
  BY Zenon, <1>a, <1>1 DEF OpShape, UpdateNextOwner, threadVars, cpuVars
<1>4. AtShape'
  BY Zenon, <1>a DEF AtShape, UpdateNextOwner, threadVars
<1>5. IdleReady'
  BY Zenon, <1>a DEF IdleReady, UpdateNextOwner, threadVars
<1>6. CpuShape'
  BY Zenon, <1>a, <1>1 DEF CpuShape, UpdateNextOwner, threadVars, cpuVars
<1>7. QueueIntegrity'
  BY <1>a DEF QueueIntegrity, Distinct, Linked, UpdateNextOwner, threadVars, queueVars
<1>8. StatesMatchQueues'
  BY Zenon, <1>a DEF StatesMatchQueues, UpdateNextOwner, threadVars, queueVars
<1>9. WaiterShape'
  BY <1>a, <1>1 DEF WaiterShape, UpdateNextOwner, threadVars, queueVars
<1>10. LockShape'
  BY Zenon, <1>a, <1>1 DEF LockShape, UpdateNextOwner, threadVars
<1>11. JoinShape'
  BY Zenon, <1>a DEF JoinShape, UpdateNextOwner, threadVars, queueVars
<1>12. TimerShape'
  BY Zenon, <1>a DEF TimerShape, UpdateNextOwner, queueVars
<1>13. OwnerShape'
  BY Zenon, ConstantFacts, <1>a, <1>1 DEF OwnerShape, OpShape, UpdateNextOwner, threadVars
<1>. QED
  BY Zenon, <1>2, <1>3, <1>4, <1>5, <1>6, <1>7, <1>8, <1>9, <1>10, <1>11, <1>12, <1>13 DEF IInv

(* A call starts to wake one or all of the threads that wait for ref.      *)
LEMMA WakeStep ==
  ASSUME IInv, Calling, NEW q \in {"cv", "sem", "mbox"}, NEW ref \in Tokens, NEW max \in {-1, 1},
         KThrQueueUnblock(q, ref, max),
         UNCHANGED <<threadVars, queueVars, owner, cpuVars, armed, at>>
  PROVE  IInv'
<1>a. TypeOK /\ CpuShape
  BY Zenon DEF IInv
<1>1. /\ ~Handing /\ ~Bumping /\ ~Handing' /\ ~Bumping' /\ ~Setting'
      /\ op'.pc = "unblock" /\ op'.q = q /\ op'.n = NULL
  BY Zenon DEF Calling, InThread, KThrQueueUnblock, Handing, Bumping, Setting, NoOp
<1>2. op' \in Ops
  <2>1. q \in Queues
    BY Zenon, NoOpType DEF Static
  <2>. QED  BY Zenon, <2>1, NoOpType DEF Ops, KThrQueueUnblock
<1>3. OpShape'
  BY Zenon, <1>1 DEF OpShape, Static
<1>4. CpuShape'
  BY Zenon, <1>1, <1>a DEF CpuShape, threadVars, cpuVars
<1>5. /\ baseprio' \in [Threads -> 0..(MinPrio + 1)] /\ cur' \in Threads /\ excpt' \in BOOLEAN
      /\ nextCtx' \in Threads \cup {NULL}
  BY Zenon, <1>a DEF TypeOK, threadVars, cpuVars
<1>. QED  BY Zenon, <1>1, <1>2, <1>3, <1>4, <1>5, CallStep DEF threadVars

(* KCondVarSignal starts to wake one waiter, KCondVarBroadcast all.        *)
LEMMA SignalStep ==
  ASSUME IInv, NEW c \in CondVars, KCondVarSignal(c)
  PROVE  IInv'
BY Zenon, WakeStep, NoOpType DEF KCondVarSignal

(* KCondVarBroadcast.                                                      *)
LEMMA BroadcastStep ==
  ASSUME IInv, NEW c \in CondVars, KCondVarBroadcast(c)
  PROVE  IInv'
BY Zenon, WakeStep, NoOpType DEF KCondVarBroadcast

(* KThreadSetPrio starts to update priorities.                             *)
LEMMA SetPrioStep ==
  ASSUME IInv, NEW t \in Users, NEW p \in 0..MinPrio, KThreadSetPrio(t, p)
  PROVE  IInv'
<1>a. TypeOK /\ CpuShape
  BY Zenon DEF IInv
<1>1. /\ op.pc = "none" /\ state[t] \in Live /\ baseprio' = [baseprio EXCEPT ![t] = p] /\ t \in Threads
      /\ op' = [NoOp EXCEPT !.pc = "update", !.t = t, !.n = t, !.prio = prio[cur], !.ret = "setprio"]
      /\ UNCHANGED <<list, state, suspend, prio, queueVars, owner, cur, excpt, nextCtx, armed, at>>
  BY Zenon DEF KThreadSetPrio, Calling, InThread, Users, cpuVars
<1>2. /\ ~Handing /\ ~Bumping /\ ~Handing' /\ ~Bumping'
      /\ op'.pc = "update" /\ op'.ret = "setprio" /\ op'.n = t /\ op'.t = t
  BY Zenon, <1>1 DEF Handing, Bumping, NoOp
<1>3. /\ prio[cur] \in 0..(MinPrio + 1) /\ cur \in Threads /\ excpt \in BOOLEAN /\ nextCtx \in Threads \cup {NULL}
      /\ baseprio \in [Threads -> 0..(MinPrio + 1)] /\ p \in 0..(MinPrio + 1)
  BY KThreadAssumption, <1>a DEF TypeOK
<1>4. op' \in Ops /\ baseprio' \in [Threads -> 0..(MinPrio + 1)]
  BY Zenon, <1>1, <1>3, NoOpType DEF Ops
<1>5. OpShape'
  BY Zenon, <1>1, <1>2 DEF OpShape
<1>6. CpuShape'
  BY Zenon, <1>1, <1>2, <1>a DEF CpuShape
<1>. QED  BY Zenon, <1>1, <1>2, <1>3, <1>4, <1>5, <1>6, CallStep

(* An interrupt is taken, or returns to the next context.                  *)
LEMMA IrqStep ==
  ASSUME IInv, IrqEnter \/ IrqReturn
  PROVE  IInv'
<1>a. TypeOK /\ AtShape /\ CpuShape
  BY Zenon DEF IInv
<1>1. /\ op.pc = "none" /\ UNCHANGED <<list, state, suspend, prio, baseprio, queueVars, owner, armed, at, op>>
      /\ ~Handing /\ ~Bumping /\ ~Setting /\ ~Handing' /\ ~Bumping' /\ ~Setting'
  BY Zenon DEF IrqEnter, IrqReturn, threadVars, Handing, Bumping, Setting
<1>2. /\ baseprio \in [Threads -> 0..(MinPrio + 1)] /\ cur \in Threads /\ nextCtx \in Threads \cup {NULL} /\ op \in Ops
  BY Zenon, <1>a DEF TypeOK
<1>3. /\ cur' \in Threads /\ nextCtx' \in Threads \cup {NULL} /\ excpt' \in BOOLEAN
  BY ZenonT(30), <1>2 DEF IrqEnter, IrqReturn
<1>4. OpShape'
  BY Zenon, <1>1 DEF OpShape
<1>5. CpuShape'
  BY Zenon, <1>a, <1>1, <1>2 DEF IrqEnter, IrqReturn, CpuShape, AtShape
<1>. QED  BY Zenon, <1>3, <1>4, <1>5, CallStep, <1>1, <1>2

(* A thread that was blocked goes back to its own code.                    *)
LEMMA ResumedStep ==
  ASSUME IInv, Resumed({"join", "sleep", "lock", "sem", "recv"}), at' = [at EXCEPT ![cur] = User],
         UNCHANGED <<threadVars, queueVars, owner, cpuVars, armed, op>>
  PROVE  IInv'
<1>a. TypeOK /\ CpuShape /\ StatesMatchQueues /\ TimerShape
  BY Zenon DEF IInv
<1>1. /\ op.pc = "none" /\ ~excpt /\ at[cur].pc \in {"join", "sleep", "lock", "sem", "recv"}
      /\ ~Handing' /\ ~Bumping' /\ ~Setting' /\ ~Bumping
  BY Zenon DEF Resumed, Handing, Bumping, Setting
<1>2. cur \in Threads /\ state[cur] = "RUNNING" /\ op' \in Ops
  BY Zenon, <1>a, <1>1 DEF CpuShape, TypeOK
<1>3. cur \notin armed
  <2>1. queue[cur] = NULL /\ NULL # "sleep"
    BY Zenon, <1>2, <1>a, ConstantFacts DEF StatesMatchQueues, Static
  <2>. QED  BY Zenon, <2>1, <1>a, <1>1 DEF TimerShape
<1>4. OpShape'
  BY Zenon, <1>1 DEF OpShape
<1>5. User \in Places /\ User.pc = "user"
  BY Zenon DEF User, Places
<1>. QED  BY ZenonT(30), <1>2, <1>3, <1>4, <1>5, PlaceStep, <1>1 DEF threadVars

(* A blocked call returns to its caller.                                   *)
LEMMA ReturnStep ==
  ASSUME IInv, ReturnToCaller
  PROVE  IInv'
BY Zenon, ResumedStep DEF ReturnToCaller, Resumed

(* KThreadPrepare enters a new, suspended thread into the list.            *)
LEMMA PrepareStep ==
  ASSUME IInv, NEW t \in Users, NEW p \in 0..MinPrio, KThreadPrepare(t, p)
  PROVE  IInv'
<1>a. /\ TypeOK /\ OpShape /\ AtShape /\ OwnerShape /\ IdleReady /\ CpuShape
      /\ QueueIntegrity /\ StatesMatchQueues
      /\ WaiterShape /\ LockShape /\ JoinShape /\ TimerShape
  BY Zenon DEF IInv
<1>1. ~Handing /\ ~Handing' /\ ~Bumping /\ ~Bumping' /\ ~Setting' /\ op'.pc = "none"
  BY Zenon DEF Handing, Bumping, Setting, KThreadPrepare, InThread
<1>2. /\ t \in Threads /\ state[t] = "UNINIT" /\ state[cur] = "RUNNING" /\ t # cur
      /\ t # IdleThread
  BY Zenon, <1>a DEF CpuShape, TypeOK, Bumping, Users, KThreadPrepare, InThread
<1>3. p \in 0..(MinPrio + 1) /\ 1 \in 0..MaxSuspend
  BY KThreadAssumption
<1>4. list \in Seq(Threads) /\ t \notin Linked(list) /\ Distinct(list)
  BY Zenon, <1>a, <1>2 DEF TypeOK, QueueIntegrity, Live
<1>5. /\ list' \in Seq(Threads) /\ Linked(list') = Linked(list) \cup {t} /\ Distinct(list')
  BY Zenon, <1>4, InsertFacts, <1>2 DEF KThreadPrepare
<1>6. TypeOK'
  BY Zenon, <1>3, <1>a, <1>5 DEF TypeOK, States, Live, KThreadPrepare, queueVars, cpuVars
<1>7. OpShape'
  BY Zenon, <1>1 DEF OpShape
<1>8. AtShape'
  BY Zenon, <1>a DEF AtShape, TypeOK, KThreadPrepare
<1>9. IdleReady'
  BY <1>a DEF IdleReady, TypeOK, KThreadPrepare
<1>10. CpuShape'
  BY Zenon, <1>a, <1>2 DEF CpuShape, TypeOK, KThreadPrepare, cpuVars
<1>11. QueueIntegrity'
  <2>1. \A u \in Threads : u \in Linked(list') <=> state'[u] \in Live
    <3>1. state'[t] = "WAITING" /\ \A u \in Threads \ {t} : state'[u] = state[u]
      BY Zenon, <1>a, <1>2 DEF TypeOK, KThreadPrepare
    <3>2. "WAITING" \in Live
      BY Zenon DEF Live
    <3>3. \A u \in Threads : u \in Linked(list) <=> state[u] \in Live
      BY Zenon, <1>a DEF QueueIntegrity
    <3>. QED  BY Zenon, <3>1, <3>2, <3>3, <1>5
  <2>. QED  BY Zenon, <2>1, <1>a, <1>5 DEF QueueIntegrity, KThreadPrepare, queueVars
<1>12. StatesMatchQueues'
  <2>1. queue[t] = NULL /\ suspend'[t] = 1 /\ state'[t] = "WAITING"
    BY Zenon, <1>a, <1>2 DEF StatesMatchQueues, TypeOK, KThreadPrepare
  <2>2. \A u \in Threads \ {t} : state'[u] = state[u] /\ suspend'[u] = suspend[u]
    BY DEF TypeOK, KThreadPrepare
  <2>. QED  BY <2>1, <2>2, <1>a DEF StatesMatchQueues, KThreadPrepare, queueVars
<1>13. WaiterShape'
  BY Zenon, <1>a, <1>1 DEF WaiterShape, TypeOK, KThreadPrepare, queueVars
<1>14. LockShape'
  BY Zenon, <1>a, <1>1 DEF LockShape, TypeOK, AtShape, User, KThreadPrepare
<1>15. JoinShape'
  BY Zenon, <1>a DEF JoinShape, TypeOK, KThreadPrepare, queueVars
<1>16. TimerShape'
  BY Zenon, <1>a DEF TimerShape, KThreadPrepare, queueVars
<1>17. OwnerShape'
  BY Zenon, <1>a, <1>1 DEF OwnerShape, TypeOK, Live, KThreadPrepare
<1>. QED
  BY <1>17, <1>6, <1>7, <1>8, <1>9, <1>10, <1>11, <1>12, <1>13, <1>14, <1>15, <1>16 DEF IInv

(* A call that changes no more than one live thread's state and suspension *)
(* count, and what has the processor.                                      *)
LEMMA StateStep ==
  ASSUME IInv, op.pc = "none", NEW t \in Threads, t # IdleThread, NEW x \in Live,
         state[t] \in Live, state' = [state EXCEPT ![t] = x],
         x = "WAITING_MUTEX" <=> state[t] = "WAITING_MUTEX",
         suspend' \in [Threads -> 0..MaxSuspend],
         \A u \in Threads \ {t} : suspend'[u] = suspend[u],
         UNCHANGED <<list, prio, baseprio, queue, token, links, owner, armed, at>>,
         op'.pc = "none", op' \in Ops, cur' \in Threads,
         nextCtx' \in Threads \cup {NULL}, excpt' \in BOOLEAN, CpuShape', StatesMatchQueues'
  PROVE  IInv'
<1>a. /\ TypeOK /\ AtShape /\ OwnerShape /\ IdleReady /\ QueueIntegrity
      /\ WaiterShape /\ LockShape /\ JoinShape /\ TimerShape
  BY Zenon DEF IInv
<1>1. ~Handing /\ ~Bumping /\ ~Setting /\ ~Handing' /\ ~Bumping' /\ ~Setting'
  BY Zenon DEF Handing, Bumping, Setting
<1>2. /\ state \in [Threads -> States] /\ state' \in [Threads -> States] /\ state'[t] = x
      /\ \A u \in Threads \ {t} : state'[u] = state[u]
  <2>1. state \in [Threads -> States] /\ x \in States
    BY Zenon, <1>a DEF TypeOK, States
  <2>. QED  BY Zenon, <2>1
<1>3. \A u \in Threads : /\ state'[u] \in Live <=> state[u] \in Live
                         /\ state'[u] = "WAITING_MUTEX" <=> state[u] = "WAITING_MUTEX"
                         /\ state[u] \notin Live => state'[u] = state[u] /\ suspend'[u] = suspend[u]
  OBVIOUS
<1>4. TypeOK'
  BY Zenon, <1>a, <1>2 DEF TypeOK
<1>5. OpShape'
  BY Zenon, <1>1 DEF OpShape
<1>6. AtShape'
  BY <1>a DEF AtShape, Live
<1>7. IdleReady'
  BY ConstantFacts, <1>a DEF IdleReady
<1>8. QueueIntegrity'
  BY <1>a DEF QueueIntegrity
<1>9. WaiterShape' /\ LockShape'
  BY <1>a, <1>1 DEF WaiterShape, LockShape
<1>10. JoinShape'
  BY <1>a DEF JoinShape, Live
<1>11. TimerShape'
  BY Zenon, <1>a DEF TimerShape
<1>12. OwnerShape'
  <2>1. \A m \in Mutexes : owner[m] \in Threads \cup {NULL}
    BY Zenon, <1>a DEF TypeOK
  <2>. QED  BY <2>1, <1>a, <1>1 DEF OwnerShape
<1>. QED
  BY Zenon, <1>4, <1>5, <1>6, <1>7, <1>8, <1>9, <1>10, <1>11, <1>12 DEF IInv

(* KThreadResume makes a thread runnable only if it waits for nothing.     *)
LEMMA ResumeStep ==
  ASSUME IInv, NEW t \in Users, KThreadResume(t)
  PROVE  IInv'
<1>a. TypeOK /\ AtShape /\ CpuShape /\ StatesMatchQueues
  BY Zenon DEF IInv
<1>0. /\ op.pc = "none" /\ t \in Threads /\ t # IdleThread /\ suspend[t] \in Nat
      /\ suspend[t] > 0 /\ suspend' = [suspend EXCEPT ![t] = @ - 1]
      /\ UNCHANGED <<list, prio, baseprio, queue, token, links, owner, armed, at>>
  BY <1>a DEF KThreadResume, Calling, InThread, Users, TypeOK, queueVars
<1>1. ~Handing /\ ~Bumping /\ ~Setting
  BY Zenon, <1>0 DEF Handing, Bumping, Setting
<1>2. state[t] \in {"WAITING", "WAITING_MUTEX"}
  <2>1. state[t] \in States
    BY Zenon, <1>a, <1>0 DEF TypeOK
  <2>2. state[t] # "RUNNING" /\ state[t] \notin {"UNINIT", "FINISHED"}
    BY <1>a, <1>0 DEF AtShape, StatesMatchQueues
  <2>. QED  BY Zenon, <2>1, <2>2 DEF States, Live
<1>3. /\ suspend' \in [Threads -> 0..MaxSuspend] /\ suspend'[t] = suspend[t] - 1
      /\ \A u \in Threads \ {t} : suspend'[u] = suspend[u]
  <2>1. suspend \in [Threads -> 0..MaxSuspend] /\ MaxSuspend \in Nat
    BY Zenon, KThreadAssumption, <1>a DEF TypeOK
  <2>2. suspend[t] - 1 \in 0..MaxSuspend
    BY <2>1, <1>0
  <2>. QED  BY Zenon, <2>1, <2>2, <1>0
<1>4. state[t] \in Live
  BY Zenon, <1>2 DEF Live
<1>5. state \in [Threads -> States] /\ op \in Ops
      /\ cur \in Threads /\ nextCtx \in Threads \cup {NULL} /\ excpt \in BOOLEAN
  BY Zenon, <1>a DEF TypeOK
<1>6. CASE suspend[t] > 1 \/ queue[t] # NULL
  <2>1. UNCHANGED <<state, cpuVars, op>>
    BY Zenon, <1>6 DEF KThreadResume, StaysBlocked
  <2>2. state' = [state EXCEPT ![t] = state[t]]
    BY Zenon, <2>1, <1>5
  <2>3. StatesMatchQueues'
    BY <1>2, <1>3, <1>6, <2>1, <1>a, <1>0 DEF StatesMatchQueues
  <2>4. CpuShape'
    BY Zenon, <1>1, <2>1, <1>a, <1>0 DEF CpuShape, Bumping, cpuVars
  <2>. QED  BY Zenon, <1>3, <1>4, <2>1, <2>2, <2>3, <2>4, StateStep, <1>0, <1>5 DEF cpuVars
<1>7. CASE ~(suspend[t] > 1 \/ queue[t] # NULL)
  <2>1. state[t] = "WAITING" /\ suspend[t] = 1 /\ queue[t] = NULL
    BY <1>2, <1>7, ConstantFacts, <1>a, <1>0 DEF StatesMatchQueues
  <2>2. /\ state' = [state EXCEPT ![t] = "RUNNING"] /\ state'[t] = "RUNNING"
        /\ \A u \in Threads \ {t} : state'[u] = state[u]
    <3>1. state' = [state EXCEPT ![t] = "RUNNING"]
      BY Zenon, <1>7 DEF KThreadResume, StaysBlocked
    <3>. QED  BY Zenon, <3>1, <1>0, <1>5
  <2>3. /\ op'.pc = "none" /\ op' \in Ops /\ excpt' = excpt
        /\ \/ cur' = cur /\ nextCtx' = nextCtx
           \/ t # cur /\ ~excpt /\ cur' = t /\ nextCtx' = nextCtx
           \/ t # cur /\ excpt /\ cur' = cur /\ nextCtx' = t
           \/ t = cur /\ cur' = cur /\ nextCtx' = NULL
    <3>1. CASE t # cur
      <4>1. KThreadReschedule(t)
        BY Zenon, <1>7, <3>1 DEF KThreadResume, StaysBlocked
      <4>2. prio' \in [Threads -> Int]
        BY <1>a, <1>0 DEF TypeOK
      <4>. QED  BY <3>1, <4>1, <4>2, RescheduleFacts, NoOpType, <1>0, <1>5 DEF NoOp
    <3>2. CASE t = cur
      BY Zenon, <1>7, <3>2, <1>0, <1>5 DEF KThreadResume, StaysBlocked
    <3>. QED  BY Zenon, <3>1, <3>2
  <2>4. cur' \in Threads /\ nextCtx' \in Threads \cup {NULL} /\ excpt' \in BOOLEAN
    BY Zenon, <2>3, <1>0, <1>5
  <2>5. CpuShape'
    <3>1. at[t].pc # "exit"
      BY Zenon, <2>1, <1>a, <1>0 DEF AtShape
    <3>2. at[cur].pc # "exit"
      BY Zenon, <1>a, <1>0 DEF CpuShape
    <3>3. ~Bumping'
      BY Zenon, <2>3 DEF Bumping
    <3>. QED  BY <1>1, <2>1, <2>2, <2>3, <3>1, <3>2, <3>3, ConstantFacts, <1>a, <1>0 DEF CpuShape
  <2>6. StatesMatchQueues'
    BY <1>3, <2>1, <2>2, <1>a, <1>0 DEF StatesMatchQueues
  <2>7. "RUNNING" \in Live
    BY Zenon DEF Live
  <2>. QED  BY Zenon, <1>3, <1>4, <2>1, <2>2, <2>3, <2>4, <2>5, <2>6, <2>7, StateStep, <1>0 DEF
       cpuVars
<1>. QED  BY Zenon, <1>6, <1>7

(* KThreadSuspend stops a thread and repairs the choice of next context.   *)
LEMMA SuspendStep ==
  ASSUME IInv, NEW t \in Users, KThreadSuspendLive(t)
  PROVE  IInv'
<1>a. TypeOK /\ AtShape /\ CpuShape /\ StatesMatchQueues
  BY Zenon DEF IInv
<1>0. /\ op.pc = "none" /\ t \in Threads /\ t # IdleThread /\ state[t] \in Live
      /\ suspend[t] \in Nat /\ suspend[t] < MaxSuspend
      /\ suspend' = [suspend EXCEPT ![t] = @ + 1]
      /\ UNCHANGED <<list, prio, baseprio, token, links, owner, armed, at>>
  BY <1>a DEF KThreadSuspendLive, KThreadSuspend, Calling, InThread, Users, TypeOK
<1>1. ~Handing /\ ~Bumping /\ ~Setting
  BY Zenon, <1>0 DEF Handing, Bumping, Setting
<1>3. /\ suspend' \in [Threads -> 0..MaxSuspend] /\ suspend'[t] > 0
      /\ \A u \in Threads \ {t} : suspend'[u] = suspend[u]
  <2>1. suspend \in [Threads -> 0..MaxSuspend] /\ MaxSuspend \in Nat
    BY Zenon, KThreadAssumption, <1>a DEF TypeOK
  <2>2. suspend[t] + 1 \in 0..MaxSuspend /\ suspend[t] + 1 > 0
    BY <2>1, <1>0
  <2>. QED  BY Zenon, <2>1, <2>2, <1>0
<1>5. state \in [Threads -> States] /\ op \in Ops
      /\ cur \in Threads /\ nextCtx \in Threads \cup {NULL} /\ excpt \in BOOLEAN
      /\ queue \in [Threads -> Queues \cup {NULL}]
  BY Zenon, <1>a DEF TypeOK
<1>6. CASE suspend[t] # 0 \/ state[t] # "RUNNING"
  <2>1. UNCHANGED <<state, queue, cpuVars, op>>
    BY Zenon, <1>6 DEF KThreadSuspendLive, KThreadSuspend
  <2>2. state' = [state EXCEPT ![t] = state[t]] /\ state[t] # "RUNNING"
    BY Zenon, <1>6, <1>a, <1>0, <1>5, <2>1 DEF StatesMatchQueues
  <2>3. StatesMatchQueues'
    BY <2>2, <1>a, <1>0, <2>1 DEF StatesMatchQueues
  <2>4. CpuShape'
    BY Zenon, <1>1, <1>a, <1>0, <2>1 DEF CpuShape, Bumping, cpuVars
  <2>. QED  BY Zenon, <2>2, <2>3, <2>4, StateStep, <1>0, <1>3, <1>5, <2>1 DEF cpuVars
<1>7. CASE ~(suspend[t] # 0 \/ state[t] # "RUNNING")
  <2>1. /\ state[t] = "RUNNING" /\ suspend[t] = 0 /\ queue[t] = NULL /\ queue' = queue
    <3>1. state[t] = "RUNNING" /\ suspend[t] = 0 /\ queue[t] = NULL
      BY Zenon, <1>7, <1>a, <1>0 DEF StatesMatchQueues
    <3>2. queue' = [queue EXCEPT ![t] = NULL]
      BY Zenon, <1>7 DEF KThreadSuspendLive, KThreadSuspend
    <3>. QED  BY Zenon, <3>1, <3>2, <1>5
  <2>2. /\ state' = [state EXCEPT ![t] = "WAITING"] /\ state'[t] = "WAITING"
        /\ \A u \in Threads \ {t} : state'[u] = state[u]
    <3>1. state' = [state EXCEPT ![t] = "WAITING"]
      BY Zenon, <1>7 DEF KThreadSuspendLive, KThreadSuspend
    <3>. QED  BY Zenon, <3>1, <1>0, <1>5
  <2> DEFINE next == KThreadFindRunnable(list, state')
  <2>3. next \in Threads /\ state'[next] = "RUNNING" /\ next # t
    <3>1. IdleThread \in Linked(list) /\ state'[IdleThread] = "RUNNING" /\ list \in Seq(Threads)
      BY IdleFacts, <1>0, <2>2
    <3>2. next \in Threads /\ state'[next] = "RUNNING"
      BY ZenonT(30), <3>1, FindRunnableFacts
    <3>. QED  BY Zenon, <3>2, <2>2
  <2> HIDE DEF next
  <2>4. /\ op'.pc = "none" /\ op' \in Ops /\ excpt' = excpt
        /\ \/ t = cur /\ ~excpt /\ cur' = next /\ nextCtx' = nextCtx
           \/ t = cur /\ excpt /\ cur' = cur /\ nextCtx' = next
           \/ t = cur /\ excpt /\ cur' = cur /\ nextCtx' = nextCtx /\ nextCtx # NULL
           \/ t # cur /\ cur' = cur /\ t # nextCtx /\ nextCtx' = nextCtx
           \/ t # cur /\ cur' = cur /\ t = nextCtx /\ next # cur /\ nextCtx' = next
           \/ t # cur /\ cur' = cur /\ t = nextCtx /\ next = cur /\ nextCtx' = NULL
    <3>1. CASE t = cur
      <4>1. KThreadSwitchTo(next)
        BY Zenon, <1>7, <3>1 DEF KThreadSuspendLive, KThreadSuspend, next
      <4>2. op'.pc = "none" /\ op' \in Ops
        BY Zenon, <4>1, NoOpType DEF KThreadSwitchTo, NoOp
      <4>. QED  BY Zenon, <3>1, <4>1, <4>2 DEF KThreadSwitchTo
    <3>2. CASE t # cur
      <4>1. UNCHANGED <<cur, excpt, op>> /\ nextCtx' = IF t # nextCtx THEN nextCtx ELSE IF next # cur THEN next ELSE NULL
        BY Zenon, <1>7, <3>2 DEF KThreadSuspendLive, KThreadSuspend, NextCtxWithout, next
      <4>. QED  BY Zenon, <3>2, <4>1, <1>0, <1>5
    <3>. QED  BY Zenon, <3>1, <3>2
  <2>5. cur' \in Threads /\ nextCtx' \in Threads \cup {NULL} /\ excpt' \in BOOLEAN
    BY Zenon, <1>5, <2>3, <2>4
  <2>6. CpuShape'
    <3>1. at[next].pc # "exit"
      <4>1. state[next] = "RUNNING"
        BY Zenon, <2>2, <2>3
      <4>. QED  BY Zenon, <4>1, <1>a, <2>3 DEF AtShape
    <3>2. at[cur].pc # "exit"
      BY Zenon, <1>a, <1>0 DEF CpuShape
    <3>3. ~Bumping'
      BY Zenon, <2>4 DEF Bumping
    <3>. QED  BY <1>1, <3>1, <3>2, <3>3, ConstantFacts, <1>a, <1>0, <2>2, <2>3, <2>4 DEF CpuShape
  <2>7. StatesMatchQueues'
    BY <1>a, <1>0, <1>3, <2>1, <2>2 DEF StatesMatchQueues
  <2>8. "WAITING" \in Live
    BY Zenon DEF Live
  <2>. QED  BY Zenon, <2>5, <2>6, <2>7, <2>8, StateStep, <1>0, <1>3, <2>1, <2>2, <2>4 DEF cpuVars
<1>. QED  BY Zenon, <1>6, <1>7

(* A thread that blocks in KThreadJoin, KThreadSleepTicks, LWP_SemWait or  *)
(* KMailboxRecv.                                                           *)
LEMMA BlockStep ==
  ASSUME IInv, InThread, NEW q \in Static, NEW tok \in Tokens, KThrQueueBlock(q, tok),
         NEW w \in Places, w.pc \in {"join", "sleep", "sem", "recv"}, at' = [at EXCEPT ![cur] = w],
         UNCHANGED <<list, suspend, baseprio, owner>>, armed' \subseteq Threads,
         JoinShape', TimerShape'
  PROVE  IInv'
<1>a. TypeOK /\ AtShape /\ IdleReady /\ CpuShape /\ WaiterShape /\ LockShape /\ OwnerShape
  BY Zenon DEF IInv
<1>1. op.pc = "none" /\ ~excpt /\ cur # IdleThread /\ at[cur].pc = "user"
  BY Zenon DEF InThread
<1>2. /\ ~Handing /\ state[cur] = "RUNNING" /\ cur \in Threads
  BY Zenon, <1>a, <1>1 DEF CpuShape, TypeOK, Bumping, Handing
<1>3. /\ cur' \in Threads /\ cur' # cur /\ state[cur'] = "RUNNING"
      /\ state' = [state EXCEPT ![cur] = "WAITING"]
      /\ token' = [token EXCEPT ![cur] = tok]
      /\ queue' = [queue EXCEPT ![cur] = q]
      /\ nextCtx' = NULL /\ excpt' = excpt /\ op' = NoOp /\ UNCHANGED prio
      /\ links' \in [Queues -> Seq(Threads)]
      /\ QueueIntegrity' /\ StatesMatchQueues'
  BY Zenon, BlockFacts, <1>1, <1>2
<1>4. /\ state \in [Threads -> States] /\ state' \in [Threads -> States]
      /\ state'[cur] = "WAITING" /\ \A u \in Threads \ {cur} : state'[u] = state[u]
  BY Zenon, <1>a, <1>3 DEF TypeOK, States, Live
<1>5. /\ at' \in [Threads -> Places] /\ at'[cur] = w
      /\ \A u \in Threads \ {cur} : at'[u] = at[u]
  BY Zenon, <1>a DEF TypeOK
<1>6. /\ \A u \in Threads \ {cur} : queue'[u] = queue[u] /\ token'[u] = token[u]
      /\ queue' \in [Threads -> Queues \cup {NULL}] /\ token' \in [Threads -> Tokens]
  BY Zenon, NoOpType, <1>a, <1>3 DEF TypeOK
<1>7. ~Handing' /\ ~Bumping' /\ ~Setting' /\ op' \in Ops /\ op'.pc = "none"
  BY Zenon, NoOpType, <1>3 DEF Handing, Bumping, Setting, NoOp
<1>8. TypeOK'
  BY Zenon, <1>6, <1>a, <1>3, <1>4, <1>7 DEF TypeOK
<1>9. OpShape'
  BY Zenon, <1>7 DEF OpShape
<1>10. AtShape'
  BY <1>a, <1>4, <1>5 DEF AtShape
<1>11. IdleReady'
  BY <1>a, <1>1, <1>3 DEF IdleReady
<1>12. CpuShape'
  <2>1. at[cur'].pc # "exit"
    BY Zenon, <1>a, <1>3 DEF AtShape
  <2>. QED  BY <2>1, <1>1, <1>3 DEF CpuShape
<1>13. WaiterShape'
  <2> SUFFICES ASSUME NEW u \in Threads, state'[u] = "WAITING_MUTEX"
               PROVE  /\ at'[u].pc = "lock" /\ at'[u].m = token'[u]
                      /\ owner'[token'[u]] \in Threads
                      /\ queue'[u] = owner'[token'[u]]
    BY Zenon, <1>7 DEF WaiterShape
  <2>2. /\ u \in Threads \ {cur} /\ state[u] = "WAITING_MUTEX" /\ at'[u] = at[u]
        /\ queue'[u] = queue[u] /\ token'[u] = token[u]
    BY <1>6, <1>4
  <2>. QED  BY Zenon, <2>2, <1>a, <1>2 DEF WaiterShape
<1>14. LockShape'
  BY <1>a, <1>2, <1>4 DEF LockShape
<1>15. OwnerShape'
  <2>1. (\A m \in Mutexes : owner[m] \in Threads \cup {NULL}) /\ OwnerShape /\ UNCHANGED owner
    BY Zenon, <1>a DEF TypeOK
  <2>. QED  BY <2>1, <1>4, <1>7 DEF OwnerShape, Live
<1>. QED
  BY Zenon, <1>15, <1>8, <1>9, <1>10, <1>11, <1>12, <1>13, <1>14, <1>3 DEF IInv

(* KThreadJoin waits for a live thread.                                    *)
LEMMA JoinStep ==
  ASSUME IInv, NEW t \in Users, KThreadJoin(t)
  PROVE  IInv'
<1>a. TypeOK /\ CpuShape /\ JoinShape /\ TimerShape
  BY Zenon DEF IInv
<1> DEFINE w == [pc |-> "join", m |-> NULL, x |-> t]
<1>1. /\ InThread /\ state[t] \in Live /\ t \in Threads
      /\ at' = [at EXCEPT ![cur] = w]
      /\ KThrQueueBlock("join", t)
      /\ UNCHANGED <<list, suspend, baseprio, owner, armed>>
  BY Zenon DEF KThreadJoin, Users
<1>2. /\ "join" \in Static /\ t \in Tokens /\ w \in Places /\ w.pc = "join" /\ w.x = t
  BY Zenon, NoOpType, <1>1 DEF Places, Static
<1>3. /\ state' = [state EXCEPT ![cur] = "WAITING"]
      /\ token' = [token EXCEPT ![cur] = t]
      /\ queue' = [queue EXCEPT ![cur] = "join"]
      /\ state \in [Threads -> States] /\ at \in [Threads -> Places]
      /\ queue \in [Threads -> Queues \cup {NULL}] /\ token \in [Threads -> Tokens]
      /\ armed \subseteq Threads /\ cur \in Threads
      /\ at[cur].pc = "user" /\ op.pc = "none" /\ state[cur] = "RUNNING"
  BY Zenon, <1>a, <1>1 DEF KThrQueueBlock, TypeOK, InThread, CpuShape, Bumping
<1> HIDE DEF w
<1>4. JoinShape'
  BY Zenon, <1>2, <1>a, <1>1, <1>3 DEF JoinShape
<1>5. TimerShape'
  BY Zenon, <1>a, <1>1, <1>3 DEF TimerShape
<1>. QED
  BY Zenon, <1>2, <1>4, <1>5, BlockStep, <1>1, <1>3

(* KThreadSleepTicks starts a timer and waits for it.                      *)
LEMMA SleepStep ==
  ASSUME IInv, KThreadSleepTicks
  PROVE  IInv'
<1>a. TypeOK /\ CpuShape /\ JoinShape /\ TimerShape
  BY Zenon DEF IInv
<1> DEFINE w == [pc |-> "sleep", m |-> NULL, x |-> NULL]
<1>1. /\ InThread
      /\ at' = [at EXCEPT ![cur] = w]
      /\ KThrQueueBlock("sleep", cur)
      /\ armed' = armed \cup {cur}
      /\ UNCHANGED <<list, suspend, baseprio, owner>>
  BY Zenon DEF KThreadSleepTicks
<1>2. /\ "sleep" \in Static /\ w \in Places /\ w.pc = "sleep"
  BY Zenon DEF Places, Static
<1>3. /\ state' = [state EXCEPT ![cur] = "WAITING"]
      /\ token' = [token EXCEPT ![cur] = cur]
      /\ queue' = [queue EXCEPT ![cur] = "sleep"]
      /\ state \in [Threads -> States] /\ at \in [Threads -> Places]
      /\ queue \in [Threads -> Queues \cup {NULL}] /\ token \in [Threads -> Tokens]
      /\ armed \subseteq Threads /\ cur \in Threads
      /\ at[cur].pc = "user" /\ op.pc = "none" /\ state[cur] = "RUNNING"
  BY Zenon, <1>a, <1>1 DEF KThrQueueBlock, TypeOK, InThread, CpuShape, Bumping
<1>4. cur \in Tokens
  BY Zenon, NoOpType, <1>3
<1> HIDE DEF w
<1>5. JoinShape'
  BY Zenon, <1>a, <1>1, <1>2, <1>3 DEF JoinShape
<1>6. TimerShape'
  BY <1>a, <1>1, <1>2, <1>3 DEF TimerShape
<1>. QED
  BY Zenon, <1>4, <1>5, <1>6, BlockStep, <1>1, <1>2, <1>3

(* KThreadExit leaves the thread list before it wakes its joiners.         *)
LEMMA ExitStep ==
  ASSUME IInv, KThreadExit
  PROVE  IInv'
<1>a. /\ TypeOK /\ AtShape /\ OwnerShape /\ IdleReady /\ CpuShape /\ QueueIntegrity /\ StatesMatchQueues
      /\ WaiterShape /\ LockShape /\ JoinShape /\ TimerShape
  BY Zenon DEF IInv
<1>1. /\ op.pc = "none" /\ ~excpt /\ cur # IdleThread /\ at[cur].pc = "user"
      /\ \A m \in Mutexes : owner[m] # cur
      /\ list' = Unlink(list, cur)
      /\ state' = [state EXCEPT ![cur] = "FINISHED"]
      /\ at' = [at EXCEPT ![cur] = [User EXCEPT !.pc = "exit"]]
      /\ op' = [NoOp EXCEPT !.pc = "unblock", !.q = "join", !.ref = cur, !.max = -1]
      /\ UNCHANGED <<suspend, prio, baseprio, queueVars, owner, cpuVars, armed>>
  BY Zenon DEF KThreadExit, InThread
<1>2. ~Handing /\ ~Bumping /\ state[cur] = "RUNNING" /\ cur \in Threads /\ nextCtx = NULL
  BY Zenon, <1>a, <1>1 DEF CpuShape, TypeOK, Bumping, Handing
<1>3. queue[cur] = NULL /\ suspend[cur] = 0
  BY Zenon, <1>a, <1>2 DEF StatesMatchQueues
<1>4. /\ op' \in Ops /\ op'.pc = "unblock" /\ op'.q = "join" /\ op'.ref = cur /\ op'.n = NULL
      /\ ~Handing' /\ ~Bumping' /\ ~Setting'
  <2>1. op'.pc = "unblock" /\ op'.q = "join" /\ op'.ref = cur /\ op'.n = NULL
    BY Zenon, <1>1 DEF NoOp
  <2>2. "join" \in Queues /\ cur \in Tokens
    BY Zenon, NoOpType, <1>2 DEF Static
  <2>3. op' \in Ops
    BY Zenon, <2>2, NoOpType, <1>1 DEF Ops
  <2>. QED  BY Zenon, <2>1, <2>3 DEF Handing, Bumping, Setting
<1>5. /\ at' \in [Threads -> Places] /\ at'[cur].pc = "exit"
      /\ \A u \in Threads \ {cur} : at'[u] = at[u]
  <2>1. at \in [Threads -> Places]
    BY Zenon, <1>a DEF TypeOK
  <2>2. [User EXCEPT !.pc = "exit"] \in Places /\ [User EXCEPT !.pc = "exit"].pc = "exit"
    BY Zenon DEF User, Places
  <2>. QED  BY Zenon, <2>1, <2>2, <1>1, <1>2
<1>6. /\ state' \in [Threads -> States] /\ state'[cur] = "FINISHED"
      /\ \A u \in Threads \ {cur} : state'[u] = state[u]
  BY Zenon, <1>a, <1>1 DEF TypeOK, States
<1>7. /\ list' \in Seq(Threads) /\ Linked(list') = Linked(list) \ {cur} /\ Distinct(list')
  BY Zenon, UnlinkFacts, <1>a, <1>1 DEF TypeOK, QueueIntegrity
<1>8. TypeOK'
  BY Zenon, <1>4, <1>5, <1>6, <1>a, <1>1, <1>7 DEF TypeOK, queueVars, cpuVars
<1>9. OpShape'
  BY Zenon, <1>4, <1>6, <1>2 DEF OpShape, Static
<1>10. AtShape'
  BY <1>3, <1>5, <1>6, <1>a, <1>1 DEF AtShape
<1>11. IdleReady'
  BY <1>5, <1>6, <1>a, <1>1 DEF IdleReady
<1>12. CpuShape'
  BY <1>4, <1>5, <1>a, <1>1 DEF CpuShape, cpuVars
<1>13. QueueIntegrity'
  <2>1. \A t \in Threads : t \in Linked(list') <=> state'[t] \in Live
    BY Zenon, <1>6, <1>a, <1>7 DEF QueueIntegrity, Live
  <2>. QED  BY Zenon, <2>1, <1>a, <1>1, <1>7 DEF QueueIntegrity, queueVars
<1>14. StatesMatchQueues'
  BY Zenon, <1>3, <1>6, <1>a, <1>1 DEF StatesMatchQueues, queueVars
<1>15. WaiterShape'
  BY <1>4, <1>5, <1>6, <1>a, <1>1, <1>2 DEF WaiterShape, queueVars
<1>16. LockShape'
  BY <1>4, <1>5, <1>6, <1>a, <1>1, <1>2 DEF LockShape
<1>17. JoinShape'
  BY Zenon, <1>5, <1>6, <1>a, <1>1 DEF JoinShape, queueVars
<1>18. TimerShape'
  BY <1>5, <1>a, <1>1 DEF TimerShape, queueVars
<1>19. OwnerShape'
  <2>1. \A m \in Mutexes : owner[m] \in Threads \cup {NULL}
    BY Zenon, <1>a DEF TypeOK
  <2>. QED  BY Zenon, <1>4, <1>6, <2>1, <1>a, <1>1 DEF OwnerShape
<1>. QED
  BY Zenon, <1>19, <1>8, <1>9, <1>10, <1>11, <1>12, <1>13, <1>14, <1>15, <1>16, <1>17, <1>18 DEF IInv

(* A timer fires: a sleeper is to be woken, a timed wait is cancelled.     *)
LEMMA TickTaskStep ==
  ASSUME IInv, NEW t \in Users, TickTaskFires(t)
  PROVE  IInv'
<1>a. /\ TypeOK /\ AtShape /\ OwnerShape /\ IdleReady /\ CpuShape /\ QueueIntegrity /\ StatesMatchQueues
      /\ WaiterShape /\ LockShape /\ JoinShape /\ TimerShape
  BY Zenon DEF IInv
<1>1. /\ op.pc = "none" /\ excpt /\ t \in armed /\ armed' = armed \ {t} /\ t \in Threads
      /\ UNCHANGED <<list, suspend, baseprio, owner, at>>
      /\ ~Handing /\ ~Bumping /\ ~Setting /\ at[cur].pc # "exit" /\ t # IdleThread
  BY Zenon, <1>a DEF TickTaskFires, Handing, Bumping, Setting, Users, CpuShape
<1>2. armed \subseteq Threads /\ armed' \subseteq armed
  BY Zenon, <1>a, <1>1 DEF TypeOK
<1>3. CASE at[t].pc = "sleep"
  <2>1. /\ UNCHANGED <<state, prio, queueVars, cpuVars>>
        /\ op' = [NoOp EXCEPT !.pc = "unblock", !.q = "sleep", !.ref = t, !.max = -1]
    BY Zenon, <1>3 DEF TickTaskFires, KThrQueueUnblock
  <2>2. op' \in Ops
    <3>1. "sleep" \in Queues /\ t \in Tokens
      BY Zenon, NoOpType, <1>1 DEF Static
    <3>. QED  BY Zenon, <2>1, <3>1, NoOpType DEF Ops
  <2>3. /\ op'.pc = "unblock" /\ op'.q = "sleep" /\ op'.ref = t /\ op'.n = NULL
        /\ ~Handing' /\ ~Bumping' /\ ~Setting'
    BY Zenon, <2>1 DEF NoOp, Handing, Bumping, Setting
  <2>4. TypeOK'
    BY Zenon, <1>2, <2>1, <2>2, <1>a, <1>1 DEF TypeOK, queueVars, cpuVars
  <2>5. OpShape'
    BY Zenon, <2>3, <1>1 DEF OpShape, Static
  <2>6. AtShape' /\ IdleReady'
    BY Zenon, <2>1, <1>a, <1>1 DEF AtShape, IdleReady
  <2>7. OwnerShape'
    BY Zenon, <2>1, <2>3, <1>a, <1>1 DEF OwnerShape
  <2>8. CpuShape'
    BY Zenon, <2>1, <2>3, <1>a, <1>1 DEF CpuShape, cpuVars
  <2>9. QueueIntegrity' /\ StatesMatchQueues'
    BY Zenon, <2>1, <1>a, <1>1 DEF QueueIntegrity, StatesMatchQueues, queueVars
  <2>10. WaiterShape' /\ LockShape'
    BY Zenon, <2>1, <2>3, <1>a, <1>1 DEF WaiterShape, LockShape, queueVars
  <2>11. JoinShape' /\ TimerShape'
    BY <1>2, <2>1, <1>a, <1>1 DEF JoinShape, TimerShape, queueVars
  <2>. QED
    BY <2>4, <2>5, <2>6, <2>7, <2>8, <2>9, <2>10, <2>11 DEF IInv
<1>4. CASE at[t].pc # "sleep"
  <2>0. KThrQueueCancel("cv", t) /\ at[t].pc = "cvt" /\ "cv" \in Static /\ "cv" \in Queues
    BY Zenon, <1>4, NoOpType, <1>a DEF TickTaskFires, TimerShape, Static
  <2>1. CASE state[t] # "WAITING" \/ queue[t] # "cv"
    <3>1. UNCHANGED <<state, prio, queueVars, cpuVars, op>>
      BY Zenon, <2>0, <2>1 DEF KThrQueueCancel
    <3>2. ~Handing' /\ ~Bumping' /\ ~Setting' /\ op'.pc = "none"
      BY Zenon, <3>1, <1>1 DEF Handing, Bumping, Setting
    <3>3. TypeOK'
      BY Zenon, <1>2, <3>1, <1>a, <1>1 DEF TypeOK, queueVars, cpuVars
    <3>4. OpShape'
      BY Zenon, <3>2 DEF OpShape
    <3>5. AtShape' /\ IdleReady'
      BY Zenon, <3>1, <1>a, <1>1 DEF AtShape, IdleReady
    <3>6. OwnerShape'
      BY Zenon, <3>1, <3>2, <1>a, <1>1 DEF OwnerShape
    <3>7. CpuShape'
      BY Zenon, <3>1, <3>2, <1>a, <1>1 DEF CpuShape, cpuVars
    <3>8. QueueIntegrity' /\ StatesMatchQueues'
      BY Zenon, <3>1, <1>a, <1>1 DEF QueueIntegrity, StatesMatchQueues, queueVars
    <3>9. WaiterShape' /\ LockShape'
      BY Zenon, <3>1, <3>2, <1>a, <1>1 DEF WaiterShape, LockShape, queueVars
    <3>10. JoinShape' /\ TimerShape'
      BY <1>2, <3>1, <1>a, <1>1 DEF JoinShape, TimerShape, queueVars
    <3>. QED
      BY Zenon, <3>3, <3>4, <3>5, <3>6, <3>7, <3>8, <3>9, <3>10 DEF IInv
  <2>2. CASE ~(state[t] # "WAITING" \/ queue[t] # "cv")
    <3> DEFINE u == IF suspend[t] = 0 THEN t ELSE NULL
    <3>1. /\ links' = [links EXCEPT !["cv"] = Unlink(@, t)]
          /\ queue' = [queue EXCEPT ![t] = NULL]
          /\ token' = [token EXCEPT ![t] = Expired]
          /\ state' = IF suspend[t] = 0 THEN [state EXCEPT ![t] = "RUNNING"] ELSE state
          /\ UNCHANGED prio
          /\ KThreadReschedule(u)
      BY Zenon, <2>0, <2>2 DEF KThrQueueCancel
    <3>2. /\ state' \in [Threads -> States] /\ \A v \in Threads \ {t} : state'[v] = state[v]
          /\ state'[t] = IF suspend[t] = 0 THEN "RUNNING" ELSE "WAITING"
      BY Zenon, <2>2, <3>1, <1>a, <1>1 DEF TypeOK, States, Live
    <3>3. /\ queue' \in [Threads -> Queues \cup {NULL}] /\ queue'[t] = NULL
          /\ \A v \in Threads \ {t} : queue'[v] = queue[v]
      BY Zenon, <3>1, <1>a, <1>1 DEF TypeOK
    <3>4. /\ token' \in [Threads -> Tokens]
          /\ \A v \in Threads \ {t} : token'[v] = token[v]
      BY Zenon, <3>1, NoOpType, <1>a, <1>1 DEF TypeOK
    <3>5. /\ links' \in [Queues -> Seq(Threads)] /\ Distinct(links'["cv"])
          /\ Linked(links'["cv"]) = Linked(links["cv"]) \ {t}
          /\ \A r \in Queues \ {"cv"} : links'[r] = links[r]
      <4>1. links \in [Queues -> Seq(Threads)] /\ links["cv"] \in Seq(Threads) /\ Distinct(links["cv"])
        BY Zenon, <2>0, <1>a DEF TypeOK, QueueIntegrity
      <4>2. /\ Unlink(links["cv"], t) \in Seq(Threads) /\ Distinct(Unlink(links["cv"], t))
            /\ Linked(Unlink(links["cv"], t)) = Linked(links["cv"]) \ {t}
        BY Zenon, <4>1, UnlinkFacts, <1>1
      <4>. QED  BY Zenon, <2>0, <3>1, <4>1, <4>2
    <3>6. /\ cur \in Threads /\ nextCtx \in Threads \cup {NULL} /\ prio' \in [Threads -> Int]
          /\ suspend[t] \in Nat
      BY <3>1, <1>a, <1>1 DEF TypeOK
    <3>7. /\ op' = NoOp /\ excpt' = excpt /\ cur' = cur
          /\ nextCtx' = nextCtx \/ (suspend[t] = 0 /\ t # cur /\ nextCtx' = t)
      BY Zenon, <3>1, <3>6, RescheduleFacts, ConstantFacts, <1>1
    <3>8. ~Handing' /\ ~Bumping' /\ ~Setting' /\ op' \in Ops /\ op'.pc = "none"
      BY Zenon, <3>7, NoOpType DEF Handing, Bumping, Setting, NoOp
    <3>9. TypeOK'
      <4>1. nextCtx' \in Threads \cup {NULL} /\ armed' \subseteq Threads
        BY Zenon, <1>2, <3>6, <3>7, <1>1
      <4>. QED  BY Zenon, <3>1, <3>2, <3>3, <3>4, <3>5, <3>7, <3>8, <4>1, <1>a, <1>1 DEF TypeOK
    <3>10. OpShape'
      BY Zenon, <3>8 DEF OpShape
    <3>11. AtShape'
      BY <2>2, <3>2, <1>a, <1>1 DEF AtShape
    <3>12. OwnerShape'
      <4>1. \A m \in Mutexes : owner[m] \in Threads \cup {NULL}
        BY Zenon, <1>a DEF TypeOK
      <4>. QED  BY Zenon, <3>2, <3>8, <4>1, <1>a, <1>1 DEF OwnerShape, Live
    <3>13. IdleReady'
      BY Zenon, <3>2, <1>a, ConstantFacts, <1>1 DEF IdleReady
    <3>14. CpuShape'
      <4>1. /\ nextCtx # NULL => excpt /\ state[nextCtx] = "RUNNING" /\ nextCtx # cur
            /\ at[cur].pc \in {"user", "slow"} /\ state[cur] # "UNINIT"
            /\ state[cur] = "RUNNING" \/ nextCtx # NULL
        BY Zenon, <1>a, <1>1 DEF CpuShape
      <4>2. /\ state'[cur] # "UNINIT" /\ (state[cur] = "RUNNING" => state'[cur] = "RUNNING")
            /\ \A v \in Threads : state[v] = "RUNNING" => state'[v] = "RUNNING"
        BY Zenon, <2>2, <3>2, <3>6, <4>1
      <4>3. nextCtx' # NULL => excpt /\ state'[nextCtx'] = "RUNNING" /\ nextCtx' # cur
        BY Zenon, <3>2, <3>6, <3>7, <4>1, <4>2, <1>1
      <4>. QED  BY Zenon, <3>7, <4>1, <4>2, <4>3, ConstantFacts, <1>1 DEF CpuShape
    <3>15. QueueIntegrity'
      <4>1. \A r \in Queues : Distinct(links'[r])
        BY Zenon, <3>5, <1>a DEF QueueIntegrity
      <4>2. \A r \in Queues, v \in Threads : v \in Linked(links'[r]) <=> queue'[v] = r
        <5>1. \A r \in Queues, v \in Threads : v \in Linked(links[r]) <=> queue[v] = r
          BY Zenon, <1>a DEF QueueIntegrity
        <5>. QED  BY <2>0, <2>2, <3>3, <3>5, <5>1, ConstantFacts, <1>1
      <4>3. \A v \in Threads : v \in Linked(list') <=> state'[v] \in Live
        BY Zenon, <2>2, <3>2, <1>a, <1>1 DEF QueueIntegrity, Live
      <4>. QED  BY Zenon, <4>1, <4>2, <4>3, <1>a, <1>1 DEF QueueIntegrity
    <3>16. StatesMatchQueues'
      BY <3>2, <3>3, <3>4, <3>6, <1>a, <1>1 DEF StatesMatchQueues
    <3>a. at' = at /\ owner' = owner /\ ~Handing /\ at[t].pc = "cvt" /\ t \in Threads
      BY Zenon, <2>0, <1>1
    <3>17. WaiterShape'
      <4>1. WaiterShape
        BY Zenon DEF IInv
      <4>2. \A v \in Threads : state'[v] = "WAITING_MUTEX" => v # t /\ state[v] = "WAITING_MUTEX"
        BY Zenon, <3>2
      <4>3. \A v \in Threads : state'[v] = "WAITING_MUTEX" => queue'[v] = queue[v] /\ token'[v] = token[v]
        BY Zenon, <3>3, <3>4, <4>2
      <4>. QED  BY <3>a, <3>8, <4>1, <4>2, <4>3 DEF WaiterShape
    <3>18. LockShape'
      <4>1. LockShape
        BY Zenon DEF IInv
      <4>2. \A v \in Threads : at[v].pc = "lock" => v # t /\ state'[v] = state[v]
        BY Zenon, <3>a, <3>2
      <4>. QED  BY Zenon, <3>a, <3>8, <4>1, <4>2 DEF LockShape
    <3>19. JoinShape'
      BY <2>0, <2>2, <3>2, <3>3, <3>4, <1>a, <1>1 DEF JoinShape
    <3>20. TimerShape'
      BY Zenon, <1>2, <3>3, <3>4, <1>a, <1>1 DEF TimerShape
    <3>. QED
      BY Zenon, <3>9, <3>10, <3>11, <3>12, <3>13, <3>14, <3>15, <3>16, <3>17, <3>18, <3>19, <3>20 DEF IInv
  <2>. QED  BY Zenon, <2>1, <2>2
<1>. QED  BY Zenon, <1>3, <1>4

---------------------------------------------------------------------------
(* KMutexLock, or the relock after a condition wait, has to wait.          *)
LEMMA LockWaitStep ==
  ASSUME IInv, NEW m \in Mutexes, owner[m] # NULL, LockWait(m),
         op.pc = "none", ~excpt, at[cur].pc \in {"slow", "cv", "cvt"},
         armed' \subseteq armed, cur \notin armed'
  PROVE  IInv'
<1>a. /\ TypeOK /\ AtShape /\ OwnerShape /\ IdleReady /\ CpuShape /\ QueueIntegrity /\ StatesMatchQueues
      /\ WaiterShape /\ LockShape /\ JoinShape /\ TimerShape
  BY Zenon DEF IInv
<1> DEFINE o == owner[m]
           w == [pc |-> "lock", m |-> m, x |-> NULL]
<1>1. /\ ~Handing /\ ~Bumping /\ state[cur] = "RUNNING" /\ cur \in Threads /\ nextCtx = NULL
      /\ cur # IdleThread /\ o \in Threads /\ o \in Queues
  BY SMTT(30), NoOpType, <1>a, ConstantFacts DEF CpuShape, TypeOK, Bumping, Handing, IdleReady, User
<1>2. /\ state' = [state EXCEPT ![cur] = "WAITING_MUTEX"]
      /\ token' = [token EXCEPT ![cur] = m]
      /\ queue' = [queue EXCEPT ![cur] = o]
      /\ links' = [links EXCEPT ![o] = Insert(links[o], cur, prio)]
      /\ at' = [at EXCEPT ![cur] = w]
      /\ UNCHANGED <<list, suspend, prio, baseprio, owner>>
  BY Zenon DEF LockWait
<1>3. queue[cur] = NULL /\ suspend[cur] = 0
  BY Zenon, <1>a, <1>1 DEF StatesMatchQueues
<1>4. /\ state' \in [Threads -> States] /\ state'[cur] = "WAITING_MUTEX"
      /\ \A u \in Threads \ {cur} : state'[u] = state[u]
  BY Zenon, <1>a, <1>2 DEF TypeOK, States, Live
<1>5. /\ queue' \in [Threads -> Queues \cup {NULL}] /\ queue'[cur] = o
      /\ \A u \in Threads \ {cur} : queue'[u] = queue[u]
  BY Zenon, <1>a, <1>1, <1>2 DEF TypeOK
<1>6. /\ token' \in [Threads -> Tokens] /\ token'[cur] = m
      /\ \A u \in Threads \ {cur} : token'[u] = token[u]
  BY Zenon, NoOpType, <1>a, <1>2 DEF TypeOK
<1>7. /\ at' \in [Threads -> Places] /\ at'[cur].pc = "lock" /\ at'[cur].m = m
      /\ \A u \in Threads \ {cur} : at'[u] = at[u]
  <2>1. at \in [Threads -> Places] /\ w \in Places
    BY Zenon, <1>a DEF TypeOK, Places
  <2>. QED  BY <2>1, <1>2, <1>5
<1> HIDE DEF w
<1>8. links \in [Queues -> Seq(Threads)] /\ links[o] \in Seq(Threads)
  BY Zenon, <1>a, <1>1 DEF TypeOK
<1>9. cur \notin Linked(links[o]) /\ Distinct(links[o])
  BY Zenon, <1>3, <1>a, <1>1 DEF QueueIntegrity
<1>10. /\ links' \in [Queues -> Seq(Threads)] /\ Distinct(links'[o])
       /\ Linked(links'[o]) = Linked(links[o]) \cup {cur}
       /\ \A r \in Queues \ {o} : links'[r] = links[r]
  <2>1. /\ Insert(links[o], cur, prio) \in Seq(Threads)
        /\ Linked(Insert(links[o], cur, prio)) = Linked(links[o]) \cup {cur}
        /\ Distinct(Insert(links[o], cur, prio))
    BY Zenon, <1>8, <1>9, InsertFacts, <1>1
  <2>. QED  BY Zenon, <1>8, <2>1, <1>1, <1>2
<1>11. QueueIntegrity'
  <2>1. \A r \in Queues : Distinct(links'[r])
    BY Zenon, <1>a, <1>10 DEF QueueIntegrity
  <2>2. \A r \in Queues, t \in Threads : t \in Linked(links'[r]) <=> queue'[t] = r
    <3>1. \A r \in Queues, t \in Threads : t \in Linked(links[r]) <=> queue[t] = r
      BY Zenon, <1>a DEF QueueIntegrity
    <3>. QED  BY <1>3, <3>1, ConstantFacts, <1>5, <1>10
  <2>3. \A t \in Threads : t \in Linked(list') <=> state'[t] \in Live
    BY <1>a, <1>1, <1>2 DEF QueueIntegrity, Live
  <2>. QED  BY Zenon, <2>1, <2>2, <2>3, <1>a, <1>2 DEF QueueIntegrity
<1>12. StatesMatchQueues'
  BY <1>a, <1>1, <1>2, <1>4, <1>5, <1>6 DEF StatesMatchQueues
<1>13. /\ excpt' = excpt /\ nextCtx' = NULL /\ cur' \in Threads /\ op' \in Ops
       /\ \/ op'.pc = "update" /\ op'.t = o /\ op'.m = m /\ op'.ret = "bumped" /\ cur' = cur
          \/ op'.pc = "none" /\ state[cur'] = "RUNNING" /\ cur' # cur
  <2>1. CASE prio[cur] < prio[owner[m]]
    <3>1. UNCHANGED cpuVars /\ op' = [NoOp EXCEPT !.pc = "update", !.t = o, !.m = m, !.ret = "bumped"]
      BY Zenon, <2>1 DEF LockWait
    <3>2. op' \in Ops
      BY ZenonT(30), <3>1, NoOpType, <1>a, ConstantFacts, <1>1, <1>2, <1>4, <1>5, <1>6, <1>7, <1>10 DEF
         Ops
    <3>. QED  BY Zenon, <3>1, <3>2, <1>1 DEF NoOp, cpuVars
  <2>2. CASE ~(prio[cur] < prio[owner[m]])
    <3>1. KThreadSwitchTo(KThreadFindRunnable(list, state'))
      BY Zenon, <2>2 DEF LockWait
    <3>2. state'[IdleThread] = "RUNNING" /\ IdleThread \in Linked(list) /\ list \in Seq(Threads)
      BY IdleFacts, <1>1, <1>2
    <3>3. KThreadFindRunnable(list, state') \in Threads /\ state'[KThreadFindRunnable(list, state')] = "RUNNING"
      <4>. QED  BY Zenon, <3>2, FindRunnableFacts
    <3>4. cur' = KThreadFindRunnable(list, state') /\ excpt' = excpt /\ nextCtx' = NULL /\ op' = NoOp
      BY Zenon, <3>1, <1>1 DEF KThreadSwitchTo
    <3>5. cur' # cur /\ state[cur'] = "RUNNING"
      BY Zenon, <3>3, <3>4, <1>a, ConstantFacts, <1>1, <1>2, <1>4
    <3>. QED  BY Zenon, <3>3, <3>4, <3>5, NoOpType DEF NoOp
  <2>. QED  BY Zenon, <2>1, <2>2
<1>14. ~Handing' /\ ~Setting' /\ (Bumping' => op'.m = m /\ cur' = cur) /\ op'.pc # "unblock"
  BY Zenon, <1>13 DEF Handing, Bumping, Setting
<1>15. TypeOK'
  <2>1. armed' \subseteq Threads
    BY Zenon, <1>a DEF TypeOK
  <2>. QED  BY Zenon, <2>1, <1>a, ConstantFacts, <1>1, <1>13, <1>14, <1>2, <1>4, <1>5, <1>6, <1>7, <1>10 DEF TypeOK
<1>16. OpShape'
  BY ZenonT(30), <1>a, ConstantFacts, <1>1, <1>13, <1>14, <1>2, <1>4, <1>5, <1>6, <1>7, <1>10 DEF OpShape
<1>17. AtShape'
  BY SMTT(30), <1>a, ConstantFacts, <1>1, <1>13, <1>14, <1>2, <1>4, <1>5, <1>6, <1>7, <1>10 DEF AtShape
<1>18. IdleReady'
  BY SMTT(30), <1>a, ConstantFacts, <1>1, <1>13, <1>14, <1>2, <1>4, <1>5, <1>6, <1>7, <1>10 DEF IdleReady
<1>19. CpuShape'
  <2>1. state[cur'] = "RUNNING" => at[cur'].pc # "exit"
    BY ZenonT(30), <1>a, <1>13 DEF AtShape
  <2>. QED  BY <2>1, <1>a, ConstantFacts, <1>1, <1>13, <1>14, <1>2, <1>4, <1>5, <1>6, <1>7, <1>10 DEF CpuShape, Bumping
<1>20. WaiterShape'
  BY SMTT(30), <1>a, ConstantFacts, <1>1, <1>13, <1>14, <1>2, <1>4, <1>5, <1>6, <1>7, <1>10 DEF WaiterShape
<1>21. LockShape'
  BY SMTT(30), <1>a, ConstantFacts, <1>1, <1>13, <1>14, <1>2, <1>4, <1>5, <1>6, <1>7, <1>10 DEF LockShape
<1>22. JoinShape'
  BY SMTT(30), <1>a, ConstantFacts, <1>1, <1>13, <1>14, <1>2, <1>4, <1>5, <1>6, <1>7, <1>10 DEF JoinShape
<1>23. TimerShape'
  <2>1. armed \subseteq Threads
    BY ZenonT(30), <1>a DEF TypeOK
  <2>. QED  BY <2>1, <1>a, ConstantFacts, <1>1, <1>13, <1>14, <1>2, <1>4, <1>5, <1>6, <1>7, <1>10 DEF TimerShape
<1>24. OwnerShape'
  <2>1. \A k \in Mutexes : owner[k] \in Threads \cup {NULL}
    BY ZenonT(30), <1>a DEF TypeOK
  <2>2. \A u \in Threads : state[u] \in Live => state'[u] \in Live
    BY <1>a, ConstantFacts, <1>1, <1>13, <1>14, <1>2, <1>4, <1>5, <1>6, <1>7, <1>10 DEF Live
  <2>3. state[o] \in Live
    BY Zenon, <1>a DEF OwnerShape
  <2>. QED  BY <2>1, <2>2, <2>3, <1>a, ConstantFacts, <1>1, <1>13, <1>14, <1>2, <1>4, <1>5, <1>6, <1>7, <1>10 DEF OwnerShape
<1>. QED
  BY Zenon, <1>24, <1>11, <1>12, <1>15, <1>16, <1>17, <1>18, <1>19, <1>20, <1>21, <1>22, <1>23 DEF IInv

(* KMutexLock, or the relock, finds the mutex free.                        *)
LEMMA AcquireStep ==
  ASSUME IInv, NEW m \in Mutexes, owner[m] = NULL, Acquire(m),
         op.pc = "none", ~excpt, at[cur].pc \in {"slow", "cv", "cvt"},
         armed' \subseteq armed, cur \notin armed', at' = [at EXCEPT ![cur] = User],
         UNCHANGED <<threadVars, queueVars, cpuVars, op>>
  PROVE  IInv'
<1>a. /\ TypeOK /\ AtShape /\ OwnerShape /\ IdleReady /\ CpuShape /\ QueueIntegrity /\ StatesMatchQueues
      /\ WaiterShape /\ LockShape /\ JoinShape /\ TimerShape
  BY Zenon DEF IInv
<1>1. /\ ~Handing /\ ~Bumping /\ ~Setting /\ state[cur] = "RUNNING" /\ cur \in Threads
      /\ ~Handing' /\ ~Bumping' /\ ~Setting'
  BY Zenon, <1>a DEF CpuShape, TypeOK, Bumping, Handing, Setting
<1>2. /\ owner' \in [Mutexes -> Threads \cup {NULL}] /\ owner'[m] = cur
      /\ \A k \in Mutexes \ {m} : owner'[k] = owner[k]
  BY Zenon, <1>a DEF TypeOK, Acquire
<1>3. /\ at' \in [Threads -> Places] /\ at'[cur] = User /\ User.pc = "user"
      /\ \A u \in Threads \ {cur} : at'[u] = at[u]
  <2>1. at \in [Threads -> Places] /\ User \in Places
    BY Zenon, <1>a DEF TypeOK, Places, User
  <2>. QED  BY Zenon, <2>1, <1>1 DEF User
<1>4. armed \subseteq Threads
  BY Zenon, <1>a DEF TypeOK
<1>5. TypeOK'
  BY Zenon, <1>4, <1>a, <1>2, <1>3 DEF TypeOK, threadVars, queueVars, cpuVars
<1>6. OpShape'
  BY Zenon, <1>1 DEF OpShape
<1>7. AtShape'
  BY Zenon, <1>a, <1>3 DEF AtShape, threadVars
<1>8. IdleReady'
  BY <1>a DEF IdleReady, threadVars
<1>9. CpuShape'
  BY Zenon, <1>a, <1>1, <1>3 DEF CpuShape, threadVars, cpuVars
<1>10. QueueIntegrity' /\ StatesMatchQueues'
  BY Zenon, <1>a DEF QueueIntegrity, StatesMatchQueues, threadVars, queueVars
<1>11. WaiterShape'
  BY SMTT(30), <1>a, ConstantFacts, <1>1, <1>2 DEF WaiterShape, StatesMatchQueues, threadVars, queueVars
<1>12. LockShape'
  BY <1>a, ConstantFacts, <1>1, <1>2, <1>3 DEF LockShape, AtShape, threadVars
<1>13. JoinShape'
  BY Zenon, <1>a, <1>3 DEF JoinShape, threadVars, queueVars
<1>14. TimerShape'
  BY <1>4, <1>a DEF TimerShape, queueVars
<1>15. OwnerShape'
  BY Zenon, <1>a, <1>1, <1>2 DEF OwnerShape, Live, threadVars
<1>. QED
  BY Zenon, <1>15, <1>5, <1>6, <1>7, <1>8, <1>9, <1>10, <1>11, <1>12, <1>13, <1>14 DEF IInv

(* KMutexLock once interrupts are masked.                                  *)
LEMMA LockSlowStep ==
  ASSUME IInv, KMutexLockSlow
  PROVE  IInv'
<1>a. TypeOK /\ AtShape /\ TimerShape
  BY Zenon DEF IInv
<1> DEFINE m == at[cur].m
<1>1. op.pc = "none" /\ ~excpt /\ at[cur].pc = "slow" /\ UNCHANGED armed
  BY Zenon DEF KMutexLockSlow, Resumed
<1>2. cur \in Threads /\ m \in Mutexes /\ cur \notin armed
  BY Zenon, <1>a, <1>1 DEF TypeOK, AtShape, TimerShape
<1>3. CASE owner[m] = NULL
  <2>1. Acquire(m) /\ at' = [at EXCEPT ![cur] = User] /\ UNCHANGED <<threadVars, queueVars, cpuVars, op>>
    BY Zenon, <1>3 DEF KMutexLockSlow
  <2>. QED  BY Zenon, <1>2, <1>3, <2>1, AcquireStep, <1>1
<1>4. CASE owner[m] # NULL
  <2>1. LockWait(m)
    BY Zenon, <1>4 DEF KMutexLockSlow
  <2>. QED  BY Zenon, <1>2, <1>4, <2>1, LockWaitStep, <1>1
<1>. QED  BY Zenon, <1>3, <1>4

(* The end of a condition wait.                                            *)
LEMMA RelockStep ==
  ASSUME IInv, Relock
  PROVE  IInv'
<1>a. TypeOK /\ AtShape
  BY Zenon DEF IInv
<1> DEFINE m == at[cur].m
<1>1. op.pc = "none" /\ ~excpt /\ at[cur].pc \in {"cv", "cvt"} /\ armed' = armed \ {cur}
  BY Zenon DEF Relock, Resumed, KTickTaskStop
<1>2. cur \in Threads /\ m \in Mutexes /\ cur \notin armed' /\ armed' \subseteq armed
  BY Zenon, <1>a, <1>1 DEF TypeOK, AtShape
<1>3. CASE owner[m] = NULL
  <2>1. Acquire(m) /\ at' = [at EXCEPT ![cur] = User] /\ UNCHANGED <<threadVars, queueVars, cpuVars, op>>
    BY Zenon, <1>3 DEF Relock
  <2>. QED  BY Zenon, <1>2, <1>3, <2>1, AcquireStep, <1>1
<1>4. CASE owner[m] # NULL
  <2>1. LockWait(m)
    BY Zenon, <1>4 DEF Relock
  <2>. QED  BY Zenon, <1>2, <1>4, <2>1, LockWaitStep, <1>1
<1>. QED  BY Zenon, <1>3, <1>4

(* One turn of KThreadUpdateDynamicPrio only reorders lists.               *)
LEMMA UpdateStep ==
  ASSUME IInv, KThreadUpdateDynamicPrio
  PROVE  IInv'
<1>a. /\ TypeOK /\ OpShape /\ AtShape /\ OwnerShape /\ IdleReady /\ CpuShape /\ QueueIntegrity
      /\ StatesMatchQueues /\ WaiterShape /\ LockShape /\ JoinShape /\ TimerShape
  BY Zenon DEF IInv
<1> DEFINE t == op.t
           q == queue[t]
           p == DynamicPrio(t)
<1>1. /\ op.pc = "update" /\ op.ret # "none" /\ op \in Ops /\ t \in Threads /\ state[t] \in Live
      /\ UNCHANGED <<state, suspend, baseprio, queue, token, owner, cpuVars, armed, at>>
  BY Zenon, <1>a DEF KThreadUpdateDynamicPrio, OpShape, OwnerShape, TypeOK
<1> HIDE DEF t
<1>2. \/ op' = [op EXCEPT !.pc = op.ret]
      \/ state[t] = "WAITING_MUTEX" /\ op' = [op EXCEPT !.t = owner[token[t]]]
  BY Zenon DEF KThreadUpdateDynamicPrio, PrioSettled, t
<1>3. state[t] = "WAITING_MUTEX" =>
        owner[token[t]] \in Threads /\ token[t] \in Mutexes /\ state[owner[token[t]]] \in Live
  BY <1>a, ConstantFacts, <1>1 DEF WaiterShape, StatesMatchQueues, OwnerShape
<1>4. /\ op' \in Ops /\ op'.ret = op.ret /\ op'.m = op.m /\ op'.n = op.n
      /\ op'.pc \in {"update", op.ret} /\ op'.pc \notin {"none", "unblock", "handover"}
      /\ op'.pc = "update" => op'.t \in Threads /\ state[op'.t] \in Live
  <2>1. op.ret \in {"setprio", "bumped", "next", "given"}
    BY Zenon, <1>1 DEF Ops
  <2>2. CASE op' = [op EXCEPT !.pc = op.ret]
    BY Zenon, <2>1, <2>2, <1>1 DEF Ops
  <2>3. CASE state[t] = "WAITING_MUTEX" /\ op' = [op EXCEPT !.t = owner[token[t]]]
    BY Zenon, <1>3, <2>1, <2>3, <1>1 DEF Ops
  <2>. QED  BY Zenon, <1>2, <2>2, <2>3
<1>5. (Handing' <=> Handing) /\ (Bumping' <=> Bumping) /\ (Setting' <=> Setting)
  BY Zenon, <1>1, <1>4 DEF Handing, Bumping, Setting
<1>6. /\ list \in Seq(Threads) /\ Distinct(list) /\ t \in Linked(list)
      /\ links \in [Queues -> Seq(Threads)] /\ prio \in [Threads -> 0..(MinPrio + 1)]
      /\ q \in Queues \cup {NULL}
  BY Zenon, <1>a, <1>1 DEF TypeOK, QueueIntegrity
<1>7. p \in 0..(MinPrio + 1)
  <2>1. links[t] \in Seq(Threads) /\ baseprio[t] \in 0..(MinPrio + 1)
    BY Zenon, NoOpType, <1>a, <1>1 DEF TypeOK
  <2>2. links[t] # <<>> => links[t][1] \in Threads
    BY <2>1
  <2>. QED  BY Zenon, <2>1, <2>2, <1>6 DEF DynamicPrio
<1>8. /\ prio' \in [Threads -> 0..(MinPrio + 1)]
      /\ \/ list' = list
         \/ list' = Insert(Unlink(list, t), t, prio')
      /\ \/ links' = links
         \/ q \in Queues /\ links' = [links EXCEPT ![q] = Insert(Unlink(@, t), t, prio')]
  <2>1. CASE prio[t] = p
    BY Zenon, <2>1, <1>6 DEF KThreadUpdateDynamicPrio, PrioSettled, t
  <2>2. CASE prio[t] # p
    <3>1. prio' = [prio EXCEPT ![t] = p] /\ list' = Insert(Unlink(list, t), t, prio')
      BY Zenon, <2>2 DEF KThreadUpdateDynamicPrio, PrioSettled, t
    <3>2. links' = links \/ (q # NULL /\ links' = [links EXCEPT ![q] = Insert(Unlink(@, t), t, prio')])
      BY Zenon, <2>2 DEF KThreadUpdateDynamicPrio, PrioSettled, t
    <3>. QED  BY Zenon, <1>7, <3>1, <3>2, <1>1, <1>6
  <2>. QED  BY Zenon, <2>1, <2>2
<1>9. list' \in Seq(Threads) /\ Distinct(list') /\ Linked(list') = Linked(list)
  <2>1. CASE list' = list
    BY Zenon, <2>1, <1>6
  <2>2. CASE list' = Insert(Unlink(list, t), t, prio')
    <3>1. /\ Unlink(list, t) \in Seq(Threads) /\ Linked(Unlink(list, t)) = Linked(list) \ {t}
          /\ Distinct(Unlink(list, t))
      BY Zenon, UnlinkFacts, <1>1, <1>6
    <3>2. /\ list' \in Seq(Threads) /\ Linked(list') = Linked(Unlink(list, t)) \cup {t} /\ Distinct(list')
      BY Zenon, <2>2, <3>1, InsertFacts, <1>1
    <3>. QED  BY Zenon, <3>1, <3>2, <1>6
  <2>. QED  BY Zenon, <2>1, <2>2, <1>8
<1>10. /\ links' \in [Queues -> Seq(Threads)]
       /\ \A r \in Queues : Distinct(links'[r]) /\ Linked(links'[r]) = Linked(links[r])
  <2>0. \A r \in Queues : Distinct(links[r])
    BY Zenon, <1>a DEF QueueIntegrity
  <2>1. CASE links' = links
    BY Zenon, <2>1, <1>6, <2>0
  <2>2. CASE q \in Queues /\ links' = [links EXCEPT ![q] = Insert(Unlink(@, t), t, prio')]
    <3> DEFINE s == Unlink(links[q], t)
    <3>1. links[q] \in Seq(Threads) /\ t \in Linked(links[q])
      BY Zenon, <2>2, <1>a, <1>1, <1>6 DEF QueueIntegrity
    <3>2. s \in Seq(Threads) /\ Linked(s) = Linked(links[q]) \ {t} /\ Distinct(s)
      BY Zenon, <2>2, <3>1, UnlinkFacts, <1>1, <2>0
    <3> HIDE DEF s
    <3>3. /\ Insert(s, t, prio') \in Seq(Threads) /\ Linked(Insert(s, t, prio')) = Linked(s) \cup {t}
          /\ Distinct(Insert(s, t, prio'))
      BY Zenon, <3>2, InsertFacts, <1>1
    <3>4. Linked(Insert(s, t, prio')) = Linked(links[q])
      BY Zenon, <3>1, <3>2, <3>3
    <3>5. links' = [links EXCEPT ![q] = Insert(s, t, prio')]
      BY Zenon, <2>2 DEF s
    <3>6. /\ links'[q] = Insert(s, t, prio') /\ \A r \in Queues \ {q} : links'[r] = links[r]
          /\ links' \in [Queues -> Seq(Threads)]
      BY Zenon, <2>2, <3>5, <1>6, <3>3
    <3>. QED  BY Zenon, <2>2, <3>4, <3>6, <2>0, <3>3
  <2>. QED  BY Zenon, <2>1, <2>2, <1>8
<1>11. TypeOK'
  BY Zenon, <1>9, <1>10, <1>a, <1>1, <1>4, <1>8 DEF TypeOK, cpuVars
<1>12. OpShape'
  BY Zenon, <1>a, <1>1, <1>4, <1>5 DEF OpShape, cpuVars
<1>13. AtShape'
  BY Zenon, <1>a, <1>1 DEF AtShape
<1>14. OwnerShape'
  BY Zenon, <1>a, <1>1, <1>4, <1>5 DEF OwnerShape
<1>15. IdleReady'
  BY Zenon, <1>a, <1>1 DEF IdleReady
<1>16. CpuShape'
  BY Zenon, <1>a, <1>1, <1>5 DEF CpuShape, cpuVars
<1>17. QueueIntegrity'
  BY Zenon, <1>9, <1>10, <1>a, <1>1 DEF QueueIntegrity
<1>18. StatesMatchQueues'
  BY Zenon, <1>a, <1>1 DEF StatesMatchQueues
<1>19. WaiterShape'
  BY <1>a, <1>1, <1>4, <1>5 DEF WaiterShape, cpuVars
<1>20. LockShape'
  BY ZenonT(30), <1>a, <1>1, <1>4, <1>5 DEF LockShape
<1>21. JoinShape' /\ TimerShape'
  BY Zenon, <1>a, <1>1 DEF JoinShape, TimerShape
<1>. QED
  BY Zenon, <1>11, <1>12, <1>13, <1>14, <1>15, <1>16, <1>17, <1>18, <1>19, <1>20, <1>21 DEF IInv

(* One turn of KThrQueueUnblockCommon, or its end.                         *)
LEMMA UnblockStep ==
  ASSUME IInv, KThrQueueUnblockCommon
  PROVE  IInv'
<1>a. /\ TypeOK /\ OpShape /\ AtShape /\ OwnerShape /\ IdleReady /\ CpuShape /\ QueueIntegrity
      /\ StatesMatchQueues /\ WaiterShape /\ LockShape /\ JoinShape /\ TimerShape
  BY Zenon DEF IInv
<1> DEFINE q   == op.q
           s   == links[q]
           hit == {i \in 1..Len(s) : token[s[i]] = op.ref}
           k   == Least(hit)
           t   == s[k]
<1>1. /\ op.pc = "unblock" /\ UNCHANGED <<list, suspend, prio, baseprio, owner, armed, at>>
      /\ ~Handing /\ ~Bumping /\ ~Setting
  BY Zenon DEF KThrQueueUnblockCommon, Handing, Bumping, Setting
<1>2. /\ op \in Ops /\ q \in Static /\ q \in Queues /\ s \in Seq(Threads) /\ op.n \in Threads \cup {NULL}
      /\ op.n # NULL => state[op.n] = "RUNNING"
      /\ q = "join" => op.ref \in Threads /\ state[op.ref] = "FINISHED"
      /\ q = "sleep" => op.ref \notin armed
  <2>1. op \in Ops /\ links \in [Queues -> Seq(Threads)]
    BY Zenon, <1>a DEF TypeOK
  <2>2. /\ q \in Static
        /\ op.n # NULL => state[op.n] = "RUNNING"
        /\ q = "join" => op.ref \in Threads /\ state[op.ref] = "FINISHED"
        /\ q = "sleep" => op.ref \notin armed
    BY Zenon, <1>a, <1>1 DEF OpShape
  <2>3. op.n \in Threads \cup {NULL}
    BY Zenon, <2>1 DEF Ops
  <2>. QED  BY Zenon, <2>1, <2>2, <2>3, NoOpType
<1>3. CASE op.max # 0 /\ hit # {}
  <2>1. k \in 1..Len(s) /\ token[s[k]] = op.ref
    <3>1. hit \in SUBSET Nat
      OBVIOUS
    <3>. QED  BY Zenon, <1>3, <3>1, LeastIsMember
  <2>2. /\ links' = [links EXCEPT ![q] = UnlinkAt(s, k)]
        /\ queue' = [queue EXCEPT ![t] = NULL]
        /\ token' = [token EXCEPT ![t] = Woken]
        /\ state' = IF suspend[t] = 0 THEN [state EXCEPT ![t] = "RUNNING"] ELSE state
        /\ op' = [op EXCEPT !.max = IF @ > 0 THEN @ - 1 ELSE @,
                            !.n   = IF @ = NULL /\ suspend[t] = 0 THEN t ELSE @]
        /\ UNCHANGED cpuVars
    BY Zenon, <1>3 DEF KThrQueueUnblockCommon
  <2> HIDE DEF hit, k
  <2>3. t \in Threads /\ token[t] = op.ref /\ t \in Linked(s) /\ Distinct(s)
    <3>1. t \in Threads /\ token[t] = op.ref
      BY <1>2, <2>1
    <3>2. t \in Linked(s)
      BY RangeIsElements, <1>2, <2>1
    <3>. QED  BY Zenon, <3>1, <3>2, <1>a, <1>2 DEF QueueIntegrity
  <2>4. /\ UnlinkAt(s, k) \in Seq(Threads) /\ Linked(UnlinkAt(s, k)) = Linked(s) \ {t}
        /\ Distinct(UnlinkAt(s, k))
    BY Zenon, RemoveFacts, <1>2, <2>1, <2>3
  <2> HIDE DEF t
  <2>5. queue[t] = q
    BY Zenon, <1>a, <1>2, <2>3 DEF QueueIntegrity
  <2>6. state[t] = "WAITING"
    <3>1. state[t] \in States
      BY Zenon, <1>a, <2>3 DEF TypeOK
    <3>2. q \notin Threads /\ q # NULL
      BY Zenon, ConstantFacts, <1>2
    <3>. QED  BY Zenon, <3>1, <3>2, <1>a, <2>3, <2>5 DEF StatesMatchQueues, States, Live
  <2>7. /\ state' \in [Threads -> States] /\ \A u \in Threads \ {t} : state'[u] = state[u]
        /\ state'[t] = IF suspend[t] = 0 THEN "RUNNING" ELSE "WAITING"
    BY ZenonT(30), <1>a, <2>2, <2>3, <2>6 DEF TypeOK, States, Live
  <2>8. /\ queue' \in [Threads -> Queues \cup {NULL}] /\ queue'[t] = NULL
        /\ \A u \in Threads \ {t} : queue'[u] = queue[u]
    BY Zenon, <1>a, <2>2, <2>3 DEF TypeOK
  <2>9. /\ token' \in [Threads -> Tokens]
        /\ \A u \in Threads \ {t} : token'[u] = token[u]
    BY Zenon, NoOpType, <1>a, <2>2, <2>8 DEF TypeOK
  <2>10. /\ links' \in [Queues -> Seq(Threads)] /\ links'[q] = UnlinkAt(s, k)
         /\ \A r \in Queues \ {q} : links'[r] = links[r]
    BY SMTT(30), <1>a, ConstantFacts, <1>1, <1>2, <2>1, <2>2, <2>3, <2>4, <2>5, <2>6, <2>7, <2>8, <2>9 DEF
       TypeOK
  <2>11. /\ op' \in Ops /\ op'.pc = "unblock" /\ op'.q = q /\ op'.ref = op.ref
         /\ op'.n = IF op.n = NULL /\ suspend[t] = 0 THEN t ELSE op.n
         /\ ~Handing' /\ ~Bumping' /\ ~Setting'
    <3>1. /\ op'.pc = "unblock" /\ op'.q = q /\ op'.ref = op.ref
          /\ op'.n = IF op.n = NULL /\ suspend[t] = 0 THEN t ELSE op.n
      BY <1>1, <2>2 DEF Ops
    <3>2. op' \in Ops
      <4> DEFINE a == IF op.max > 0 THEN op.max - 1 ELSE op.max
                 b == IF op.n = NULL /\ suspend[t] = 0 THEN t ELSE op.n
      <4>1. op.max \in {-1, 0, 1}
        BY Zenon, <1>2 DEF Ops
      <4>2. a \in {-1, 0, 1} /\ b \in Threads \cup {NULL}
        BY <4>1, <1>2, <2>3
      <4>3. op' = [op EXCEPT !.max = a, !.n = b]
        BY Zenon, <2>2
      <4> HIDE DEF a, b
      <4>. QED  BY Zenon, <4>2, <4>3, <1>2 DEF Ops
    <3>. QED  BY Zenon, <3>1, <3>2 DEF Handing, Bumping, Setting
  <2>12. TypeOK'
    BY Zenon, <1>a, <1>1, <2>2, <2>7, <2>9, <2>10, <2>11 DEF TypeOK, cpuVars
  <2>13. OpShape'
    BY Zenon, <1>1, <1>2, <2>6, <2>7, <2>11 DEF OpShape
  <2>14. AtShape'
    BY Zenon, <1>a, <1>1, <2>6, <2>7 DEF AtShape
  <2>15. OwnerShape'
    <3>1. \A m \in Mutexes : owner[m] \in Threads \cup {NULL}
      BY Zenon, <1>a DEF TypeOK
    <3>. QED  BY <3>1, <1>a, <1>1, <2>2, <2>11 DEF OwnerShape, Live
  <2>16. IdleReady'
    BY <1>a, <1>1, <2>2 DEF IdleReady
  <2>17. CpuShape'
    <3>1. cur \in Threads /\ nextCtx \in Threads \cup {NULL}
      BY Zenon, <1>a DEF TypeOK
    <3>. QED  BY <3>1, <1>a, <1>1, <2>2 DEF CpuShape, cpuVars
  <2>18. QueueIntegrity'
    <3>1. \A r \in Queues : Distinct(links'[r])
      BY Zenon, <1>a, <2>4, <2>10 DEF QueueIntegrity
    <3>2. \A r \in Queues, u \in Threads : u \in Linked(links'[r]) <=> queue'[u] = r
      <4>1. \A r \in Queues, u \in Threads : u \in Linked(links[r]) <=> queue[u] = r
        BY Zenon, <1>a DEF QueueIntegrity
      <4> SUFFICES ASSUME NEW r \in Queues, NEW u \in Threads
                   PROVE  u \in Linked(links'[r]) <=> queue'[u] = r
        BY Zenon
      <4>2. CASE r = q
        BY Zenon, <4>1, <4>2, ConstantFacts, <2>4, <2>8, <2>10
      <4>3. CASE r # q
        BY <4>1, <4>3, ConstantFacts, <1>2, <2>2, <2>3
      <4>. QED  BY Zenon, <4>2, <4>3
    <3>3. \A u \in Threads : u \in Linked(list') <=> state'[u] \in Live
      BY Zenon, <1>a, <1>1, <2>6, <2>7 DEF QueueIntegrity, Live
    <3>. QED  BY Zenon, <3>1, <3>2, <3>3, <1>a, <1>1 DEF QueueIntegrity
  <2>19. StatesMatchQueues'
    <3>1. suspend[t] \in Nat
      BY SMTT(30), <1>a, <2>3 DEF TypeOK
    <3>. QED  BY <3>1, <1>a, <1>1, <2>7, <2>8, <2>9 DEF StatesMatchQueues
  <2>20. WaiterShape'
    <3>1. state'[t] # "WAITING_MUTEX"
      BY <2>7
    <3>2. \A u \in Threads : state'[u] = "WAITING_MUTEX" =>
            state[u] = "WAITING_MUTEX" /\ token'[u] = token[u] /\ queue'[u] = queue[u]
      BY Zenon, <3>1, <2>7, <2>8, <2>9
    <3>3. UNCHANGED <<at, owner>> /\ ~Handing /\ ~Handing'
      BY Zenon, <1>1, <2>11 DEF Handing
    <3>. QED  BY Zenon, <3>2, <3>3, <1>a DEF WaiterShape
  <2>21. LockShape'
    BY Zenon, <1>a, <1>1, <2>6, <2>7 DEF LockShape
  <2>22. JoinShape'
    <3>1. at[t].pc = "join" => at[t].x \in Threads /\ state[at[t].x] = "FINISHED"
      BY <1>a, <1>2, <2>3, <2>5 DEF JoinShape
    <3>. QED  BY <3>1, <1>a, <1>1, <2>2, <2>6 DEF JoinShape
  <2>23. TimerShape'
    <3>1. t \in armed => at[t].pc = "cvt"
      BY <1>a, <1>2, <2>3, <2>5 DEF TimerShape
    <3>2. armed \subseteq Threads
      BY Zenon, <1>a DEF TypeOK
    <3>. QED  BY <3>1, <3>2, <1>a, <1>1, <2>2 DEF TimerShape
  <2>. QED
    BY <2>12, <2>13, <2>14, <2>15, <2>16, <2>17, <2>18, <2>19, <2>20, <2>21, <2>22, <2>23 DEF IInv
<1>4. CASE ~(op.max # 0 /\ hit # {})
  <2>1. /\ UNCHANGED <<threadVars, queueVars, owner, armed, at>>
        /\ IF at[cur].pc = "exit" /\ ~(op.n # NULL /\ prio[op.n] < prio[cur])
           THEN KThreadSwitchTo(KThreadFindRunnable(list, state))
           ELSE KThreadReschedule(op.n)
    BY Zenon, <1>4 DEF KThrQueueUnblockCommon, threadVars, queueVars
  <2>2. CASE at[cur].pc = "exit"
    <3> DEFINE u == IF op.n # NULL /\ prio[op.n] < prio[cur]
                    THEN op.n ELSE KThreadFindRunnable(list, state)
    <3>1. KThreadSwitchTo(u) /\ ~excpt /\ nextCtx = NULL
      BY Zenon, <2>2, <1>a, <2>1 DEF KThreadReschedule, CpuShape, threadVars
    <3>2. u \in Threads /\ state[u] = "RUNNING"
      BY Zenon, IdleFacts, <1>2
    <3> HIDE DEF u
    <3>3. cur' = u /\ nextCtx' = NULL /\ excpt' = excpt /\ op' = NoOp
      BY Zenon, <3>1 DEF KThreadSwitchTo
    <3>4. CpuShape'
      <4>1. at[u].pc # "exit" /\ UNCHANGED <<state, at>>
        BY Zenon, <1>a, <2>1, <3>2 DEF AtShape, threadVars
      <4>. QED  BY Zenon, <3>1, <3>3, <4>1, <3>2 DEF CpuShape
    <3>. QED  BY Zenon, <3>3, <3>4, SwitchStep, <1>1, <2>1, <3>2
  <2>3. CASE at[cur].pc # "exit"
    BY Zenon, <2>3, RescheduleStep, <1>1, <1>2, <2>1
  <2>. QED  BY Zenon, <2>2, <2>3
<1>. QED  BY Zenon, <1>3, <1>4

(* One turn of KThreadRemoveWaiter.                                        *)
LEMMA RemoveWaiterStep ==
  ASSUME IInv, KThreadRemoveWaiter
  PROVE  IInv'
<1>a. /\ TypeOK /\ OpShape /\ AtShape /\ OwnerShape /\ IdleReady /\ CpuShape /\ QueueIntegrity
      /\ StatesMatchQueues /\ WaiterShape /\ LockShape /\ JoinShape /\ TimerShape
  BY Zenon DEF IInv
<1> DEFINE s   == links[cur]
           hit == {i \in 1..Len(s) : token[s[i]] = op.m}
           k   == Least(hit)
           t   == s[k]
           r   == [links EXCEPT ![cur] = UnlinkAt(s, k)]
<1>1. /\ op.pc = "handover"
      /\ UNCHANGED <<list, suspend, prio, baseprio, token, owner, cpuVars, armed, at>>
      /\ Handing /\ ~Bumping /\ ~Setting
  BY Zenon DEF KThreadRemoveWaiter, Handing, Bumping, Setting
<1>2. /\ cur \in Threads /\ cur \in Queues /\ op \in Ops /\ op.n \in Threads \cup {NULL}
      /\ op.n # cur /\ op.m \in Mutexes /\ owner[op.m] = cur /\ state[cur] = "RUNNING"
      /\ ~excpt /\ at[cur].pc \in {"user", "cv", "cvt"}
  <2>1. op \in Ops /\ cur \in Threads
    BY Zenon, <1>a DEF TypeOK
  <2>2. op.n \in Threads \cup {NULL}
    BY Zenon, <2>1 DEF Ops
  <2>. QED  BY Zenon, <2>1, <2>2, NoOpType, <1>a, <1>1 DEF OpShape
<1>3. links \in [Queues -> Seq(Threads)] /\ s \in Seq(Threads) /\ Distinct(s)
  BY Zenon, <1>a, <1>2 DEF TypeOK, QueueIntegrity
<1>4. \A u \in Threads : u \in Linked(s) <=> queue[u] = cur
  BY Zenon, <1>a, <1>2 DEF QueueIntegrity
<1>5. CASE hit = {}
  <2>1. /\ UNCHANGED <<state, queue, links>>
        /\ op' = IF op.n = NULL THEN [op EXCEPT !.pc = "given"]
                 ELSE [op EXCEPT !.pc = "update", !.t = cur, !.ret = "next"]
    BY Zenon, <1>5 DEF KThreadRemoveWaiter, Waiting
  <2>2. \A u \in Threads : queue[u] = cur => token[u] # op.m
    BY <1>4, <1>5, RangeIsElements, <1>3
  <2>3. /\ op' \in Ops /\ op'.m = op.m /\ op'.n = op.n
        /\ \/ op'.pc = "given" /\ op.n = NULL
           \/ op'.pc = "update" /\ op'.t = cur /\ op'.ret = "next" /\ op.n # NULL
    BY Zenon, <1>2, <2>1 DEF Ops
  <2>4. Handing' /\ ~Bumping' /\ ~Setting' /\ op'.pc # "unblock" /\ op'.pc # "handover"
    BY Zenon, <2>3 DEF Handing, Bumping, Setting
  <2>5. TypeOK'
    BY Zenon, <1>a, <1>1, <2>1, <2>3 DEF TypeOK, cpuVars
  <2>6. OpShape'
    BY <1>1, <1>2, <2>1, <2>4 DEF OpShape, cpuVars
  <2>7. OwnerShape'
    BY <1>a, <1>1, <1>2, <2>1 DEF OwnerShape, Live
  <2>8. AtShape' /\ IdleReady'
    BY Zenon, <1>a, <1>1, <2>1 DEF AtShape, IdleReady
  <2>9. CpuShape'
    BY Zenon, <1>a, <1>1, <2>1 DEF CpuShape, cpuVars
  <2>10. QueueIntegrity' /\ StatesMatchQueues'
    BY Zenon, <1>a, <1>1, <2>1 DEF QueueIntegrity, StatesMatchQueues
  <2>11. WaiterShape'
    <3>1. \A u \in Threads : state[u] = "WAITING_MUTEX" => queue[u] \in Threads
      BY Zenon, <1>a DEF StatesMatchQueues
    <3>. QED  BY <2>2, <3>1, <1>a, ConstantFacts, <1>1, <2>1, <2>4 DEF WaiterShape, cpuVars
  <2>12. LockShape'
    BY <1>a, <1>1, <2>1, <2>4 DEF LockShape
  <2>13. JoinShape' /\ TimerShape'
    BY Zenon, <1>a, <1>1, <2>1 DEF JoinShape, TimerShape
  <2>. QED
    BY <2>5, <2>6, <2>7, <2>8, <2>9, <2>10, <2>11, <2>12, <2>13 DEF IInv
<1>6. CASE hit # {}
  <2>1. k \in 1..Len(s) /\ token[s[k]] = op.m
    <3>1. hit \in SUBSET Nat
      OBVIOUS
    <3>. QED  BY Zenon, <1>6, <3>1, LeastIsMember
  <2>2. \/ /\ op.n = NULL /\ links' = r /\ queue' = [queue EXCEPT ![t] = NULL]
           /\ state' = [state EXCEPT ![t] = IF suspend[t] = 0 THEN "RUNNING" ELSE "WAITING"]
           /\ op' = [op EXCEPT !.n = t]
        \/ /\ op.n # NULL /\ links' = [r EXCEPT ![op.n] = Insert(@, t, prio)]
           /\ queue' = [queue EXCEPT ![t] = op.n]
           /\ UNCHANGED <<state, op>>
    BY Zenon, <1>6 DEF KThreadRemoveWaiter, Waiting
  <2> HIDE DEF hit, k
  <2>3. t \in Threads /\ token[t] = op.m /\ t \in Linked(s)
    <3>1. t \in Threads /\ token[t] = op.m
      BY <1>3, <2>1
    <3>. QED  BY Zenon, <3>1, RangeIsElements, <1>3, <2>1
  <2>4. /\ UnlinkAt(s, k) \in Seq(Threads) /\ Linked(UnlinkAt(s, k)) = Linked(s) \ {t}
        /\ Distinct(UnlinkAt(s, k))
    BY Zenon, RemoveFacts, <1>3, <2>1
  <2> HIDE DEF t
  <2>5. /\ r \in [Queues -> Seq(Threads)] /\ Linked(r[cur]) = Linked(s) \ {t} /\ Distinct(r[cur])
        /\ \A u \in Queues \ {cur} : r[u] = links[u]
    BY Zenon, <2>4, <1>2, <1>3
  <2> HIDE DEF r
  <2>6. queue[t] = cur /\ state[t] = "WAITING_MUTEX" /\ t # cur
    <3>1. queue[t] = cur
      BY Zenon, <1>4, <2>3
    <3>2. state[t] \in States /\ cur # NULL /\ cur \notin Static
      BY Zenon, <1>a, ConstantFacts, <2>3 DEF TypeOK
    <3>3. state[t] = "WAITING_MUTEX"
      BY Zenon, <3>1, <3>2, <1>a, <2>3 DEF StatesMatchQueues, States, Live
    <3>. QED  BY Zenon, <3>1, <3>3, <1>2
  <2>7. at[t].pc = "lock" /\ at[t].m = op.m
    BY Zenon, <1>a, <2>3, <2>6 DEF WaiterShape
  <2>8. \A q \in Queues, u \in Threads : u \in Linked(links[q]) <=> queue[u] = q
    BY Zenon, <1>a DEF QueueIntegrity
  <2>9. \A q \in Queues : Distinct(links[q])
    BY Zenon, <1>a DEF QueueIntegrity
  <2>10. CASE op.n = NULL
    <3>1. /\ links' = r /\ queue' = [queue EXCEPT ![t] = NULL]
          /\ state' = [state EXCEPT ![t] = IF suspend[t] = 0 THEN "RUNNING" ELSE "WAITING"]
          /\ op' = [op EXCEPT !.n = t]
      BY Zenon, <2>2, <2>10
    <3>2. /\ state' \in [Threads -> States] /\ \A u \in Threads \ {t} : state'[u] = state[u]
          /\ state'[t] = IF suspend[t] = 0 THEN "RUNNING" ELSE "WAITING"
      BY Zenon, <1>a, <2>3, <3>1 DEF TypeOK, States, Live
    <3>3. /\ queue' \in [Threads -> Queues \cup {NULL}] /\ queue'[t] = NULL
          /\ \A u \in Threads \ {t} : queue'[u] = queue[u]
      BY <1>a, <3>1, <3>2 DEF TypeOK
    <3>4. op' \in Ops /\ op'.pc = "handover" /\ op'.m = op.m /\ op'.n = t
      BY ZenonT(30), <1>1, <1>2, <2>3, <3>1 DEF Ops
    <3>5. Handing' /\ ~Bumping' /\ ~Setting'
      BY Zenon, <3>4 DEF Handing, Bumping, Setting
    <3>6. TypeOK'
      BY Zenon, <1>a, <1>1, <2>5, <3>1, <3>2, <3>4 DEF TypeOK, cpuVars
    <3>7. OpShape'
      BY <1>1, <1>2, <2>7, <3>1, <3>2 DEF OpShape, cpuVars
    <3>8. OwnerShape'
      <4>1. \A m \in Mutexes : owner[m] \in Threads \cup {NULL}
        BY Zenon, <1>a DEF TypeOK
      <4>. QED  BY <4>1, <1>a, <1>1, <3>1, <3>2 DEF OwnerShape, Live
    <3>9. AtShape'
      BY Zenon, <1>a, <1>1, <2>7, <3>2 DEF AtShape
    <3>10. IdleReady'
      BY <1>a, <1>1, <3>1 DEF IdleReady
    <3>11. CpuShape'
      BY <1>a, <1>1, <2>6, <3>1 DEF CpuShape, cpuVars
    <3>12. QueueIntegrity'
      <4>1. \A q \in Queues : Distinct(links'[q])
        BY ZenonT(30), <2>5, <2>9, <3>1
      <4>2. \A q \in Queues, u \in Threads : u \in Linked(links'[q]) <=> queue'[u] = q
        <5>1. ASSUME NEW q \in Queues, NEW u \in Threads
              PROVE  u \in Linked(links'[q]) <=> queue'[u] = q
          <6>1. CASE u = t
            BY ZenonT(30), <6>1, ConstantFacts, <2>5, <2>6, <2>8, <3>1, <3>3
          <6>2. CASE u # t /\ q = cur
            BY <6>2, <2>5, <2>8, <3>1
          <6>3. CASE u # t /\ q # cur
            BY <6>3, <2>5, <2>8, <3>1
          <6>. QED  BY Zenon, <6>1, <6>2, <6>3
        <5>. QED  BY Zenon, <5>1
      <4>3. \A u \in Threads : u \in Linked(list') <=> state'[u] \in Live
        BY Zenon, <1>a, <1>1, <2>6, <3>2 DEF QueueIntegrity, Live
      <4>. QED  BY Zenon, <4>1, <4>2, <4>3, <1>a, <1>1 DEF QueueIntegrity
    <3>13. StatesMatchQueues'
      <4>1. suspend[t] \in Nat
        BY <1>a, <2>3 DEF TypeOK
      <4>. QED  BY <4>1, <1>a, <1>1, <3>2, <3>3 DEF StatesMatchQueues
    <3>14. WaiterShape'
      <4>1. \A u \in Threads : state[u] = "WAITING_MUTEX" => queue[u] \in Threads
        BY Zenon, <1>a DEF StatesMatchQueues
      <4>. QED  BY <2>10, <4>1, <1>a, ConstantFacts, <1>1, <1>2, <3>1, <3>2 DEF WaiterShape, cpuVars
    <3>15. LockShape'
      BY ZenonT(30), <2>10, <1>a, ConstantFacts, <1>1, <2>7, <3>1, <3>2, <3>4, <3>5 DEF LockShape
    <3>16. JoinShape'
      BY <1>a, <1>1, <2>6, <2>7, <3>1 DEF JoinShape
    <3>17. TimerShape'
      <4>1. armed \subseteq Threads
        BY Zenon, <1>a DEF TypeOK
      <4>. QED  BY <4>1, <1>a, <1>1, <2>7, <3>3 DEF TimerShape
    <3>. QED
      BY <3>6, <3>7, <3>8, <3>9, <3>10, <3>11, <3>12, <3>13, <3>14, <3>15, <3>16, <3>17 DEF IInv
  <2>11. CASE op.n # NULL
    <3> DEFINE n == op.n
               x == Insert(links[n], t, prio)
    <3>1. /\ links' = [r EXCEPT ![n] = Insert(@, t, prio)] /\ queue' = [queue EXCEPT ![t] = n]
          /\ UNCHANGED <<state, op>> /\ n \in Threads /\ n \in Queues /\ n # cur
      BY Zenon, <2>2, <2>11, NoOpType, <1>2
    <3> HIDE DEF n
    <3>2. /\ queue' \in [Threads -> Queues \cup {NULL}] /\ queue'[t] = n
          /\ \A u \in Threads \ {t} : queue'[u] = queue[u]
      BY Zenon, <1>a, <2>3, <3>1 DEF TypeOK
    <3>3. links[n] \in Seq(Threads) /\ Distinct(links[n]) /\ t \notin Linked(links[n]) /\ r[n] = links[n]
      BY <2>5, <2>6, <2>8, <2>9, <3>1, <3>2
    <3>4. x \in Seq(Threads) /\ Linked(x) = Linked(links[n]) \cup {t} /\ Distinct(x)
      BY <3>3, InsertFacts, <3>1, <3>2
    <3>5. links' = [r EXCEPT ![n] = x]
      BY Zenon, <3>3, <3>1
    <3> HIDE DEF x
    <3>6. /\ links' \in [Queues -> Seq(Threads)] /\ links'[n] = x /\ links'[cur] = r[cur]
          /\ \A q \in Queues \ {n, cur} : links'[q] = links[q]
      BY <3>5, <2>5, <3>1, <3>4
    <3>7. Handing' /\ ~Bumping' /\ ~Setting'
      BY Zenon, <1>1, <3>1 DEF Handing, Bumping, Setting
    <3>8. TypeOK'
      BY Zenon, <1>a, <1>1, <3>1, <3>6 DEF TypeOK, cpuVars
    <3>9. OpShape'
      BY Zenon, <1>1, <1>2, <3>1, <3>7 DEF OpShape, cpuVars
    <3>10. OwnerShape' /\ AtShape' /\ IdleReady'
      BY Zenon, <1>a, <1>1, <3>1 DEF OwnerShape, AtShape, IdleReady, Handing
    <3>11. CpuShape'
      BY Zenon, <1>a, <1>1, <3>1 DEF CpuShape, cpuVars, Bumping
    <3>12. QueueIntegrity'
      <4>1. \A q \in Queues : Distinct(links'[q])
        BY Zenon, <2>5, <2>9, <3>4, <3>6
      <4>2. \A q \in Queues, u \in Threads : u \in Linked(links'[q]) <=> queue'[u] = q
        <5> SUFFICES ASSUME NEW q \in Queues, NEW u \in Threads
                     PROVE  u \in Linked(links'[q]) <=> queue'[u] = q
          BY Zenon
        <5>1. CASE q = n
          BY <5>1, <2>8, <3>2, <3>4, <3>6
        <5>2. CASE q = cur
          BY Zenon, <5>2, <2>5, <2>8, <3>1, <3>2
        <5>3. CASE q \notin {n, cur}
          BY <5>3, <2>6, <2>8, <3>2, <3>6
        <5>. QED  BY Zenon, <5>1, <5>2, <5>3
      <4>. QED  BY Zenon, <4>1, <4>2, <1>a, <1>1, <3>1 DEF QueueIntegrity
    <3>13. StatesMatchQueues'
      BY <1>a, <1>1, <2>6, <3>1 DEF StatesMatchQueues
    <3>14. WaiterShape'
      <4>1. UNCHANGED <<state, token, owner, at, op, cur>>
        BY Zenon, <1>1, <3>1 DEF cpuVars
      <4>2. \A u \in Threads : queue'[u] = queue[u] \/ (token[u] = op.m /\ queue'[u] = op.n)
        BY Zenon, <2>3, <3>2 DEF n
      <4>. QED  BY <1>a, <1>1, <3>7, <4>1, <4>2 DEF WaiterShape
    <3>15. LockShape'
      BY ZenonT(30), <1>a, <1>1, <3>1, <3>7 DEF LockShape
    <3>16. JoinShape'
      BY <1>a, <1>1, <2>7, <3>1 DEF JoinShape
    <3>17. TimerShape'
      <4>1. armed \subseteq Threads
        BY Zenon, <1>a DEF TypeOK
      <4>. QED  BY <4>1, <1>a, <1>1, <2>7, <3>2 DEF TimerShape
    <3>. QED
      BY <3>8, <3>9, <3>10, <3>11, <3>12, <3>13, <3>14, <3>15, <3>16, <3>17 DEF IInv
  <2>. QED  BY Zenon, <2>10, <2>11
<1>. QED  BY Zenon, <1>5, <1>6

(* The mutex gets its next owner.                                          *)
LEMMA GivenStep ==
  ASSUME IInv, Given
  PROVE  IInv'
<1>a. /\ TypeOK /\ OpShape /\ AtShape /\ OwnerShape /\ IdleReady /\ CpuShape /\ QueueIntegrity
      /\ StatesMatchQueues /\ WaiterShape /\ LockShape /\ JoinShape /\ TimerShape
  BY Zenon DEF IInv
<1> DEFINE self == at[cur]
           next == IF op.prio < prio[cur] THEN KThreadFindRunnable(list, state) ELSE cur
<1>1. /\ op.pc = "given" /\ owner' = [owner EXCEPT ![op.m] = op.n]
      /\ UNCHANGED <<list, suspend, baseprio, at>>
      /\ Handing /\ ~Bumping
  BY Zenon DEF Given, Handing, Bumping
<1>2. /\ cur \in Threads /\ op.n \in Threads \cup {NULL}
      /\ op.n # cur /\ op.m \in Mutexes /\ owner[op.m] = cur /\ state[cur] = "RUNNING"
      /\ ~excpt /\ nextCtx = NULL /\ self.pc \in {"user", "cv", "cvt"}
  <2>1. op \in Ops /\ cur \in Threads
    BY Zenon, <1>a DEF TypeOK
  <2>2. op.n \in Threads \cup {NULL}
    BY Zenon, <2>1 DEF Ops
  <2>. QED  BY Zenon, <2>1, <2>2, <1>a, <1>1 DEF OpShape, CpuShape
<1>3. /\ owner' \in [Mutexes -> Threads \cup {NULL}] /\ owner'[op.m] = op.n
      /\ \A m \in Mutexes \ {op.m} : owner'[m] = owner[m]
  BY Zenon, <1>a, <1>1, <1>2 DEF TypeOK
<1>4. \A u \in Threads : state[u] = "WAITING_MUTEX" =>
         /\ at[u].pc = "lock" /\ at[u].m = token[u] /\ token[u] \in Mutexes
         /\ owner'[token[u]] \in Threads /\ queue[u] = owner'[token[u]]
  <2>1. \A u \in Threads : state[u] = "WAITING_MUTEX" => token[u] \in Mutexes
    BY Zenon, <1>a DEF StatesMatchQueues
  <2>. QED  BY Zenon, <2>1, <1>a, <1>1, <1>3 DEF WaiterShape
<1>5. \A u \in Threads : at[u].pc = "lock" /\ state[u] # "WAITING_MUTEX" => owner'[at[u].m] = u
  <2>1. \A u \in Threads : at[u].pc = "lock" => at[u].m \in Mutexes
    BY Zenon, <1>a DEF AtShape
  <2>. QED  BY Zenon, <2>1, <1>a, <1>2, <1>3 DEF LockShape
<1>6. \A m \in Mutexes : owner'[m] # NULL => owner'[m] \in Threads /\ state[owner'[m]] \in Live
  BY <1>a, <1>1, <1>3 DEF OwnerShape
<1>7. CASE self.pc = "user"
  <2>1. /\ UNCHANGED <<state, prio, queueVars, armed>>
        /\ KThreadReschedule(IF next = cur THEN NULL ELSE next)
    BY Zenon, <1>7 DEF Given
  <2>2. next \in Threads /\ state[next] = "RUNNING"
    BY Zenon, IdleFacts, <1>2
  <2> HIDE DEF next
  <2>3. nextCtx \in Threads \cup {NULL} /\ prio' \in [Threads -> Int]
    BY <1>a, <2>1 DEF TypeOK
  <2>4. op' = NoOp /\ excpt' = excpt /\ nextCtx' = NULL /\ cur' \in {cur, next}
    BY Zenon, <2>3, RescheduleFacts, ConstantFacts, <1>2, <2>1, <2>2
  <2>5. op' \in Ops /\ op'.pc = "none" /\ ~Handing' /\ ~Bumping' /\ ~Setting'
    BY Zenon, NoOpType, <2>4 DEF NoOp, Handing, Bumping, Setting
  <2>6. TypeOK'
    BY Zenon, <1>a, <1>1, <1>3, <2>1, <2>2, <2>4, <2>5 DEF TypeOK, queueVars
  <2>7. OpShape'
    BY Zenon, <2>5 DEF OpShape
  <2>8. OwnerShape'
    BY Zenon, <1>6, <2>1, <2>5 DEF OwnerShape
  <2>9. AtShape' /\ IdleReady'
    BY Zenon, <1>a, <1>1, <2>1 DEF AtShape, IdleReady
  <2>10. CpuShape'
    <3>1. at[cur].pc # "exit" /\ at[next].pc # "exit"
      BY Zenon, <1>a, <1>2, <2>2 DEF AtShape
    <3>. QED  BY Zenon, <3>1, <1>1, <1>2, <2>1, <2>2, <2>4 DEF CpuShape
  <2>11. QueueIntegrity' /\ StatesMatchQueues'
    BY ZenonT(30), <1>a, <1>1, <2>1 DEF QueueIntegrity, StatesMatchQueues, queueVars
  <2>12. WaiterShape'
    BY <1>4, <1>1, <2>1, <2>5 DEF WaiterShape, queueVars
  <2>13. LockShape'
    BY Zenon, <1>5, <1>1, <2>1 DEF LockShape
  <2>14. JoinShape' /\ TimerShape'
    BY Zenon, <1>a, <1>1, <2>1 DEF JoinShape, TimerShape, queueVars
  <2>. QED
    BY Zenon, <2>6, <2>7, <2>8, <2>9, <2>10, <2>11, <2>12, <2>13, <2>14 DEF IInv
<1>8. CASE self.pc \in {"cv", "cvt"}
  <2> DEFINE c == at[cur].x
  <2>1. /\ armed' = IF self.pc = "cvt" THEN armed \cup {cur} ELSE armed
        /\ KThrQueueBlock("cv", c)
    BY Zenon, <1>8 DEF Given
  <2>2. "cv" \in Static /\ c \in Tokens /\ cur # IdleThread
    <3>1. c \in CondVars
      BY Zenon, <1>8, <1>a, <1>2 DEF AtShape
    <3>2. cur # IdleThread
      BY <1>8, <1>a DEF IdleReady, User
    <3>. QED  BY Zenon, <3>1, <3>2, NoOpType DEF Static
  <2> HIDE DEF c
  <2>3. /\ cur' \in Threads /\ cur' # cur /\ state[cur'] = "RUNNING"
        /\ state' = [state EXCEPT ![cur] = "WAITING"]
        /\ token' = [token EXCEPT ![cur] = c]
        /\ queue' = [queue EXCEPT ![cur] = "cv"]
        /\ nextCtx' = NULL /\ excpt' = excpt /\ op' = NoOp /\ UNCHANGED prio
        /\ links' \in [Queues -> Seq(Threads)]
        /\ QueueIntegrity' /\ StatesMatchQueues'
    BY Zenon, BlockFacts, <1>1, <1>2, <2>1, <2>2
  <2>4. /\ state' \in [Threads -> States]
        /\ state'[cur] = "WAITING" /\ \A u \in Threads \ {cur} : state'[u] = state[u]
    BY Zenon, <1>a, <2>3 DEF TypeOK, States, Live
  <2>5. /\ \A u \in Threads \ {cur} : queue'[u] = queue[u] /\ token'[u] = token[u]
        /\ queue' \in [Threads -> Queues \cup {NULL}] /\ token' \in [Threads -> Tokens]
    BY ZenonT(30), NoOpType, <1>a, ConstantFacts, <1>1, <1>2, <1>3, <2>1, <2>2, <2>3, <2>4 DEF TypeOK
  <2>6. ~Handing' /\ ~Bumping' /\ ~Setting' /\ op' \in Ops /\ op'.pc = "none"
    BY Zenon, NoOpType, <2>3 DEF Handing, Bumping, Setting, NoOp
  <2>7. armed \subseteq Threads /\ armed' \subseteq Threads
    BY Zenon, <1>a, <2>1 DEF TypeOK
  <2>8. TypeOK'
    BY Zenon, <2>7, <1>a, <1>1, <1>2, <2>3, <2>4, <2>5, <2>6 DEF TypeOK
  <2>9. OpShape'
    BY Zenon, <2>6 DEF OpShape
  <2>10. OwnerShape'
    <3>1. \A u \in Threads : state[u] \in Live => state'[u] \in Live
      BY ZenonT(30), <2>4 DEF Live
    <3>. QED  BY Zenon, <1>6, <3>1, <2>6 DEF OwnerShape
  <2>11. AtShape'
    BY <1>a, <1>1, <1>2, <2>4 DEF AtShape
  <2>12. IdleReady'
    BY SMTT(30), <1>a, <1>1, <2>2, <2>3 DEF IdleReady
  <2>13. CpuShape'
    <3>1. at[cur'].pc # "exit"
      BY Zenon, <1>a, <2>3 DEF AtShape
    <3>. QED  BY <3>1, <1>1, <1>2, <2>3 DEF CpuShape
  <2>14. WaiterShape'
    BY SMTT(30), <1>4, <1>1, <2>4, <2>5, <2>6 DEF WaiterShape
  <2>15. LockShape'
    BY SMTT(30), <1>5, <1>1, <1>2, <2>4 DEF LockShape
  <2>16. JoinShape'
    BY SMTT(30), <1>a, <1>1, <1>2, <2>4, <2>5 DEF JoinShape
  <2>17. TimerShape'
    BY <1>8, <2>7, <1>a, <1>1, <2>1, <2>5 DEF TimerShape
  <2>. QED
    BY <2>8, <2>9, <2>10, <2>11, <2>12, <2>13, <2>14, <2>15, <2>16, <2>17, <2>3 DEF IInv
<1>. QED  BY Zenon, <1>7, <1>8, <1>2
=============================================================================
