------------------------------- MODULE KSync -------------------------------
(***************************************************************************)
(* Mutexes with priority inheritance and condition variables:              *)
(* src/tuxedo/sync.c, on the scheduler of KThread.  KThreadRemoveWaiter    *)
(* hands a mutex over to its best waiter and moves the other waiters to    *)
(* the new owner's queue; it is the chain "handover", two calls of         *)
(* KThreadUpdateDynamicPrio, "given".                                      *)
(***************************************************************************)
EXTENDS KThread

Acquire(m) == owner' = [owner EXCEPT ![m] = cur]

KMutexTryLock(m) ==
  /\ InThread
  /\ owner[m] = NULL
  /\ Acquire(m)
  /\ UNCHANGED <<threadVars, queueVars, cpuVars, armed, at, op>>

(* KMutexLock finds the mutex taken; it masks interrupts only afterwards.  *)
KMutexLockContended(m) ==
  /\ InThread
  /\ owner[m] # NULL
  /\ at' = [at EXCEPT ![cur] = [pc |-> "slow", m |-> m, x |-> NULL]]
  /\ UNCHANGED <<threadVars, queueVars, owner, cpuVars, armed, op>>

(* KMutexLock under the interrupt lock: wait in the owner's queue, and     *)
(* bump the owner when the caller is better.                               *)
LockWait(m) ==
  /\ state' = [state EXCEPT ![cur] = "WAITING_MUTEX"]
  /\ token' = [token EXCEPT ![cur] = m]
  /\ queue' = [queue EXCEPT ![cur] = owner[m]]
  /\ links' = [links EXCEPT ![owner[m]] = Insert(@, cur, prio)]
  /\ at' = [at EXCEPT ![cur] = [pc |-> "lock", m |-> m, x |-> NULL]]
  /\ UNCHANGED <<list, suspend, prio, baseprio, owner>>
  /\ IF prio[cur] < prio[owner[m]]
     THEN /\ op' = [NoOp EXCEPT !.pc = "update", !.t = owner[m], !.m = m, !.ret = "bumped"]
          /\ UNCHANGED cpuVars
     ELSE KThreadSwitchTo(KThreadFindRunnable(list, state'))

KMutexLockSlow ==
  /\ Resumed({"slow"})
  /\ UNCHANGED armed
  /\ LET m == at[cur].m
     IN  IF owner[m] = NULL
         THEN /\ Acquire(m)
              /\ at' = [at EXCEPT ![cur] = User]
              /\ UNCHANGED <<threadVars, queueVars, cpuVars, op>>
         ELSE LockWait(m)

(* KMutexLock after the bump: the owner runs next if it can.               *)
KMutexLockSwitch ==
  /\ op.pc = "bumped"
  /\ UNCHANGED <<threadVars, queueVars, owner, armed, at>>
  /\ KThreadSwitchTo(IF state[owner[op.m]] = "RUNNING" THEN owner[op.m]
                     ELSE KThreadFindRunnable(list, state))

(* Entering KThreadRemoveWaiter(self, m).                                  *)
StartHandover(m) == op' = [NoOp EXCEPT !.pc = "handover", !.m = m, !.prio = prio[cur]]

KMutexUnlock(m) ==
  /\ InThread
  /\ owner[m] = cur
  /\ StartHandover(m)
  /\ UNCHANGED <<threadVars, queueVars, owner, cpuVars, armed, at>>

(* KCondVarWait ("cv") and KCondVarWaitTimeoutTicks ("cvt").               *)
KCondVarWait(c, m, kind) ==
  /\ InThread
  /\ owner[m] = cur
  /\ StartHandover(m)
  /\ at' = [at EXCEPT ![cur] = [pc |-> kind, m |-> m, x |-> c]]
  /\ UNCHANGED <<threadVars, queueVars, owner, cpuVars, armed>>

(* The places in the caller's queue of the threads that wait for op.m.     *)
Waiting == {i \in 1..Len(links[cur]) : token[links[cur][i]] = op.m}

(* KThreadRemoveWaiter, one turn of its loop: the first waiter for m is    *)
(* the next owner, every later one moves to the next owner's queue.        *)
KThreadRemoveWaiter ==
  LET t    == links[cur][Least(Waiting)]
      rest == [links EXCEPT ![cur] = UnlinkAt(@, Least(Waiting))]
  IN
  /\ op.pc = "handover"
  /\ UNCHANGED <<list, suspend, prio, baseprio, token, owner, cpuVars, armed, at>>
  /\ CASE Waiting = {} ->
            /\ UNCHANGED <<state, queue, links>>
            /\ op' = IF op.n = NULL THEN [op EXCEPT !.pc = "given"]
                     ELSE [op EXCEPT !.pc = "update", !.t = cur, !.ret = "next"]
       [] Waiting # {} /\ op.n = NULL ->
            /\ links' = rest
            /\ queue' = [queue EXCEPT ![t] = NULL]
            /\ state' = [state EXCEPT ![t] = IF suspend[t] = 0 THEN "RUNNING" ELSE "WAITING"]
            /\ op' = [op EXCEPT !.n = t]
       [] Waiting # {} /\ op.n # NULL ->
            /\ links' = [rest EXCEPT ![op.n] = Insert(@, t, prio)]
            /\ queue' = [queue EXCEPT ![t] = op.n]
            /\ UNCHANGED <<state, op>>

(* The second KThreadUpdateDynamicPrio, for the next owner.                *)
UpdateNextOwner ==
  /\ op.pc = "next"
  /\ op' = [op EXCEPT !.pc = "update", !.t = op.n, !.ret = "given"]
  /\ UNCHANGED <<threadVars, queueVars, owner, cpuVars, armed, at>>

(* m->owner = KThreadRemoveWaiter(...) and what the caller does next:      *)
(* KMutexUnlock reschedules, the waits block on the condition variable.    *)
Given ==
  LET self == at[cur]
      next == IF op.prio < prio[cur] THEN KThreadFindRunnable(list, state) ELSE cur
  IN
  /\ op.pc = "given"
  /\ owner' = [owner EXCEPT ![op.m] = op.n]
  /\ UNCHANGED <<list, suspend, baseprio, at>>
  /\ IF self.pc = "user"
     THEN /\ UNCHANGED <<state, prio, queueVars, armed>>
          /\ KThreadReschedule(IF next = cur THEN NULL ELSE next)
     ELSE /\ armed' = IF self.pc = "cvt" THEN armed \cup {cur} ELSE armed
          /\ KThrQueueBlock("cv", self.x)

KTickTaskStop(t) == armed' = armed \ {t}

(* Back from the condition variable, interrupts still masked: stop the     *)
(* timeout and lock the mutex again.                                       *)
Relock ==
  /\ Resumed({"cv", "cvt"})
  /\ KTickTaskStop(cur)
  /\ LET m == at[cur].m
     IN  IF owner[m] = NULL
         THEN /\ Acquire(m)
              /\ at' = [at EXCEPT ![cur] = User]
              /\ UNCHANGED <<threadVars, queueVars, cpuVars, op>>
         ELSE LockWait(m)

KCondVarSignal(c) ==
  /\ Calling
  /\ KThrQueueUnblock("cv", c, 1)
  /\ UNCHANGED <<threadVars, queueVars, owner, cpuVars, armed, at>>

KCondVarBroadcast(c) ==
  /\ Calling
  /\ KThrQueueUnblock("cv", c, -1)
  /\ UNCHANGED <<threadVars, queueVars, owner, cpuVars, armed, at>>

---------------------------------------------------------------------------
(* The steps the kernel takes on its own, with interrupts masked.          *)
KernelStep ==
  \/ KThreadUpdateDynamicPrio
  \/ KThreadSetPrioTail
  \/ KThrQueueUnblockCommon
  \/ KMutexLockSwitch
  \/ KThreadRemoveWaiter
  \/ UpdateNextOwner
  \/ Given

(* A thread continues inside a kernel function it was blocked in.          *)
ThreadContinues == ReturnToCaller \/ KMutexLockSlow \/ Relock

MutexCall ==
  \E m \in Mutexes : KMutexTryLock(m) \/ KMutexLockContended(m) \/ KMutexUnlock(m)

CondVarCall ==
  \E c \in CondVars :
    \/ \E m \in Mutexes, kind \in {"cv", "cvt"} : KCondVarWait(c, m, kind)
    \/ KCondVarSignal(c)
    \/ KCondVarBroadcast(c)

(* Callers suspend only threads that have not finished: resumed again, a   *)
(* finished thread would become runnable outside the thread list.          *)
KThreadSuspendLive(t) == state[t] \in Live /\ KThreadSuspend(t)

ThreadCall ==
  \/ \E t \in Users, p \in 0..MinPrio : KThreadPrepare(t, p) \/ KThreadSetPrio(t, p)
  \/ \E t \in Users : KThreadResume(t) \/ KThreadSuspendLive(t) \/ KThreadJoin(t)
  \/ KThreadYield
  \/ KThreadSleepTicks
  \/ KThreadExit

Interrupt == IrqEnter \/ IrqReturn \/ (\E t \in Users : TickTaskFires(t))

(* The calls after which the best runnable thread still gets the           *)
(* processor: handlers change no priorities and do not suspend the thread  *)
(* they interrupted, and the priority of a mutex waiter is left alone.     *)
CarefulThreadCall ==
  \/ \E t \in Users, p \in 0..MinPrio :
       \/ KThreadPrepare(t, p)
       \/ ~excpt /\ state[t] # "WAITING_MUTEX" /\ KThreadSetPrio(t, p)
  \/ \E t \in Users :
       \/ KThreadResume(t) \/ KThreadJoin(t)
       \/ ~(excpt /\ t = cur) /\ KThreadSuspendLive(t)
  \/ KThreadYield
  \/ KThreadSleepTicks
  \/ KThreadExit

Init == KThreadInit
Next == KernelStep \/ ThreadContinues \/ MutexCall \/ CondVarCall \/ ThreadCall \/ Interrupt
Spec == Init /\ [][Next]_vars

CarefulNext ==
  KernelStep \/ ThreadContinues \/ MutexCall \/ CondVarCall \/ CarefulThreadCall \/ Interrupt
CarefulSpec == Init /\ [][CarefulNext]_vars

---------------------------------------------------------------------------
(* Properties                                                              *)

(* Every variable has its type.                                            *)
TypeOK ==
  /\ list \in Seq(Threads)
  /\ state \in [Threads -> States]
  /\ suspend \in [Threads -> 0..MaxSuspend]
  /\ prio \in [Threads -> 0..(MinPrio + 1)]
  /\ baseprio \in [Threads -> 0..(MinPrio + 1)]
  /\ queue \in [Threads -> Queues \cup {NULL}]
  /\ token \in [Threads -> Tokens]
  /\ links \in [Queues -> Seq(Threads)]
  /\ owner \in [Mutexes -> Threads \cup {NULL}]
  /\ cur \in Threads
  /\ excpt \in BOOLEAN
  /\ nextCtx \in Threads \cup {NULL}
  /\ armed \subseteq Threads
  /\ at \in [Threads -> Places]
  /\ op \in Ops

Quiet == op.pc = "none"

(* A thread is linked into exactly the queue its wait.queue names, once,   *)
(* and s_firstThread holds exactly the live threads, once each: no         *)
(* insertion, requeue or hand-over loses or duplicates a thread.           *)
QueueIntegrity ==
  /\ \A q \in Queues : Distinct(links[q])
  /\ \A q \in Queues, t \in Threads : t \in Linked(links[q]) <=> queue[t] = q
  /\ Distinct(list)
  /\ \A t \in Threads : t \in Linked(list) <=> state[t] \in Live

(* The state of a thread agrees with where it is linked: a runnable thread *)
(* is not suspended and waits for nothing, a waiting thread that waits for *)
(* nothing is suspended, a mutex waiter sits in some thread's queue.       *)
StatesMatchQueues ==
  \A t \in Threads :
    /\ state[t] = "RUNNING" => queue[t] = NULL /\ suspend[t] = 0
    /\ state[t] = "WAITING" => queue[t] \in Static \/ (queue[t] = NULL /\ suspend[t] > 0)
    /\ state[t] = "WAITING_MUTEX" => queue[t] \in Threads /\ token[t] \in Mutexes
    /\ state[t] \in {"UNINIT", "FINISHED"} => queue[t] = NULL

(* KThreadRemoveWaiter is taking op.m from cur (lines 53-79 and the        *)
(* assignment of its result).                                              *)
Handing == op.pc \in {"handover", "next", "given"} \/ (op.pc = "update" /\ op.ret \in {"next", "given"})

(* A thread waiting for a mutex waits in the queue of the thread that      *)
(* holds it, whatever hand-overs happened since it blocked; so a free      *)
(* mutex has no waiters, and none is forgotten.                            *)
WaitersFollowOwner ==
  \A t \in Threads :
    state[t] = "WAITING_MUTEX" =>
      /\ owner[token[t]] # NULL
      /\ ~(Handing /\ token[t] = op.m) => queue[t] = owner[token[t]]

(* When KMutexLock, or the relock at the end of a condition wait, lets its *)
(* caller run again, the caller owns the mutex, even if it was suspended   *)
(* and resumed or its priority was changed while it waited.                *)
LockReturnsOwned ==
  Quiet => \A t \in Threads :
             at[t].pc = "lock" /\ state[t] = "RUNNING" => owner[at[t].m] = t

(* A thread that comes back from KThreadJoin finds the thread finished.    *)
JoinReturnsFinished ==
  Quiet => \A t \in Threads :
             at[t].pc = "join" /\ state[t] = "RUNNING" => state[at[t].x] = "FINISHED"

(* The KTickTask of a sleep or of a timed wait lives on the caller's       *)
(* stack: it is never in the task list once that call has returned.        *)
TimersOnLiveFrames == \A t \in armed : at[t].pc \in {"sleep", "cvt"} /\ state[t] \in Live

Ordered(s) == \A i, j \in 1..Len(s) : i < j => prio[s[i]] <= prio[s[j]]

(* s_firstThread and every wait queue are ordered by dynamic priority,     *)
(* also right after a priority changed.                                    *)
PriorityOrder == Ordered(list) /\ \A q \in Queues : Ordered(links[q])

WaitsFor(t, u) == state[t] = "WAITING_MUTEX" /\ owner[token[t]] = u

(* Priority inheritance: outside the kernel every thread runs at its own   *)
(* priority or at that of its best mutex waiter, whichever is better; in   *)
(* particular the boost is passed on along chains and taken back.          *)
PriorityInheritance ==
  Quiet => \A t \in Threads :
             state[t] \in Live =>
               prio[t] = Least({baseprio[t]} \cup {prio[u] : u \in {v \in Threads : WaitsFor(v, t)}})

(* What the comment in KThreadResume assumes and the interrupt return      *)
(* relies on: the chosen next context can run, there is one whenever the   *)
(* interrupted thread cannot go on, and there is none outside handlers.    *)
NextContextRunnable ==
  /\ nextCtx # NULL => excpt /\ state[nextCtx] = "RUNNING" /\ nextCtx # cur
  /\ Quiet => state[cur] = "RUNNING" \/ (excpt /\ nextCtx # NULL)

(* No runnable thread has a better priority than the one that runs, where  *)
(* only calls of CarefulThreadCall are made.                               *)
BestThreadRuns ==
  Quiet /\ ~excpt => \A t \in Threads : state[t] = "RUNNING" => prio[cur] <= prio[t]

(* The next owner KThreadRemoveWaiter picks has the best priority of all   *)
(* threads waiting for the mutex at that moment.                           *)
HandoverToBest ==
  [][op.pc = "handover" /\ op.n = NULL /\ op'.n # NULL =>
       \A t \in Threads : state[t] = "WAITING_MUTEX" /\ token[t] = op.m
                            => prio[op'.n] <= prio[t]]_vars

(* Every kernel function terminates: the loop along the chain of mutex     *)
(* owners ends even when the owners wait for each other in a cycle.        *)
KernelTerminates == op.pc # "none" ~> op.pc = "none"

---------------------------------------------------------------------------
(* The inductive invariant behind QueueIntegrity, StatesMatchQueues,       *)
(* WaitersFollowOwner, LockReturnsOwned, JoinReturnsFinished,              *)
(* TimersOnLiveFrames and NextContextRunnable.                             *)

Setting == op.pc = "setprio" \/ (op.pc = "update" /\ op.ret = "setprio")
Bumping == op.pc = "bumped" \/ (op.pc = "update" /\ op.ret = "bumped")

(* What holds of the locals of a kernel function in progress.              *)
OpShape ==
  /\ op.pc = "update" => op.t \in Threads /\ op.ret # "none"
  /\ Setting => op.n \in Threads
  /\ Bumping => op.m \in Mutexes /\ owner[op.m] \in Threads /\ ~excpt
  /\ op.pc = "unblock" =>
       /\ op.q \in Static
       /\ op.n # NULL => state[op.n] = "RUNNING"
       /\ op.q = "join" => op.ref \in Threads /\ state[op.ref] = "FINISHED"
       /\ op.q = "sleep" => op.ref \notin armed
  /\ Handing =>
       /\ op.m \in Mutexes /\ owner[op.m] = cur /\ op.n # cur
       /\ state[cur] = "RUNNING" /\ ~excpt /\ at[cur].pc \in {"user", "cv", "cvt"}
       /\ op.pc \in {"update", "next"} => op.n \in Threads

(* What a blocked function remembers, and which threads have finished.     *)
AtShape ==
  \A t \in Threads :
    /\ at[t].pc \in {"slow", "lock", "cv", "cvt"} => at[t].m \in Mutexes
    /\ at[t].pc \in {"cv", "cvt"} => at[t].x \in CondVars
    /\ at[t].pc = "exit" <=> state[t] = "FINISHED"
    /\ state[t] = "UNINIT" => at[t] = User
    /\ state[t] \in {"UNINIT", "FINISHED"} => suspend[t] = 0

(* The threads the kernel passes priorities on to have not finished.       *)
OwnerShape ==
  /\ \A m \in Mutexes : owner[m] # NULL => state[owner[m]] \in Live
  /\ op.pc = "update" => state[op.t] \in Live
  /\ Handing /\ op.n # NULL => state[op.n] \in Live

(* The idle thread can always run.                                         *)
IdleReady ==
  state[IdleThread] = "RUNNING" /\ suspend[IdleThread] = 0 /\ at[IdleThread] = User

(* Whoever has the processor can go on, or a handler has chosen another.   *)
CpuShape ==
  /\ nextCtx # NULL => excpt /\ state[nextCtx] = "RUNNING" /\ nextCtx # cur
  /\ state[cur] # "UNINIT" /\ (excpt => at[cur].pc \in {"user", "slow"})
  /\ at[cur].pc = "exit" => op.pc = "unblock"
  /\ ~Bumping /\ at[cur].pc # "exit" => state[cur] = "RUNNING" \/ nextCtx # NULL

(* Where the waiters for a mutex are, also halfway through a hand-over.    *)
WaiterShape ==
  \A t \in Threads :
    state[t] = "WAITING_MUTEX" =>
      /\ at[t].pc = "lock" /\ at[t].m = token[t]
      /\ owner[token[t]] \in Threads
      /\ ~(Handing /\ token[t] = op.m) => queue[t] = owner[token[t]]
      /\ Handing /\ token[t] = op.m =>
           IF op.pc = "handover" THEN queue[t] \in {cur, op.n}
           ELSE op.n # NULL /\ queue[t] = op.n

(* A thread in KMutexLock waits, has the mutex, or is being given it.      *)
LockShape ==
  \A t \in Threads :
    at[t].pc = "lock" /\ state[t] # "WAITING_MUTEX" =>
      owner[at[t].m] = t \/ (Handing /\ op.n = t /\ op.m = at[t].m)

(* A thread in KThreadJoin waits for a thread, or that thread finished.    *)
JoinShape ==
  \A t \in Threads :
    at[t].pc = "join" =>
      /\ at[t].x \in Threads
      /\ (queue[t] = "join" /\ token[t] = at[t].x) \/ state[at[t].x] = "FINISHED"

(* A sleeper's timer is running until it fires.                            *)
TimerShape ==
  \A t \in armed :
    \/ at[t].pc = "cvt"
    \/ at[t].pc = "sleep" /\ queue[t] = "sleep" /\ token[t] = t

IInv ==
  /\ TypeOK /\ OpShape /\ AtShape /\ OwnerShape /\ IdleReady /\ CpuShape
  /\ QueueIntegrity /\ StatesMatchQueues
  /\ WaiterShape /\ LockShape /\ JoinShape /\ TimerShape
---------------------------------------------------------------------------
(* The strengthening behind PriorityOrder, PriorityInheritance and         *)
(* HandoverToBest.                                                         *)

(* The threads whose priority the kernel still has to bring up to date:    *)
(* the one the update loop is at, and the two ends of a hand-over.         *)
Unsettled ==
  CASE op.pc = "update" -> IF op.ret = "next" THEN {op.t, op.n} ELSE {op.t}
    [] op.pc = "handover" /\ op.n # NULL -> {cur, op.n}
    [] op.pc = "next" -> {op.n}
    [] OTHER -> {}

(* The update loop of a hand-over never gets past the thread it starts at. *)
HandoverUpdates ==
  /\ op.pc = "update" /\ op.ret = "next" => op.t = cur
  /\ op.pc = "update" /\ op.ret = "given" => op.t = op.n
  /\ Handing /\ op.n # NULL => queue[op.n] = NULL

(* Every other thread has the priority its base and its waiters give it.   *)
OthersSettled == \A t \in Threads \ Unsettled : state[t] \in Live => PrioSettled(t)

PrioInv == PriorityOrder /\ HandoverUpdates /\ OthersSettled
---------------------------------------------------------------------------
(* The strengthening behind BestThreadRuns, for CarefulSpec.               *)

(* The thread that runs once the interrupt handler, if any, returns.       *)
Chosen == IF nextCtx # NULL THEN nextCtx ELSE cur

NoneBetter(p) == \A t \in Threads : state[t] = "RUNNING" => p <= prio[t]

(* Halfway through a wake-up: a better thread is the one remembered in     *)
(* op.n, and the threads still to be woken are no better than that one.    *)
WakingShape ==
  op.pc = "unblock" =>
    /\ excpt => prio[Chosen] <= prio[cur]
    /\ \A t \in Threads :
         state[t] = "RUNNING" => prio[Chosen] <= prio[t] \/ (op.n # NULL /\ prio[op.n] <= prio[t])
    /\ op.n # NULL =>
         \A t \in Threads : queue[t] = op.q /\ token[t] = op.ref => prio[op.n] <= prio[t]

(* Halfway through KThreadSetPrio(op.n): only that priority has changed,   *)
(* and op.prio is what the caller had before.                              *)
SettingShape ==
  Setting =>
    /\ ~excpt /\ state[op.n] # "WAITING_MUTEX" /\ (op.pc = "update" => op.t = op.n)
    /\ \A t \in Threads : t # op.n /\ state[t] = "RUNNING" => op.prio <= prio[t]
    /\ op.n # cur => prio[cur] = op.prio

(* The caller waits for op.m and its owner is being bumped.                *)
BumpingShape ==
  Bumping =>
    /\ state[cur] = "WAITING_MUTEX" /\ token[cur] = op.m
    /\ state[owner[op.m]] = "RUNNING" =>
         /\ op.pc = "update" => op.t = owner[op.m]
         /\ \A t \in Threads : t # owner[op.m] /\ state[t] = "RUNNING" => prio[cur] <= prio[t]

(* The caller, of priority op.prio so far, gives up op.m: nobody who runs  *)
(* or waits for the old or the next owner is better than it was.           *)
HandingShape ==
  Handing =>
    /\ \A t \in Threads \ {cur} :
         state[t] = "RUNNING" \/ queue[t] = cur \/ (op.n # NULL /\ queue[t] = op.n)
           => op.prio <= prio[t]
    /\ op.n # NULL => op.prio <= baseprio[op.n]

(* Between two calls the chosen thread is the best; an interrupt finds a   *)
(* thread that runs.                                                       *)
ChosenIsBest ==
  /\ excpt => state[cur] = "RUNNING"
  /\ Quiet => NoneBetter(prio[Chosen])

BestInv == ChosenIsBest /\ WakingShape /\ SettingShape /\ BumpingShape /\ HandingShape
============================================================================
