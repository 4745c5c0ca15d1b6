------------------------------ MODULE MCKernel ------------------------------
(***************************************************************************)
(* Instances of KSync for TLC.  A behaviour follows one of the Scenarios:  *)
(* scn restricts the calls that threads and handlers make to those that    *)
(* one question is about, and does not change.                             *)
(***************************************************************************)
EXTENDS KSync

CONSTANTS Scenarios,
          T1, T2,     \* T1 is created with the best priority
          M1, M2      \* the mutexes; M2 stays free where one is enough

VARIABLE scn
mcvars == <<vars, scn>>

Start == \E t \in Users : KThreadPrepare(t, IF t = T1 THEN 0 ELSE MinPrio) \/ KThreadResume(t)
Kernel == KernelStep \/ ThreadContinues
Suspend(T) == \E t \in T : KThreadSuspendLive(t)
SetPrio == \E t \in {T1, T2}, p \in 0..MinPrio : KThreadSetPrio(t, p)
Irq    == IrqEnter \/ IrqReturn
OneMutex == owner'[M2] = NULL

(* Mutexes, with suspends and resumes from threads and handlers.           *)
SuspendNext == Kernel \/ MutexCall \/ Start \/ Irq \/ Suspend({T1})

(* Mutexes, with priority changes.  The application can deadlock on its    *)
(* own mutexes.                                                            *)
PrioNext == Kernel \/ MutexCall \/ Start \/ SetPrio

(* Condition variables, timed and untimed, with suspends.                  *)
CondNext ==
  (Kernel \/ MutexCall \/ CondVarCall \/ Start \/ Interrupt \/ Suspend({T1})) /\ OneMutex

(* Threads alone: create, suspend, resume, join, yield, sleep, exit.       *)
ThreadNext ==
  \/ Kernel \/ Start \/ Interrupt \/ Suspend({T1, T2})
  \/ \E t \in Users : KThreadJoin(t)
  \/ KThreadYield \/ KThreadSleepTicks \/ KThreadExit

(* Scheduling without the calls after which the best thread may wait: a    *)
(* part of CarefulNext.                                                    *)
Careful ==
  \/ \E t \in {T1}, p \in 0..MinPrio :
       ~excpt /\ state[t] # "WAITING_MUTEX" /\ KThreadSetPrio(t, p)
  \/ ~(excpt /\ cur = T1) /\ KThreadSuspendLive(T1)
SchedNext ==
  /\ \/ Kernel \/ MutexCall \/ Start \/ Interrupt \/ Careful
     \/ KThreadYield \/ KThreadSleepTicks \/ KThreadExit
  /\ OneMutex

SafetyNext ==
  /\ \/ scn = "suspend" /\ SuspendNext
     \/ scn = "prio" /\ PrioNext
     \/ scn = "cond" /\ CondNext
     \/ scn = "thread" /\ ThreadNext
     \/ scn = "sched" /\ SchedNext
  /\ UNCHANGED scn
MCInit == Init /\ scn \in Scenarios
SafetySpec == MCInit /\ [][SafetyNext]_mcvars
---------------------------------------------------------------------------
(* Progress.  The kernel's own steps and interrupt returns are weakly      *)
(* fair: nothing else can happen until they do.  A step of a thread is     *)
(* strongly fair, because interrupts may keep coming in between but never  *)
(* take the processor for good.                                            *)

(* Four threads of falling priority: T1, T2, a middle thread, main.  T1    *)
(* locks M1 only and main M2 only; T2 computes and calls nothing; the      *)
(* middle thread locks both, M1 first.  A thread that holds a mutex        *)
(* unlocks it if only it gets to run.                                      *)
Create(t) == KThreadPrepare(t, IF t = T1 THEN 0 ELSE IF t = T2 THEN 1 ELSE 2)
May(m) ==
  /\ cur # T2
  /\ IF cur = T1 THEN m = M1
     ELSE IF cur = MainThread THEN m = M2 ELSE TRUE
  /\ m = M1 => owner[M2] # cur

Lock == \E m \in Mutexes : owner[m] # cur /\ May(m) /\ (KMutexTryLock(m) \/ KMutexLockContended(m))

InheritNext ==
  \/ KernelStep \/ ThreadContinues \/ Lock \/ (\E m \in Mutexes : KMutexUnlock(m)) \/ IrqEnter \/ IrqReturn
  \/ \E t \in Users : (cur = MainThread /\ Create(t)) \/ (excpt /\ KThreadResume(t))

(* The best thread's KMutexLock returns, although a thread of middle       *)
(* priority never gives up the processor: the owner, and the owner of the  *)
(* mutex that owner waits for, inherit the waiter's priority.              *)
InheritanceUnblocks ==
  scn = "inherit" /\ at[T1].pc \in {"slow", "lock"} ~> at[T1].pc = "user"

(* Threads of one priority that call nothing but KThreadYield.  Handlers   *)
(* end time slices, resume threads, and suspend those that they did not    *)
(* interrupt, as long as no other context has been chosen.                 *)
YieldNext ==
  \/ KernelStep \/ KThreadYield \/ IrqEnter \/ IrqReturn
  \/ \E t \in Users : (cur = MainThread /\ KThreadPrepare(t, MainPrio)) \/ (excpt /\ KThreadResume(t))
                    \/ (excpt /\ nextCtx = NULL /\ t # cur /\ KThreadSuspendLive(t))

(* KThreadYield takes turns: a thread that stays runnable runs again and   *)
(* again, wherever it stands in s_firstThread.                             *)
YieldRotates ==
  \A t \in Users : scn = "yield" /\ <>[](state[t] = "RUNNING") => []<>(cur = t)

(* Two threads that may lock the two mutexes in either order.              *)
SettleNext ==
  \/ Kernel \/ MutexCall
  \/ KThreadPrepare(T1, 0) \/ KThreadResume(T1)
  \/ \E p \in 0..1 : KThreadSetPrio(T1, p)

LiveNext ==
  /\ \/ scn = "inherit" /\ InheritNext
     \/ scn = "yield" /\ YieldNext
     \/ scn = "settle" /\ SettleNext
  /\ UNCHANGED scn
LiveSpec ==
  /\ MCInit /\ [][LiveNext]_mcvars
  /\ WF_vars(KernelStep) /\ WF_vars(IrqReturn)
  /\ SF_vars(scn = "inherit" /\ ThreadContinues)
  /\ \A m \in Mutexes : SF_vars(scn = "inherit" /\ KMutexUnlock(m))
  /\ SF_vars(scn = "yield" /\ ~excpt /\ KThreadYield)
=============================================================================
