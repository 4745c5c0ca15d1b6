------------------------------ MODULE KThread ------------------------------
(***************************************************************************)
(* The tuxedo scheduler: src/tuxedo/thread.c and thread_priv.h, with the   *)
(* priority update of src/tuxedo/sync.c that KThreadSetPrio calls.         *)
(*                                                                         *)
(* One processor runs the thread `cur` (SPRG2) or, while `excpt` holds, an *)
(* interrupt handler on top of it.  A kernel function runs with interrupts *)
(* masked (PPCIrqLockByMsr), so nothing interleaves with it: a function    *)
(* without loops is one action; the loops over a wait queue or along a     *)
(* chain of mutex owners take one step per iteration, during which `op`    *)
(* holds the function's locals and no other action is enabled.             *)
(***************************************************************************)
EXTENDS Lists

CONSTANTS Threads,      \* every KThread, s_mainThread and s_idleThread included
          MainThread,
          IdleThread,
          Mutexes,      \* KMutex objects
          CondVars,     \* KCondVar objects
          Objects,      \* semaphores and mailboxes: what else a thread can wait for
          NULL,
          MinPrio,      \* KTHR_MIN_PRIO, the numerically largest user priority
          MainPrio,     \* KTHR_MAIN_PRIO
          MaxSuspend    \* bound on a thread's suspend count (u16 in the code)

Static  == {"join", "sleep", "cv", "sem", "mbox"}   \* s_joinQueue, s_sleepQueue,
                                     \* s_cvWaitQueue, lwpc_sem_queue, s_mailboxRecvQueue
Queues  == Threads \cup Static              \* a thread names its own `waiters`
Users   == Threads \ {IdleThread}
Live    == {"RUNNING", "WAITING", "WAITING_MUTEX"}
States  == Live \cup {"UNINIT", "FINISHED"}
Woken   == "woken"                          \* wait.token = 1
Expired == "expired"                        \* wait.token = 0
Tokens  == Threads \cup Mutexes \cup CondVars \cup Objects \cup {Woken, Expired, NULL}

ASSUME KThreadAssumption ==
  /\ MainThread \in Threads /\ IdleThread \in Threads /\ MainThread # IdleThread
  /\ NULL \notin Queues \cup Mutexes \cup CondVars \cup Objects
  /\ Threads \cap (Static \cup Mutexes \cup CondVars \cup Objects) = {}
  /\ Mutexes \cap (CondVars \cup Objects) = {}
  /\ {Woken, Expired} \cap (Threads \cup Mutexes \cup CondVars \cup Objects \cup {NULL}) = {}
  /\ MinPrio \in Nat /\ MainPrio \in 0..MinPrio /\ MaxSuspend \in Nat \ {0}

VARIABLES
  list,       \* s_firstThread: every live thread, best priority first
  state, suspend, prio, baseprio,           \* fields of KThread
  queue, token,                             \* wait.queue, wait.token
  links,      \* the threads linked into each KThrQueue, head first
  owner,      \* KMutex.owner
  cur,        \* KThreadGetSelf()
  excpt,      \* PPCIsInExcpt()
  nextCtx,    \* __ppc_next_ctx
  armed,      \* threads whose KTickTask (on their stack) is in the task list
  at,         \* where each thread's code is: what it does when it next runs
  op          \* the kernel function in progress under the interrupt lock

threadVars == <<list, state, suspend, prio, baseprio>>
queueVars  == <<queue, token, links>>
cpuVars    == <<cur, excpt, nextCtx>>
vars       == <<threadVars, queueVars, owner, cpuVars, armed, at, op>>

NoOp == [pc |-> "none", ret |-> "none", t |-> NULL, m |-> NULL, n |-> NULL,
         prio |-> 0, q |-> NULL, ref |-> NULL, max |-> 0]
User == [pc |-> "user", m |-> NULL, x |-> NULL]

---------------------------------------------------------------------------
(* Priority-ordered linked lists: the new thread goes after every thread   *)
(* of the same or a better priority.                                       *)

AppendPosition(s, t, p) == Len(s) + 1

GetInsertPosition(s, t, p) ==
  LET worse == {i \in 1..Len(s) : p[s[i]] > p[t]}
  IN  IF worse = {} THEN Len(s) + 1 ELSE Least(worse)

Insert(s, t, p) == LinkAt(s, GetInsertPosition(s, t, p), t)

UnlinkForgotten(s, t) == s

Unlink(s, t) ==
  LET here == {i \in 1..Len(s) : s[i] = t}
  IN  IF here = {} THEN s ELSE UnlinkAt(s, Least(here))

KThreadFindRunnable(s, st) ==
  LET ready == {i \in 1..Len(s) : st[s[i]] = "RUNNING"}
  IN  IF ready = {} THEN NULL ELSE s[Least(ready)]

---------------------------------------------------------------------------
(* Where code may call the kernel.                                         *)

InThread == op.pc = "none" /\ ~excpt /\ cur # IdleThread /\ at[cur].pc = "user"
Resumed(pcs) == op.pc = "none" /\ ~excpt /\ at[cur].pc \in pcs
Calling  == InThread \/ (op.pc = "none" /\ excpt)

(* KThreadSwitchTo: a handler only records the choice, a thread jumps.     *)
KThreadSwitchTo(t) ==
  /\ IF excpt
     THEN /\ nextCtx' = IF nextCtx = NULL \/ prio'[t] < prio'[nextCtx] THEN t ELSE nextCtx
          /\ UNCHANGED cur
     ELSE cur' = t /\ UNCHANGED nextCtx
  /\ UNCHANGED excpt
  /\ op' = NoOp

RescheduleForgotten(t) == UNCHANGED cpuVars /\ op' = NoOp

KThreadReschedule(t) ==
  IF t # NULL /\ prio'[t] < prio'[cur]
  THEN KThreadSwitchTo(t)
  ELSE UNCHANGED cpuVars /\ op' = NoOp

(* KThrQueueBlock: the calling thread waits on q until its token is hit.   *)
KThrQueueBlock(q, tok) ==
  /\ state' = [state EXCEPT ![cur] = "WAITING"]
  /\ token' = [token EXCEPT ![cur] = tok]
  /\ queue' = [queue EXCEPT ![cur] = q]
  /\ links' = [links EXCEPT ![q] = Insert(@, cur, prio)]
  /\ UNCHANGED prio
  /\ KThreadSwitchTo(KThreadFindRunnable(list, state'))

---------------------------------------------------------------------------
(* Threads                                                                 *)

KThreadPrepare(t, p) ==
  /\ InThread
  /\ state[t] = "UNINIT"
  /\ state' = [state EXCEPT ![t] = "WAITING"]
  /\ suspend' = [suspend EXCEPT ![t] = 1]
  /\ prio' = [prio EXCEPT ![t] = p]
  /\ baseprio' = [baseprio EXCEPT ![t] = p]
  /\ list' = Insert(list, t, prio')
  /\ UNCHANGED <<queueVars, owner, cpuVars, armed, at, op>>

(* A resumed thread goes on waiting for its queue or a further resume.     *)
StaysBlockedIfSuspended(t) == suspend[t] > 1

StaysBlocked(t) == suspend[t] > 1 \/ queue[t] # NULL

KThreadResume(t) ==
  /\ Calling
  /\ suspend[t] > 0
  /\ suspend' = [suspend EXCEPT ![t] = @ - 1]
  /\ UNCHANGED <<list, prio, baseprio, queueVars, owner, armed, at>>
  /\ IF StaysBlocked(t)
     THEN UNCHANGED <<state, cpuVars, op>>
     ELSE /\ state' = [state EXCEPT ![t] = "RUNNING"]
          /\ IF t # cur
             THEN KThreadReschedule(t)
             ELSE /\ nextCtx' = IF prio[t] < prio[nextCtx] THEN NULL ELSE nextCtx
                  /\ UNCHANGED <<cur, excpt, op>>

(* The context the interrupt returns to once t no longer can be it.        *)
NextCtxKept(t, next) == nextCtx

NextCtxWithout(t, next) ==
  IF t # nextCtx THEN nextCtx ELSE IF next # cur THEN next ELSE NULL

KThreadSuspend(t) ==
  /\ Calling
  /\ state[t] # "UNINIT"
  /\ suspend[t] < MaxSuspend
  /\ suspend' = [suspend EXCEPT ![t] = @ + 1]
  /\ UNCHANGED <<list, prio, baseprio, token, links, owner, armed, at>>
  /\ IF suspend[t] # 0 \/ state[t] # "RUNNING"
     THEN UNCHANGED <<state, queue, cpuVars, op>>
     ELSE /\ state' = [state EXCEPT ![t] = "WAITING"]
          /\ queue' = [queue EXCEPT ![t] = NULL]
          /\ LET next == KThreadFindRunnable(list, state')
             IN  IF t = cur
                 THEN KThreadSwitchTo(next)
                 ELSE /\ nextCtx' = NextCtxWithout(t, next)
                      /\ UNCHANGED <<cur, excpt, op>>

(* KThreadSetPrio up to the loop of KThreadUpdateDynamicPrio.  On a        *)
(* finished thread the loop would follow links that are no longer valid.   *)
KThreadSetPrio(t, p) ==
  /\ Calling
  /\ state[t] \in Live
  /\ baseprio' = [baseprio EXCEPT ![t] = p]
  /\ op' = [NoOp EXCEPT !.pc = "update", !.t = t, !.n = t, !.prio = prio[cur], !.ret = "setprio"]
  /\ UNCHANGED <<list, state, suspend, prio, queueVars, owner, cpuVars, armed, at>>

(* KThreadSetPrio after the priorities are updated: choose who may run.    *)
KThreadSetPrioTail ==
  /\ op.pc = "setprio"
  /\ UNCHANGED <<threadVars, queueVars, owner, armed, at>>
  /\ KThreadReschedule(
       IF op.n = cur
       THEN IF prio[cur] > op.prio THEN KThreadFindRunnable(list, state) ELSE NULL
       ELSE IF state[op.n] = "RUNNING" THEN op.n ELSE NULL)

(* The priority a thread should have: its own or its best waiter's.        *)
BasePrioOnly(t) == baseprio[t]

DynamicPrio(t) ==
  IF links[t] # <<>> /\ prio[links[t][1]] < baseprio[t] THEN prio[links[t][1]] ELSE baseprio[t]

NeverSettled(t) == FALSE

PrioSettled(t) == prio[t] = DynamicPrio(t)

(* KThreadUpdateDynamicPrio, one turn of its loop.                         *)
KThreadUpdateDynamicPrio ==
  LET t    == op.t
      q    == queue[t]
      done == op' = [op EXCEPT !.pc = op.ret]
  IN
  /\ op.pc = "update"
  /\ UNCHANGED <<state, suspend, baseprio, queue, token, owner, cpuVars, armed, at>>
  /\ IF PrioSettled(t)
     THEN UNCHANGED <<list, prio, links>> /\ done
     ELSE /\ prio' = [prio EXCEPT ![t] = DynamicPrio(t)]
          /\ list' = Insert(Unlink(list, t), t, prio')
          /\ IF state[t] = "RUNNING" \/ q = NULL
             THEN UNCHANGED links /\ done
             ELSE /\ links' = [links EXCEPT ![q] = Insert(Unlink(@, t), t, prio')]
                  /\ IF state[t] # "WAITING_MUTEX"
                     THEN done
                     ELSE op' = [op EXCEPT !.t = owner[token[t]]]

(* The threads that follow t in s_firstThread.                             *)
Nobody(t) == <<>>

Following(t) == SubSeq(list, Least({i \in 1..Len(list) : list[i] = t}) + 1, Len(list))

(* Called by threads and, at the end of a time slice, by __timeslice_task  *)
(* in a handler.                                                           *)
KThreadYield ==
  /\ Calling
  /\ LET after == KThreadFindRunnable(Following(cur), state)
         t     == IF after = NULL \/ prio[after] > prio[cur]
                  THEN KThreadFindRunnable(list, state) ELSE after
     IN  t # cur /\ UNCHANGED prio /\ KThreadSwitchTo(t)
  /\ UNCHANGED <<list, state, suspend, baseprio, queueVars, owner, armed, at>>

KThreadJoin(t) ==
  /\ InThread
  /\ state[t] \in Live
  /\ at' = [at EXCEPT ![cur] = [pc |-> "join", m |-> NULL, x |-> t]]
  /\ KThrQueueBlock("join", t)
  /\ UNCHANGED <<list, suspend, baseprio, owner, armed>>

KThreadSleepTicks ==
  /\ InThread
  /\ armed' = armed \cup {cur}
  /\ at' = [at EXCEPT ![cur] = [pc |-> "sleep", m |-> NULL, x |-> NULL]]
  /\ KThrQueueBlock("sleep", cur)
  /\ UNCHANGED <<list, suspend, baseprio, owner>>

(* A thread that was blocked in KThreadJoin, KThreadSleepTicks, KMutexLock *)
(* or LWP_SemWait runs again and returns to its caller.                    *)
ReturnToCaller ==
  /\ Resumed({"join", "sleep", "lock", "sem"})
  /\ at' = [at EXCEPT ![cur] = User]
  /\ UNCHANGED <<threadVars, queueVars, owner, cpuVars, armed, op>>

(* KThreadExit, up to the loop that wakes the joiners.  A thread that      *)
(* exits holding a mutex is a misuse the code does not handle.             *)
KThreadExit ==
  /\ InThread
  /\ cur \notin {owner[m] : m \in Mutexes}
  /\ list' = Unlink(list, cur)
  /\ state' = [state EXCEPT ![cur] = "FINISHED"]
  /\ at' = [at EXCEPT ![cur] = [User EXCEPT !.pc = "exit"]]
  /\ op' = [NoOp EXCEPT !.pc = "unblock", !.q = "join", !.ref = cur, !.max = -1]
  /\ UNCHANGED <<suspend, prio, baseprio, queueVars, owner, cpuVars, armed>>

---------------------------------------------------------------------------
(* Wait queues                                                             *)

(* KThrQueueUnblockOneByValue (max = 1), KThrQueueUnblockAllByValue (-1).  *)
KThrQueueUnblock(q, ref, max) ==
  op' = [NoOp EXCEPT !.pc = "unblock", !.q = q, !.ref = ref, !.max = max]

(* KThrQueueUnblockCommon, one turn of its loop, then the reschedule; in   *)
(* KThreadExit the thread leaves the processor even without one.           *)
KThrQueueUnblockCommon ==
  LET s   == links[op.q]
      hit == {i \in 1..Len(s) : token[s[i]] = op.ref}
      t   == s[Least(hit)]
  IN
  /\ op.pc = "unblock"
  /\ UNCHANGED <<list, suspend, prio, baseprio, owner, armed, at>>
  /\ IF op.max # 0 /\ hit # {}
     THEN /\ links' = [links EXCEPT ![op.q] = UnlinkAt(@, Least(hit))]
          /\ queue' = [queue EXCEPT ![t] = NULL]
          /\ token' = [token EXCEPT ![t] = Woken]
          /\ state' = IF suspend[t] = 0 THEN [state EXCEPT ![t] = "RUNNING"] ELSE state
          /\ op' = [op EXCEPT !.max = IF @ > 0 THEN @ - 1 ELSE @,
                              !.n   = IF @ = NULL /\ suspend[t] = 0 THEN t ELSE @]
          /\ UNCHANGED cpuVars
     ELSE /\ UNCHANGED <<state, queueVars>>
          /\ IF at[cur].pc = "exit" /\ ~(op.n # NULL /\ prio[op.n] < prio[cur])
             THEN KThreadSwitchTo(KThreadFindRunnable(list, state))
             ELSE KThreadReschedule(op.n)

(* KThrQueueCancel: takes t off q, unless it was woken in the meantime.    *)
KThrQueueCancel(q, t) ==
  IF state[t] # "WAITING" \/ queue[t] # q
  THEN UNCHANGED <<state, prio, queueVars, cpuVars, op>>
  ELSE /\ links' = [links EXCEPT ![q] = Unlink(@, t)]
       /\ queue' = [queue EXCEPT ![t] = NULL]
       /\ token' = [token EXCEPT ![t] = Expired]
       /\ state' = IF suspend[t] = 0 THEN [state EXCEPT ![t] = "RUNNING"] ELSE state
       /\ UNCHANGED prio
       /\ KThreadReschedule(IF suspend[t] = 0 THEN t ELSE NULL)

---------------------------------------------------------------------------
(* Interrupts (PPCExcptIrqHandler).  Threads resumed inside an outer       *)
(* interrupt lock continue with interrupts masked.                         *)

IrqEnter ==
  /\ op.pc = "none" /\ ~excpt
  /\ at[cur].pc \in {"user", "slow"}
  /\ excpt' = TRUE
  /\ UNCHANGED <<threadVars, queueVars, owner, cur, nextCtx, armed, at, op>>

IrqReturn ==
  /\ op.pc = "none" /\ excpt
  /\ excpt' = FALSE
  /\ cur' = IF nextCtx # NULL THEN nextCtx ELSE cur
  /\ nextCtx' = NULL
  /\ UNCHANGED <<threadVars, queueVars, owner, armed, at, op>>

(* KTickTaskRun, in a handler, runs KThreadSleepWakeup for a sleeper and   *)
(* KCondVarTimeoutFn for a thread in a timed wait.                         *)
TickTaskFires(t) ==
  /\ op.pc = "none" /\ excpt
  /\ t \in armed
  /\ armed' = armed \ {t}
  /\ UNCHANGED <<list, suspend, baseprio, owner, at>>
  /\ IF at[t].pc = "sleep"
     THEN /\ KThrQueueUnblock("sleep", t, -1)
          /\ UNCHANGED <<state, prio, queueVars, cpuVars>>
     ELSE KThrQueueCancel("cv", t)

(* The places a thread's code can be in, and the locals of kernel loops.   *)
Ops == [pc : {"none", "update", "setprio", "unblock", "bumped", "handover", "next", "given"},
        ret : {"none", "setprio", "bumped", "next", "given"},
        t : Threads \cup {NULL}, n : Threads \cup {NULL}, m : Mutexes \cup {NULL},
        prio : 0..(MinPrio + 1), q : Queues \cup {NULL}, ref : Tokens, max : {-1, 0, 1}]

Places == [pc : {"user", "slow", "lock", "cv", "cvt", "join", "sleep", "sem", "recv", "exit"},
           m : Mutexes \cup {NULL}, x : Threads \cup CondVars \cup Objects \cup {NULL}]

---------------------------------------------------------------------------
(* KThreadInit                                                             *)
KThreadInit ==
  /\ list = <<MainThread, IdleThread>>
  /\ state = [t \in Threads |-> IF t \in {MainThread, IdleThread} THEN "RUNNING" ELSE "UNINIT"]
  /\ suspend = [t \in Threads |-> 0]
  /\ prio = [t \in Threads |-> IF t = IdleThread THEN MinPrio + 1 ELSE MainPrio]
  /\ baseprio = prio
  /\ queue = [t \in Threads |-> NULL]
  /\ token = [t \in Threads |-> NULL]
  /\ links = [q \in Queues |-> <<>>]
  /\ owner = [m \in Mutexes |-> NULL]
  /\ cur = MainThread /\ excpt = FALSE /\ nextCtx = NULL
  /\ armed = {}
  /\ at = [t \in Threads |-> User]
  /\ op = NoOp
============================================================================
