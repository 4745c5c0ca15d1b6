------------------------------- MODULE LwpSem -------------------------------
(***************************************************************************)
(* Semaphores: src/libogc/lwpcompat/lwpc_sem.c with the slot allocator of  *)
(* lwpc_common.h, in a program that also uses the rest of the kernel: any  *)
(* step of KSync may come between two calls.  A semaphore is a slot of a   *)
(* table; its counter goes below zero by the number of waiting threads.    *)
(***************************************************************************)
EXTENDS KSync, FiniteSets

CONSTANTS Sems,       \* the slots of lwpc_sem_table
          MaxCount    \* bound on the counter, for which the code has none

ASSUME LwpSemAssumption == Sems \subseteq Objects /\ MaxCount \in Nat

VARIABLES used,       \* lwpc_sem_used
          count       \* lwpc_sem_table

semVars == <<used, count>>
allVars == <<vars, semVars>>
calls   == <<threadVars, queueVars, owner, cpuVars, armed, at>>

(* lwpc_alloc_slot takes the lowest free slot; which one makes no          *)
(* difference, slots are told apart by nothing else.  The maximum that the *)
(* caller gives is not stored.                                             *)
LWP_SemInit(s, start) ==
  /\ Calling
  /\ s \notin used
  /\ used' = used \cup {s}
  /\ count' = [count EXCEPT ![s] = start]
  /\ UNCHANGED vars

LWP_SemDestroy(s) ==
  /\ Calling
  /\ s \in used
  /\ used' = used \ {s}
  /\ UNCHANGED <<vars, count>>

(* The decremented counter is negative.                                    *)
MustWaitEarly(s) == count[s] - 1 <= 0

MustWait(s) == count[s] - 1 < 0

LWP_SemWait(s) ==
  /\ InThread
  /\ s \in used
  /\ count' = [count EXCEPT ![s] = @ - 1]
  /\ IF MustWait(s)
     THEN /\ at' = [at EXCEPT ![cur] = [pc |-> "sem", m |-> NULL, x |-> s]]
          /\ KThrQueueBlock("sem", s)
          /\ UNCHANGED <<list, suspend, baseprio, owner, armed>>
     ELSE UNCHANGED vars
  /\ UNCHANGED used

(* The counter was negative before it is incremented.                      *)
MustWakeLate(s) == count[s] + 1 < 0

MustWake(s) == count[s] < 0

(* The code posts whatever the counter is: that it stays below MaxCount,   *)
(* which stands for the range of an s32, is a bound of the model.          *)
LWP_SemPost(s) ==
  /\ Calling
  /\ s \in used /\ count[s] < MaxCount
  /\ count' = [count EXCEPT ![s] = @ + 1]
  /\ IF MustWake(s) THEN KThrQueueUnblock("sem", s, 1) ELSE UNCHANGED op
  /\ UNCHANGED <<calls, used>>

---------------------------------------------------------------------------
WaitingFor(s) == {t \in Threads : queue[t] = "sem" /\ token[t] = s}

(* A semaphore that threads wait for is not destroyed: their wake-up would *)
(* be lost, a misuse the code does not handle.                             *)
SemCall(s) ==
  \/ \E start \in 0..MaxCount : LWP_SemInit(s, start)
  \/ WaitingFor(s) = {} /\ LWP_SemDestroy(s)
  \/ LWP_SemWait(s)
  \/ LWP_SemPost(s)

SemTableInit == used = {} /\ count = [s \in Sems |-> 0]

SemInit == Init /\ SemTableInit
SemNext == (Next /\ UNCHANGED semVars) \/ \E s \in Sems : SemCall(s)
SemSpec == SemInit /\ [][SemNext]_allVars

---------------------------------------------------------------------------
(* Properties                                                              *)

(* The counter and the wait queue agree: below zero it is minus the number *)
(* of waiting threads, otherwise nobody waits.  No wake-up is lost and     *)
(* none is given twice, also when waiters are suspended.                   *)
CountMatchesWaiters ==
  op.pc = "none" => \A s \in used :
    Cardinality(WaitingFor(s)) = IF count[s] < 0 THEN -count[s] ELSE 0

Abstract ==
  INSTANCE Semaphore WITH
    value <- [s \in Sems |-> IF count[s] > 0 THEN count[s] ELSE 0],
    blocked <- [s \in Sems |-> WaitingFor(s)]

(* The implementation is a counting semaphore: a post frees exactly one of *)
(* the waiting threads, and no thread gets through on a zero value.        *)
IsSemaphore == Abstract!Spec

---------------------------------------------------------------------------
(* The strengthening behind CountMatchesWaiters and IsSemaphore: a post    *)
(* that has counted a waiter out still has to take it off the queue.       *)

Waking(s) == op.pc = "unblock" /\ op.q = "sem" /\ op.ref = s

SemInv ==
  /\ used \subseteq Sems /\ count \in [Sems -> Int]
  /\ op.pc = "unblock" /\ op.q = "sem" => op.ref \in used /\ op.max \in {0, 1}
  /\ \A s \in Sems \ used : WaitingFor(s) = {}
  /\ \A s \in used :
       Cardinality(WaitingFor(s)) = (IF count[s] < 0 THEN -count[s] ELSE 0)
                                    + (IF Waking(s) THEN op.max ELSE 0)
=============================================================================
