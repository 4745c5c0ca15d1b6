------------------------------- MODULE MCSem -------------------------------
(***************************************************************************)
(* An instance for TLC of the semaphores: three threads, one of a better   *)
(* priority than the others, wait, post and suspend each other, and an     *)
(* interrupt handler posts too.                                            *)
(***************************************************************************)
EXTENDS LwpSem

CONSTANTS T1, T2         \* model values

Better(t) == IF t = T1 THEN 0 ELSE MinPrio

Sched ==
  \/ \E t \in Users : KThreadPrepare(t, Better(t)) \/ KThreadResume(t)
  \/ \E t \in {T1, T2} : KThreadSuspendLive(t)
  \/ KThreadYield \/ IrqEnter \/ IrqReturn
  \/ KThrQueueUnblockCommon \/ ReturnToCaller

MCNext == (Sched /\ UNCHANGED semVars) \/ \E s \in Sems : SemCall(s)
MCSpec == SemInit /\ [][MCNext]_allVars
============================================================================
