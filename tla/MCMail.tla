------------------------------ MODULE MCMail -------------------------------
(***************************************************************************)
(* An instance for TLC of the mailboxes: every thread and an interrupt     *)
(* handler send, the receivers also suspend each other.                    *)
(***************************************************************************)
EXTENDS KMailbox, TLC

CONSTANTS T1, T2, B1, B2, X, Y         \* model values

(* Each mailbox has a receiver of its own; or the first has two.           *)
OneEach == (B1 :> {T1}) @@ (B2 :> {T2})
Two == (B1 :> {T1, T2}) @@ (B2 :> {})

Better(t) == IF t = T1 THEN 0 ELSE MinPrio

Sched ==
  \/ \E t \in Users : KThreadPrepare(t, Better(t)) \/ KThreadResume(t)
  \/ KThreadSuspendLive(T1)
  \/ KThreadYield \/ IrqEnter \/ IrqReturn
  \/ KThrQueueUnblockCommon

(* Only B1 gets different messages; in B2 a Y is told from what malloc     *)
(* left in the slots.                                                      *)
Sent(mb) == IF mb = B1 THEN {X, Y} ELSE {Y}

MCCall(mb) ==
  \/ \E msg \in Sent(mb) : KMailboxTrySend(mb, msg)
  \/ InThread /\ cur \in Receivers[mb] /\ (KMailboxTryRecv(mb) \/ KMailboxRecv(mb))

MCInit == MailInit /\ slots = [mb \in Mailboxes |-> [i \in 0..(Slots - 1) |-> X]]
MCNext == (Sched /\ UNCHANGED boxVars) \/ KMailboxRecvWoken \/ \E mb \in Mailboxes : MCCall(mb)
MCSpec == MCInit /\ [][MCNext]_mailVars
============================================================================
