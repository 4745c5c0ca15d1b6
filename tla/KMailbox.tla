------------------------------ MODULE KMailbox ------------------------------
(***************************************************************************)
(* Mailboxes: src/tuxedo/mailbox.c, reached by applications through        *)
(* MQ_Send and MQ_Receive, in a program that also uses the rest of the     *)
(* kernel.  All mailboxes share one wait queue; a receiver's token says    *)
(* which mailbox it waits for.  A receiver that has been woken takes its   *)
(* message only when it is scheduled again, and other code may run first.  *)
(***************************************************************************)
EXTENDS KSync, FiniteSets

CONSTANTS Mailboxes, Messages,
          Slots,      \* num_slots
          Modulus,    \* pending_slots counts modulo this, 2^16 in the code
          Receivers   \* the threads that receive from each mailbox

ASSUME KMailboxAssumption ==
  /\ Mailboxes \subseteq Objects
  /\ Slots \in Nat \ {0} /\ Modulus \in Nat /\ Slots < Modulus
  /\ Receivers \in [Mailboxes -> SUBSET Threads]

VARIABLES slots, curSlot, pending, recvWaiters,    \* fields of KMailbox
          got         \* the last message each thread received

boxVars == <<slots, curSlot, pending, recvWaiters, got>>
mailVars == <<vars, boxVars>>

(* The slots hold what malloc left there: any value.                       *)
KMailboxPrepare ==
  /\ slots \in [Mailboxes -> [0..(Slots - 1) -> Messages]]
  /\ curSlot = [mb \in Mailboxes |-> 0]
  /\ pending = [mb \in Mailboxes |-> 0]
  /\ recvWaiters = [mb \in Mailboxes |-> 0]
  /\ got = [t \in Threads |-> NULL]

WrapLate(i) == IF i > Slots THEN i - Slots ELSE i

Wrap(i) == IF i >= Slots THEN i - Slots ELSE i

NextSlotShort(mb) == IF pending[mb] = 0 THEN curSlot[mb] ELSE Wrap(curSlot[mb] + pending[mb] - 1)

NextSlot(mb) == Wrap(curSlot[mb] + pending[mb])

(* The end of KMailboxTrySend: wake a receiver if some thread waits.       *)
WakeUncounted(mb) ==
  IF recvWaiters[mb] # 0
  THEN KThrQueueUnblock("mbox", mb, 1) /\ UNCHANGED recvWaiters
  ELSE UNCHANGED <<recvWaiters, op>>

WakeNobody(mb) == UNCHANGED <<recvWaiters, op>>

WakeReceiver(mb) ==
  IF recvWaiters[mb] # 0
  THEN /\ recvWaiters' = [recvWaiters EXCEPT ![mb] = @ - 1]
       /\ KThrQueueUnblock("mbox", mb, 1)
  ELSE UNCHANGED <<recvWaiters, op>>

KMailboxTrySend(mb, msg) ==
  /\ Calling
  /\ pending[mb] # Slots
  /\ slots' = [slots EXCEPT ![mb][NextSlot(mb)] = msg]
  /\ pending' = [pending EXCEPT ![mb] = (@ + 1) % Modulus]
  /\ WakeReceiver(mb)
  /\ UNCHANGED <<threadVars, queueVars, owner, cpuVars, armed, at, curSlot, got>>

(* The end of KMailboxTryRecv and of KMailboxRecv.                         *)
Take(mb) ==
  /\ got' = [got EXCEPT ![cur] = slots[mb][curSlot[mb]]]
  /\ curSlot' = [curSlot EXCEPT ![mb] = Wrap(@ + 1)]
  /\ pending' = [pending EXCEPT ![mb] = (@ - 1) % Modulus]
  /\ UNCHANGED slots

KMailboxTryRecv(mb) ==
  /\ Calling
  /\ pending[mb] # 0
  /\ Take(mb)
  /\ UNCHANGED <<vars, recvWaiters>>

KMailboxRecv(mb) ==
  /\ InThread
  /\ IF pending[mb] # 0
     THEN Take(mb) /\ UNCHANGED <<vars, recvWaiters>>
     ELSE /\ recvWaiters' = [recvWaiters EXCEPT ![mb] = @ + 1]
          /\ at' = [at EXCEPT ![cur] = [pc |-> "recv", m |-> NULL, x |-> mb]]
          /\ KThrQueueBlock("mbox", mb)
          /\ UNCHANGED <<list, suspend, baseprio, owner, armed, slots, curSlot, pending, got>>

(* KMailboxRecv after KThrQueueBlock returns.                              *)
KMailboxRecvWoken ==
  /\ Resumed({"recv"})
  /\ Take(at[cur].x)
  /\ at' = [at EXCEPT ![cur] = User]
  /\ UNCHANGED <<threadVars, queueVars, owner, cpuVars, armed, op, recvWaiters>>

---------------------------------------------------------------------------
(* Every thread and every handler sends; a mailbox has its receivers.      *)
MailCall(mb) ==
  \/ \E msg \in Messages : KMailboxTrySend(mb, msg)
  \/ InThread /\ cur \in Receivers[mb] /\ (KMailboxTryRecv(mb) \/ KMailboxRecv(mb))

MailInit == Init /\ KMailboxPrepare
MailNext == (Next /\ UNCHANGED boxVars) \/ KMailboxRecvWoken \/ \E mb \in Mailboxes : MailCall(mb)
MailSpec == MailInit /\ [][MailNext]_mailVars

(* The threads blocked on a mailbox, and whether its receiver is alone.    *)
Blocked(mb) == {t \in Threads : queue[t] = "mbox" /\ token[t] = mb}

OneReceiver == \A mb \in Mailboxes : \A t, u \in Receivers[mb] : t = u

---------------------------------------------------------------------------
(* Properties                                                              *)

(* recv_waiters counts the blocked receivers of that mailbox exactly, so   *)
(* KMailboxTrySend wakes one when there is one and only then.              *)
WaitersCounted ==
  op.pc = "none" => \A mb \in Mailboxes : recvWaiters[mb] = Cardinality(Blocked(mb))

(* No lost wake-up: while a message is pending, nobody is blocked waiting  *)
(* for one from that mailbox.                                              *)
NoneBlockedOnPending ==
  op.pc = "none" => \A mb \in Mailboxes : pending[mb] > 0 => Blocked(mb) = {}

(* A blocked receiver that was woken, or that can run again after a        *)
(* suspension, finds a message: it takes one without looking.              *)
WokenFindsMessage ==
  \A t \in Threads :
    at[t].pc = "recv" /\ (queue[t] = NULL \/ state[t] = "RUNNING") => pending[at[t].x] > 0

(* The messages in a ring of slots, oldest first.                          *)
Contents(ring, first, n) == [i \in 1..n |-> ring[Wrap(first + i - 1)]]

Chan == [mb \in Mailboxes |-> Contents(slots[mb], curSlot[mb], pending[mb])]
Fifo == INSTANCE Channel WITH chan <- Chan

(* A mailbox, its ring of slots and its counters implement a first-in      *)
(* first-out channel: sent messages arrive once, whole and in order.       *)
IsChannel == Fifo!Spec

(* "count maximum number of messages the queue can hold" (message.h): the  *)
(* number of messages MQ_Receive believes to be there never exceeds it.    *)
PendingWithinCount == \A mb \in Mailboxes : pending[mb] <= Slots

---------------------------------------------------------------------------
(* The strengthening behind the properties above, for mailboxes with one   *)
(* receiver each: where that receiver is decides the counters.             *)

Sending(mb) == op.pc = "unblock" /\ op.q = "mbox" /\ op.ref = mb /\ op.max = 1

InRecv(t, mb) == at[t].pc = "recv" /\ at[t].x = mb

RingsOK ==
  /\ slots \in [Mailboxes -> [0..(Slots - 1) -> Messages]]
  /\ curSlot \in [Mailboxes -> 0..(Slots - 1)]
  /\ pending \in [Mailboxes -> 0..Slots]
  /\ recvWaiters \in [Mailboxes -> {0, 1}]
  /\ got \in [Threads -> Messages \cup {NULL}]

ReceiversKnown ==
  \A t \in Threads :
    /\ at[t].pc = "recv" => at[t].x \in Mailboxes /\ t \in Receivers[at[t].x]
    /\ queue[t] = "mbox" => InRecv(t, token[t])

WakeUpsDue ==
  \A mb \in Mailboxes :
    /\ recvWaiters[mb] = 1 <=> Blocked(mb) # {} /\ ~Sending(mb)
    /\ Sending(mb) => Blocked(mb) # {}
    /\ recvWaiters[mb] = 1 => pending[mb] = 0
    /\ recvWaiters[mb] = 0 => \A t \in Threads : InRecv(t, mb) => pending[mb] > 0

MailInv ==
  /\ RingsOK /\ ReceiversKnown /\ WakeUpsDue
  /\ op.pc = "unblock" /\ op.q = "mbox" => op.ref \in Mailboxes /\ op.max \in {0, 1}
============================================================================
