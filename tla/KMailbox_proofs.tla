-------------------------- MODULE KMailbox_proofs ---------------------------
(***************************************************************************)
(* Mailboxes on the kernel: with one receiver for each, no wake-up is lost *)
(* and a mailbox is a bounded first-in first-out channel, whatever the     *)
(* rest of the program does with the kernel.                               *)
(***************************************************************************)
EXTENDS KMailbox, KSync_proofs, FiniteSetTheorems

(* The kernel starts and ends no KMailboxRecv.                             *)
RecvKept ==
  \A t \in Threads : (at'[t].pc = "recv" <=> at[t].pc = "recv") /\ (at[t].pc = "recv" => at'[t] = at[t])

(* A step of the running thread only.                                      *)
LEMMA MovesCur ==
  ASSUME IInv, NEW w, at' = [at EXCEPT ![cur] = w], w.pc # "recv", at[cur].pc # "recv"
  PROVE  RecvKept
BY Zenon DEF IInv, TypeOK, RecvKept

(* No step of the kernel touches a KMailboxRecv.                           *)
LEMMA NextRecvKept ==
  ASSUME IInv, [Next]_vars
  PROVE  RecvKept
<1>0. UNCHANGED at => RecvKept
  BY Zenon DEF RecvKept
<1>1. CASE KernelStep
  BY Zenon, <1>0, <1>1 DEF KernelStep, KThreadUpdateDynamicPrio, KThreadSetPrioTail, KThrQueueUnblockCommon,
     KMutexLockSwitch, KThreadRemoveWaiter, UpdateNextOwner, Given
<1>2. CASE ReturnToCaller
  <2>1. at[cur].pc # "recv" /\ at' = [at EXCEPT ![cur] = User] /\ User.pc # "recv"
    BY Zenon, <1>2 DEF ReturnToCaller, Resumed, User
  <2>. QED  BY Zenon, <2>1, MovesCur
<1>3. CASE KMutexLockSlow \/ Relock
  <2>1. at[cur].pc # "recv"
    BY Zenon, <1>3 DEF KMutexLockSlow, Relock, Resumed
  <2>2. at' = [at EXCEPT ![cur] = User] \/ at' = [at EXCEPT ![cur] = [pc |-> "lock", m |-> at[cur].m, x |-> NULL]]
    BY Zenon, <1>3 DEF KMutexLockSlow, Relock, LockWait
  <2>. QED  BY Zenon, <2>1, <2>2, MovesCur DEF User
<1>4. CASE MutexCall
  <2>1. PICK m \in Mutexes : KMutexTryLock(m) \/ KMutexLockContended(m) \/ KMutexUnlock(m)
    BY Zenon, <1>4 DEF MutexCall
  <2>2. at[cur].pc # "recv"
    BY Zenon, <2>1 DEF KMutexTryLock, KMutexLockContended, KMutexUnlock, InThread
  <2>3. UNCHANGED at \/ at' = [at EXCEPT ![cur] = [pc |-> "slow", m |-> m, x |-> NULL]]
    BY Zenon, <2>1 DEF KMutexTryLock, KMutexLockContended, KMutexUnlock
  <2>. QED  BY Zenon, <1>0, <2>2, <2>3, MovesCur
<1>5. CASE CondVarCall
  <2>1. PICK c \in CondVars :
          \/ \E m \in Mutexes, kind \in {"cv", "cvt"} : KCondVarWait(c, m, kind)
          \/ KCondVarSignal(c) \/ KCondVarBroadcast(c)
    BY Zenon, <1>5 DEF CondVarCall
  <2>2. CASE KCondVarSignal(c) \/ KCondVarBroadcast(c)
    BY Zenon, <1>0, <2>2 DEF KCondVarSignal, KCondVarBroadcast
  <2>3. ASSUME NEW m \in Mutexes, NEW kind \in {"cv", "cvt"}, KCondVarWait(c, m, kind)
        PROVE  RecvKept
    <3>1. at[cur].pc # "recv" /\ at' = [at EXCEPT ![cur] = [pc |-> kind, m |-> m, x |-> c]]
      BY Zenon, <2>3 DEF KCondVarWait, InThread
    <3>2. [pc |-> kind, m |-> m, x |-> c].pc # "recv"
      BY Zenon
    <3>. QED  BY Zenon, <3>1, <3>2, MovesCur
  <2>. QED  BY Zenon, <2>1, <2>2, <2>3
<1>6. CASE ThreadCall
  <2>1. CASE \E t \in Users, p \in 0..MinPrio : KThreadPrepare(t, p) \/ KThreadSetPrio(t, p)
    BY Zenon, <1>0, <2>1 DEF KThreadPrepare, KThreadSetPrio
  <2>2. ASSUME NEW t \in Users, KThreadResume(t) \/ KThreadSuspendLive(t)
        PROVE  RecvKept
    <3>1. UNCHANGED at
      BY Zenon, <2>2 DEF KThreadResume, KThreadSuspendLive, KThreadSuspend
    <3>. QED  BY Zenon, <1>0, <3>1
  <2>3. ASSUME NEW t \in Users, KThreadJoin(t)
        PROVE  RecvKept
    <3>1. at[cur].pc # "recv" /\ at' = [at EXCEPT ![cur] = [pc |-> "join", m |-> NULL, x |-> t]]
      BY Zenon, <2>3 DEF KThreadJoin, InThread
    <3>2. [pc |-> "join", m |-> NULL, x |-> t].pc # "recv"
      BY Zenon
    <3>. QED  BY Zenon, <3>1, <3>2, MovesCur
  <2>4. CASE KThreadYield
    BY Zenon, <1>0, <2>4 DEF KThreadYield
  <2>5. CASE KThreadSleepTicks
    <3>1. at[cur].pc # "recv" /\ at' = [at EXCEPT ![cur] = [pc |-> "sleep", m |-> NULL, x |-> NULL]]
      BY Zenon, <2>5 DEF KThreadSleepTicks, InThread
    <3>2. [pc |-> "sleep", m |-> NULL, x |-> NULL].pc # "recv"
      BY Zenon
    <3>. QED  BY Zenon, <3>1, <3>2, MovesCur
  <2>6. CASE KThreadExit
    <3>1. [User EXCEPT !.pc = "exit"].pc # "recv"
      BY Zenon DEF User
    <3>. QED  BY Zenon, <2>6, <3>1, MovesCur DEF KThreadExit, InThread
  <2>. QED  BY Zenon, <1>6, <2>1, <2>2, <2>3, <2>4, <2>5, <2>6 DEF ThreadCall
<1>7. CASE Interrupt \/ UNCHANGED vars
  BY Zenon, <1>0, <1>7 DEF Interrupt, IrqEnter, IrqReturn, TickTaskFires, vars
<1>. QED  BY Zenon, <1>1, <1>2, <1>3, <1>4, <1>5, <1>6, <1>7 DEF Next, ThreadContinues

---------------------------------------------------------------------------
(* Arithmetic of the ring                                                  *)

(* A number below the modulus is its own remainder.                        *)
LEMMA SmallMod ==
  ASSUME NEW n \in Nat, NEW m \in Nat, n < m
  PROVE  n % m = n
OBVIOUS

(* The counter of pending messages never wraps.                            *)
LEMMA PendingCounts ==
  ASSUME NEW n \in 0..Slots
  PROVE  (n # Slots => (n + 1) % Modulus = n + 1) /\ (n > 0 => (n - 1) % Modulus = n - 1)
<1>1. n \in Nat /\ Slots \in Nat /\ Modulus \in Nat /\ n <= Slots /\ Slots < Modulus
  BY KMailboxAssumption
<1>2. CASE n # Slots
  BY <1>1, <1>2, SmallMod
<1>3. CASE n > 0
  BY <1>1, <1>3, SmallMod
<1>. QED  BY Zenon, <1>2, <1>3, <1>1, SmallMod

(* Wrap stays inside the ring and tells its slots apart.                   *)
LEMMA WrapFacts ==
  ASSUME NEW c \in 0..(Slots - 1), NEW k \in 0..(Slots - 1)
  PROVE  /\ Wrap(c + k) \in 0..(Slots - 1)
         /\ \A j \in 0..(Slots - 1) : Wrap(c + j) = Wrap(c + k) => j = k
         /\ Wrap(c + 0) = c
BY KMailboxAssumption DEF Wrap

(* Reading after the first slot is reading one slot further.               *)
LEMMA WrapNext ==
  ASSUME NEW c \in 0..(Slots - 1), NEW k \in 1..(Slots - 1)
  PROVE  Wrap(c + 1) \in 0..(Slots - 1) /\ Wrap(Wrap(c + 1) + (k - 1)) = Wrap(c + k)
BY KMailboxAssumption DEF Wrap

(* The slot after any slot.                                                *)
LEMMA WrapOne ==
  ASSUME NEW c \in 0..(Slots - 1)
  PROVE  Wrap(c + 1) \in 0..(Slots - 1)
BY KMailboxAssumption DEF Wrap

(* Writing behind the last message appends it.                             *)
LEMMA ContentsAppend ==
  ASSUME NEW ring \in [0..(Slots - 1) -> Messages], NEW c \in 0..(Slots - 1), NEW n \in 0..(Slots - 1),
         NEW msg \in Messages
  PROVE  /\ Contents(ring, c, n) \in Seq(Messages) /\ Len(Contents(ring, c, n)) = n
         /\ Contents([ring EXCEPT ![Wrap(c + n)] = msg], c, n + 1) = Append(Contents(ring, c, n), msg)
<1> DEFINE new == [ring EXCEPT ![Wrap(c + n)] = msg]
<1>0. Slots \in Nat
  BY Zenon, KMailboxAssumption
<1>1. Wrap(c + n) \in 0..(Slots - 1) /\ new[Wrap(c + n)] = msg
  BY Zenon, WrapFacts
<1>2. ASSUME NEW i \in 1..n
      PROVE  ring[Wrap(c + i - 1)] \in Messages /\ new[Wrap(c + i - 1)] = ring[Wrap(c + i - 1)]
  <2>1. i - 1 \in 0..(Slots - 1) /\ i - 1 # n /\ c + i - 1 = c + (i - 1)
    BY <1>0
  <2>2. Wrap(c + (i - 1)) \in 0..(Slots - 1) /\ Wrap(c + (i - 1)) # Wrap(c + n)
    BY Zenon, <2>1, WrapFacts
  <2>. QED  BY Zenon, <2>1, <2>2
<1>3. c + (n + 1) - 1 = c + n /\ n \in Nat
  BY <1>0
<1> HIDE DEF new
<1>4. Contents(ring, c, n) \in Seq(Messages) /\ Len(Contents(ring, c, n)) = n
  <2>1. Contents(ring, c, n) \in [1..n -> Messages]
    BY Zenon, <1>2 DEF Contents
  <2>. QED  BY <1>3, <2>1
<1>5. ASSUME NEW i \in 1..(n + 1)
      PROVE  Contents(new, c, n + 1)[i] = Append(Contents(ring, c, n), msg)[i]
  <2>1. CASE i = n + 1
    BY <2>1, <1>1, <1>3, <1>4 DEF Contents
  <2>2. CASE i \in 1..n
    BY <2>2, <1>2, <1>3, <1>4 DEF Contents
  <2>3. i = n + 1 \/ i \in 1..n
    BY <1>3, <1>5
  <2>. QED  BY Zenon, <2>1, <2>2, <2>3
<1>6. /\ Contents(new, c, n + 1) = [i \in 1..(n + 1) |-> Contents(new, c, n + 1)[i]]
      /\ Append(Contents(ring, c, n), msg) = [i \in 1..(n + 1) |-> Append(Contents(ring, c, n), msg)[i]]
  BY <1>3, <1>4 DEF Contents
<1>7. Contents(new, c, n + 1) = Append(Contents(ring, c, n), msg)
  BY Zenon, <1>5, <1>6
<1>. QED  BY Zenon, <1>4, <1>7 DEF new

(* Moving the first slot on drops the oldest message.                      *)
LEMMA ContentsTail ==
  ASSUME NEW ring \in [0..(Slots - 1) -> Messages], NEW c \in 0..(Slots - 1), NEW n \in 1..Slots
  PROVE  /\ Contents(ring, c, n) # <<>> /\ Head(Contents(ring, c, n)) = ring[c]
         /\ Contents(ring, Wrap(c + 1), n - 1) = Tail(Contents(ring, c, n))
<1> DEFINE old == Contents(ring, c, n)
           new == Contents(ring, Wrap(c + 1), n - 1)
<1>0. Slots \in Nat /\ n \in Nat /\ n - 1 \in Nat
  BY KMailboxAssumption
<1>1. ASSUME NEW i \in 1..n
      PROVE  ring[Wrap(c + i - 1)] \in Messages
  <2>1. i - 1 \in 0..(Slots - 1) /\ c + i - 1 = c + (i - 1)
    BY <1>0
  <2>. QED  BY Zenon, <2>1, WrapFacts
<1>2. old \in Seq(Messages) /\ Len(old) = n /\ old[1] = ring[Wrap(c + 1 - 1)]
  BY <1>0, <1>1 DEF Contents
<1>3. old[1] = ring[c]
  <2>1. c + 1 - 1 = c + 0 /\ 0 \in 0..(Slots - 1)
    BY <1>0
  <2>2. Wrap(c + 0) = c
    BY Zenon, <2>1, WrapFacts
  <2>. QED  BY Zenon, <1>2, <2>1, <2>2
<1>4. ASSUME NEW i \in 1..(n - 1)
      PROVE  new[i] = old[i + 1]
  <2>1. i \in 1..(Slots - 1) /\ i + 1 \in 1..n
    BY <1>0
  <2>2. Wrap(c + 1) \in 0..(Slots - 1) /\ Wrap(Wrap(c + 1) + (i - 1)) = Wrap(c + i)
    BY Zenon, <2>1, WrapNext
  <2>3. Wrap(c + 1) + (i - 1) = Wrap(c + 1) + i - 1 /\ c + i = c + (i + 1) - 1
    BY <2>1, <2>2
  <2>. QED  BY Zenon, <2>1, <2>2, <2>3 DEF Contents
<1>5. new = [i \in 1..(n - 1) |-> new[i]]
  BY Zenon DEF Contents
<1> HIDE DEF old, new
<1>6. Tail(old) = [i \in 1..(n - 1) |-> old[i + 1]]
  <2>1. Tail(old) \in Seq(Messages) /\ Len(Tail(old)) = n - 1
    BY <1>0, <1>2
  <2>2. \A i \in 1..(n - 1) : Tail(old)[i] = old[i + 1]
    BY <1>0, <1>2
  <2>3. Tail(old) \in [1..(n - 1) -> Messages]
    BY <2>1, <1>0
  <2>4. Tail(old) = [i \in 1..(n - 1) |-> Tail(old)[i]]
    BY Zenon, <2>3
  <2>. QED  BY Zenon, <2>2, <2>4
<1>7. new = Tail(old)
  BY Zenon, <1>4, <1>5, <1>6
<1>8. old # <<>> /\ Head(old) = ring[c]
  BY <1>0, <1>2, <1>3
<1>. QED  BY Zenon, <1>7, <1>8 DEF old, new

---------------------------------------------------------------------------
(* The receivers                                                           *)

(* Who is in KMailboxRecv for a mailbox, and where that thread is blocked. *)
LEMMA BlockedFacts ==
  ASSUME OneReceiver, ReceiversKnown, NEW mb \in Mailboxes
  PROVE  /\ Blocked(mb) \subseteq Threads
         /\ \A t \in Blocked(mb) : InRecv(t, mb)
         /\ \A t \in Threads : InRecv(t, mb) => t \in Receivers[mb]
         /\ \A t, u \in Threads : InRecv(t, mb) /\ InRecv(u, mb) => t = u
<1>1. Blocked(mb) \subseteq Threads /\ \A t \in Blocked(mb) : InRecv(t, mb)
  BY Zenon DEF Blocked, ReceiversKnown
<1>2. \A t \in Threads : InRecv(t, mb) => t \in Receivers[mb]
  BY Zenon DEF ReceiversKnown, InRecv
<1>3. \A t, u \in Threads : InRecv(t, mb) /\ InRecv(u, mb) => t = u
  BY Zenon, <1>2 DEF OneReceiver
<1>. QED  BY Zenon, <1>1, <1>2, <1>3

(* Nothing about the mailboxes and their receivers changes, and no send is *)
(* under way afterwards; one that was has woken its receiver already.      *)
MailKept ==
  /\ \A mb \in Mailboxes : Blocked(mb)' = Blocked(mb) /\ ~Sending(mb) /\ ~Sending(mb)'
  /\ ReceiversKnown' /\ \A t \in Threads, mb \in Mailboxes : InRecv(t, mb)' <=> InRecv(t, mb)
  /\ ~(op'.pc = "unblock" /\ op'.q = "mbox")

(* The send under way wakes the receiver.                                  *)
SendWakes(mb, t) ==
  /\ t \in Blocked(mb) /\ Blocked(mb)' = Blocked(mb) \ {t}
  /\ \A r \in Mailboxes : r # mb => Blocked(r)' = Blocked(r)
  /\ Sending(mb) /\ op'.pc = "unblock" /\ op'.q = "mbox" /\ op'.ref = mb /\ op'.max = 0
  /\ ReceiversKnown' /\ \A u \in Threads, r \in Mailboxes : InRecv(u, r)' <=> InRecv(u, r)

(* What a step of the kernel can do to the mailboxes.                      *)
LEMMA KernelMails ==
  ASSUME IInv, MailInv, Next
  PROVE  MailKept \/ \E mb \in Mailboxes : \E t \in Threads : SendWakes(mb, t)
<1>a. RecvKept
  BY Zenon, NextRecvKept
<1>b. \A t \in Threads : \A mb : InRecv(t, mb)' <=> InRecv(t, mb)
  BY Zenon, <1>a DEF RecvKept, InRecv
<1>1. CASE ~(op.pc = "unblock" /\ op.q = "mbox")
  <2>1. LeftAlone("mbox")
    BY Zenon, <1>1, NextLeaves
  <2>2. \A mb : Blocked(mb)' = Blocked(mb)
    BY Zenon, <2>1 DEF LeftAlone, Blocked
  <2>3. ~(op'.pc = "unblock" /\ op'.q = "mbox") /\ \A mb : ~Sending(mb) /\ ~Sending(mb)'
    BY Zenon, <1>1, <2>1 DEF LeftAlone, Sending
  <2>4. \A t \in Threads : queue'[t] = "mbox" => queue[t] = "mbox" /\ token'[t] = token[t]
    BY Zenon, <2>1 DEF LeftAlone
  <2>5. ReceiversKnown'
    BY Zenon, <1>a, <1>b, <2>4 DEF MailInv, ReceiversKnown, RecvKept
  <2>. QED  BY Zenon, <1>b, <2>2, <2>3, <2>5 DEF MailKept
<1>2. CASE op.pc = "unblock" /\ op.q = "mbox"
  <2>0. PICK mb : mb = op.ref
    BY Zenon
  <2>1. mb \in Mailboxes /\ op.max \in {0, 1} /\ (op.max = 1 <=> Sending(mb)) /\ \A r : Sending(r) => r = mb
    BY ZenonT(30), <1>2, <2>0 DEF MailInv, Sending
  <2>3. queue \in [Threads -> Queues \cup {NULL}] /\ token \in [Threads -> Tokens] /\ NULL # "mbox"
    BY ZenonT(30), ConstantFacts DEF IInv, TypeOK, Static
  <2>4. KThrQueueUnblockCommon
    BY Zenon, <1>2, OnlyUnblock
  <2>5. CASE /\ op.max # 0 /\ op'.pc = "unblock" /\ op'.q = op.q /\ op'.ref = op.ref
             /\ op'.max = IF op.max > 0 THEN op.max - 1 ELSE op.max
             /\ \E t \in Threads :
                  /\ queue[t] = op.q /\ token[t] = op.ref
                  /\ queue' = [queue EXCEPT ![t] = NULL] /\ token' = [token EXCEPT ![t] = Woken]
    <3>1. PICK t \in Threads : /\ queue[t] = op.q /\ token[t] = op.ref
                               /\ queue' = [queue EXCEPT ![t] = NULL] /\ token' = [token EXCEPT ![t] = Woken]
      BY Zenon, <2>5
    <3>2. op.max = 1 /\ op'.max = 0 /\ op'.pc = "unblock" /\ op'.q = "mbox" /\ op'.ref = mb
      BY <1>2, <2>0, <2>1, <2>5
    <3>3. t \in Blocked(mb) /\ Blocked(mb)' = Blocked(mb) \ {t}
      BY Zenon, <1>2, <2>0, <2>3, <3>1 DEF Blocked
    <3>4. \A r : r # mb => Blocked(r)' = Blocked(r)
      BY Zenon, <1>2, <2>0, <2>3, <3>1 DEF Blocked
    <3>5. \A u \in Threads : queue'[u] = "mbox" => queue[u] = "mbox" /\ token'[u] = token[u]
      BY Zenon, <2>3, <3>1
    <3>6. ReceiversKnown'
      BY Zenon, <1>a, <1>b, <3>5 DEF MailInv, ReceiversKnown, RecvKept
    <3>. QED  BY Zenon, <1>b, <2>1, <3>2, <3>3, <3>4, <3>6 DEF SendWakes
  <2>6. CASE /\ op.max = 0 \/ \A t \in Threads : ~(queue[t] = op.q /\ token[t] = op.ref)
             /\ UNCHANGED <<queue, token>> /\ op' = NoOp
    <3>1. ~Sending(mb)
      <4>1. CASE \A t \in Threads : ~(queue[t] = op.q /\ token[t] = op.ref)
        <5>1. Blocked(mb) = {}
          BY Zenon, <4>1, <1>2, <2>0 DEF Blocked
        <5>. QED  BY Zenon, <2>1, <5>1 DEF MailInv, WakeUpsDue
      <4>. QED  BY <2>1, <2>6, <4>1
    <3>2. \A r : Blocked(r)' = Blocked(r)
      BY Zenon, <2>6 DEF Blocked
    <3>3. ~(op'.pc = "unblock" /\ op'.q = "mbox") /\ \A r : ~Sending(r)'
      BY Zenon, <2>6 DEF NoOp, Sending
    <3>4. ReceiversKnown'
      BY Zenon, <1>a, <1>b, <2>6 DEF MailInv, ReceiversKnown, RecvKept
    <3>. QED  BY Zenon, <1>b, <2>1, <3>1, <3>2, <3>3, <3>4 DEF MailKept
  <2>. QED  BY Zenon, <2>4, <2>5, <2>6, UnblockTurn
<1>. QED  BY Zenon, <1>1, <1>2

(* The mailboxes after a step of the kernel.                               *)
LEMMA KernelMailInv ==
  ASSUME OneReceiver, IInv, MailInv, Next, UNCHANGED boxVars
  PROVE  MailInv'
<1>1. RingsOK /\ ReceiversKnown /\ WakeUpsDue
  BY Zenon DEF MailInv
<1>2. RingsOK' /\ recvWaiters' = recvWaiters /\ pending' = pending
  BY Zenon, <1>1 DEF RingsOK, boxVars
<1>3. CASE MailKept
  <2>1. WakeUpsDue'
    BY Zenon, <1>1, <1>2, <1>3 DEF MailKept, WakeUpsDue
  <2>. QED  BY Zenon, <1>2, <1>3, <2>1 DEF MailKept, MailInv
<1>4. ASSUME NEW mb \in Mailboxes, NEW t \in Threads, SendWakes(mb, t)
      PROVE  MailInv'
  <2>1. Blocked(mb)' = {}
    BY Zenon, <1>1, <1>4, BlockedFacts DEF SendWakes
  <2>2. \A r \in Mailboxes : ~Sending(r)' /\ (r # mb => ~Sending(r))
    BY <1>4 DEF SendWakes, Sending
  <2>3. Sending(mb) /\ recvWaiters[mb] \in {0, 1}
    BY Zenon, <1>1, <1>4 DEF SendWakes, RingsOK
  <2>4. ASSUME NEW r \in Mailboxes, r # mb
        PROVE  /\ recvWaiters[r] = 1 <=> Blocked(r)' # {}
               /\ recvWaiters[r] = 1 => pending[r] = 0
               /\ recvWaiters[r] = 0 => \A u \in Threads : InRecv(u, r)' => pending[r] > 0
    BY Zenon, <1>1, <1>4, <2>2, <2>4 DEF SendWakes, WakeUpsDue
  <2>5. recvWaiters[mb] = 0 /\ \A u \in Threads : InRecv(u, mb)' => pending[mb] > 0
    BY ZenonT(30), <1>1, <1>4, <2>3 DEF SendWakes, WakeUpsDue
  <2>6. WakeUpsDue'
    BY <1>2, <2>1, <2>2, <2>4, <2>5 DEF WakeUpsDue
  <2>. QED  BY Zenon, <1>2, <1>4, <2>6 DEF SendWakes, MailInv
<1>. QED  BY Zenon, <1>3, <1>4, KernelMails

(* The channel a ring stands for, after one mailbox has changed.           *)
LEMMA ChanOf ==
  ASSUME NEW mb \in Mailboxes, NEW new, Contents(slots'[mb], curSlot'[mb], pending'[mb]) = new,
         \A r \in Mailboxes : r # mb => slots'[r] = slots[r] /\ curSlot'[r] = curSlot[r] /\ pending'[r] = pending[r]
  PROVE  Chan' = [Chan EXCEPT ![mb] = new]
<1>1. ASSUME NEW r \in Mailboxes
      PROVE  Contents(slots'[r], curSlot'[r], pending'[r])
               = IF r = mb THEN new ELSE Contents(slots[r], curSlot[r], pending[r])
  BY Zenon, <1>1
<1> HIDE DEF Contents
<1>. QED  BY Zenon, <1>1 DEF Chan

(* Taking a message.                                                       *)
LEMMA TakeStep ==
  ASSUME RingsOK, NEW mb \in Mailboxes, NEW t \in Threads, t = cur, pending[mb] # 0, Take(mb),
         UNCHANGED recvWaiters
  PROVE  /\ RingsOK' /\ Fifo!Receive(t, mb)
         /\ pending' = [pending EXCEPT ![mb] = pending[mb] - 1]
<1>1. /\ got' = [got EXCEPT ![t] = slots[mb][curSlot[mb]]]
      /\ curSlot' = [curSlot EXCEPT ![mb] = Wrap(curSlot[mb] + 1)]
      /\ pending' = [pending EXCEPT ![mb] = (pending[mb] - 1) % Modulus]
      /\ slots' = slots
  BY Zenon DEF Take
<1>2. /\ slots \in [Mailboxes -> [0..(Slots - 1) -> Messages]]
      /\ curSlot \in [Mailboxes -> 0..(Slots - 1)] /\ pending \in [Mailboxes -> 0..Slots]
      /\ recvWaiters \in [Mailboxes -> {0, 1}] /\ got \in [Threads -> Messages \cup {NULL}]
      /\ Slots \in Nat
  BY Zenon, KMailboxAssumption DEF RingsOK
<1>3. /\ pending[mb] \in 1..Slots /\ curSlot[mb] \in 0..(Slots - 1) /\ slots[mb] \in [0..(Slots - 1) -> Messages]
  BY <1>2
<1>4. (pending[mb] - 1) % Modulus = pending[mb] - 1 /\ pending[mb] - 1 \in 0..Slots
  BY <1>2, <1>3, PendingCounts
<1>5. pending' = [pending EXCEPT ![mb] = pending[mb] - 1]
  BY Zenon, <1>1, <1>4
<1>6. Wrap(curSlot[mb] + 1) \in 0..(Slots - 1)
  BY ZenonT(30), <1>3, WrapOne
<1>7. RingsOK'
  BY Zenon, <1>1, <1>2, <1>3, <1>4, <1>5, <1>6 DEF RingsOK
<1>8. /\ Contents(slots[mb], curSlot[mb], pending[mb]) # <<>>
      /\ Head(Contents(slots[mb], curSlot[mb], pending[mb])) = slots[mb][curSlot[mb]]
      /\ Contents(slots[mb], Wrap(curSlot[mb] + 1), pending[mb] - 1)
           = Tail(Contents(slots[mb], curSlot[mb], pending[mb]))
  BY Zenon, <1>3, ContentsTail
<1>9. Chan[mb] = Contents(slots[mb], curSlot[mb], pending[mb])
  BY Zenon DEF Chan
<1>10. Contents(slots'[mb], curSlot'[mb], pending'[mb]) = Tail(Chan[mb])
  BY Zenon, <1>1, <1>2, <1>5, <1>8, <1>9
<1>11. Chan' = [Chan EXCEPT ![mb] = Tail(Chan[mb])]
  <2>1. \A r \in Mailboxes : r # mb => slots'[r] = slots[r] /\ curSlot'[r] = curSlot[r] /\ pending'[r] = pending[r]
    BY Zenon, <1>1, <1>2
  <2>. QED  BY Zenon, <1>10, <2>1, ChanOf
<1>12. Fifo!Receive(t, mb)
  BY Zenon, <1>1, <1>8, <1>9, <1>11 DEF Fifo!Receive
<1>. QED  BY Zenon, <1>5, <1>7, <1>12

(* Putting a message.                                                      *)
LEMMA PutStep ==
  ASSUME RingsOK, NEW mb \in Mailboxes, NEW msg \in Messages, pending[mb] # Slots,
         slots' = [slots EXCEPT ![mb][NextSlot(mb)] = msg],
         pending' = [pending EXCEPT ![mb] = (@ + 1) % Modulus],
         recvWaiters' \in [Mailboxes -> {0, 1}], UNCHANGED <<curSlot, got>>
  PROVE  /\ RingsOK' /\ Fifo!Send(mb, msg)
         /\ pending' = [pending EXCEPT ![mb] = pending[mb] + 1]
<1>2. /\ slots \in [Mailboxes -> [0..(Slots - 1) -> Messages]]
      /\ curSlot \in [Mailboxes -> 0..(Slots - 1)] /\ pending \in [Mailboxes -> 0..Slots]
      /\ got \in [Threads -> Messages \cup {NULL}]
      /\ Slots \in Nat
  BY Zenon, KMailboxAssumption DEF RingsOK
<1>3. /\ pending[mb] \in 0..(Slots - 1) /\ curSlot[mb] \in 0..(Slots - 1) /\ slots[mb] \in [0..(Slots - 1) -> Messages]
  BY <1>2
<1>4. (pending[mb] + 1) % Modulus = pending[mb] + 1 /\ pending[mb] + 1 \in 0..Slots
  BY <1>2, <1>3, PendingCounts
<1>5. pending' = [pending EXCEPT ![mb] = pending[mb] + 1]
  BY Zenon, <1>4
<1> DEFINE ring == [slots[mb] EXCEPT ![Wrap(curSlot[mb] + pending[mb])] = msg]
<1>6. slots' = [slots EXCEPT ![mb] = ring]
  BY Zenon, <1>2 DEF NextSlot
<1>7. ring \in [0..(Slots - 1) -> Messages]
  BY Zenon, <1>3
<1>8. /\ Contents(slots[mb], curSlot[mb], pending[mb]) \in Seq(Messages)
      /\ Len(Contents(slots[mb], curSlot[mb], pending[mb])) = pending[mb]
      /\ Contents(ring, curSlot[mb], pending[mb] + 1) = Append(Contents(slots[mb], curSlot[mb], pending[mb]), msg)
  BY Zenon, <1>3, ContentsAppend
<1> HIDE DEF ring
<1>9. RingsOK'
  <2>1. slots' \in [Mailboxes -> [0..(Slots - 1) -> Messages]]
    BY Zenon, <1>2, <1>6, <1>7
  <2>2. pending' \in [Mailboxes -> 0..Slots]
    BY Zenon, <1>2, <1>4, <1>5
  <2>. QED  BY Zenon, <1>2, <2>1, <2>2 DEF RingsOK
<1>10. Chan[mb] = Contents(slots[mb], curSlot[mb], pending[mb])
  BY Zenon DEF Chan
<1>11. Contents(slots'[mb], curSlot'[mb], pending'[mb]) = Append(Chan[mb], msg)
  BY Zenon, <1>2, <1>5, <1>6, <1>8, <1>10
<1>12. Chan' = [Chan EXCEPT ![mb] = Append(Chan[mb], msg)]
  <2>1. \A r \in Mailboxes : r # mb => slots'[r] = slots[r] /\ curSlot'[r] = curSlot[r] /\ pending'[r] = pending[r]
    BY Zenon, <1>2, <1>5, <1>6
  <2>. QED  BY Zenon, <1>11, <2>1, ChanOf
<1>13. Len(Chan[mb]) < Slots
  BY <1>2, <1>3, <1>8, <1>10
<1>14. Fifo!Send(mb, msg)
  BY Zenon, <1>12, <1>13 DEF Fifo!Send
<1>. QED  BY Zenon, <1>5, <1>9, <1>14

---------------------------------------------------------------------------
(* The calls                                                               *)

(* Steps that change no wait queue.                                        *)
LEMMA QueuesKept ==
  ASSUME UNCHANGED <<queueVars, at>>
  PROVE  /\ \A mb : Blocked(mb)' = Blocked(mb)
         /\ \A t, mb : InRecv(t, mb)' <=> InRecv(t, mb)
         /\ ReceiversKnown => ReceiversKnown'
BY Zenon DEF queueVars, Blocked, InRecv, ReceiversKnown

(* With no kernel function in progress no send is under way.               *)
LEMMA NoneSending ==
  ASSUME op.pc = "none"
  PROVE  \A mb : ~Sending(mb)
BY Zenon DEF Sending

(* KMailboxTrySend.                                                        *)
LEMMA SendStep ==
  ASSUME IInv, MailInv, NEW mb \in Mailboxes, NEW msg \in Messages, KMailboxTrySend(mb, msg)
  PROVE  IInv' /\ MailInv' /\ Fifo!Send(mb, msg)
<1>1. /\ op.pc = "none" /\ Calling /\ pending[mb] # Slots
      /\ slots' = [slots EXCEPT ![mb][NextSlot(mb)] = msg]
      /\ pending' = [pending EXCEPT ![mb] = (@ + 1) % Modulus]
      /\ WakeReceiver(mb) /\ UNCHANGED <<curSlot, got>>
      /\ UNCHANGED <<threadVars, queueVars, owner, cpuVars, armed, at>>
  BY Zenon DEF KMailboxTrySend, Calling, InThread
<1>2. RingsOK /\ ReceiversKnown /\ WakeUpsDue /\ recvWaiters \in [Mailboxes -> {0, 1}]
      /\ pending \in [Mailboxes -> 0..Slots] /\ Slots \in Nat
  BY Zenon, KMailboxAssumption DEF MailInv, RingsOK
<1>3. \A r : ~Sending(r)
  BY ZenonT(30), <1>1, NoneSending
<1>4. /\ \A r : Blocked(r)' = Blocked(r)
      /\ \A t, r : InRecv(t, r)' <=> InRecv(t, r)
      /\ ReceiversKnown'
  BY Zenon, <1>1, <1>2, QueuesKept
<1>5. recvWaiters' \in [Mailboxes -> {0, 1}]
  BY <1>1, <1>2 DEF WakeReceiver
<1>6. RingsOK' /\ Fifo!Send(mb, msg) /\ pending' = [pending EXCEPT ![mb] = pending[mb] + 1]
  BY Zenon, <1>1, <1>2, <1>5, PutStep
<1>7. pending'[mb] > 0 /\ \A r \in Mailboxes : r # mb => pending'[r] = pending[r]
  BY <1>2, <1>6
<1>8. CASE recvWaiters[mb] # 0
  <2>1. recvWaiters' = [recvWaiters EXCEPT ![mb] = 0] /\ KThrQueueUnblock("mbox", mb, 1) /\ recvWaiters[mb] = 1
    BY <1>1, <1>2, <1>8 DEF WakeReceiver
  <2>2. op'.pc = "unblock" /\ op'.q = "mbox" /\ op'.ref = mb /\ op'.max = 1
    BY Zenon, <2>1 DEF KThrQueueUnblock, NoOp
  <2>3. \A r : Sending(r)' <=> r = mb
    BY Zenon, <2>2 DEF Sending
  <2>4. IInv'
    <3>1. mb \in Tokens
      BY ZenonT(30), KMailboxAssumption, NoOpType
    <3>. QED  BY Zenon, <1>1, <2>1, <3>1, WakeStep
  <2>5. recvWaiters'[mb] = 0 /\ \A r \in Mailboxes : r # mb => recvWaiters'[r] = recvWaiters[r]
    BY ZenonT(30), <1>2, <2>1
  <2>6. WakeUpsDue'
    BY <1>2, <1>3, <1>4, <1>7, <2>1, <2>3, <2>5 DEF WakeUpsDue
  <2>7. MailInv'
    BY Zenon, <1>4, <1>6, <2>2, <2>6 DEF MailInv
  <2>. QED  BY Zenon, <1>6, <2>4, <2>7
<1>9. CASE recvWaiters[mb] = 0
  <2>1. recvWaiters' = recvWaiters /\ op' = op
    BY Zenon, <1>1, <1>9 DEF WakeReceiver
  <2>2. IInv'
    <3>1. UNCHANGED vars
      BY Zenon, <1>1, <2>1 DEF vars
    <3>. QED  BY Zenon, <3>1, StutterInv
  <2>3. \A r : ~Sending(r)'
    BY ZenonT(30), <1>1, <2>1 DEF Sending
  <2>4. WakeUpsDue'
    BY <1>2, <1>3, <1>4, <1>7, <1>9, <2>1, <2>3 DEF WakeUpsDue
  <2>5. MailInv'
    BY Zenon, <1>1, <1>4, <1>6, <2>1, <2>4 DEF MailInv
  <2>. QED  BY Zenon, <1>6, <2>2, <2>5
<1>. QED  BY Zenon, <1>8, <1>9

(* The only receiver of a mailbox, when it runs its own code, is not in    *)
(* KMailboxRecv, so nobody is.                                             *)
LEMMA NobodyReceives ==
  ASSUME OneReceiver, ReceiversKnown, NEW mb \in Mailboxes, cur \in Receivers[mb], cur \in Threads,
         at[cur].pc # "recv" \/ queue[cur] # "mbox"
  PROVE  Blocked(mb) = {} /\ (at[cur].pc # "recv" => \A t \in Threads : ~InRecv(t, mb))
<1>1. \A t \in Threads : InRecv(t, mb) => t = cur
  BY Zenon, BlockedFacts DEF OneReceiver
<1>2. Blocked(mb) = {}
  BY Zenon, <1>1, BlockedFacts DEF Blocked, InRecv
<1>. QED  BY ZenonT(30), <1>1, <1>2 DEF InRecv

(* KMailboxTryRecv, and KMailboxRecv that finds a message.                 *)
LEMMA FoundStep ==
  ASSUME OneReceiver, IInv, MailInv, NEW mb \in Mailboxes, InThread, cur \in Receivers[mb],
         pending[mb] # 0, Take(mb), UNCHANGED <<vars, recvWaiters>>
  PROVE  IInv' /\ MailInv' /\ \E t \in Threads : Fifo!Receive(t, mb)
<1>1. IInv'
  BY Zenon, StutterInv
<1>2. /\ RingsOK /\ ReceiversKnown /\ WakeUpsDue /\ recvWaiters' = recvWaiters
      /\ pending \in [Mailboxes -> 0..Slots] /\ Slots \in Nat
  BY ZenonT(30), KMailboxAssumption DEF MailInv, RingsOK
<1>3. op.pc = "none" /\ op' = op /\ cur \in Threads /\ at[cur].pc # "recv" /\ UNCHANGED <<queueVars, at>>
  BY Zenon DEF IInv, TypeOK, InThread, vars
<1>4. \A r : ~Sending(r) /\ ~Sending(r)'
  BY Zenon, <1>3 DEF Sending
<1>5. /\ \A r : Blocked(r)' = Blocked(r)
      /\ \A t, r : InRecv(t, r)' <=> InRecv(t, r)
      /\ ReceiversKnown'
  BY Zenon, <1>2, <1>3, QueuesKept
<1>6. PICK t \in Threads : t = cur
  BY Zenon, <1>3
<1>7. RingsOK' /\ Fifo!Receive(t, mb) /\ pending' = [pending EXCEPT ![mb] = pending[mb] - 1]
  BY Zenon, <1>2, <1>6, TakeStep
<1>8. Blocked(mb) = {} /\ \A u \in Threads : ~InRecv(u, mb)
  BY Zenon, <1>2, <1>3, NobodyReceives
<1>9. \A r \in Mailboxes : r # mb => pending'[r] = pending[r]
  BY Zenon, <1>2, <1>7
<1>10. WakeUpsDue'
  BY Zenon, <1>2, <1>4, <1>5, <1>8, <1>9 DEF WakeUpsDue
<1>11. MailInv'
  BY Zenon, <1>3, <1>5, <1>7, <1>10 DEF MailInv
<1>. QED  BY Zenon, <1>1, <1>7, <1>11

(* KMailboxRecv that blocks keeps the invariant of the kernel.             *)
LEMMA RecvBlockStep ==
  ASSUME IInv, NEW mb \in Mailboxes, InThread, KThrQueueBlock("mbox", mb),
         at' = [at EXCEPT ![cur] = [pc |-> "recv", m |-> NULL, x |-> mb]],
         UNCHANGED <<list, suspend, baseprio, owner, armed>>
  PROVE  /\ IInv' /\ cur \in Threads /\ op' = NoOp /\ at[cur].pc = "user"
         /\ queue' = [queue EXCEPT ![cur] = "mbox"] /\ token' = [token EXCEPT ![cur] = mb]
<1>a. TypeOK /\ CpuShape /\ JoinShape /\ TimerShape
  BY Zenon DEF IInv
<1> DEFINE w == [pc |-> "recv", m |-> NULL, x |-> mb]
<1>1. /\ state' = [state EXCEPT ![cur] = "WAITING"]
      /\ token' = [token EXCEPT ![cur] = mb]
      /\ queue' = [queue EXCEPT ![cur] = "mbox"]
      /\ state \in [Threads -> States] /\ at \in [Threads -> Places]
      /\ queue \in [Threads -> Queues \cup {NULL}] /\ token \in [Threads -> Tokens]
      /\ armed \subseteq Threads /\ cur \in Threads
      /\ at[cur].pc = "user" /\ state[cur] = "RUNNING"
  BY Zenon, <1>a DEF KThrQueueBlock, TypeOK, InThread, CpuShape, Bumping
<1>2. "mbox" \in Static /\ mb \in Tokens /\ w \in Places /\ w.pc = "recv"
  BY Zenon, KMailboxAssumption, NoOpType DEF Places, Static
<1>3. at' = [at EXCEPT ![cur] = w]
  BY Zenon
<1> HIDE DEF w
<1>4. JoinShape'
  BY <1>a, <1>1, <1>2, <1>3 DEF JoinShape
<1>5. TimerShape'
  BY <1>a, <1>1, <1>2, <1>3 DEF TimerShape
<1>6. IInv'
  BY Zenon, <1>1, <1>2, <1>3, <1>4, <1>5, BlockStep
<1>7. op' = NoOp
  BY Zenon, SwitchEnds DEF KThrQueueBlock
<1>. QED  BY Zenon, <1>1, <1>6, <1>7

(* KMailboxRecv that blocks.                                               *)
LEMMA WaitStep ==
  ASSUME OneReceiver, IInv, MailInv, NEW mb \in Mailboxes, cur \in Receivers[mb], KMailboxRecv(mb), pending[mb] = 0
  PROVE  IInv' /\ MailInv' /\ UNCHANGED Fifo!vars
<1>1. /\ InThread /\ KThrQueueBlock("mbox", mb)
      /\ recvWaiters' = [recvWaiters EXCEPT ![mb] = @ + 1]
      /\ at' = [at EXCEPT ![cur] = [pc |-> "recv", m |-> NULL, x |-> mb]]
      /\ UNCHANGED <<list, suspend, baseprio, owner, armed>>
      /\ slots' = slots /\ curSlot' = curSlot /\ pending' = pending /\ got' = got /\ op.pc = "none"
  BY Zenon DEF KMailboxRecv, InThread
<1>2. /\ IInv' /\ cur \in Threads /\ op' = NoOp /\ at[cur].pc = "user"
      /\ queue' = [queue EXCEPT ![cur] = "mbox"] /\ token' = [token EXCEPT ![cur] = mb]
  BY ZenonT(30), <1>1, RecvBlockStep
<1>3. /\ RingsOK /\ ReceiversKnown /\ WakeUpsDue /\ recvWaiters \in [Mailboxes -> {0, 1}]
      /\ queue \in [Threads -> Queues \cup {NULL}] /\ token \in [Threads -> Tokens] /\ at \in [Threads -> Places]
  BY Zenon DEF MailInv, RingsOK, IInv, TypeOK
<1>4. PICK t \in Threads : t = cur
  BY Zenon, <1>2
<1>5. Blocked(mb) = {} /\ \A u \in Threads : ~InRecv(u, mb)
  BY Zenon, <1>2, <1>3, NobodyReceives
<1>6. \A r : ~Sending(r) /\ ~Sending(r)'
  BY Zenon, <1>1, <1>2 DEF Sending, NoOp
<1>7. Blocked(mb)' = {t}
  <2>1. t \in Blocked(mb)'
    BY ZenonT(30), <1>2, <1>3, <1>4 DEF Blocked
  <2>2. \A u \in Threads : u # t /\ u \in Blocked(mb)' => u \in Blocked(mb)
    BY Zenon, <1>2, <1>3, <1>4 DEF Blocked
  <2>3. Blocked(mb)' \subseteq Threads
    BY Zenon DEF Blocked
  <2>. QED  BY Zenon, <1>5, <2>1, <2>2, <2>3
<1>8. \A r \in Mailboxes : r # mb => Blocked(r)' = Blocked(r)
  <2>1. queue[t] # "mbox"
    BY ZenonT(30), <1>2, <1>3, <1>4 DEF ReceiversKnown, InRecv
  <2>. QED  BY Zenon, <1>2, <1>3, <1>4, <2>1 DEF Blocked
<1>9. \A u \in Threads, r \in Mailboxes : InRecv(u, r)' <=> InRecv(u, r) \/ (u = t /\ r = mb)
  BY Zenon, <1>1, <1>2, <1>3, <1>4 DEF InRecv
<1>10. ReceiversKnown'
  <2>1. at'[t].pc = "recv" /\ at'[t].x = mb /\ queue'[t] = "mbox" /\ token'[t] = mb /\ t \in Receivers[mb]
    BY Zenon, <1>1, <1>2, <1>3, <1>4
  <2>2. ASSUME NEW u \in Threads, u # t
        PROVE  at'[u] = at[u] /\ queue'[u] = queue[u] /\ token'[u] = token[u]
    BY Zenon, <1>1, <1>2, <1>3, <1>4, <2>2
  <2>. QED  BY <1>3, <2>1, <2>2 DEF ReceiversKnown, InRecv
<1>11. recvWaiters[mb] = 0
  BY ZenonT(30), <1>3, <1>5 DEF WakeUpsDue
<1>12. recvWaiters' = [recvWaiters EXCEPT ![mb] = 1]
  BY <1>1, <1>11
<1>13. RingsOK'
  BY Zenon, <1>1, <1>3, <1>12 DEF RingsOK
<1>14. recvWaiters'[mb] = 1 /\ \A r \in Mailboxes : r # mb => recvWaiters'[r] = recvWaiters[r]
  BY Zenon, <1>3, <1>12
<1>15. WakeUpsDue'
  <2> SUFFICES ASSUME NEW r \in Mailboxes
               PROVE  /\ recvWaiters'[r] = 1 <=> Blocked(r)' # {} /\ ~Sending(r)'
                      /\ Sending(r)' => Blocked(r)' # {}
                      /\ recvWaiters'[r] = 1 => pending'[r] = 0
                      /\ recvWaiters'[r] = 0 => \A u \in Threads : InRecv(u, r)' => pending'[r] > 0
    BY Zenon DEF WakeUpsDue
  <2>1. CASE r = mb
    <3>1. Blocked(mb)' # {} /\ ~Sending(mb)' /\ recvWaiters'[mb] = 1 /\ pending'[mb] = 0
      BY Zenon, <1>1, <1>6, <1>7, <1>14
    <3>2. recvWaiters'[mb] # 0
      BY <3>1
    <3>. QED  BY Zenon, <2>1, <3>1, <3>2
  <2>2. CASE r # mb
    <3>1. Blocked(r)' = Blocked(r) /\ ~Sending(r)' /\ ~Sending(r) /\ recvWaiters'[r] = recvWaiters[r]
      BY ZenonT(30), <1>6, <1>8, <1>14, <2>2
    <3>2. pending'[r] = pending[r] /\ \A u \in Threads : InRecv(u, r)' <=> InRecv(u, r)
      BY ZenonT(30), <1>1, <1>9, <2>2
    <3>. QED  BY Zenon, <1>3, <3>1, <3>2 DEF WakeUpsDue
  <2>. QED  BY Zenon, <2>1, <2>2
<1>16. MailInv'
  BY ZenonT(30), <1>2, <1>10, <1>13, <1>15 DEF MailInv, NoOp
<1>17. UNCHANGED Fifo!vars
  BY Zenon, <1>1 DEF Fifo!vars, Chan
<1>. QED  BY Zenon, <1>2, <1>16, <1>17

(* The receiver goes on after it was woken.                                *)
LEMMA WokenStep ==
  ASSUME OneReceiver, IInv, MailInv, KMailboxRecvWoken
  PROVE  IInv' /\ MailInv' /\ \E mb \in Mailboxes : \E t \in Threads : Fifo!Receive(t, mb)
<1>1. /\ op.pc = "none" /\ ~excpt /\ at[cur].pc = "recv" /\ Take(at[cur].x) /\ at' = [at EXCEPT ![cur] = User]
      /\ UNCHANGED <<threadVars, queueVars, owner, cpuVars, armed, op>> /\ recvWaiters' = recvWaiters
  BY Zenon DEF KMailboxRecvWoken, Resumed
<1>2. IInv'
  BY ZenonT(30), <1>1, ResumedStep DEF Resumed
<1>3. /\ RingsOK /\ ReceiversKnown /\ WakeUpsDue /\ recvWaiters \in [Mailboxes -> {0, 1}]
      /\ at \in [Threads -> Places] /\ pending \in [Mailboxes -> 0..Slots] /\ Slots \in Nat
  BY Zenon, KMailboxAssumption DEF MailInv, RingsOK, IInv, TypeOK
<1>4. cur \in Threads /\ queue[cur] # "mbox"
  BY Zenon, <1>1, RunningWaitsNowhere DEF Static
<1>5. PICK mb \in Mailboxes : mb = at[cur].x
  BY Zenon, <1>1, <1>3, <1>4 DEF ReceiversKnown
<1>6. PICK t \in Threads : t = cur
  BY Zenon, <1>4
<1>7. t \in Receivers[mb] /\ InRecv(t, mb)
  BY Zenon, <1>1, <1>3, <1>5, <1>6 DEF ReceiversKnown, InRecv
<1>8. Blocked(mb) = {}
  BY Zenon, <1>3, <1>4, <1>6, <1>7, NobodyReceives
<1>9. recvWaiters[mb] = 0 /\ pending[mb] > 0
  BY Zenon, <1>3, <1>7, <1>8 DEF WakeUpsDue
<1>10. RingsOK' /\ Fifo!Receive(t, mb) /\ pending' = [pending EXCEPT ![mb] = pending[mb] - 1]
  BY <1>1, <1>3, <1>5, <1>6, <1>9, TakeStep
<1>11. \A r : ~Sending(r) /\ ~Sending(r)'
  BY Zenon, <1>1 DEF Sending
<1>12. \A r : Blocked(r)' = Blocked(r)
  BY Zenon, <1>1 DEF queueVars, Blocked
<1>13. at'[t] = User /\ \A u \in Threads : u # t => at'[u] = at[u]
  BY Zenon, <1>1, <1>3, <1>6
<1>14. \A u \in Threads, r \in Mailboxes : InRecv(u, r)' <=> InRecv(u, r) /\ u # t
  BY <1>13 DEF InRecv, User
<1>15. \A u \in Threads : ~InRecv(u, mb)'
  BY Zenon, <1>3, <1>7, <1>14, BlockedFacts
<1>16. ReceiversKnown'
  <2>1. queue' = queue /\ token' = token /\ queue[t] # "mbox"
    BY Zenon, <1>1, <1>4, <1>6 DEF queueVars
  <2>. QED  BY <1>3, <1>13, <2>1 DEF ReceiversKnown, InRecv, User
<1>17. \A r \in Mailboxes : r # mb => pending'[r] = pending[r]
  BY Zenon, <1>3, <1>10
<1>18. WakeUpsDue'
  BY Zenon, <1>1, <1>3, <1>8, <1>9, <1>11, <1>12, <1>14, <1>15, <1>17 DEF WakeUpsDue
<1>19. MailInv'
  BY Zenon, <1>1, <1>10, <1>16, <1>18 DEF MailInv
<1>. QED  BY Zenon, <1>2, <1>10, <1>19

(* Every step of the program keeps both invariants and is a step of the    *)
(* channel, or changes nothing it shows.                                   *)
LEMMA MailStep ==
  ASSUME OneReceiver, IInv, MailInv, [MailNext]_mailVars
  PROVE  IInv' /\ MailInv' /\ (Fifo!Next \/ UNCHANGED Fifo!vars)
<1>1. CASE Next /\ UNCHANGED boxVars
  <2>1. IInv' /\ MailInv'
    BY Zenon, <1>1, NextInv, KernelMailInv
  <2>2. UNCHANGED Fifo!vars
    BY Zenon, <1>1 DEF Fifo!vars, Chan, boxVars
  <2>. QED  BY ZenonT(30), <2>1, <2>2
<1>2. CASE KMailboxRecvWoken
  BY Zenon, <1>2, WokenStep DEF Fifo!Next
<1>3. ASSUME NEW mb \in Mailboxes, MailCall(mb)
      PROVE  IInv' /\ MailInv' /\ (Fifo!Next \/ UNCHANGED Fifo!vars)
  <2>1. ASSUME NEW msg \in Messages, KMailboxTrySend(mb, msg)
        PROVE  IInv' /\ MailInv' /\ Fifo!Next
    BY Zenon, <2>1, SendStep DEF Fifo!Next
  <2>2. CASE InThread /\ cur \in Receivers[mb] /\ (KMailboxTryRecv(mb) \/ (KMailboxRecv(mb) /\ pending[mb] # 0))
    <3>1. pending[mb] # 0 /\ Take(mb) /\ UNCHANGED <<vars, recvWaiters>>
      BY Zenon, <2>2 DEF KMailboxTryRecv, KMailboxRecv
    <3>. QED  BY Zenon, <2>2, <3>1, FoundStep DEF Fifo!Next
  <2>3. CASE cur \in Receivers[mb] /\ KMailboxRecv(mb) /\ pending[mb] = 0
    BY Zenon, <2>3, WaitStep
  <2>. QED  BY Zenon, <1>3, <2>1, <2>2, <2>3 DEF MailCall
<1>4. CASE UNCHANGED mailVars
  <2>1. /\ UNCHANGED vars /\ op' = op /\ UNCHANGED <<queueVars, at>>
        /\ slots' = slots /\ curSlot' = curSlot /\ pending' = pending /\ recvWaiters' = recvWaiters /\ got' = got
    BY Zenon, <1>4 DEF mailVars, boxVars, vars
  <2>2. IInv'
    BY Zenon, <2>1, StutterInv
  <2>3. /\ \A r : Blocked(r)' = Blocked(r)
        /\ \A t, r : InRecv(t, r)' <=> InRecv(t, r)
        /\ ReceiversKnown'
    BY ZenonT(30), <2>1, QueuesKept DEF MailInv
  <2>4. RingsOK' /\ \A r : Sending(r)' <=> Sending(r)
    BY Zenon, <2>1 DEF MailInv, RingsOK, Sending
  <2>5. WakeUpsDue'
    BY Zenon, <2>1, <2>3, <2>4 DEF MailInv, WakeUpsDue
  <2>6. MailInv'
    BY Zenon, <2>1, <2>3, <2>4, <2>5 DEF MailInv
  <2>7. UNCHANGED Fifo!vars
    BY Zenon, <2>1 DEF Fifo!vars, Chan
  <2>. QED  BY Zenon, <2>2, <2>6, <2>7
<1>. QED  BY Zenon, <1>1, <1>2, <1>3, <1>4 DEF MailNext

(* KMailboxPrepare.                                                        *)
LEMMA MailInitInv ==
  ASSUME MailInit
  PROVE  IInv /\ MailInv /\ Fifo!Init
<1>1. /\ IInv /\ op = NoOp /\ queue = [t \in Threads |-> NULL] /\ at = [t \in Threads |-> User]
      /\ slots \in [Mailboxes -> [0..(Slots - 1) -> Messages]]
      /\ curSlot = [mb \in Mailboxes |-> 0] /\ pending = [mb \in Mailboxes |-> 0]
      /\ recvWaiters = [mb \in Mailboxes |-> 0] /\ got = [t \in Threads |-> NULL]
  BY Zenon, InitInv DEF MailInit, KMailboxPrepare, Init, KThreadInit
<1>2. Slots \in Nat /\ 0 \in 0..(Slots - 1) /\ 0 \in 0..Slots
  BY KMailboxAssumption
<1>3. RingsOK
  BY ZenonT(30), <1>1, <1>2 DEF RingsOK
<1>4. \A mb : Blocked(mb) = {} /\ ~Sending(mb)
  BY Zenon, <1>1, ConstantFacts DEF Blocked, Sending, Static, NoOp
<1>5. \A t \in Threads : at[t].pc # "recv" /\ queue[t] # "mbox"
  BY ZenonT(30), <1>1, ConstantFacts DEF User, Static
<1>6. ReceiversKnown /\ WakeUpsDue
  BY <1>1, <1>4, <1>5 DEF ReceiversKnown, WakeUpsDue, InRecv
<1>7. MailInv
  BY ZenonT(30), <1>1, <1>3, <1>6 DEF MailInv, NoOp
<1>8. \A ring : \A first : Contents(ring, first, 0) = <<>>
  BY DEF Contents
<1>9. Fifo!Init
  <2>1. \A mb \in Mailboxes : Contents(slots[mb], curSlot[mb], pending[mb]) = <<>>
    BY Zenon, <1>1, <1>8
  <2> HIDE DEF Contents
  <2>. QED  BY Zenon, <1>1, <2>1 DEF Fifo!Init, Chan
<1>. QED  BY Zenon, <1>1, <1>7, <1>9

---------------------------------------------------------------------------
(* With one receiver for each mailbox, where that receiver is and what the *)
(* mailbox counts always fit together, and the invariant of the kernel     *)
(* survives programs that use mailboxes.                                   *)
THEOREM MailboxInvariant == ASSUME OneReceiver PROVE MailSpec => [](IInv /\ MailInv)
<1>1. MailInit => IInv /\ MailInv
  BY Zenon, MailInitInv
<1>2. IInv /\ MailInv /\ [MailNext]_mailVars => (IInv /\ MailInv)'
  BY Zenon, MailStep
<1>. QED  BY <1>1, <1>2, PTL DEF MailSpec

(* recv_waiters counts the blocked receivers exactly, nobody is blocked    *)
(* while a message is pending, and a woken receiver finds the message that *)
(* KMailboxRecv takes unchecked: no wake-up is lost or given twice.        *)
THEOREM NoWakeUpIsLost ==
  ASSUME OneReceiver
  PROVE  MailSpec => [](WaitersCounted /\ NoneBlockedOnPending /\ WokenFindsMessage)
<1>1. ASSUME IInv, MailInv
      PROVE  WaitersCounted /\ NoneBlockedOnPending /\ WokenFindsMessage
  <2>1. /\ ReceiversKnown /\ WakeUpsDue /\ recvWaiters \in [Mailboxes -> {0, 1}]
        /\ pending \in [Mailboxes -> 0..Slots] /\ Slots \in Nat /\ StatesMatchQueues
    BY Zenon, <1>1, KMailboxAssumption DEF MailInv, RingsOK, IInv
  <2>2. ASSUME op.pc = "none", NEW mb \in Mailboxes
        PROVE  recvWaiters[mb] = Cardinality(Blocked(mb)) /\ (pending[mb] > 0 => Blocked(mb) = {})
    <3>1. recvWaiters[mb] = 1 <=> Blocked(mb) # {}
      BY Zenon, <2>1, <2>2, NoneSending DEF WakeUpsDue
    <3>2. CASE Blocked(mb) = {}
      BY Zenon, <2>1, <3>1, <3>2, FS_EmptySet
    <3>3. CASE Blocked(mb) # {}
      <4>1. PICK t \in Blocked(mb) : TRUE
        BY Zenon, <3>3
      <4>2. Blocked(mb) = {t}
        BY <2>1, <4>1, BlockedFacts
      <4>3. Cardinality(Blocked(mb)) = 1
        BY Zenon, <4>2, FS_Singleton
      <4>4. pending[mb] = 0
        BY Zenon, <2>1, <3>1, <3>3 DEF WakeUpsDue
      <4>. QED  BY <3>1, <3>3, <4>3, <4>4
    <3>. QED  BY ZenonT(30), <3>2, <3>3
  <2>3. ASSUME NEW t \in Threads, at[t].pc = "recv", queue[t] = NULL \/ state[t] = "RUNNING"
        PROVE  pending[at[t].x] > 0
    <3>1. PICK mb : mb = at[t].x
      BY Zenon
    <3>2. mb \in Mailboxes /\ InRecv(t, mb)
      BY Zenon, <2>1, <2>3, <3>1 DEF ReceiversKnown, InRecv
    <3>3. queue[t] # "mbox"
      BY Zenon, <2>1, <2>3, ConstantFacts DEF StatesMatchQueues, Static
    <3>4. t \notin Blocked(mb) /\ Blocked(mb) = {}
      BY Zenon, <2>1, <3>2, <3>3, BlockedFacts DEF Blocked
    <3>5. recvWaiters[mb] = 0
      BY Zenon, <2>1, <3>2, <3>4 DEF WakeUpsDue
    <3>. QED  BY Zenon, <2>1, <3>1, <3>2, <3>5 DEF WakeUpsDue
  <2>. QED  BY ZenonT(30), <2>2, <2>3 DEF WaitersCounted, NoneBlockedOnPending, WokenFindsMessage
<1>. QED  BY <1>1, MailboxInvariant, PTL

(* A mailbox with one receiver is a bounded first-in first-out channel:    *)
(* messages arrive once, whole and in the order KMailboxTrySend took them, *)
(* for any number of threads, mailboxes and slots below the wrap of        *)
(* pending_slots.                                                          *)
THEOREM MailboxesAreChannels == ASSUME OneReceiver PROVE MailSpec => IsChannel
<1>1. MailInit => Fifo!Init
  BY Zenon, MailInitInv
<1>2. IInv /\ MailInv /\ [MailNext]_mailVars => [Fifo!Next]_(Fifo!vars)
  BY Zenon, MailStep
<1>. QED  BY <1>1, <1>2, MailboxInvariant, PTL DEF MailSpec, IsChannel, Fifo!Spec
=============================================================================
