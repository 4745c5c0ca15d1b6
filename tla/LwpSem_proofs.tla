--------------------------- MODULE LwpSem_proofs ----------------------------
(***************************************************************************)
(* Semaphores on the kernel: the counter matches the waiting threads, and  *)
(* lwpc_sem.c implements a counting semaphore, whatever the rest of the    *)
(* program does with the kernel.                                           *)
(***************************************************************************)
EXTENDS LwpSem, KSync_proofs, FiniteSetTheorems

(* The threads that wait for a semaphore are linked into a finite queue.   *)
LEMMA WaitingFinite ==
  ASSUME IInv, NEW s
  PROVE  IsFiniteSet(WaitingFor(s)) /\ Cardinality(WaitingFor(s)) \in Nat
<1> DEFINE r == links["sem"]
<1>1. "sem" \in Queues /\ r \in Seq(Threads) /\ \A t \in Threads : queue[t] = "sem" => t \in Linked(r)
  BY NoOpType DEF IInv, TypeOK, QueueIntegrity, Static
<1>2. r \in Seq(Linked(r)) /\ \A t \in Linked(r) : \E n \in 1..Len(r) : r[n] = t
  BY <1>1 DEF Linked
<1>3. IsFiniteSet(Linked(r))
  BY Zenon, <1>2 DEF IsFiniteSet
<1>4. WaitingFor(s) \in SUBSET Linked(r)
  BY Zenon, <1>1 DEF WaitingFor
<1>. QED  BY SMTT(30), <1>3, <1>4, FS_Subset, FS_CardinalityType

(* A step that leaves the queue alone leaves every set of waiters alone.   *)
LEMMA WaitersLeft ==
  ASSUME LeftAlone("sem")
  PROVE  (\A s : WaitingFor(s)' = WaitingFor(s)) /\ (\A s : ~Waking(s)')
BY Zenon DEF LeftAlone, WaitingFor, Waking

(* LWP_SemWait that blocks keeps the invariant of the kernel.              *)
LEMMA SemBlockStep ==
  ASSUME IInv, NEW s \in Sems, InThread, KThrQueueBlock("sem", s),
         at' = [at EXCEPT ![cur] = [pc |-> "sem", m |-> NULL, x |-> s]],
         UNCHANGED <<list, suspend, baseprio, owner, armed>>
  PROVE  /\ IInv' /\ cur \in Threads /\ queue[cur] # "sem" /\ op' = NoOp
         /\ queue' = [queue EXCEPT ![cur] = "sem"] /\ token' = [token EXCEPT ![cur] = s]
<1>a. TypeOK /\ CpuShape /\ JoinShape /\ TimerShape
  BY Zenon DEF IInv
<1> DEFINE w == [pc |-> "sem", m |-> NULL, x |-> s]
<1>1. /\ state' = [state EXCEPT ![cur] = "WAITING"]
      /\ token' = [token EXCEPT ![cur] = s]
      /\ queue' = [queue EXCEPT ![cur] = "sem"]
      /\ state \in [Threads -> States] /\ at \in [Threads -> Places]
      /\ queue \in [Threads -> Queues \cup {NULL}] /\ token \in [Threads -> Tokens]
      /\ armed \subseteq Threads /\ cur \in Threads
      /\ at[cur].pc = "user" /\ op.pc = "none" /\ ~excpt /\ state[cur] = "RUNNING"
  BY Zenon, <1>a DEF KThrQueueBlock, TypeOK, InThread, CpuShape, Bumping
<1>2. "sem" \in Static /\ s \in Tokens /\ w \in Places /\ w.pc = "sem"
  BY Zenon, LwpSemAssumption, NoOpType DEF Places, Static
<1>3. at' = [at EXCEPT ![cur] = w]
  BY Zenon
<1> HIDE DEF w
<1>4. JoinShape'
  BY <1>a, <1>1, <1>2, <1>3 DEF JoinShape
<1>5. TimerShape'
  BY <1>a, <1>1, <1>2, <1>3 DEF TimerShape
<1>6. IInv'
  BY Zenon, <1>1, <1>2, <1>3, <1>4, <1>5, BlockStep
<1>7. queue[cur] # "sem"
  BY Zenon, <1>1, <1>2, RunningWaitsNowhere
<1>8. op' = NoOp
  BY Zenon, SwitchEnds DEF KThrQueueBlock
<1>. QED  BY ZenonT(30), <1>1, <1>6, <1>7, <1>8

(* No semaphore's queue changes, and no post is under way afterwards; one  *)
(* that was has taken its waiter off already.                              *)
QueueKept ==
  /\ \A s : WaitingFor(s)' = WaitingFor(s) /\ ~Waking(s)'
  /\ ~(op'.pc = "unblock" /\ op'.q = "sem")
  /\ \A s : Waking(s) => op.max = 0

(* The post under way takes a thread off the queue.                        *)
PostTakes(s, t) ==
  /\ t \in WaitingFor(s) /\ WaitingFor(s)' = WaitingFor(s) \ {t}
  /\ \A r : r # s => WaitingFor(r)' = WaitingFor(r)
  /\ Waking(s) /\ op.max = 1 /\ op'.pc = "unblock" /\ op'.q = "sem" /\ op'.ref = s /\ op'.max = 0

(* What a step of the kernel can do to the semaphores.                     *)
LEMMA KernelEffect ==
  ASSUME IInv, SemInv, Next
  PROVE  QueueKept \/ \E s \in used : \E t \in Threads : PostTakes(s, t)
<1>1. CASE ~(op.pc = "unblock" /\ op.q = "sem")
  <2>1. LeftAlone("sem")
    BY Zenon, <1>1, NextLeaves
  <2>2. ~(op'.pc = "unblock" /\ op'.q = "sem")
    BY Zenon, <2>1 DEF LeftAlone
  <2>. QED  BY ZenonT(30), <1>1, <2>1, <2>2, WaitersLeft DEF QueueKept, Waking
<1>2. CASE op.pc = "unblock" /\ op.q = "sem"
  <2>0. PICK s : s = op.ref
    BY Zenon
  <2>1. s \in used /\ op.max \in {0, 1} /\ Waking(s) /\ \A r : Waking(r) => r = s
    BY Zenon, <1>2, <2>0 DEF SemInv, Waking
  <2>2. Cardinality(WaitingFor(s)) = (IF count[s] < 0 THEN -count[s] ELSE 0) + op.max /\ count[s] \in Int
    BY Zenon, <2>1 DEF SemInv
  <2>3. queue \in [Threads -> Queues \cup {NULL}] /\ token \in [Threads -> Tokens] /\ NULL # "sem"
    BY ZenonT(30), ConstantFacts DEF IInv, TypeOK, Static
  <2>4. KThrQueueUnblockCommon
    BY Zenon, <1>2, OnlyUnblock
  <2>5. CASE /\ op.max # 0 /\ op'.pc = "unblock" /\ op'.q = op.q /\ op'.ref = op.ref
             /\ op'.max = IF op.max > 0 THEN op.max - 1 ELSE op.max
             /\ \E t \in Threads :
                  /\ queue[t] = op.q /\ token[t] = op.ref
                  /\ queue' = [queue EXCEPT ![t] = NULL] /\ token' = [token EXCEPT ![t] = Woken]
    <3>1. PICK t \in Threads : /\ queue[t] = op.q /\ token[t] = op.ref
                               /\ queue' = [queue EXCEPT ![t] = NULL] /\ token' = [token EXCEPT ![t] = Woken]
      BY Zenon, <2>5
    <3>2. op.max = 1 /\ op'.max = 0
      BY <2>1, <2>5
    <3>3. t \in WaitingFor(s) /\ WaitingFor(s)' = WaitingFor(s) \ {t}
      BY Zenon, <1>2, <2>0, <2>3, <3>1 DEF WaitingFor
    <3>4. \A r : r # s => WaitingFor(r)' = WaitingFor(r)
      BY Zenon, <1>2, <2>0, <2>3, <3>1 DEF WaitingFor
    <3>5. op'.pc = "unblock" /\ op'.q = "sem" /\ op'.ref = s
      BY Zenon, <1>2, <2>0, <2>5
    <3>. QED  BY Zenon, <2>1, <3>2, <3>3, <3>4, <3>5 DEF PostTakes
  <2>6. CASE /\ op.max = 0 \/ \A t \in Threads : ~(queue[t] = op.q /\ token[t] = op.ref)
             /\ UNCHANGED <<queue, token>> /\ op' = NoOp
    <3>1. op.max = 0
      <4>1. CASE \A t \in Threads : ~(queue[t] = op.q /\ token[t] = op.ref)
        <5>1. WaitingFor(s) = {}
          BY Zenon, <4>1, <1>2, <2>0 DEF WaitingFor
        <5>2. Cardinality(WaitingFor(s)) = 0
          BY Zenon, <5>1, FS_EmptySet
        <5>. QED  BY <2>1, <2>2, <5>2
      <4>. QED  BY Zenon, <2>6, <4>1
    <3>2. \A r : WaitingFor(r)' = WaitingFor(r)
      BY Zenon, <2>6 DEF WaitingFor
    <3>3. ~(op'.pc = "unblock" /\ op'.q = "sem")
      BY Zenon, <2>6 DEF NoOp
    <3>4. \A r : ~Waking(r)'
      BY Zenon, <3>3 DEF Waking
    <3>. QED  BY Zenon, <3>1, <3>2, <3>3, <3>4 DEF QueueKept
  <2>. QED  BY Zenon, <2>4, <2>5, <2>6, UnblockTurn
<1>. QED  BY Zenon, <1>1, <1>2

(* The counters after a step that changes no semaphore.                    *)
LEMMA KeptInv ==
  ASSUME SemInv, QueueKept, UNCHANGED semVars
  PROVE  SemInv'
<1>1. used' = used /\ count' = count
  BY Zenon DEF semVars
<1>2. used \subseteq Sems /\ count \in [Sems -> Int] /\ \A s \in Sems \ used : WaitingFor(s)' = {}
  BY Zenon DEF SemInv, QueueKept
<1>3. ASSUME NEW s \in used
      PROVE  Cardinality(WaitingFor(s)') = IF count[s] < 0 THEN -count[s] ELSE 0
  BY <1>2, <1>3 DEF SemInv, QueueKept
<1>4. \A s \in used : ~Waking(s)' /\ ~(op'.pc = "unblock" /\ op'.q = "sem")
  BY Zenon DEF QueueKept
<1>5. ~(op'.pc = "unblock" /\ op'.q = "sem")
  BY Zenon DEF QueueKept
<1>6. \A s \in used : (IF count[s] < 0 THEN -count[s] ELSE 0) + 0 = IF count[s] < 0 THEN -count[s] ELSE 0
  BY <1>2
<1>. QED  BY Zenon, <1>1, <1>2, <1>3, <1>4, <1>5, <1>6 DEF SemInv

(* The counters after the post has taken its waiter off.                   *)
LEMMA TakesInv ==
  ASSUME IInv, SemInv, NEW s \in used, NEW t, PostTakes(s, t), UNCHANGED semVars
  PROVE  SemInv'
<1>1. used' = used /\ count' = count
  BY Zenon DEF semVars
<1>2. used \subseteq Sems /\ count \in [Sems -> Int] /\ \A r \in Sems \ used : WaitingFor(r)' = {}
  BY Zenon DEF SemInv, PostTakes
<1>3. \A r : (Waking(r) <=> r = s) /\ (Waking(r)' <=> r = s)
  BY Zenon DEF PostTakes, Waking
<1>4. Cardinality(WaitingFor(s)') = Cardinality(WaitingFor(s)) - 1
  BY Zenon, WaitingFinite, FS_RemoveElement DEF PostTakes
<1>5. Cardinality(WaitingFor(s)) = (IF count[s] < 0 THEN -count[s] ELSE 0) + 1
  BY Zenon, <1>3 DEF SemInv, PostTakes
<1>6. Cardinality(WaitingFor(s)') = (IF count[s] < 0 THEN -count[s] ELSE 0) + 0
  BY <1>2, <1>4, <1>5
<1>7. \A r \in used \ {s} : Cardinality(WaitingFor(r)') = (IF count[r] < 0 THEN -count[r] ELSE 0) + 0
  BY Zenon, <1>2, <1>3 DEF SemInv, PostTakes
<1>8. op'.max = 0 /\ op'.ref = s
  BY Zenon DEF PostTakes
<1>. QED  BY Zenon, <1>1, <1>2, <1>3, <1>6, <1>7, <1>8 DEF SemInv

(* Outside the kernel, the counter is the whole story.                     *)
LEMMA CountOfCaller ==
  ASSUME IInv, SemInv, op.pc = "none"
  PROVE  /\ used \subseteq Sems /\ count \in [Sems -> Int]
         /\ \A s \in Sems \ used : WaitingFor(s) = {}
         /\ \A s \in used : /\ Cardinality(WaitingFor(s)) = IF count[s] < 0 THEN -count[s] ELSE 0
                            /\ WaitingFor(s) = {} <=> count[s] >= 0
<1>1. used \subseteq Sems /\ count \in [Sems -> Int] /\ \A s \in Sems \ used : WaitingFor(s) = {}
  BY Zenon DEF SemInv
<1>2. ASSUME NEW s \in used
      PROVE  Cardinality(WaitingFor(s)) = IF count[s] < 0 THEN -count[s] ELSE 0
  <2>1. ~Waking(s)
    BY Zenon DEF Waking
  <2>. QED  BY <1>1, <1>2, <2>1 DEF SemInv
<1>3. ASSUME NEW s \in used
      PROVE  WaitingFor(s) = {} <=> count[s] >= 0
  <2>1. WaitingFor(s) = {} <=> Cardinality(WaitingFor(s)) = 0
    BY Zenon, WaitingFinite, FS_EmptySet
  <2>. QED  BY <1>1, <1>2, <2>1
<1>. QED  BY Zenon, <1>1, <1>2, <1>3

(* Calls that change nothing in the kernel.                                *)
LEMMA TableOnly ==
  ASSUME UNCHANGED vars
  PROVE  (\A s : WaitingFor(s)' = WaitingFor(s)) /\ op' = op
BY Zenon DEF vars, threadVars, queueVars, WaitingFor

(* LWP_SemInit and LWP_SemDestroy.                                         *)
LEMMA TableStep ==
  ASSUME IInv, SemInv, NEW s \in Sems,
         \/ \E start \in 0..MaxCount : LWP_SemInit(s, start)
         \/ WaitingFor(s) = {} /\ LWP_SemDestroy(s)
  PROVE  /\ IInv' /\ SemInv'
         /\ (\E start \in 0..MaxCount : Abstract!Create(s, start)) \/ Abstract!Destroy(s)
<1>1. op.pc = "none" /\ UNCHANGED vars
  BY Zenon DEF LWP_SemInit, LWP_SemDestroy, Calling, InThread
<1>2. IInv'
  BY Zenon, <1>1, StutterInv
<1>3. (\A r : WaitingFor(r)' = WaitingFor(r)) /\ op'.pc = "none" /\ \A r : ~Waking(r)'
  BY Zenon, <1>1, TableOnly DEF Waking
<1>4. /\ used \subseteq Sems /\ count \in [Sems -> Int]
      /\ \A r \in Sems \ used : WaitingFor(r) = {}
      /\ \A r \in used : Cardinality(WaitingFor(r)) = IF count[r] < 0 THEN -count[r] ELSE 0
  BY Zenon, <1>1, CountOfCaller
<1>5. CASE \E start \in 0..MaxCount : LWP_SemInit(s, start)
  <2>1. PICK start \in 0..MaxCount : LWP_SemInit(s, start)
    BY Zenon, <1>5
  <2>2. s \notin used /\ used' = used \cup {s} /\ count' = [count EXCEPT ![s] = start] /\ start \in Nat
    BY <2>1, LwpSemAssumption DEF LWP_SemInit
  <2>3. Cardinality(WaitingFor(s)) = 0
    BY Zenon, <1>4, <2>2, FS_EmptySet
  <2>4. ASSUME NEW r \in used'
        PROVE  Cardinality(WaitingFor(r)') = (IF count'[r] < 0 THEN -count'[r] ELSE 0) + 0
    BY <1>3, <1>4, <2>2, <2>3
  <2>5. used' \subseteq Sems /\ count' \in [Sems -> Int] /\ \A r \in Sems \ used' : WaitingFor(r)' = {}
    BY <1>3, <1>4, <2>2
  <2>6. SemInv'
    BY Zenon, <1>3, <2>4, <2>5 DEF SemInv
  <2>7. Abstract!Create(s, start)
    <3>1. \A r \in Sems : (IF count'[r] > 0 THEN count'[r] ELSE 0)
                         = IF r = s THEN start ELSE IF count[r] > 0 THEN count[r] ELSE 0
      BY <1>4, <2>2
    <3>2. [r \in Sems |-> IF count'[r] > 0 THEN count'[r] ELSE 0]
          = [[r \in Sems |-> IF count[r] > 0 THEN count[r] ELSE 0] EXCEPT ![s] = start]
      BY Zenon, <3>1
    <3>3. [r \in Sems |-> WaitingFor(r)'] = [r \in Sems |-> WaitingFor(r)]
      BY Zenon, <1>3
    <3>. QED  BY ZenonT(30), <2>2, <3>2, <3>3 DEF Abstract!Create
  <2>. QED  BY Zenon, <1>2, <2>6, <2>7
<1>6. CASE WaitingFor(s) = {} /\ LWP_SemDestroy(s)
  <2>1. s \in used /\ used' = used \ {s} /\ count' = count
    BY Zenon, <1>6 DEF LWP_SemDestroy
  <2>2. ASSUME NEW r \in used'
        PROVE  Cardinality(WaitingFor(r)') = (IF count'[r] < 0 THEN -count'[r] ELSE 0) + 0
    BY <1>3, <1>4, <2>1
  <2>3. used' \subseteq Sems /\ count' \in [Sems -> Int] /\ \A r \in Sems \ used' : WaitingFor(r)' = {}
    BY Zenon, <1>3, <1>4, <1>6, <2>1
  <2>4. SemInv'
    BY ZenonT(30), <1>3, <2>2, <2>3 DEF SemInv
  <2>5. Abstract!Destroy(s)
    BY Zenon, <1>3, <2>1 DEF Abstract!Destroy
  <2>. QED  BY Zenon, <1>2, <2>4, <2>5
<1>. QED  BY Zenon, <1>5, <1>6

(* LWP_SemWait.                                                            *)
LEMMA WaitStep ==
  ASSUME IInv, SemInv, NEW s \in Sems, LWP_SemWait(s)
  PROVE  IInv' /\ SemInv' /\ \E t \in Threads : Abstract!Wait(s, t)
<1>1. /\ op.pc = "none" /\ InThread /\ s \in used /\ used' = used /\ count' = [count EXCEPT ![s] = @ - 1]
      /\ IF MustWait(s)
         THEN /\ at' = [at EXCEPT ![cur] = [pc |-> "sem", m |-> NULL, x |-> s]]
              /\ KThrQueueBlock("sem", s)
              /\ UNCHANGED <<list, suspend, baseprio, owner, armed>>
         ELSE UNCHANGED vars
  BY Zenon DEF LWP_SemWait, InThread
<1>2. /\ used \subseteq Sems /\ count \in [Sems -> Int]
      /\ \A r \in Sems \ used : WaitingFor(r) = {}
      /\ \A r \in used : Cardinality(WaitingFor(r)) = IF count[r] < 0 THEN -count[r] ELSE 0
  BY Zenon, <1>1, CountOfCaller
<1>3. CASE MustWait(s)
  <2>1. /\ IInv' /\ cur \in Threads /\ queue[cur] # "sem" /\ op' = NoOp
        /\ queue' = [queue EXCEPT ![cur] = "sem"] /\ token' = [token EXCEPT ![cur] = s]
    BY SMTT(30), <1>1, <1>3, SemBlockStep
  <2>2. queue \in [Threads -> Queues \cup {NULL}] /\ token \in [Threads -> Tokens]
    BY Zenon DEF IInv, TypeOK
  <2>3. PICK t \in Threads : t = cur
    BY Zenon, <2>1
  <2>4. t \notin WaitingFor(s) /\ WaitingFor(s)' = WaitingFor(s) \cup {t}
    BY Zenon, <2>1, <2>2, <2>3 DEF WaitingFor
  <2>5. \A r : r # s => WaitingFor(r)' = WaitingFor(r)
    BY Zenon, <2>1, <2>2, <2>3 DEF WaitingFor
  <2>6. op'.pc = "none" /\ \A r : ~Waking(r)'
    BY Zenon, <2>1 DEF NoOp, Waking
  <2>7. Cardinality(WaitingFor(s)') = Cardinality(WaitingFor(s)) + 1
    BY ZenonT(30), <2>4, WaitingFinite, FS_AddElement
  <2>8. count[s] <= 0 /\ count[s] \in Int /\ count'[s] = count[s] - 1
    BY <1>1, <1>2, <1>3 DEF MustWait
  <2>9. Cardinality(WaitingFor(s)') = (IF count'[s] < 0 THEN -count'[s] ELSE 0) + 0
    BY SMTT(30), <1>1, <1>2, <2>7, <2>8
  <2>10. \A r \in used \ {s} : Cardinality(WaitingFor(r)') = (IF count'[r] < 0 THEN -count'[r] ELSE 0) + 0
    BY <1>1, <1>2, <2>5
  <2>11. used' \subseteq Sems /\ count' \in [Sems -> Int] /\ \A r \in Sems \ used' : WaitingFor(r)' = {}
    BY <1>1, <1>2, <2>5
  <2>12. SemInv'
    BY Zenon, <1>1, <2>6, <2>9, <2>10, <2>11 DEF SemInv
  <2>13. Abstract!Wait(s, t)
    <3>1. [r \in Sems |-> IF count'[r] > 0 THEN count'[r] ELSE 0] = [r \in Sems |-> IF count[r] > 0 THEN count[r] ELSE 0]
      BY <1>1, <1>2, <2>8
    <3>2. [r \in Sems |-> WaitingFor(r)'] = [[r \in Sems |-> WaitingFor(r)] EXCEPT ![s] = @ \cup {t}]
      BY Zenon, <2>4, <2>5
    <3>. QED  BY SMTT(30), <1>1, <2>8, <3>1, <3>2 DEF Abstract!Wait
  <2>. QED  BY Zenon, <2>1, <2>12, <2>13
<1>4. CASE ~MustWait(s)
  <2>1. UNCHANGED vars
    BY Zenon, <1>1, <1>4
  <2>2. IInv'
    BY Zenon, <2>1, StutterInv
  <2>3. (\A r : WaitingFor(r)' = WaitingFor(r)) /\ op'.pc = "none" /\ \A r : ~Waking(r)'
    BY ZenonT(30), <1>1, <2>1, TableOnly DEF Waking
  <2>4. count[s] > 0 /\ count[s] \in Int /\ count'[s] = count[s] - 1
    BY <1>1, <1>2, <1>4 DEF MustWait
  <2>5. \A r \in used : Cardinality(WaitingFor(r)') = (IF count'[r] < 0 THEN -count'[r] ELSE 0) + 0
    BY SMTT(30), <1>1, <1>2, <2>3, <2>4
  <2>6. used' \subseteq Sems /\ count' \in [Sems -> Int] /\ \A r \in Sems \ used' : WaitingFor(r)' = {}
    BY <1>1, <1>2, <2>3
  <2>7. SemInv'
    BY Zenon, <1>1, <2>3, <2>5, <2>6 DEF SemInv
  <2>8. \A t : Abstract!Wait(s, t)
    <3>1. \A r \in Sems : (IF count'[r] > 0 THEN count'[r] ELSE 0)
                         = IF r = s THEN (IF count[r] > 0 THEN count[r] ELSE 0) - 1
                           ELSE IF count[r] > 0 THEN count[r] ELSE 0
      BY <1>1, <1>2, <2>4
    <3>2. [r \in Sems |-> IF count'[r] > 0 THEN count'[r] ELSE 0]
          = [[r \in Sems |-> IF count[r] > 0 THEN count[r] ELSE 0] EXCEPT ![s] = @ - 1]
      BY Zenon, <3>1
    <3>3. [r \in Sems |-> WaitingFor(r)'] = [r \in Sems |-> WaitingFor(r)]
      BY Zenon, <2>3
    <3>. QED  BY Zenon, <1>1, <2>4, <3>2, <3>3 DEF Abstract!Wait
  <2>. QED  BY Zenon, <2>2, <2>7, <2>8, ConstantFacts
<1>. QED  BY Zenon, <1>3, <1>4

(* LWP_SemPost: the value is raised when nobody waits; otherwise nothing   *)
(* changes yet, the queue is next.                                         *)
LEMMA PostStep ==
  ASSUME IInv, SemInv, NEW s \in Sems, LWP_SemPost(s)
  PROVE  IInv' /\ SemInv' /\ (Abstract!Post(s) \/ UNCHANGED Abstract!vars)
<1>1. /\ op.pc = "none" /\ Calling /\ s \in used /\ used' = used /\ count' = [count EXCEPT ![s] = @ + 1]
      /\ IF MustWake(s) THEN KThrQueueUnblock("sem", s, 1) ELSE UNCHANGED op
      /\ UNCHANGED calls
  BY Zenon DEF LWP_SemPost, Calling, InThread
<1>2. /\ used \subseteq Sems /\ count \in [Sems -> Int]
      /\ \A r \in Sems \ used : WaitingFor(r) = {}
      /\ \A r \in used : /\ Cardinality(WaitingFor(r)) = IF count[r] < 0 THEN -count[r] ELSE 0
                         /\ WaitingFor(r) = {} <=> count[r] >= 0
  BY Zenon, <1>1, CountOfCaller
<1>3. \A r : WaitingFor(r)' = WaitingFor(r)
  BY Zenon, <1>1 DEF calls, threadVars, queueVars, WaitingFor
<1>4. used' \subseteq Sems /\ count' \in [Sems -> Int] /\ \A r \in Sems \ used' : WaitingFor(r)' = {}
  BY <1>1, <1>2, <1>3
<1>5. [r \in Sems |-> WaitingFor(r)'] = [r \in Sems |-> WaitingFor(r)]
  BY Zenon, <1>3
<1>6. CASE MustWake(s)
  <2>1. count[s] < 0 /\ count[s] \in Int /\ count'[s] = count[s] + 1
    BY ZenonT(30), <1>1, <1>2, <1>6 DEF MustWake
  <2>2. op'.pc = "unblock" /\ op'.q = "sem" /\ op'.ref = s /\ op'.max = 1
    BY ZenonT(30), <1>1, <1>6 DEF KThrQueueUnblock, NoOp
  <2>3. IInv'
    <3>1. s \in Tokens
      BY Zenon, LwpSemAssumption, NoOpType
    <3>. QED  BY ZenonT(30), <1>1, <1>6, <3>1, WakeStep DEF calls
  <2>4. \A r : Waking(r)' <=> r = s
    BY Zenon, <2>2 DEF Waking
  <2>5. Cardinality(WaitingFor(s)') = (IF count'[s] < 0 THEN -count'[s] ELSE 0) + 1
    BY SMTT(30), <1>1, <1>2, <1>3, <2>1
  <2>6. \A r \in used \ {s} : Cardinality(WaitingFor(r)') = (IF count'[r] < 0 THEN -count'[r] ELSE 0) + 0
    BY <1>1, <1>2, <1>3
  <2>7. SemInv'
    BY Zenon, <1>1, <1>4, <2>2, <2>4, <2>5, <2>6 DEF SemInv
  <2>8. \A r \in Sems : (IF count'[r] > 0 THEN count'[r] ELSE 0) = IF count[r] > 0 THEN count[r] ELSE 0
    BY <1>1, <1>2, <2>1
  <2>9. UNCHANGED Abstract!vars
    BY ZenonT(30), <1>1, <1>5, <2>8 DEF Abstract!vars
  <2>. QED  BY Zenon, <2>3, <2>7, <2>9
<1>7. CASE ~MustWake(s)
  <2>1. count[s] >= 0 /\ count[s] \in Int /\ count'[s] = count[s] + 1 /\ WaitingFor(s) = {}
    BY <1>1, <1>2, <1>7 DEF MustWake
  <2>2. UNCHANGED vars
    BY ZenonT(30), <1>1, <1>7 DEF calls, vars
  <2>3. IInv'
    BY Zenon, <2>2, StutterInv
  <2>4. op'.pc = "none" /\ \A r : ~Waking(r)'
    BY Zenon, <1>1, <1>7 DEF Waking
  <2>5. \A r \in used : Cardinality(WaitingFor(r)') = (IF count'[r] < 0 THEN -count'[r] ELSE 0) + 0
    BY SMTT(30), <1>1, <1>2, <1>3, <2>1
  <2>6. SemInv'
    BY Zenon, <1>1, <1>4, <2>4, <2>5 DEF SemInv
  <2>7. \A r \in Sems : (IF count'[r] > 0 THEN count'[r] ELSE 0)
                        = IF r = s THEN (IF count[r] > 0 THEN count[r] ELSE 0) + 1
                          ELSE IF count[r] > 0 THEN count[r] ELSE 0
    BY <1>1, <1>2, <2>1
  <2>8. [r \in Sems |-> IF count'[r] > 0 THEN count'[r] ELSE 0]
        = [[r \in Sems |-> IF count[r] > 0 THEN count[r] ELSE 0] EXCEPT ![s] = @ + 1]
    BY Zenon, <2>7
  <2>9. Abstract!Post(s)
    BY Zenon, <1>1, <1>5, <2>1, <2>8 DEF Abstract!Post
  <2>. QED  BY ZenonT(30), <2>3, <2>6, <2>9
<1>. QED  BY Zenon, <1>6, <1>7

(* Every step of the program keeps both invariants and is a step of the    *)
(* counting semaphore, or changes nothing it shows.                        *)
LEMMA SemStep ==
  ASSUME IInv, SemInv, [SemNext]_allVars
  PROVE  IInv' /\ SemInv' /\ (Abstract!Next \/ UNCHANGED Abstract!vars)
<1>1. CASE \E s \in Sems : SemCall(s)
  <2>1. PICK s \in Sems : SemCall(s)
    BY Zenon, <1>1
  <2>2. CASE (\E start \in 0..MaxCount : LWP_SemInit(s, start)) \/ (WaitingFor(s) = {} /\ LWP_SemDestroy(s))
    <3>1. /\ IInv' /\ SemInv'
          /\ (\E start \in 0..MaxCount : Abstract!Create(s, start)) \/ Abstract!Destroy(s)
      BY Zenon, <2>2, TableStep
    <3>. QED  BY Zenon, <3>1 DEF Abstract!Next
  <2>3. CASE LWP_SemWait(s)
    <3>1. IInv' /\ SemInv' /\ \E t \in Threads : Abstract!Wait(s, t)
      BY Zenon, <2>3, WaitStep
    <3>. QED  BY Zenon, <3>1 DEF Abstract!Next
  <2>4. CASE LWP_SemPost(s)
    <3>1. IInv' /\ SemInv' /\ (Abstract!Post(s) \/ UNCHANGED Abstract!vars)
      BY Zenon, <2>4, PostStep
    <3>. QED  BY Zenon, <3>1 DEF Abstract!Next
  <2>. QED  BY ZenonT(30), <2>1, <2>2, <2>3, <2>4 DEF SemCall
<1>2. CASE Next /\ UNCHANGED semVars
  <2>1. IInv'
    BY Zenon, <1>2, NextInv
  <2>2. used' = used /\ count' = count
    BY Zenon, <1>2 DEF semVars
  <2>3. CASE QueueKept
    <3>1. SemInv'
      BY Zenon, <1>2, <2>3, KeptInv
    <3>2. [r \in Sems |-> WaitingFor(r)'] = [r \in Sems |-> WaitingFor(r)]
      BY Zenon, <2>3 DEF QueueKept
    <3>3. UNCHANGED Abstract!vars
      BY Zenon, <2>2, <3>2 DEF Abstract!vars
    <3>. QED  BY ZenonT(30), <2>1, <3>1, <3>3
  <2>4. ASSUME NEW s \in used, NEW t \in Threads, PostTakes(s, t)
        PROVE  SemInv' /\ Abstract!Next
    <3>1. SemInv' /\ s \in Sems
      BY ZenonT(30), <1>2, <2>4, TakesInv DEF SemInv
    <3>2. [r \in Sems |-> WaitingFor(r)'] = [[r \in Sems |-> WaitingFor(r)] EXCEPT ![s] = @ \ {t}]
      BY Zenon, <2>4 DEF PostTakes
    <3>3. t \in WaitingFor(s)
      BY Zenon, <2>4 DEF PostTakes
    <3>4. Abstract!Post(s)
      BY Zenon, <2>2, <2>4, <3>1, <3>2, <3>3 DEF Abstract!Post
    <3>. QED  BY Zenon, <3>1, <3>4 DEF Abstract!Next
  <2>. QED  BY Zenon, <1>2, <2>1, <2>3, <2>4, KernelEffect
<1>3. CASE UNCHANGED allVars
  <2>1. UNCHANGED vars /\ used' = used /\ count' = count
    BY Zenon, <1>3 DEF allVars, semVars
  <2>2. (\A s : WaitingFor(s)' = WaitingFor(s)) /\ op' = op /\ \A s : Waking(s)' <=> Waking(s)
    BY Zenon, <2>1, TableOnly DEF Waking
  <2>3. SemInv'
    BY Zenon, <2>1, <2>2 DEF SemInv
  <2>4. UNCHANGED Abstract!vars
    BY Zenon, <2>1, <2>2 DEF Abstract!vars
  <2>. QED  BY Zenon, <2>1, <2>3, <2>4, StutterInv
<1>. QED  BY ZenonT(30), <1>1, <1>2, <1>3 DEF SemNext

(* The initial tables.                                                     *)
LEMMA SemInitInv ==
  ASSUME SemInit
  PROVE  IInv /\ SemInv /\ Abstract!Init
<1>1. IInv /\ used = {} /\ count = [s \in Sems |-> 0] /\ op = NoOp /\ queue = [t \in Threads |-> NULL]
  BY Zenon, InitInv DEF SemInit, SemTableInit, Init, KThreadInit
<1>2. \A s : WaitingFor(s) = {}
  BY ZenonT(30), <1>1, ConstantFacts DEF WaitingFor, Static
<1>3. SemInv
  BY <1>1, <1>2 DEF SemInv, NoOp
<1>4. Abstract!Init
  BY Zenon, <1>1, <1>2 DEF Abstract!Init
<1>. QED  BY Zenon, <1>1, <1>3, <1>4

---------------------------------------------------------------------------
(* The counters, the queue and the post under way always fit together, and *)
(* the invariant of the kernel survives programs that use semaphores: they *)
(* rest on KThrQueueBlock and KThrQueueUnblockOneByValue only.             *)
THEOREM SemaphoreInvariant == SemSpec => [](IInv /\ SemInv)
<1>1. SemInit => IInv /\ SemInv
  BY Zenon, SemInitInv
<1>2. IInv /\ SemInv /\ [SemNext]_allVars => (IInv /\ SemInv)'
  BY Zenon, SemStep
<1>. QED  BY <1>1, <1>2, PTL DEF SemSpec

(* With no kernel function in progress, the counter of a semaphore is      *)
(* minus the number of waiting threads, or nobody waits: no post is lost   *)
(* or given twice, for any number of threads, semaphores and counts.       *)
THEOREM CountsMatchWaiters == SemSpec => []CountMatchesWaiters
<1>1. IInv /\ SemInv => CountMatchesWaiters
  BY Zenon, CountOfCaller DEF CountMatchesWaiters
<1>. QED  BY <1>1, SemaphoreInvariant, PTL

(* lwpc_sem.c implements a counting semaphore: the turn of the unblock     *)
(* loop that takes the waiter off is the post; every other step of the     *)
(* kernel changes nothing a user of semaphores can see.                    *)
THEOREM SemaphoresAreSemaphores == SemSpec => IsSemaphore
<1>1. SemInit => Abstract!Init
  BY Zenon, SemInitInv
<1>2. IInv /\ SemInv /\ [SemNext]_allVars => [Abstract!Next]_(Abstract!vars)
  BY Zenon, SemStep
<1>. QED  BY <1>1, <1>2, SemaphoreInvariant, PTL DEF SemSpec, IsSemaphore, Abstract!Spec
=============================================================================
