----------------------------- MODULE Semaphore -----------------------------
(***************************************************************************)
(* What a counting semaphore promises: a value that is never negative, and *)
(* threads that wait while it is zero.  A post lets one waiting thread go, *)
(* or raises the value if nobody waits.                                    *)
(***************************************************************************)
EXTENDS Naturals

CONSTANTS Sems, Threads, MaxCount

VARIABLES used, value, blocked
vars == <<used, value, blocked>>

Init ==
  /\ used = {}
  /\ value = [s \in Sems |-> 0]
  /\ blocked = [s \in Sems |-> {}]

Create(s, start) ==
  /\ s \notin used
  /\ used' = used \cup {s}
  /\ value' = [value EXCEPT ![s] = start]
  /\ UNCHANGED blocked

Destroy(s) ==
  /\ s \in used
  /\ used' = used \ {s}
  /\ UNCHANGED <<value, blocked>>

Wait(s, t) ==
  /\ s \in used
  /\ UNCHANGED used
  /\ IF value[s] > 0
     THEN value' = [value EXCEPT ![s] = @ - 1] /\ UNCHANGED blocked
     ELSE blocked' = [blocked EXCEPT ![s] = @ \cup {t}] /\ UNCHANGED value

Post(s) ==
  /\ s \in used
  /\ UNCHANGED used
  /\ IF blocked[s] = {}
     THEN value' = [value EXCEPT ![s] = @ + 1] /\ UNCHANGED blocked
     ELSE /\ \E t \in blocked[s] : blocked' = [blocked EXCEPT ![s] = @ \ {t}]
          /\ UNCHANGED value

Next ==
  \E s \in Sems :
    \/ \E start \in 0..MaxCount : Create(s, start)
    \/ Destroy(s) \/ Post(s)
    \/ \E t \in Threads : Wait(s, t)

Spec == Init /\ [][Next]_vars
============================================================================
