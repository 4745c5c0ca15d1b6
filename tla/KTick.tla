------------------------------- MODULE KTick -------------------------------
(***************************************************************************)
(* The timer queue: src/tuxedo/tick.c, one KTickTask per sleep, timed      *)
(* wait, alarm (lwpc_alarm.c) or time slice.  The tasks are listed by      *)
(* target time and the decrementer is programmed for the first of them.    *)
(* Times are modulo Horizon (2^64 in the code) and compared by the sign of *)
(* their difference.  Every function runs with interrupts masked, so it is *)
(* one action; KTickTaskRun takes one step per task, because the callbacks *)
(* it makes start and stop tasks in between and time goes on.              *)
(***************************************************************************)
EXTENDS Lists

CONSTANTS Tasks,
          Half,       \* half the range of the time base, 2^63 in the code
          MaxDec,     \* INT32_MAX, the longest time the decrementer counts
          Delays,     \* the delays asked for
          Periods,    \* the periods asked for, 0 for a one-shot task
          MaxLag      \* how late KTickTaskRun can be: bounds the time it takes

(* Targets can be compared: they are less than half the range apart.       *)
ASSUME KTickAssumption ==
  /\ Half \in Nat /\ MaxDec \in Nat /\ MaxLag \in 0..(Half - 1)
  /\ Delays \subseteq Nat /\ Periods \subseteq Nat
  /\ \A d \in Delays \cup Periods : d + MaxLag < Half

Horizon == 2 * Half

VARIABLES list,       \* s_firstTask and its successors
          fn,         \* whether a task's fn is set
          target, period,
          now,        \* PPCGetTickCount()
          dec,        \* the decrementer; -1 once it has run out
          due,        \* the decrementer exception is pending
          running     \* inside KTickTaskRun

taskVars == <<list, fn, target, period>>
vars     == <<taskVars, now, dec, due, running>>

(* (s64)(rhs - lhs) > 0                                                    *)
KTickIsSequential(lhs, rhs) == (rhs - lhs) % Horizon \in 1..(Half - 1)

(* In front of the first task that is not strictly earlier.                *)
FrontPosition(s, t, tgt) == 1

KTickTaskGetInsertPosition(s, t, tgt) ==
  LET later == {i \in 1..Len(s) : ~KTickIsSequential(tgt[s[i]], tgt[t])}
  IN  IF later = {} THEN Len(s) + 1 ELSE Least(later)

KTickTaskEnqueue(s, t, tgt) == LinkAt(s, KTickTaskGetInsertPosition(s, t, tgt), t)

DequeueForgotten(s, t) == s

KTickTaskDequeue(s, t) ==
  IF t \in Linked(s) THEN UnlinkAt(s, Least({i \in 1..Len(s) : s[i] = t})) ELSE s

(* The decrementer's value for a task that is diff away.                   *)
Clamped(diff) == IF diff >= Half THEN 0 ELSE IF diff <= MaxDec THEN diff ELSE MaxDec

(* Program the decrementer for the first task of s.                        *)
KTickTaskReschedule(s, tgt) ==
  IF s = <<>> THEN UNCHANGED <<dec, due>>
  ELSE dec' = Clamped((tgt[s[1]] - now) % Horizon) /\ UNCHANGED due

KTickTaskStart(t, delay, per) ==
  LET rest == IF fn[t] THEN KTickTaskDequeue(list, t) ELSE list
  IN
  /\ target' = [target EXCEPT ![t] = (now + delay) % Horizon]
  /\ period' = [period EXCEPT ![t] = per]
  /\ fn' = [fn EXCEPT ![t] = TRUE]
  /\ list' = KTickTaskEnqueue(rest, t, target')
  /\ IF list = <<>> \/ Head(list') # Head(list)
     THEN KTickTaskReschedule(list', target')
     ELSE UNCHANGED <<dec, due>>
  /\ UNCHANGED <<now, running>>

KTickTaskStop(t) ==
  /\ fn[t]
  /\ list' = KTickTaskDequeue(list, t)
  /\ fn' = [fn EXCEPT ![t] = FALSE]
  /\ IF list # <<>> /\ Head(list) = t
     THEN KTickTaskReschedule(list', target)
     ELSE UNCHANGED <<dec, due>>
  /\ UNCHANGED <<target, period, now, running>>

(* A task on a thread's stack: its memory is reused once it is idle, and   *)
(* the next task there starts with an arbitrary fn.                        *)
Reuse(t) ==
  /\ t \notin Linked(list)
  /\ fn' \in {[fn EXCEPT ![t] = b] : b \in BOOLEAN}
  /\ UNCHANGED <<list, target, period, now, dec, due, running>>

Late == list # <<>> /\ ~KTickIsSequential(now, target[Head(list)])

(* The exception is taken and KTickTaskRun begins.                         *)
KTickTaskRun ==
  /\ due /\ ~running
  /\ due' = FALSE /\ running' = TRUE
  /\ UNCHANGED <<taskVars, now, dec>>

SameTarget(t) == target[t]

NextTarget(t) == (target[t] + period[t]) % Horizon

(* One turn of KTickTaskRun; the callback's own calls come right after it. *)
KTickTaskRunOne ==
  LET t == Head(list) IN
  /\ running /\ Late
  /\ IF period[t] # 0
     THEN /\ target' = [target EXCEPT ![t] = NextTarget(t)]
          /\ list' = KTickTaskEnqueue(Tail(list), t, target')
          /\ UNCHANGED fn
     ELSE /\ list' = Tail(list)
          /\ fn' = [fn EXCEPT ![t] = FALSE]
          /\ UNCHANGED target
  /\ UNCHANGED <<period, now, dec, due, running>>

RunEndIdle ==
  /\ running /\ ~Late
  /\ running' = FALSE
  /\ UNCHANGED <<taskVars, now, dec, due>>

KTickTaskRunEnd ==
  /\ running /\ ~Late
  /\ running' = FALSE
  /\ KTickTaskReschedule(list, target)
  /\ UNCHANGED <<taskVars, now>>

(* Time: the decrementer raises its exception when it passes zero.         *)
Tick ==
  /\ \A i \in 1..Len(list) : (now - target[list[i]]) % Horizon # MaxLag
  /\ now' = (now + 1) % Horizon
  /\ dec' = IF dec = -1 THEN -1 ELSE dec - 1
  /\ due' = (due \/ dec = 0)
  /\ UNCHANGED <<taskVars, running>>

(* An idle decrementer comes round again, sooner or later.                 *)
Spurious ==
  /\ dec = -1 /\ ~due
  /\ due' = TRUE
  /\ UNCHANGED <<taskVars, now, dec, running>>

Init ==
  /\ list = <<>>
  /\ fn \in [Tasks -> BOOLEAN]
  /\ target = [t \in Tasks |-> 0] /\ period = [t \in Tasks |-> 0]
  /\ now = 0 /\ dec = -1 /\ due = FALSE /\ running = FALSE

Start(t) == \E d \in Delays, p \in Periods : KTickTaskStart(t, d, p)

Run == KTickTaskRun \/ KTickTaskRunOne \/ KTickTaskRunEnd

Next ==
  \/ \E t \in Tasks : Start(t) \/ KTickTaskStop(t) \/ Reuse(t)
  \/ Run \/ Tick \/ Spurious

Spec == Init /\ [][Next]_vars

(* Outside KTickTaskRun the first task is not restarted for an earlier     *)
(* time than the one the decrementer was set for: KTickTaskStart looks     *)
(* only at whether the first task is another one.                          *)
NotEarlier(t, d) ==
  ~running /\ list # <<>> /\ Head(list) = t => ~KTickIsSequential((now + d) % Horizon, target[t])

CarefulStart(t) == \E d \in Delays, p \in Periods : NotEarlier(t, d) /\ KTickTaskStart(t, d, p)

CarefulNext ==
  \/ \E t \in Tasks : CarefulStart(t) \/ KTickTaskStop(t) \/ Reuse(t)
  \/ Run \/ Tick \/ Spurious

CarefulSpec == Init /\ [][CarefulNext]_vars

---------------------------------------------------------------------------
(* Properties                                                              *)

(* Every variable has its type.                                            *)
TypeOK ==
  /\ list \in Seq(Tasks)
  /\ fn \in [Tasks -> BOOLEAN]
  /\ target \in [Tasks -> 0..(Horizon - 1)]
  /\ period \in [Tasks -> Periods \cup {0}]
  /\ now \in 0..(Horizon - 1)
  /\ dec \in -1..MaxDec
  /\ due \in BOOLEAN /\ running \in BOOLEAN

(* A task is in the list at most once and only while its fn is set, even   *)
(* when it is restarted from a callback or starts with a garbage fn.       *)
LinkedOnce ==
  /\ Distinct(list)
  /\ \A i \in 1..Len(list) : fn[list[i]]

(* The first task is the one to fire next: the list is in target order,    *)
(* also when the time base wraps around.                                   *)
TargetsSorted ==
  \A i, j \in 1..Len(list) : i < j => ~KTickIsSequential(target[list[j]], target[list[i]])

(* The decrementer interrupts no later than the first target, so no task   *)
(* oversleeps: not after a stop, not after a target too far away to        *)
(* program at once, not when the decrementer ran out for a stopped task.   *)
DecrementerCovers ==
  list # <<>> /\ ~running =>
    \/ due
    \/ /\ dec >= 0
       /\ dec <= IF Late THEN 0 ELSE (target[Head(list)] - now) % Horizon
---------------------------------------------------------------------------
(* The strengthening behind TargetsSorted and DecrementerCovers: the       *)
(* targets of the listed tasks lie in a window around the current time     *)
(* that is shorter than half the range.                                    *)

(* How far a task's target is from the far end of the past.                *)
Ahead(t) == (target[t] - now + MaxLag) % Horizon

InWindow == \A i \in 1..Len(list) : Ahead(list[i]) < Half

ByTarget == \A i, j \in 1..Len(list) : i < j => Ahead(list[i]) <= Ahead(list[j])

TickInv == TypeOK /\ LinkedOnce /\ InWindow /\ ByTarget
=============================================================================
