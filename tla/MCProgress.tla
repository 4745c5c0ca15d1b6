----------------------------- MODULE MCProgress -----------------------------
(***************************************************************************)
(* Instances for TLC under fairness: what must eventually happen.  A       *)
(* behaviour is about one of the Parts and only that component moves.      *)
(***************************************************************************)
EXTENDS Naturals, Sequences

CONSTANTS Parts,
          NULL, r1, r2         \* model values

VARIABLES part,
  tasks, fn, target, period, now, dec, due, running,     \* KTick
  arq, req, waits, posts,                                \* ARQ
  c, calls, errors, others, pulls                        \* CardIO

timers   == <<tasks, fn, target, period, now, dec, due, running>>
arqVars  == <<arq, req, waits, posts>>
cardVars == <<c, calls, errors, others, pulls>>
vars     == <<part, timers, arqVars, cardVars>>

Tick == INSTANCE KTick WITH
  Tasks <- {"a", "b"}, Half <- 4, MaxDec <- 1, Delays <- {1, 2}, Periods <- {0, 1},
  MaxLag <- 1, list <- tasks
Arq == INSTANCE ARQ WITH
  Requests <- {r1, r2}, OwnerOf <- [r \in {r1, r2} |-> r],
  Lengths <- {1, 3}, Chunks <- {2}, DefChunk <- 2, MaxPosts <- 3
Card == INSTANCE CardIO WITH
  Sectors <- 2, Segments <- 2, Pages <- 2, Retries <- 2, Word <- 8, MountReads <- 2,
  MaxCalls <- 3, MaxErrors <- 2, MaxOthers <- 1, MaxPulls <- 1

---------------------------------------------------------------------------
(* Tasks are started when they are idle and run their course.  Time goes   *)
(* on and the exception is taken once interrupts are enabled.              *)
Run == Tick!KTickTaskRun \/ Tick!KTickTaskRunOne \/ Tick!KTickTaskRunEnd
TickNext ==
  \/ \E t \in {"a", "b"} : t \notin Tick!Linked(tasks) /\ (Tick!Start(t) \/ Tick!Reuse(t))
  \/ Run \/ Tick!Tick
TickFair == WF_timers(part = "tick" /\ Tick!Tick) /\ WF_timers(part = "tick" /\ Run)

(* The engine finishes every transfer, its interrupt is taken, and a       *)
(* thread that is awake gets to run.                                       *)
ArqNext == Arq!Post \/ Arq!Progress \/ Arq!Configure \/ Arq!GiveUp
ArqFair ==
  /\ WF_arqVars(part = "arq" /\ Arq!TransferDone)
  /\ WF_arqVars(part = "arq" /\ Arq!InterruptServiceRoutine)
  /\ \A r \in {r1, r2} : WF_arqVars(part = "arq" /\ Arq!ReturnOrSleep(r))

(* A thread runs when it can; a transfer, an alarm, a DSP task come to an  *)
(* end, and an interrupt is taken.  A card need not finish a command.      *)
InMountAsync == c.pc \in {"mounting", "reading"} \/ (c.pc = "start" /\ c.op = "mount")
CardRuns ==
  \/ Card!StartOp \/ (\E f \in Card!Found : Card!StartMount(f))
  \/ Card!StartMountEnable \/ Card!StartMountReads \/ Card!Sync
DspDone == \E u \in BOOLEAN : Card!DspDone(u)
CardNext ==
  \/ \E op \in {"read", "write", "status", "mount", "unmount"} : Card!Call(op)
  \/ CardRuns \/ Card!DmaDone \/ Card!Irq \/ Card!Timeout \/ Card!Ext \/ DspDone
  \/ \E x \in c.exec, st \in {"ok", "error"} : Card!ExecDone(x, st)
  \/ (~InMountAsync /\ Card!Pull) \/ (\E v \in Card!Verdicts : Card!Insert(v))
CardFair ==
  /\ WF_cardVars(part = "card" /\ CardRuns)
  /\ WF_cardVars(part = "card" /\ Card!DmaDone) /\ WF_cardVars(part = "card" /\ Card!Irq)
  /\ WF_cardVars(part = "card" /\ Card!Timeout) /\ WF_cardVars(part = "card" /\ Card!Ext)
  /\ WF_cardVars(part = "card" /\ DspDone)

Init ==
  /\ part \in Parts /\ Tick!Init /\ Arq!Init /\ Card!Init
  /\ part # "tick" => \A t \in {"a", "b"} : fn[t] = FALSE
Next ==
  /\ \/ part = "tick" /\ TickNext /\ UNCHANGED <<arqVars, cardVars>>
     \/ part = "arq" /\ ArqNext /\ UNCHANGED <<timers, cardVars>>
     \/ part = "card" /\ CardNext /\ UNCHANGED <<timers, arqVars>>
  /\ UNCHANGED part
Spec == Init /\ [][Next]_vars /\ TickFair /\ ArqFair /\ CardFair

---------------------------------------------------------------------------
(* A one-shot task that is started fires, also behind periodic tasks that  *)
(* put themselves back in the list.                                        *)
OneShotFires ==
  \A t \in {"a", "b"} :
    part = "tick" /\ t \in Tick!Linked(tasks) /\ period[t] = 0 ~> t \notin Tick!Linked(tasks)

(* A thread that waits in ARQ_PostRequest returns, once no more requests   *)
(* are posted that overtake it.                                            *)
TransferReturns == \A r \in {r1, r2} : part = "arq" /\ waits[r] = "check" ~> waits[r] = "no"

(* Every synchronous call of the card driver returns, unless a mounted     *)
(* card goes on executing a command from before it was mounted.            *)
CardReturns == part = "card" /\ c.pc # "idle" ~> c.pc = "idle" \/ c.late
=============================================================================
