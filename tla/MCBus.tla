------------------------------- MODULE MCBus -------------------------------
(***************************************************************************)
(* Instances for TLC of the drivers that share a bus: the queue of ARAM    *)
(* transfers, the expansion interface, the memory card's commands.  A      *)
(* behaviour is about one of the Parts and only that component moves.      *)
(***************************************************************************)
EXTENDS Naturals

CONSTANTS Parts,
          NULL, r1, r2, r3     \* model values

VARIABLES part,
  arq, req, waits, posts,             \* ARQ
  d, th, seen, swaps, resets,         \* EXI
  c, calls, errors, others, pulls     \* CardIO

arqVars  == <<arq, req, waits, posts>>
exiVars  == <<d, th, seen, swaps, resets>>
cardVars == <<c, calls, errors, others, pulls>>
vars     == <<part, arqVars, exiVars, cardVars>>

Arq == INSTANCE ARQ WITH
  Requests <- {r1, r2, r3}, NULL <- NULL,
  OwnerOf <- [r \in {r1, r2, r3} |-> IF r = r3 THEN "o2" ELSE "o1"],
  Lengths <- {1, 3}, Chunks <- {1}, DefChunk <- 2, MaxPosts <- 3
Exi == INSTANCE EXI WITH
  Threads <- {"a", "b", "c"}, Slot <- "slot", Others <- {"bba"}, Cards <- {"x", "y"},
  NULL <- NULL, Pool <- 3, MaxSwaps <- 2, MaxResets <- 1
Card == INSTANCE CardIO WITH
  NULL <- NULL, Sectors <- 2, Segments <- 2, Pages <- 2, Retries <- 2, Word <- 8,
  MountReads <- 2, MaxCalls <- 4, MaxErrors <- 2, MaxOthers <- 1, MaxPulls <- 1

---------------------------------------------------------------------------
(* Two requests without and one with a waiting thread.                     *)
ArqNext ==
  \/ \E r \in {r1, r2}, p \in Arq!Prios, n \in {1, 3} :
       Arq!ARQ_PostRequestAsync(r, p, n) \/ Arq!InterruptThenPost(r, p, n)
  \/ \E p \in Arq!Prios : Arq!ARQ_PostRequest(r3, p, 3)
  \/ Arq!Progress \/ Arq!Configure \/ Arq!GiveUp

(* Clients that lock, select and transfer; the slot changes under them.    *)
LockNext ==
  \/ \E t \in {"a", "b"} : Exi!UsesChannel(t)
  \/ Exi!EXI_LockSync("c", "bba") \/ Exi!LockSyncWoken("c") \/ Exi!Select("c")
  \/ Exi!Deselect("c") \/ Exi!DeselectProbes("c") \/ Exi!Unlock("c") \/ Exi!GetIDOther("c", "bba")
  \/ Exi!Resets("c") \/ \E b \in BOOLEAN : Exi!EXI_RegisterEXICallback(b)
  \/ Exi!Hardware \/ (swaps = 0 /\ Exi!PlugIn("x"))

(* Identification beside a client of another device, while cards are       *)
(* changed, though not within the latency of an interrupt.                 *)
IdNext ==
  \/ Exi!GetsID("a") \/ Exi!Mounts("a") \/ Exi!GetsID("b")
  \/ Exi!EXI_LockSync("b", "bba") \/ Exi!LockSyncWoken("b")
  \/ Exi!Select("b") \/ Exi!Deselect("b") \/ Exi!DeselectProbes("b") \/ Exi!Unlock("b")
  \/ Exi!ExtIrq \/ Exi!Settle \/ Exi!PullOut
  \/ ~Exi!Interrupted /\ Exi!PlugIn(IF swaps = 0 THEN "x" ELSE "y")

(* The memory card alone on its channel, as in slot B, and not pulled out  *)
(* while CARD_MountAsync is running.                                       *)
InMountAsync == c.pc \in {"mounting", "reading"} \/ (c.pc = "start" /\ c.op = "mount")
CardThread ==
  \/ \E op \in {"read", "write", "status", "mount", "unmount"} : Card!Call(op)
  \/ Card!StartOp \/ (\E f \in Card!Found : Card!StartMount(f))
  \/ Card!StartMountEnable \/ Card!StartMountReads \/ Card!Sync
CardIrq == Card!DmaDone \/ Card!Irq \/ Card!Timeout \/ Card!Ext \/ (\E u \in BOOLEAN : Card!DspDone(u))
CardNext ==
  \/ CardThread \/ CardIrq
  \/ \E x \in c.exec, st \in {"ok", "error"} : Card!ExecDone(x, st)
  \/ (~InMountAsync /\ Card!Pull) \/ (\E v \in Card!Verdicts : Card!Insert(v))

Init == part \in Parts /\ Arq!Init /\ Exi!Init /\ Card!Init
Next ==
  /\ \/ part = "arq" /\ ArqNext /\ UNCHANGED <<exiVars, cardVars>>
     \/ part = "lock" /\ LockNext /\ UNCHANGED <<arqVars, cardVars>>
     \/ part = "id" /\ IdNext /\ UNCHANGED <<arqVars, cardVars>>
     \/ part = "card" /\ CardNext /\ UNCHANGED <<arqVars, exiVars>>
  /\ UNCHANGED part
Spec == Init /\ [][Next]_vars

---------------------------------------------------------------------------
(* The ARAM queue: the lists stay whole and share no request, the engine   *)
(* is at work or its interrupt due exactly while a request is pending, and *)
(* a request is reported finished only when all of it has been moved.      *)
ArqSound ==
  part = "arq" => Arq!TypeOK /\ Arq!QueuesSound /\ Arq!EngineServes /\ Arq!FinishedIsMoved

(* ARAM transfers never overlap and start in the order of posting, high    *)
(* priority first.                                                         *)
ServedInOrder ==
  [][part = "arq" =>
       /\ arq.dma # NULL /\ arq'.dma # NULL => arq'.dma = arq.dma
       /\ Arq!StartsOldest]_vars

(* One client at a time has the EXI channel, for its device alone, and     *)
(* nobody sleeps in EXI_LockSync while the channel is free.                *)
ChannelLockSound == part = "lock" => Exi!TypeOK /\ Exi!LockExcludes /\ Exi!NoLostUnlock

(* An EXI transfer is taken for complete only when the hardware finished   *)
(* it, although every transfer leaves the TC bit behind for the next one.  *)
CompletionIsReal ==
  [][part = "lock" /\ d.busy # "no" /\ d'.busy = "no" => ~d.run]_vars

(* A cached ID that EXI_GetID would use was read from a card that was in   *)
(* the slot under the present stamp, or could not be read.                 *)
CachedIDMatches == part = "id" => Exi!CachedIDMatches

(* EXI_GetID reports the device that is connected: none that left the slot *)
(* before the call.                                                        *)
GetIDNotStale == [][part = "id" => Exi!AnswersFresh]_vars

(* Unless a mounted card goes on executing a command from before it was    *)
(* mounted: a card operation that returns READY had all its commands       *)
(* executed by the card, once and in order, the control block is BUSY      *)
(* while something will call back, and nothing of a synchronous call is    *)
(* under way when it has returned.  And always: the channel is given back  *)
(* on every path.                                                          *)
CardCommandsSound ==
  part = "card" =>
    Card!ReadyMeansDone /\ Card!PendingMeansBusy /\ Card!SyncIsOver /\ Card!ChannelGivenBack
=============================================================================
