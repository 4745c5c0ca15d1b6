------------------------------- MODULE CardIO -------------------------------
(***************************************************************************)
(* How an operation on a memory card is carried out: src/libogc/card.c.    *)
(* A thread takes the control block (result BUSY), starts a command and    *)
(* waits in ogc_card_sync; each command ends in an interrupt whose handler *)
(* runs the callbacks that start the next one.  Retries, timeouts, the     *)
(* removal of the card, a second user of the EXI channel and CARD_Unmount  *)
(* cut in.                                                                 *)
(*                                                                         *)
(* `c` is the control block together with the channel, the card and the    *)
(* calling thread; what runs in a handler or with interrupts masked is an  *)
(* operator on c.  The operations are a read of Sectors sectors, a write   *)
(* of one, a change of the directory, mounting and unmounting.             *)
(***************************************************************************)
EXTENDS Naturals, FiniteSets, Sequences

CONSTANTS NULL,
          Sectors,          \* sectors of a read
          Segments, Pages,  \* commands for a sector: segments read, pages written
          Retries,          \* cmd_retries of a write or an erasure
          Word,             \* 2^32, what cmd_retries counts modulo
          MountReads,       \* sectors of the system area
          MaxCalls, MaxErrors, MaxOthers, MaxPulls

VARIABLES c,
          calls, errors, others, pulls   \* how often each has happened

vars == <<c, calls, errors, others, pulls>>

\* A callback starts the next command, whose failure, or the unlocking of the
\* channel, calls the callbacks again.
RECURSIVE EXI_Unlock(_), Retry(_), Start(_), Write(_, _), Read(_, _), UpdateDir(_, _),
          ExiCallback(_, _), XferCallback(_, _), TxCallback(_, _), MountCallback(_, _)

Failed(r) == r # "READY"

---------------------------------------------------------------------------
(* The control block and the waiting thread.                               *)

(* __card_putcntrlblock                                                    *)
Put(k, r) == IF k.attached \/ k.result = "BUSY" THEN [k EXCEPT !.result = r] ELSE k

PutAlways(k, r) == Put(k, r)

PutIfLast(k, r) == IF k.apicb = NULL THEN Put(k, r) ELSE k

NoWake(k, cb) == k

(* Calling cb, NULL or ogc_card_synccallback.                              *)
Broadcast(k, cb) ==
  IF cb # NULL /\ k.pc = "asleep" THEN [k EXCEPT !.pc = "sync"] ELSE k

(* The end of most callbacks.                                              *)
Finish(k, r) == Broadcast(Put([k EXCEPT !.apicb = NULL], r), k.apicb)

Detached(k) == IF k.lock = "card" THEN k ELSE [k EXCEPT !.exiatt = FALSE, !.ext = FALSE]

(* __card_dounmount                                                        *)
DoUnmount(k, r) ==
  IF ~k.attached THEN k
  ELSE Detached([k EXCEPT !.attached = FALSE, !.step = 0, !.result = r, !.intr = FALSE,
                          !.timer = FALSE])

---------------------------------------------------------------------------
(* Commands.  While EXI is attached EXI_Select does not look at the slot.  *)
Probe(k) == k.present /\ ~k.ext
Selects(k) == k.exiatt \/ k.present

(* What the card was still executing, or has interrupted for, belongs from *)
(* now on to an old command.                                               *)
Age(S) == {"old" : x \in S}
Executing(k) ==
  [k EXCEPT !.exec = Age(@) \cup (IF k.present THEN {"now"} ELSE {}), !.irq = Age(@)]

(* __setuptimeout and sending the command: an erasure is over at once for  *)
(* the channel, a read or a page is a DMA that keeps it.                   *)
Send(k) ==
  LET j == [k EXCEPT !.timer = k.cmd # "read"]
  IN  IF k.cmd = "erase" THEN Executing(j) ELSE [j EXCEPT !.dma = TRUE]

(* __retry, with the channel locked                                        *)
Retry(k) ==
  [k |-> IF Selects(k) /\ k.cmd # "erase" THEN Send(k)
         ELSE EXI_Unlock(IF Selects(k) THEN Send(k) ELSE k),
   r |-> IF Selects(k) THEN "READY" ELSE "NOCARD"]

Queue(k, cb) == [k EXCEPT !.unlockcb = cb, !.waiters = Append(@, "card")]

(* __card_start and the sending: while the channel is taken the command is *)
(* queued, and the caller told BUSY.                                       *)
Start(k) ==
  IF k.lock # NULL THEN [k |-> Queue(k, "retry"), r |-> "BUSY"]
  ELSE Retry([k EXCEPT !.unlockcb = NULL, !.lock = "card"])

SectorErase(k, cb) == Start([k EXCEPT !.cmd = "erase", !.retries = Retries, !.exicb = cb])
WritePage(k) == Start([k EXCEPT !.cmd = "write", !.retries = Retries, !.exicb = "blockwrite"])
ReadSegment(k) == Start([k EXCEPT !.cmd = "read", !.retries = 0, !.txcb = "blockread"])

Write(k, cb) ==
  IF k.attached THEN WritePage([k EXCEPT !.count = Pages, !.xfercb = cb])
  ELSE [k |-> k, r |-> "NOCARD"]
Read(k, cb) == ReadSegment([k EXCEPT !.count = Segments, !.xfercb = cb])

UpdateDir(k, cb) ==
  IF k.attached THEN SectorErase([k EXCEPT !.erasecb = cb], "direrase")
  ELSE [k |-> k, r |-> "NOCARD"]

---------------------------------------------------------------------------
(* Callbacks.                                                              *)
Onward(s, End(_, _)) == IF Failed(s.r) THEN End(s.k, s.r) ELSE s.k

EraseCallback(k, r) == IF Failed(r) THEN Finish(k, r) ELSE Onward(Write(k, "write"), Finish)

(* When the update cannot be started, card_api_cb is already gone.         *)
WriteCallback(k, r) ==
  IF Failed(r) THEN Finish(k, r)
  ELSE Onward(UpdateDir([k EXCEPT !.apicb = NULL], k.apicb), Finish)

(* That the next read cannot be started is not reported.                   *)
ReadCallback(k, r) ==
  LET Unreported(j, e) == Finish(j, r)
  IN  IF Failed(r) \/ k.left = 1 THEN Finish(k, r)
      ELSE Onward(Read([k EXCEPT !.left = @ - 1], "read"), Unreported)

EraseDone(k, r) == Broadcast([PutIfLast(k, r) EXCEPT !.erasecb = NULL], k.erasecb)

DirEraseCallback(k, r) ==
  IF Failed(r) THEN EraseDone(k, r) ELSE Onward(Write(k, "dirwrite"), EraseDone)

XferCallback(k, r) ==
  LET j == [k EXCEPT !.xfercb = NULL]
  IN  CASE k.xfercb = "write" -> WriteCallback(j, r)
        [] k.xfercb = "dirwrite" -> EraseDone(j, r)
        [] k.xfercb = "read" -> ReadCallback(j, r)
        [] k.xfercb = "mount" -> MountCallback(j, r)
        [] OTHER -> k

BlockDone(k, r) == XferCallback(PutIfLast(k, r), r)

Block(k, r, Another(_)) ==
  LET j == [k EXCEPT !.count = @ - 1]
  IN  IF Failed(r) THEN BlockDone(k, r)
      ELSE IF k.count > 1 THEN Onward(Another(j), BlockDone) ELSE BlockDone(j, r)

BlockWriteCallback(k, r) == Block(k, r, WritePage)
BlockReadCallback(k, r) == Block(k, r, ReadSegment)

ExiCallback(k, r) ==
  LET j == [k EXCEPT !.exicb = NULL]
  IN  CASE k.exicb = "erase" -> EraseCallback(j, r)
        [] k.exicb = "blockwrite" -> BlockWriteCallback(j, r)
        [] k.exicb = "direrase" -> DirEraseCallback(j, r)
        [] OTHER -> k

(* card_tx_cb                                                              *)
TxCallback(k, r) == IF k.txcb = NULL THEN k ELSE BlockReadCallback([k EXCEPT !.txcb = NULL], r)

---------------------------------------------------------------------------
(* Handlers.                                                               *)

(* __unlocked_callback                                                     *)
NotSent(k, r) == IF k.cmd = "read" THEN TxCallback(k, r) ELSE ExiCallback(k, r)

UnlockedCallback(k, r) ==
  IF ~Failed(r) /\ k.lock # NULL THEN Queue(k, "retry")
  ELSE Onward(IF Failed(r) THEN [k |-> k, r |-> r] ELSE Retry([k EXCEPT !.lock = "card"]), NotSent)

(* __card_unlockedhandler                                                  *)
UnlockedHandler(k) ==
  LET j == [k EXCEPT !.unlockcb = NULL]
      r == IF Probe(k) THEN "READY" ELSE "NOCARD"
  IN  CASE k.unlockcb = "retry" -> UnlockedCallback(j, r)
        [] k.unlockcb = "mount" -> MountCallback(j, r)
        [] OTHER -> k

(* Giving the channel back hands it to whoever waits.  The other device    *)
(* takes it.                                                               *)
EXI_Unlock(k) ==
  LET j == [k EXCEPT !.lock = NULL]
      next == [j EXCEPT !.waiters = Tail(@)]
  IN  IF k.lock = NULL \/ k.waiters = <<>> THEN j
      ELSE IF Head(k.waiters) = "card" THEN UnlockedHandler(next)
      ELSE [next EXCEPT !.lock = "other"]

(* __card_exihandler.  st is the status the card gives, and that           *)
(* __card_clearstatus resets.                                              *)
Decremented(n) == (n + Word - 1) % Word

Answered(k) ==
  IF k.st = "error"
  THEN IF Decremented(k.retries) > 0
       THEN Onward(Retry([k EXCEPT !.st = "ok", !.retries = Decremented(@)]), ExiCallback)
       ELSE ExiCallback(EXI_Unlock([k EXCEPT !.st = "ok", !.retries = Decremented(@)]), "IOERROR")
  ELSE ExiCallback(EXI_Unlock(k), "READY")

ExiHandler(k) ==
  LET j == [k EXCEPT !.timer = FALSE, !.irq = {}]
      l == [j EXCEPT !.lock = "card"]
  IN  IF ~k.attached THEN j
      ELSE IF Probe(k) THEN Answered(l) ELSE ExiCallback(EXI_Unlock(l), "NOCARD")

---------------------------------------------------------------------------
(* Mounting.                                                               *)

(* The exit of __card_domount                                              *)
MountExit(k, r) == DoUnmount(EXI_Unlock(k), r)

(* __card_domount: each step reads a sector of the system area.            *)
MountStarted(s) == IF Failed(s.r) THEN [k |-> MountExit(s.k, s.r), r |-> s.r] ELSE s
DoMountRead(k) == MountStarted(Read(k, "mount"))

(* From step 1: the interrupt is enabled, the channel given back.  A card  *)
(* that has gone is noticed by EXI_Deselect, and reported as BUSY.         *)
EnableInterrupt(k) ==
  IF k.lock # "card" \/ ~Selects(k) THEN "NOCARD" ELSE IF ~Probe(k) THEN "BUSY" ELSE "READY"

DoMountEnable(k) ==
  LET r == EnableInterrupt(k)
      j == [k EXCEPT !.step = 2]
  IN  MountStarted([k |-> IF Failed(r) THEN j ELSE EXI_Unlock([j EXCEPT !.intr = TRUE]), r |-> r])

DoMountOn(k) == LET s == DoMountEnable(k) IN IF Failed(s.r) THEN s ELSE DoMountRead(s.k)

MountEnd(k, r) == Broadcast([k EXCEPT !.apicb = NULL], k.apicb)

(* The result of __card_verify is the card's.                              *)
MountNext(k) ==
  IF k.step = 1 THEN Onward(DoMountOn(k), MountEnd)
  ELSE IF k.step < MountReads + 2 THEN Onward(DoMountRead(k), MountEnd)
  ELSE MountEnd(Put(k, k.verify), k.verify)

MountCallback(k, r) ==
  IF r \in {"NOCARD", "IOERROR"} THEN MountEnd(Put(DoUnmount(k, r), r), r)
  ELSE MountNext([k EXCEPT !.step = @ + 1])

---------------------------------------------------------------------------
(* The calling thread.  It runs only when no interrupt wants to.           *)
IrqRaised == c.irq # {} /\ c.intr /\ c.lock = NULL
ExtRaised == c.ext /\ c.exiatt /\ ~c.dma
Quiet == ~IrqRaised /\ ~ExtRaised
Returned(k, r) == [k EXCEPT !.pc = "idle", !.gave = r]
Counted == UNCHANGED <<calls, errors, others, pulls>>

(* CARD_MountAsync up to the unmasking of the interrupts                   *)
MountSeized(k) ==
  [k EXCEPT !.result = "BUSY", !.apicb = "sync", !.exicb = NULL, !.irq = IF k.attached THEN @ ELSE {},
            !.exiatt = TRUE, !.attached = TRUE, !.step = 0, !.intr = FALSE, !.timer = FALSE]

CallMount(k) ==
  IF k.result = "BUSY" THEN Returned(k, "BUSY")
  ELSE IF ~k.attached /\ k.exiatt THEN Returned(k, "WRONGDEVICE")
  ELSE IF ~k.attached /\ ~k.present THEN Returned([k EXCEPT !.result = "NOCARD"], "NOCARD")
  ELSE [MountSeized(k) EXCEPT !.pc = "start"]

(* __card_getcntrlblock                                                    *)
GetBlock(k) ==
  IF ~k.attached THEN Returned(k, "NOCARD")
  ELSE IF k.result = "BUSY" THEN Returned(k, "BUSY")
  ELSE [k EXCEPT !.result = "BUSY", !.apicb = NULL, !.pc = "start"]

(* CARD_Unmount                                                            *)
Unmount(k) ==
  DoUnmount(k, IF k.attached /\ k.result # "BUSY" THEN "READY" ELSE "NOCARD")

Call(op) ==
  /\ c.pc = "idle" /\ calls < MaxCalls /\ Quiet
  /\ LET k == [c EXCEPT !.op = op, !.done = <<>>, !.exec = Age(@), !.irq = Age(@),
                        !.late = @ \/ (op = "mount" /\ c.exec # {})]
     IN  c' = CASE op = "mount" -> CallMount(k)
                [] op = "unmount" -> Returned(Unmount(k), "READY")
                [] OTHER -> GetBlock(k)
  /\ calls' = calls + 1 /\ UNCHANGED <<errors, others, pulls>>

(* The rest of CARD_ReadAsync, CARD_WriteAsync or __card_setstatusexasync  *)
First(k) ==
  CASE k.op = "read" -> Read([k EXCEPT !.apicb = "sync", !.left = Sectors], "read")
    [] k.op = "write" -> SectorErase([k EXCEPT !.apicb = "sync"], "erase")
    [] OTHER -> UpdateDir(k, "sync")

Started(s) == IF Failed(s.r) THEN Returned(Put(s.k, s.r), s.r) ELSE [s.k EXCEPT !.pc = "sync"]

StartOp ==
  /\ c.pc = "start" /\ c.op # "mount" /\ Quiet
  /\ c' = Started(First(c))
  /\ Counted

(* CARD_MountAsync takes the channel and __card_domount looks at what it   *)
(* found: no memory card, one that must be unlocked first, by a task of    *)
(* the DSP, an unlocked one and an SRAM checksum that is right or not.     *)
Found == {"foreign", "locked", "unlocked", "badsum"}

StartMount(found) ==
  /\ c.pc = "start" /\ c.op = "mount" /\ Quiet
  /\ LET k == [c EXCEPT !.lock = "card", !.unlockcb = NULL, !.pc = "sync"]
         l == [k EXCEPT !.st = "ok"]
     IN  c' = IF c.lock # NULL THEN [Queue(c, "mount") EXCEPT !.pc = "sync"]
              ELSE IF ~Probe(c) THEN MountExit(k, "NOCARD")
              ELSE CASE found = "foreign" -> MountExit(k, "WRONGDEVICE")
                     [] found = "locked" -> [l EXCEPT !.dsp = TRUE]
                     [] found = "badsum" -> MountExit([l EXCEPT !.step = 1], "IOERROR")
                     [] found = "unlocked" -> [l EXCEPT !.step = 1, !.pc = "mounting"]
  /\ Counted

StartMountEnable ==
  /\ c.pc = "mounting" /\ Quiet
  /\ LET s == DoMountEnable(c)
     IN  c' = [s.k EXCEPT !.pc = IF Failed(s.r) THEN "sync" ELSE "reading"]
  /\ Counted

StartMountReads ==
  /\ c.pc = "reading" /\ Quiet
  /\ c' = [DoMountRead(c).k EXCEPT !.pc = "sync"]
  /\ Counted

(* ogc_card_sync                                                           *)
Sync ==
  /\ c.pc = "sync" /\ Quiet
  /\ c' = IF c.result # "BUSY" THEN Returned(c, c.result) ELSE [c EXCEPT !.pc = "asleep"]
  /\ Counted

---------------------------------------------------------------------------
(* Interrupts, the alarm and the card.                                     *)

(* __card_txhandler                                                        *)
DmaDone ==
  /\ c.dma
  /\ LET j == [c EXCEPT !.dma = FALSE]
         k == IF c.cmd = "write" THEN Executing(j)
              ELSE [j EXCEPT !.done = IF c.present THEN Append(@, "read") ELSE @]
         l == EXI_Unlock(k)
     IN  c' = TxCallback(l, IF Probe(l) THEN "READY" ELSE "NOCARD")
  /\ Counted

(* The card finishes a command and interrupts.                             *)
ExecDone(x, st) ==
  /\ x \in c.exec
  /\ st = "error" => errors < MaxErrors
  /\ c' = [c EXCEPT !.exec = @ \ {x}, !.irq = @ \cup {x}, !.st = st,
                     !.done = IF x = "now" /\ st = "ok" THEN Append(@, c.cmd) ELSE @]
  /\ errors' = IF st = "error" THEN errors + 1 ELSE errors
  /\ UNCHANGED <<calls, others, pulls>>

Irq == IrqRaised /\ c' = ExiHandler(c) /\ Counted

TimeoutKeepsIrq(k) ==
  IF k.attached THEN ExiCallback([k EXCEPT !.timer = FALSE], "IOERROR") ELSE [k EXCEPT !.timer = FALSE]

(* __timeouthandler.  A page is transferred long before the alarm.         *)
TimeoutHandler(k) ==
  IF k.attached THEN ExiCallback([k EXCEPT !.timer = FALSE, !.intr = FALSE], "IOERROR")
  ELSE [k EXCEPT !.timer = FALSE]

Timeout == c.timer /\ ~c.dma /\ c' = TimeoutHandler(c) /\ Counted

ExtHandlerKeepsAlarm(k) ==
  LET j == [k EXCEPT !.exiatt = FALSE, !.ext = FALSE]
  IN  IF ~k.attached THEN j
      ELSE ExiCallback([j EXCEPT !.attached = FALSE, !.intr = FALSE], "NOCARD")

(* __card_exthandler; EXI has dropped its own attachment before.           *)
ExtHandler(k) ==
  LET j == [k EXCEPT !.exiatt = FALSE, !.ext = FALSE]
  IN  IF ~k.attached THEN j
      ELSE ExiCallback([j EXCEPT !.attached = FALSE, !.intr = FALSE, !.timer = FALSE], "NOCARD")

Ext == ExtRaised /\ c' = ExtHandler(c) /\ Counted

Pull ==
  /\ c.present /\ pulls < MaxPulls
  /\ c' = [c EXCEPT !.present = FALSE, !.ext = c.exiatt, !.exec = {}]
  /\ pulls' = pulls + 1 /\ UNCHANGED <<calls, errors, others>>

(* A new card shows up only after 300 ms, longer than any call runs.       *)
Verdicts == {"READY", "BROKEN"}

Insert(v) ==
  /\ ~c.present /\ ~c.ext /\ c.pc \in {"idle", "asleep"}
  /\ c' = [c EXCEPT !.present = TRUE, !.verify = v]
  /\ Counted

(* __dsp_donecallback                                                      *)
DspDone(unlocked) ==
  /\ c.dsp
  /\ LET k == [c EXCEPT !.dsp = FALSE]
         fine == Probe(c) /\ unlocked
     IN  c' = MountCallback(IF fine THEN k ELSE EXI_Unlock(k),
                            IF fine THEN "READY" ELSE IF Probe(c) THEN "IOERROR" ELSE "NOCARD")
  /\ Counted

(* Another device of the channel takes it, at once or when it is free, and *)
(* gives it back.                                                          *)
OtherLocks ==
  /\ others < MaxOthers /\ c.lock # "other" /\ "other" \notin {c.waiters[i] : i \in DOMAIN c.waiters}
  /\ c' = IF c.lock = NULL THEN [c EXCEPT !.lock = "other"] ELSE [c EXCEPT !.waiters = Append(@, "other")]
  /\ others' = others + 1 /\ UNCHANGED <<calls, errors, pulls>>

OtherUnlocks == c.lock = "other" /\ c' = EXI_Unlock(c) /\ Counted

(* CARD_Unmount by another thread or on a reset (__card_onreset)           *)
UnmountNow == c.pc = "asleep" /\ c.attached /\ c' = Unmount(c) /\ Counted

Init ==
  /\ \E v \in Verdicts :
     c = [attached |-> FALSE, result |-> "NOCARD", apicb |-> NULL, exicb |-> NULL, txcb |-> NULL,
          xfercb |-> NULL, erasecb |-> NULL, unlockcb |-> NULL, cmd |-> NULL, retries |-> 0,
          count |-> 0, left |-> 0, step |-> 0, intr |-> FALSE, timer |-> FALSE, lock |-> NULL,
          waiters |-> <<>>, dma |-> FALSE, exec |-> {}, irq |-> {}, st |-> "ok", exiatt |-> FALSE,
          present |-> TRUE, ext |-> FALSE, dsp |-> FALSE, pc |-> "idle", op |-> NULL,
          done |-> <<>>, gave |-> NULL, verify |-> v, late |-> FALSE]
  /\ calls = 0 /\ errors = 0 /\ others = 0 /\ pulls = 0

---------------------------------------------------------------------------
(* Properties.                                                             *)
Times(n, x) == [i \in 1..n |-> x]
Commands(op) ==
  CASE op = "read" -> Times(Sectors * Segments, "read")
    [] op = "mount" -> Times(MountReads * Segments, "read")
    [] op = "status" -> <<"erase">> \o Times(Pages, "write")
    [] op = "write" -> <<"erase">> \o Times(Pages, "write") \o <<"erase">> \o Times(Pages, "write")
    [] OTHER -> <<>>

(* While a card that is mounted again goes on executing a command that the *)
(* driver had given up, the end of that command is taken for one of the    *)
(* new mount's: what follows is about the other behaviours.                *)
Punctual == ~c.late

(* A call that returns READY, or a mount that returns BROKEN, has had all  *)
(* its commands executed by the card, each once and in order, whatever     *)
(* errors, retries, timeouts and late interrupts there were.               *)
ReadyMeansDone ==
  Punctual /\ c.pc = "idle" /\ c.gave \in Verdicts => c.done = Commands(c.op)

(* While anything that will call back is under way the control block is    *)
(* BUSY, so that no second operation can be started into it.               *)
PendingMeansBusy ==
  Punctual /\ (c.unlockcb # NULL \/ c.dma \/ c.timer \/ c.dsp) => c.result = "BUSY"

(* When a synchronous call has returned nothing of it is under way.        *)
SyncIsOver ==
  Punctual /\ c.pc = "idle" => c.unlockcb = NULL /\ ~c.dma /\ ~c.timer /\ ~c.dsp

(* The channel is free whenever no command is being sent: the driver gives *)
(* it back on every path.                                                  *)
ChannelGivenBack == c.lock = "card" => c.dma \/ c.dsp \/ c.pc = "mounting"

(* Every call returns.                                                     *)
SyncReturns == c.pc # "idle" ~> c.pc = "idle" \/ ~Punctual
=============================================================================
