-------------------------------- MODULE EXI --------------------------------
(***************************************************************************)
(* One channel of the expansion interface that has a slot (channel 0 or    *)
(* 1): src/libogc/exi.c.  Device Slot is what the user plugs in and out,   *)
(* the Others are always there.  `d` is the driver's record of the channel *)
(* with the registers it works on.  A function that masks interrupts is an *)
(* operator on d; EXI_GetID, EXI_Probe, EXI_Attach and EXI_ProbeReset,     *)
(* which do not, take a step per critical section and per access between.  *)
(*                                                                         *)
(* EXI_Unlock calls the waiter that registered first, which may be         *)
(* __unlocked_handler and so EXI_GetID, which locks and unlocks again: the *)
(* recursion is the code's.                                                *)
(***************************************************************************)
EXTENDS Naturals, Sequences, FiniteSets, FiniteSetsExt, SequencesExt

CONSTANTS Threads, Slot, Others,
          Cards,       \* the devices, by their ID, that are put in the slot
          NULL,
          Pool,        \* EXI_LOCK_DEVS: the waiters there is room for
          MaxSwaps,    \* bound on insertions
          MaxResets    \* bound on calls of EXI_ProbeReset

VARIABLES d, th,
          seen,     \* the devices in the slot since the thread last called EXI_GetID
          swaps, resets

vars == <<d, th, seen, swaps, resets>>
Devs == {Slot} \cup Others
Ok(e) == [d |-> e, ok |-> TRUE]
Fails(e) == [d |-> e, ok |-> FALSE]

---------------------------------------------------------------------------
(* Presence.  last is last_exi_idtime: 0, or a fresh stamp for the time a  *)
(* device was first seen; settled tells whether 300 ms have passed since,  *)
(* and `under` (no state of the code) which cards have been in the slot    *)
(* under that stamp.                                                       *)
Forget(e) == [e EXCEPT !.idtime = 0, !.last = 0]

Stamped(e) ==
  IF e.last # 0 THEN e
  ELSE [e EXCEPT !.last = e.stamp + 1, !.stamp = @ + 1, !.settled = FALSE, !.under = {e.card}]

ProbeDetached(e) ==
  LET f == IF e.ext THEN [Forget(e) EXCEPT !.ext = FALSE] ELSE e
      g == Stamped(f)
  IN  IF e.card = NULL THEN Fails(Forget(f)) ELSE [d |-> g, ok |-> g.settled]

Probe(e) ==
  IF ~e.attach THEN ProbeDetached(e)
  ELSE IF e.card = NULL \/ e.ext THEN Fails(Forget(e)) ELSE Ok(e)

Attach(e, cb) ==
  LET p == Probe(e)
  IN  IF e.attach THEN Fails(e)
      ELSE IF ~p.ok THEN p
      ELSE Ok([p.d EXCEPT !.extcb = cb, !.extOn = TRUE, !.attach = TRUE])

Detach(e) ==
  IF e.attach /\ e.locked # Slot
  THEN [e EXCEPT !.attach = FALSE, !.exiOn = FALSE, !.extOn = FALSE] ELSE e

---------------------------------------------------------------------------
(* Locking.                                                                *)
SetInterrupts(e) == [e EXCEPT !.exiOn = e.locked = NULL /\ e.exicb]

Locked(e, v) == SetInterrupts([e EXCEPT !.locked = v])

RegisterUncounted(e, v, cb) ==
  IF e.free = 0 THEN e ELSE [e EXCEPT !.waiters = Append(@, [dev |-> v, cb |-> cb])]

(* A waiter that finds no room is dropped silently.                        *)
Register(e, v, cb) ==
  IF e.free = 0 THEN e
  ELSE [e EXCEPT !.waiters = Append(@, [dev |-> v, cb |-> cb]), !.free = @ - 1]

(* KThrQueueUnblockOneByValue in __exi_locksync_cb                         *)
Wake(e, v) ==
  LET mine == {i \in DOMAIN e.syncq : e.syncq[i].dev = v}
  IN  IF mine = {} THEN e ELSE [e EXCEPT !.syncq = RemoveAt(@, Min(mine))]

---------------------------------------------------------------------------
(* Selecting and transferring.                                             *)
SelectIfLocked(e, v) ==
  IF e.locked # v THEN Fails(e)
  ELSE Ok([e EXCEPT !.sel = v, !.extOn = IF e.attach THEN FALSE ELSE @])

EXI_Select(e, v) ==
  LET p == Probe(e)
  IN  IF e.sel # NULL THEN Fails(e)
      ELSE IF v = Slot /\ ~e.attach
      THEN IF p.ok THEN SelectIfLocked(p.d, v) ELSE p
      ELSE SelectIfLocked(e, v)

Deselected(e) ==
  IF e.sel = NULL THEN e
  ELSE [e EXCEPT !.sel = NULL, !.extOn = IF e.attach THEN TRUE ELSE @]

(* EXI_Deselect with the probe it ends with                                *)
EXI_Deselect(e) ==
  IF e.sel = Slot THEN Probe(Deselected(e)).d ELSE Deselected(e)

StaleTC(e) == [e EXCEPT !.tcOn = TRUE]

ArmTC(e) == [e EXCEPT !.tc = FALSE, !.tcOn = TRUE]

(* EXI_Imm and EXI_Dma: mode is "imm" or "dma", cb what the interrupt at   *)
(* the end will call.                                                      *)
Transfer(e, mode, cb) ==
  LET f == [e EXCEPT !.tccb = cb, !.busy = mode, !.run = TRUE]
  IN  IF e.busy # "no" \/ e.sel = NULL THEN Fails(e)
      ELSE Ok(IF cb # NULL THEN ArmTC(f) ELSE f)

(* __exi_completetransfer                                                  *)
Completed(e) == [e EXCEPT !.busy = "no"]

---------------------------------------------------------------------------
(* Unlocking, and the identification it may call.                          *)
RECURSIVE EXI_Unlock(_), GetIDNow(_)

(* The critical section of EXI_GetID on the slot.  An ID that could not be *)
(* read is NULL.                                                           *)
ReadID(e) ==
  LET s == EXI_Select(Locked(e, Slot), Slot)
  IN  IF e.locked # NULL
      THEN [d |-> Register(e, Slot, "getid"), ret |-> FALSE, id |-> NULL]
      ELSE IF ~s.ok THEN [d |-> EXI_Unlock(s.d), ret |-> TRUE, id |-> NULL]
      ELSE [d |-> EXI_Unlock(EXI_Deselect([s.d EXCEPT !.tccb = NULL, !.tc = TRUE])),
            ret |-> TRUE, id |-> s.d.card]

(* Its last one: the ID is kept if the slot did not change meanwhile.      *)
Unchanged(e, idtime) == idtime = e.last

KeepUnchecked(e, idtime, r) ==
  IF r.ret THEN [e EXCEPT !.idtime = e.last, !.id = r.id] ELSE e

KeepID(e, idtime, r) ==
  IF r.ret /\ Unchanged(e, idtime) THEN [e EXCEPT !.idtime = idtime, !.id = r.id] ELSE e

GetIDNow(e) ==
  LET p == Probe(e)
      a == Attach(p.d, NULL)
      r == ReadID(a.d)
  IN  IF ~p.ok \/ p.d.idtime = p.d.last THEN p.d
      ELSE IF ~a.ok THEN a.d
      ELSE KeepID(Detach(r.d), a.d.last, r)

SilentUnlock(e) == SetInterrupts([e EXCEPT !.locked = NULL])

EXI_Unlock(e) ==
  LET f == SetInterrupts([e EXCEPT !.locked = NULL])
      w == Head(f.waiters)
      g == [f EXCEPT !.waiters = Tail(@), !.free = @ + 1]
  IN  IF e.locked = NULL THEN e
      ELSE IF f.waiters = <<>> THEN f
      ELSE IF w.cb = "locksync" THEN Wake(g, w.dev) ELSE GetIDNow(g)
---------------------------------------------------------------------------
(* A client locks the channel, selects its device, transfers, and lets go. *)
At(t, pc) == th[t].pc = pc
Interrupted == (d.ext /\ d.extOn) \/ (d.tc /\ d.tcOn)

(* A pending interrupt is taken before a thread's next critical section.   *)
Runs(t, pc) == th[t].pc = pc /\ ~Interrupted
Goes(t, pc) == th' = [th EXCEPT ![t].pc = pc]
Still == UNCHANGED <<seen, swaps, resets>>

LockBarging(t, v) == d' = Locked(d, v) /\ th' = [th EXCEPT ![t].pc = "held", ![t].dev = v]

(* The loop of EXI_LockSync, entered again after every wake-up; the try    *)
(* before it adds nothing.                                                 *)
TryLock(t, v) ==
  IF d.locked = NULL
  THEN /\ d' = Locked(d, v)
       /\ th' = [th EXCEPT ![t].pc = "held", ![t].dev = v]
  ELSE /\ d' = [Register(d, v, "locksync") EXCEPT !.syncq = Append(@, [t |-> t, dev |-> v])]
       /\ th' = [th EXCEPT ![t].pc = "wait", ![t].dev = v]

EXI_LockSync(t, v) == Runs(t, "idle") /\ TryLock(t, v) /\ Still

Blocked(t) == \E i \in DOMAIN d.syncq : d.syncq[i].t = t

LockSyncWoken(t) == Runs(t, "wait") /\ ~Blocked(t) /\ TryLock(t, th[t].dev) /\ Still

Select(t) ==
  LET s == EXI_Select(d, th[t].dev) IN
  /\ Runs(t, "held")
  /\ d' = s.d
  /\ Goes(t, IF s.ok THEN "selected" ELSE "unlock")
  /\ Still

(* EXI_Imm and EXI_Sync, the body of EXI_ImmEx                             *)
EXI_Imm(t) ==
  /\ Runs(t, "selected")
  /\ d' = Transfer(d, "imm", NULL).d
  /\ Goes(t, IF Transfer(d, "imm", NULL).ok THEN "sync" ELSE "selected")
  /\ Still

EXI_Sync(t) ==
  /\ Runs(t, "sync") /\ ~d.run
  /\ d' = Completed(d)
  /\ Goes(t, "selected")
  /\ Still

(* EXI_Transfer, which blocks until the interrupt, and EXI_Dma with a      *)
(* callback that deselects and unlocks, as the memory card driver does.    *)
EXI_Transfer(t) ==
  /\ Runs(t, "selected")
  /\ d' = Transfer(d, "dma", [t |-> t, then |-> "selected"]).d
  /\ Goes(t, "blocked")
  /\ Still

EXI_Dma(t) ==
  /\ Runs(t, "selected")
  /\ d' = Transfer(d, "dma", [t |-> t, then |-> "idle"]).d
  /\ Goes(t, "blocked")
  /\ Still

Deselect(t) == Runs(t, "selected") /\ d' = Deselected(d) /\ Goes(t, "deselected") /\ Still

DeselectProbes(t) ==
  /\ Runs(t, "deselected")
  /\ d' = IF th[t].dev = Slot THEN Probe(d).d ELSE d
  /\ Goes(t, "unlock")
  /\ Still

Unlock(t) == Runs(t, "unlock") /\ d' = EXI_Unlock(d) /\ Goes(t, "idle") /\ Still

---------------------------------------------------------------------------
(* EXI_GetID on the slot, by critical sections.  The stamps are compared   *)
(* and the cached ID is read between them, with interrupts enabled.        *)
Back(t) == IF th[t].mount THEN "mount" ELSE "idle"

Returns(t, ret, id) ==
  th' = [th EXCEPT ![t].pc = Back(t), ![t].mount = FALSE,
                   ![t].ret = ret, ![t].id = id, ![t].idtime = 0]

Asks(t) ==
  /\ th' = [th EXCEPT ![t].pc = "getid", ![t].ret = FALSE, ![t].id = NULL]
  /\ seen' = [seen EXCEPT ![t] = {d.card} \ {NULL}]
  /\ UNCHANGED <<d, swaps, resets>>

EXI_GetID(t) == Runs(t, "idle") /\ Asks(t)

GetIDProbe(t) ==
  /\ Runs(t, "getid")
  /\ d' = Probe(d).d
  /\ IF Probe(d).ok THEN Goes(t, "compare") ELSE Returns(t, FALSE, NULL)
  /\ Still

GetIDCompare(t) ==
  /\ Runs(t, "compare")
  /\ Goes(t, IF d.idtime = d.last THEN "cached" ELSE "attach")
  /\ UNCHANGED d /\ Still

GetIDCached(t) == Runs(t, "cached") /\ Returns(t, TRUE, d.id) /\ UNCHANGED d /\ Still

GetIDAttach(t) ==
  LET a == Attach(d, NULL) IN
  /\ Runs(t, "attach")
  /\ d' = a.d
  /\ IF a.ok THEN Goes(t, "capture") ELSE Returns(t, FALSE, NULL)
  /\ Still

GetIDCapture(t) ==
  /\ Runs(t, "capture")
  /\ th' = [th EXCEPT ![t].pc = "read", ![t].idtime = d.last]
  /\ UNCHANGED d /\ Still

GetIDRead(t) ==
  LET r == ReadID(d) IN
  /\ Runs(t, "read")
  /\ d' = r.d
  /\ th' = [th EXCEPT ![t].pc = "detach", ![t].ret = r.ret, ![t].id = r.id]
  /\ Still

GetIDDetach(t) == Runs(t, "detach") /\ d' = Detach(d) /\ Goes(t, "check") /\ Still

GetIDCheck(t) ==
  /\ Runs(t, "check")
  /\ d' = KeepID(d, th[t].idtime, th[t])
  /\ Returns(t, th[t].ret /\ Unchanged(d, th[t].idtime), th[t].id)
  /\ Still

(* EXI_GetID on another device: one critical section, if nobody has the    *)
(* channel.                                                                *)
GetIDOther(t, v) ==
  /\ Runs(t, "idle") /\ d.locked = NULL
  /\ d' = LET s == EXI_Select(Locked(d, v), v)
          IN  EXI_Unlock(IF s.ok THEN EXI_Deselect([s.d EXCEPT !.tccb = NULL, !.tc = TRUE]) ELSE s.d)
  /\ UNCHANGED th /\ Still

(* EXI_Probe, alone or at the start of EXI_Attach: exi_idtime is read      *)
(* after __exi_probe.                                                      *)
EXI_Probe(t, mount) ==
  LET p == Probe(d)
      next == IF p.ok THEN "probed" ELSE IF mount THEN "mount" ELSE "idle"
  IN  /\ Runs(t, "idle")
      /\ d' = p.d
      /\ th' = [th EXCEPT ![t].pc = next, ![t].mount = mount /\ p.ok]
      /\ Still

ProbeAsks(t) ==
  /\ Runs(t, "probed")
  /\ IF d.idtime = 0 THEN Asks(t)
     ELSE th' = [th EXCEPT ![t].pc = Back(t), ![t].mount = FALSE] /\ UNCHANGED d /\ Still

EXI_Attach(t) ==
  /\ Runs(t, "mount")
  /\ d' = IF d.idtime # 0 THEN Attach(d, t).d ELSE d
  /\ Goes(t, "idle")
  /\ Still

EXI_Detach(t) == Runs(t, "idle") /\ d.extcb = t /\ d' = Detach(d) /\ UNCHANGED th /\ Still

(* EXI_ProbeReset: two plain stores, then the probe.                       *)
EXI_ProbeReset(t) ==
  /\ Runs(t, "idle") /\ resets < MaxResets /\ resets' = resets + 1
  /\ d' = [d EXCEPT !.last = 0]
  /\ Goes(t, "reset")
  /\ UNCHANGED <<seen, swaps>>

ResetIdtime(t) == Runs(t, "reset") /\ d' = [d EXCEPT !.idtime = 0] /\ Goes(t, "reprobe") /\ Still

ResetProbes(t) == Runs(t, "reprobe") /\ d' = Probe(d).d /\ Goes(t, "idle") /\ Still

EXI_RegisterEXICallback(b) ==
  /\ d' = SetInterrupts([d EXCEPT !.exicb = b])
  /\ UNCHANGED th /\ Still

---------------------------------------------------------------------------
(* The hardware and its interrupts.  The EXT bit is latched whenever the   *)
(* slot changes.                                                           *)
PullOut ==
  /\ d.card # NULL
  /\ d' = [d EXCEPT !.card = NULL, !.ext = TRUE]
  /\ UNCHANGED th /\ Still

PlugIn(c) ==
  /\ d.card = NULL /\ swaps < MaxSwaps
  /\ d' = [d EXCEPT !.card = c, !.ext = TRUE, !.under = @ \cup {c}]
  /\ seen' = [t \in Threads |-> seen[t] \cup {c}]
  /\ swaps' = swaps + 1
  /\ UNCHANGED <<th, resets>>

Settle == d.last # 0 /\ d' = [d EXCEPT !.settled = TRUE] /\ UNCHANGED th /\ Still

TransferDone ==
  /\ d.run
  /\ d' = [d EXCEPT !.run = FALSE, !.tc = TRUE]
  /\ UNCHANGED th /\ Still

(* __tc_irq_handler with the two callbacks                                 *)
TcIrq ==
  LET e == [d EXCEPT !.tc = FALSE, !.tcOn = FALSE, !.tccb = NULL] IN
  /\ d.tc /\ d.tcOn
  /\ IF d.tccb = NULL THEN d' = e /\ UNCHANGED th
     ELSE /\ d' = IF d.tccb.then = "idle" THEN EXI_Unlock(EXI_Deselect(Completed(e)))
                 ELSE Completed(e)
          /\ Goes(d.tccb.t, d.tccb.then)
  /\ Still

(* __ext_irq_handler.  The mask it means to disable is shifted by three    *)
(* times the interrupt's number, which leaves nothing of it.               *)
ExtIrq ==
  /\ d.ext /\ d.extOn
  /\ d' = [d EXCEPT !.ext = FALSE, !.attach = FALSE, !.extcb = NULL]
  /\ UNCHANGED th /\ Still

---------------------------------------------------------------------------
Init ==
  /\ d = [card |-> NULL, ext |-> FALSE, extOn |-> FALSE, run |-> FALSE, tc |-> FALSE,
          tcOn |-> FALSE, exicb |-> FALSE, exiOn |-> FALSE, locked |-> NULL, sel |-> NULL,
          attach |-> FALSE, extcb |-> NULL, tccb |-> NULL, busy |-> "no", waiters |-> <<>>,
          free |-> Pool, idtime |-> 0, id |-> NULL, last |-> 0, settled |-> FALSE,
          stamp |-> 0, under |-> {}, syncq |-> <<>>]
  /\ th = [t \in Threads |-> [pc |-> "idle", dev |-> NULL, idtime |-> 0, mount |-> FALSE,
                              ret |-> FALSE, id |-> NULL]]
  /\ seen = [t \in Threads |-> {}]
  /\ swaps = 0 /\ resets = 0

UsesChannel(t) ==
  \/ \E v \in Devs : EXI_LockSync(t, v)
  \/ LockSyncWoken(t) \/ Select(t) \/ EXI_Imm(t) \/ EXI_Sync(t)
  \/ EXI_Transfer(t) \/ EXI_Dma(t) \/ Deselect(t) \/ DeselectProbes(t) \/ Unlock(t)

GetsID(t) ==
  \/ EXI_GetID(t) \/ GetIDProbe(t) \/ GetIDCompare(t) \/ GetIDCached(t) \/ GetIDAttach(t)
  \/ GetIDCapture(t) \/ GetIDRead(t) \/ GetIDDetach(t) \/ GetIDCheck(t)

Probes(t) == (\E mount \in BOOLEAN : EXI_Probe(t, mount)) \/ ProbeAsks(t)

Mounts(t) == Probes(t) \/ EXI_Attach(t) \/ EXI_Detach(t)

Resets(t) == EXI_ProbeReset(t) \/ ResetIdtime(t) \/ ResetProbes(t)

Hardware == TransferDone \/ TcIrq \/ ExtIrq \/ Settle \/ PullOut

---------------------------------------------------------------------------
Callbacks == [t : Threads, then : {"idle", "selected"}]

TypeOK ==
  /\ d.card \in Cards \cup {NULL} /\ d.id \in Cards \cup {NULL}
  /\ {d.ext, d.extOn, d.run, d.tc, d.tcOn, d.exicb, d.exiOn, d.attach, d.settled} \subseteq BOOLEAN
  /\ d.locked \in Devs \cup {NULL} /\ d.sel \in Devs \cup {NULL}
  /\ d.extcb \in Threads \cup {NULL} /\ d.tccb \in Callbacks \cup {NULL}
  /\ d.busy \in {"no", "imm", "dma"}
  /\ d.free \in 0..Pool /\ d.free + Len(d.waiters) = Pool
  /\ {d.idtime, d.last} \subseteq 0..d.stamp
  /\ \A t \in Threads : th[t].dev \in Devs \cup {NULL} /\ th[t].idtime \in 0..d.stamp

HasChannel(t) == th[t].pc \in {"held", "selected", "sync", "blocked", "deselected", "unlock"}

(* The lock excludes: one client at a time is between EXI_LockSync and     *)
(* EXI_Unlock, the channel is locked for its device, only that device is   *)
(* selected, a transfer runs only while it is, and the interrupt of the    *)
(* devices is off meanwhile.                                               *)
LockExcludes ==
  /\ \A t, u \in Threads : HasChannel(t) /\ HasChannel(u) => t = u
  /\ \A t \in Threads : HasChannel(t) => d.locked = th[t].dev
  /\ d.sel # NULL => d.sel = d.locked
  /\ d.run \/ d.busy # "no" => d.sel # NULL
  /\ d.exiOn => d.locked = NULL

(* A transfer is taken for complete only when the hardware has finished    *)
(* it, although every transfer leaves the TC bit behind for the next one.  *)
CompletionIsReal == [][d.busy # "no" /\ d'.busy = "no" => ~d.run]_vars

(* While the channel is free nobody sleeps in EXI_LockSync without a woken *)
(* thread on its way to take the channel and to wake the next.             *)
NoLostUnlock ==
  d.locked = NULL /\ (\E t \in Threads : Blocked(t))
    => \E t \in Threads : At(t, "wait") /\ ~Blocked(t)

(* A cached ID that EXI_GetID would use was read from a card that was in   *)
(* the slot under the present stamp: an ID read for an earlier card is not *)
(* kept under the stamp of a later one, however the identification by one  *)
(* thread, the probes and resets of others and the changes of the slot     *)
(* interleave.  Or nothing was read: EXI_GetID keeps what it was given to  *)
(* put the ID in when the card could not be selected.                      *)
CachedIDMatches == d.last # 0 /\ d.idtime = d.last => d.id \in d.under \cup {NULL}

Answers(t) == th[t].pc \in {"cached", "check"} /\ th'[t].pc \in {"idle", "mount"} /\ th'[t].ret

(* EXI_GetID never reports a device that had left the slot before the      *)
(* call.  It may report success without an ID.                             *)
AnswersFresh == \A t \in Threads : Answers(t) => th'[t].id \in seen[t] \cup {NULL}
GetIDNotStale == [][AnswersFresh]_vars
=============================================================================
