# A TLA+ model of libogc

libogc is the C library for programs on the GameCube and the Wii. It brings its
own small kernel ("tuxedo": threads, mutexes, condition variables, mailboxes,
timers), the older LWP interface built on it, interrupt-driven drivers for the
consoles' devices, and a number of protocol and codec libraries. All of it runs
on one processor. Concurrency comes from threads, from interrupt handlers that
run on top of them, and from devices that answer later.

This directory holds TLA+ modules for parts of that system, the TLC
configurations that check them on small instances, and TLAPS proofs about the
kernel. `PROJECT.json` lists components, runs, mutants, the source lines every
definition models, the known hazards and the theorems.

    tlasany M.tla                       parse a module
    tlc -workers 2 -config X.cfg M      check a run (X.cfg names the module below)
    tlapm M.tla                         check the proofs of a module

Conventions common to all modules:

- A function that runs with interrupts masked, or a handler, is one action. A
  function that enables interrupts or blocks in between is several.
- A driver's static variables are often one record `d`, and the static functions
  are operators from one value of it to the next, composed by the actions in the
  order the code calls them.
- Data is reduced to what the properties can tell apart; control is kept.
- An operator defined right before the one it resembles, with a name that says
  what is wrong with it, is a *mutant*: the form a plausible bug would give the
  second one. No specification uses it. `PROJECT.json` says which property each
  one violates when it takes the other's place.
- "Careful" in the name or comment of a next-state relation marks conditions
  that the code does not enforce and its callers have to respect.

## The kernel: `Lists`, `KThread`, `KSync`

`src/tuxedo/thread.c`, `thread_priv.h`, `interrupt_asm.S` and `sync.c`.

`KThread` has the state of the scheduler: the list of all live threads ordered
by priority (`s_firstThread`), the wait queues (each thread's own queue of mutex
waiters, and the static queues for joins, sleeps, condition variables,
semaphores and mailboxes), the thread on the processor, whether a handler runs
on top of it, and the context the handler has chosen to return to. `KSync` adds
mutexes and condition variables. Kernel functions run with interrupts masked; a
function with a loop (waking a queue, handing a mutex over, passing a priority
along a chain of owners) takes a step per turn, with its locals in `op`, and
nothing else is enabled meanwhile. `at[t]` is where thread `t` will go on when
it next runs: in the middle of `KMutexLock`, of a condition wait, of a join, of
a sleep. The clock is abstract: a timer that is `armed` may fire in any handler.

`MCKernel` runs it in scenarios: `scn` is chosen at the start and says which
calls threads and handlers make. `Kernel_safety` checks the invariants in four
of them: `suspend` (two mutexes, suspends and resumes at any point), `prio`
(priorities changed while threads wait and own, lock cycles included), `cond`
(condition variables, timeouts racing signals) and `thread` (create, join,
sleep, exit). `Kernel_sched` asks in scenario `sched` whether a best runnable
thread has the processor (`BestThreadRuns`). `Kernel_progress` checks liveness:
priority inheritance through a chain of two owners defeats a thread that never
yields, threads that yield take turns, the walk along a cycle of owners ends.

Bounds: main, idle and two threads (three for liveness), two
priorities, one or two mutexes, one condition variable, suspend counts up to 1.
Two waiters and two mutexes are what a hand-over needs to have waiters to sort
out; a third thread makes chains of owners.

`BestThreadRuns` is a property of `CarefulSpec`, not of `Spec`:
`KThreadSetPrio` in a handler or on a mutex waiter, and a handler that suspends
the thread it interrupted, can leave a better thread waiting until the next
reschedule. `CarefulThreadCall` leaves exactly those calls out; scenario `sched`
is a part of `CarefulNext`.

Fairness in `Kernel_progress`: the kernel's own steps and the return from an
interrupt are weakly fair, since nothing else can happen before them. Steps of
threads are strongly fair, because interrupts may come between them but do not
keep the processor.

Left out: the switch callback, stacks and thread-local storage, the mask that
`KThreadPrepare` applies to priorities, unlocking a mutex one does not own
(`KMutexUnlock` then loops), exit while owning a mutex, waits of zero ticks that
return at once.

## Mailboxes: `KMailbox`, `Channel`

`src/tuxedo/mailbox.c`, in a program that also makes every other kernel call:
`MailNext` is `KSync!Next` together with the mailbox operations. All mailboxes
share one wait queue and use the mailbox's address as token, so runs have two of
them. `Channel` is what a mailbox promises, a bounded FIFO; `IsChannel` is the
refinement, with the ring of slots mapped to a sequence. `Receivers` says which
threads receive from which mailbox. Run `Mailboxes` has one receiver per mailbox
(`OneReceiver`) and senders in threads and handlers: `recv_waiters` is exact
(`WaitersCounted`), nobody is blocked while a message is pending
(`NoneBlockedOnPending`), and a woken receiver finds a message
(`WokenFindsMessage`). With two receivers, `Mailbox_two` shows that
`KMailboxRecv` takes a message after it was woken without looking again whether
one is left: `pending_slots` wraps around zero. Two slots, two messages, a count
modulo 4 and two mailboxes are enough for the ring to wrap, to fill up, and for
a wake-up to reach the wrong mailbox if the tokens were ignored.

## LWP semaphores: `LwpSem`, `Semaphore`

`src/libogc/lwpcompat/lwpc_sem.c`, again together with every kernel call. All
semaphores share one wait queue as well. Run `Semaphores` (two semaphores, three
threads, handlers that post, suspends and resumes) shows that the counter
agrees with the blocked threads (`CountMatchesWaiters`) and that the
implementation refines the counting semaphore of `Semaphore` (`IsSemaphore`), as
long as a semaphore is destroyed only when nobody waits for it. Destroying one
does not release its waiters, and its maximum is ignored; both are among the
hazards. `MaxCount` bounds the counter in the model and stands for the range of
an `s32`; the code has no such test.

## Tick tasks: `KTick`

`src/tuxedo/tick.c`. The time base wraps (at `2 * Half`, 8 ticks in the runs), the
decrementer reaches only `MaxDec` ticks ahead, and `Tick` moves both; an
exception is taken when the decrementer has passed zero and interrupts are
enabled. Run `Timers` checks that the list is in target order by the wrapping
comparison (`TargetsSorted`), that no task is linked twice (in `TickInv`), and
that the decrementer never sleeps past the first target (`DecrementerCovers`);
`OneShotFires` (run `Progress`) that one-shot tasks fire although a periodic one
puts itself back. Time goes on while tasks are late by less than `MaxLag` only:
that bounds how long `KTickTaskRun` may take, and `KTickAssumption` asks that
delays and periods together with it stay below half the range, without which
the wrapping comparison means nothing. `DecrementerCovers` is a property of
`CarefulSpec`: restarting the first task for an earlier time outside
`KTickTaskRun` leaves the decrementer where it was, because `KTickTaskStart`
looks only at whether the first task is another one.

## ARAM transfers: `LwpQueue`, `ARQ`

`src/libogc/arqueue.c` on the doubly linked lists of `lwp_queue.inl`, which are
modelled at the level of their pointers: a node that has left a list keeps its
links. Requests of high priority go first and whole, requests of low priority in
chunks. The engine finishes one transfer at a time and raises an interrupt,
whose callback may post again. `ArqSound` and `ServedInOrder` (run `Bus`) check the lists, the order, that the
engine is never idle with work queued and never given a second transfer, and
that "finished" means moved. `TransferReturns` (run
`Progress`) checks that synchronous posts return.
`ARQ_SetChunkSize` changes the size from 2 to 1 at any time, also between the
chunks of a request, and `ARQ_Init` sets it back.
Callers are careful, in `GiveUp`: the code itself does not keep them from
dropping a request whose chunk is moving or removing one that is not queued.

## The EXI bus (`EXI`)

`src/libogc/exi.c` serves the expansion interface: memory cards, adapters and
the broadband adapter share a channel. `EXI` models one channel with a slot.
`d` is the driver's `exibus_priv` together with the registers it reads: the
lock and its owner, the selected device, the two waiting lists (the callbacks
of `EXI_Lock` and the threads in `EXI_LockSync`), the presence stamp
`last_exi_idtime` and the cached ID with its stamp. A function that masks
interrupts from start to end is one operator on `d`; `EXI_GetID`, `EXI_Probe`,
`EXI_Attach` and `EXI_ProbeReset`, which do not, take a step per critical section
and per access to the shared stamps between (a 64-bit stamp is read and written
at once). `EXI_Unlock` and `EXI_GetID` call each
other as in the code. The slot, the end of a transfer and the 300 ms after an
insertion are the environment. A pending interrupt that is enabled is taken
before a thread enters its next critical section.

In run `Bus`, part `lock` has three clients of two devices and one card:
exclusion, wake-ups and completion of transfers (`ChannelLockSound`,
`CompletionIsReal`). Nobody identifies the slot there: an unlock whose wake-up
goes to an identification that gives up wakes nobody, which is among the hazards.

Part `id` has a thread that identifies, attaches and detaches, a second one that
identifies and uses another device of the channel, and two cards that come and
go, though not within the latency of an interrupt that is enabled.
`CachedIDMatches` says that the ID in the cache was read from a card that was in
the slot under the stamp it is cached with; `d.under` records those cards. The
comparison of stamps at the end of `EXI_GetID` is what keeps it. It allows for an
ID that was not read, because `EXI_GetID` caches what it finds in `*nId` when the
card could not be selected.

It does not follow that `EXI_GetID` returns the ID of the card in the slot. Run
`Exi_id` shows that it does not (`GetIDNotStale`): while a card is attached the
EXT interrupt clears the latch by which `__exi_probe` would notice a change. The
handler means to disable the interrupt, but shifts the mask by three times the
number of the interrupt, so it clears the latch of the next insertion as well;
the stamp stays, and the cached ID of the card that left is returned.

## Memory cards (`CardFS`, `FileStore`, `CardIO`)

`src/libogc/card.c` has two halves that are modelled apart.

**The file system (`CardFS`).** The card is a function from
sectors to contents; sectors 1-4 hold two copies of the directory and two of
the allocation table, the others data. `wa` is the driver's work area, `cd`
and `cf` say which copies it works on. An operation is a sequence of sector
commands; each action ends when the card has executed a command and the
callback has started the next, so power can fail between any two. A checksum
is a flag `ok`, the 16-bit update counters count modulo `Wrap`, a sector has
`S` units and a unit of data is (value, index). `FileStore` says what the card
promises: files that appear, disappear and are renamed at once; `IsFileStore`
says that the files a mount would find (`RecoveredFiles`, kept in the
auxiliary variable `fs`) are such a store. The instances have two names, two
directory slots and three data sectors, so that the card fills up, chains have
two blocks and slots are reused.

Run `Storage` has the parts `sound` (crashes), `faulty` (failing commands) and
`format`. They keep to what works: writes of one sector, reads that start at a
sector, counters that do not wrap. `Card_write` shows what a write of two
sectors does; a wrapping counter, reads inside a sector, a create whose table
was not written and a mount after an interrupted format are among the hazards.
A card that was found broken can be worked on like any other, as in the code, and
`CARD_Create` with a bad size (0 blocks stand for it) leaves the control block
BUSY (`Stuck`) until the card is unmounted.

**The command engine (`CardIO`).** `c` is the control block of one
slot together with the channel lock, the card and the calling thread. Every
handler is an operator on `c` that runs the callbacks the code runs, in the
code's order: `__card_exihandler` with its retries, `__card_txhandler`,
`__timeouthandler`, `__card_exthandler`, `__card_unlockedhandler`, the DSP
task that unlocks the card. A synchronous call is the steps of the thread
between its critical sections. The card executes a command, fails it, or never
finishes; one that was given up may finish late. `done` records what it
executed for the current call. A sector is read in `Segments` and written in
`Pages` commands, `cmd_retries` counts modulo `Word` (2^32 in the code, 8 in the
runs), and a mount may find no memory card, a locked one, a wrong checksum in the
SRAM, or a file system that is broken.

A card that is mounted again while it still executes a command that was given up
(`late`) can interrupt during the reads of the mount. `cmd_retries` is 0 then, and
an error status makes it wrap, so a read is sent again after the mount has
returned. The properties are stated of the behaviours without this (`Punctual`),
except that the channel is given back, which is checked in all; the case is among
the hazards.

Runs `Bus` and `Progress` have slot B, where the card is alone on its channel:
up to four calls, errors, timeouts and a removal at any time but inside
`CARD_MountAsync`. Fairness is weak fairness of the thread, of transfers,
interrupts, alarms and the DSP; none for the card. What a removal inside
`CARD_MountAsync`, a second device on the channel (slot A) and `CARD_Unmount`
during an operation do is among the hazards.

## Proofs

Eight modules hold theorems, for any number of threads, mutexes, condition
variables, priorities, semaphores, mailboxes, slots, messages and tasks. `Lists`
defines the few list operators the proofs need (`Least`, `Linked`, `LinkAt`,
`UnlinkAt`, `Distinct`) without recursion.

**The kernel** (`KSync`), in five modules:

- `KSyncLemmas`: what inserting into and removing from a list does to its
  members and its order, how the processor changes hands, and which steps cannot
  disturb the invariant.
- `KSyncSteps`: one lemma per kernel function, that it preserves `IInv`.
- `KSyncPriority`: the same for `PrioInv`, given `IInv`.
- `KSyncBest`: the same for `BestInv`, given both, under `CarefulNext`.
- `KSync_proofs`: the initial and next-state lemmas, the theorems, and
  (`LeftAlone`) which steps of the kernel can touch the wait queues of
  semaphores and mailboxes.

`InductiveInvariant` is `Spec => []IInv`. The safety properties are not
inductive. `WaitersFollowOwner` says where the waiters of a mutex are between
kernel calls; halfway through a hand-over they are split between two queues, and
`WaiterShape` says how. `LockReturnsOwned` needs to know that a thread in
`KMutexLock` that no longer waits owns the mutex or is being given it
(`LockShape`); joins need that the joined thread stays finished (`JoinShape`); a
timer's thread must still be inside the call (`TimerShape`); and the interrupt
return needs to know who can run at every point (`CpuShape`, `IdleReady`).
`OpShape`, `AtShape` and `OwnerShape` give the kernel's locals and the saved
places their meaning. `TypeCorrect`, `QueuesIntact`, `WaitersAreFollowed`,
`LocksAreOwned`, `JoinsAreFinished`, `TimersAreLive` and `NextContextIsRunnable`
follow.

Priorities have an invariant of their own. `PriorityInheritance` is about quiet
moments; during `KThreadUpdateDynamicPrio` one thread of a chain has an old
priority, and during a hand-over up to two have. `PrioInv` says that every
thread outside this set (`Unsettled`) has the priority that its base and the
head of its queue give it, and that all lists are ordered throughout, which is
what makes the head of a queue its best waiter. `PrioritiesInvariant`,
`ListsAreOrdered`, `PrioritiesAreInherited` and the action property
`HandoversGoToTheBest` are about `Spec`, with chains and cycles of owners of any
length.

`BestThreadAlwaysRuns` is `CarefulSpec => []BestThreadRuns`. Its invariant
`BestInv` says, for each kernel function in progress, which better threads there
may be and that the function still holds on to one of them: the thread
remembered by a wake-up, the thread whose priority is being set, the owner being
raised, the next owner of a mutex.

**Semaphores** (`LwpSem_proofs`): `SemInv` adds to the count the wake-up that a
post has counted but not yet carried out. `SemaphoreInvariant`,
`CountsMatchWaiters`, and `SemaphoresAreSemaphores`, the refinement of
`Semaphore` step by step: every kernel step and every call is a step of the
abstract semaphore or changes nothing it can see.

**Mailboxes** (`KMailbox_proofs`), assuming `OneReceiver`: `WakeUpsDue` in
`MailInv` ties `recv_waiters` and `pending_slots` to where the one receiver is,
a sender's unfinished wake-up included. `MailboxInvariant`, `NoWakeUpIsLost`, and
`MailboxesAreChannels`, the refinement of `Channel`. Without `OneReceiver` they
are false (run `Mailbox_two`).

**Tick tasks** (`KTick_proofs`): the wrapping comparison is not transitive, so
`TickInv` measures every listed target from the far end of the past (`Ahead`)
and says that these distances are below half the range (`InWindow`) and in order
(`ByTarget`). `TaskListInvariant` and `TasksAreSorted` are about `Spec`,
`NoTaskOversleeps` about `CarefulSpec`.

TLC checks all the inductive invariants as well (`Kernel_safety`,
`Kernel_sched`, `Semaphores`, `Mailboxes`, `Timers`). The proofs assume what the
modules' named assumptions say: `KThreadAssumption` (main and idle are different
threads, the sets of objects are disjoint, priorities are numbers),
`LwpSemAssumption`, `KMailboxAssumption` (fewer slots than the counter's range)
and `KTickAssumption` (delays below half the range of the time base).

Only model-checked: liveness (`Kernel_progress`, `Progress`), which the prover
cannot handle under fairness; and the drivers. `EXI`, `CardIO` and `CardFS`
compute with recursive operators (functions that call each other in the code),
and the prover loses its arithmetic and set backend in modules that reach one;
`ARQ` has no such obstacle, but is not proved yet. The runs `Bus`, `Card_write`
and `Storage` check them.

## Not modelled

The models cover the kernel, semaphores, the ARAM queue, the EXI bus and the
memory card: a small part of the library. The other components are listed in
`PROJECT.json` with status `not_modelled`. Most of them (DVD, IPC, USB, SD
cards, serial interface, audio, the network and Bluetooth stacks) have state
machines that could be modelled the same way and are not yet. Codecs, graphics
and text output are mostly arithmetic, tables and register writes.
