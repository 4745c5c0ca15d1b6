------------------------------- MODULE CardFS -------------------------------
(***************************************************************************)
(* The file system of a memory card: src/libogc/card.c.  The card has two  *)
(* copies of the directory (sectors 1, 2) and two of the block allocation  *)
(* table (3, 4); an operation changes the current copy in the work area,   *)
(* erases its sector, writes it and makes the other copy current.  Power   *)
(* may fail, or the card leave, between any two of these steps; a mount    *)
(* then chooses among the copies.                                          *)
(*                                                                         *)
(* The control block is busy from the call to the callback, so operations  *)
(* do not overlap and each callback is an action; how a command reaches    *)
(* the card is CardIO.  A sector is bad from its erasure until it is       *)
(* written completely.  The header sector carries nothing a mount checks.  *)
(***************************************************************************)
EXTENDS Integers, Sequences, FiniteSets, FiniteSetsExt, SequencesExt, TLC

CONSTANTS Names, Values, NULL,
          MaxFiles,    \* entries of the directory (127)
          Blocks,      \* card->blocks
          S,           \* units (512 bytes) per sector
          Wrap,        \* 2^16: the update counts are u16
          Faults,      \* the kinds of failure: "io", "start"
          MaxOps, MaxCrashes

CARD_SYSAREA == 5
Data == CARD_SYSAREA..(Blocks - 1)
END == Blocks          \* 0xffff: no block

VARIABLES disk,    \* sector -> content
          wa,      \* the work area: the copies 1..4
          cd, cf,  \* curr_dir, curr_fat
          mnt,     \* "no", or what the mount returned
          op,      \* the operation under way
          file,    \* the caller's card_file
          buf,     \* the caller's buffer of a read
          last,    \* the last result the caller got
          ops, crashes

vars == <<disk, wa, cd, cf, mnt, op, file, buf, last, ops, crashes>>

Slots == 1..MaxFiles
Other(c) == IF c < 3 THEN 3 - c ELSE 7 - c
Idle == [pc |-> "idle"]
Stuck == [pc |-> "stuck"]     \* the control block is BUSY and nothing under way
NoResult == [api |-> "none", ret |-> "READY", arg |-> <<>>]
NoFile == [num |-> 0, off |-> 0, blk |-> 0, len |-> 0]

---------------------------------------------------------------------------
(* The copies.                                                             *)
NoEntries == [i \in Slots |-> NULL]
ErasedDir == [ok |-> FALSE, upd |-> Wrap - 1, ent |-> NoEntries]
ErasedFat == [ok |-> FALSE, upd |-> Wrap - 1, free |-> Wrap - 1, last |-> Wrap - 1, fat |-> [b \in Data |-> END]]
Erased(s) == IF s \in {1, 2} THEN ErasedDir ELSE IF s \in {3, 4} THEN ErasedFat ELSE NULL

FormattedDir == [ok |-> TRUE, upd |-> Wrap - 1, ent |-> NoEntries]
FormattedFatFull(c) == [ok |-> TRUE, upd |-> c, free |-> Blocks, last |-> 4, fat |-> [b \in Data |-> 0]]
FormattedFat(c) == [ok |-> TRUE, upd |-> c, free |-> Cardinality(Data), last |-> 4, fat |-> [b \in Data |-> 0]]

GoodDir(d) == d.ok
GoodFat(f) == f.ok /\ f.free = Cardinality({b \in Data : f.fat[b] = 0})

StaleNewest(bad, x, y, lo) == IF bad # {} THEN Max(bad) ELSE IF x.upd < y.upd THEN lo + 1 ELSE lo

(* The copy a mount overwrites with the other one, and works on.           *)
Stale(bad, x, y, lo) == IF bad # {} THEN Max(bad) ELSE IF x.upd < y.upd THEN lo ELSE lo + 1
BadDirs(m) == {c \in {1, 2} : ~GoodDir(m[c])}
BadFats(m) == {c \in {3, 4} : ~GoodFat(m[c])}
StaleDir(m) == Stale(BadDirs(m), m[1], m[2], 1)
StaleFat(m) == Stale(BadFats(m), m[3], m[4], 3)

Verified(m) == IF Cardinality(BadDirs(m)) + Cardinality(BadFats(m)) <= 2 THEN "READY" ELSE "BROKEN"

DirChanged(d) == [d EXCEPT !.upd = (@ + 1) % Wrap, !.ok = TRUE]
FatChanged(f) == [f EXCEPT !.upd = (@ + 1) % Wrap, !.ok = TRUE]

Named(d, n) == {i \in Slots : d.ent[i] # NULL /\ d.ent[i].name = n}

---------------------------------------------------------------------------
(* Chains of blocks.                                                       *)
RECURSIVE Chain(_, _)
Chain(fat, b) == IF b \notin Data THEN <<b>> ELSE <<b>> \o Chain([fat EXCEPT ![b] = 0], fat[b])

(* The free blocks in the order in which they are taken.                   *)
FreeOrder(f) ==
  LET from == IF f.last + 1 \in Data THEN f.last + 1 ELSE CARD_SYSAREA
      turn == [i \in 1..Cardinality(Data) |-> CARD_SYSAREA + ((from - CARD_SYSAREA + i - 1) % Cardinality(Data))]
  IN  SelectSeq(turn, LAMBDA b : f.fat[b] = 0)

Linked(fat, s) ==
  [b \in Data |-> IF b \in Range(s) THEN LET i == CHOOSE j \in 1..Len(s) : s[j] = b
                                      IN  IF i < Len(s) THEN s[i + 1] ELSE END
                 ELSE fat[b]]

AllocUncounted(f, k) ==
  LET s == SubSeq(FreeOrder(f), 1, k) IN [f EXCEPT !.last = s[k], !.fat = Linked(@, s)]

(* __card_allocblock when the free count is right.                         *)
Alloc(f, k) ==
  LET s == SubSeq(FreeOrder(f), 1, k) IN [f EXCEPT !.free = @ - k, !.last = s[k], !.fat = Linked(@, s)]

FreedFirst(f, b) == [f EXCEPT !.free = @ + 1, !.fat[b] = 0]

(* __card_freeblock: the chain is freed as far as it can be followed.      *)
Freed(f, b) ==
  LET c == Front(Chain(f.fat, b))
  IN  [f EXCEPT !.free = @ + Len(c), !.fat = [x \in Data |-> IF x \in Range(c) THEN 0 ELSE f.fat[x]]]
FreedAll(f, b) == Last(Chain(f.fat, b)) = END

---------------------------------------------------------------------------
(* Starting and ending an operation.                                       *)
(* __card_getcntrlblock: a card that is broken is worked on all the same.  *)
Ready == mnt # "no" /\ op = Idle /\ ops < MaxOps
Called == ops' = ops + 1
Finish(ret) == op' = Idle /\ last' = [api |-> op.api, ret |-> ret, arg |-> op.arg]
FailsNow(api, ret) == op' = Idle /\ last' = [api |-> api, ret |-> ret, arg |-> <<>>]
Start(o) == op' = o /\ last' = NoResult

(* Where an operation goes on when a system sector has been written (or    *)
(* could not be), given the work area at that time.                        *)
Continue(W, ret) ==
  \/ /\ op.then = "done" \/ (op.then = "free" /\ ret # "READY")
     /\ wa' = W /\ Finish(ret) /\ UNCHANGED file
  \/ /\ op.then = "entry"       \* __card_createfatcallback: ret is not looked at
     /\ wa' = [W EXCEPT ![cd] = DirChanged([@ EXCEPT !.ent[file.num] =
                  [name |-> op.arg[1], block |-> op.blk, len |-> op.arg[2]]])]
     /\ file' = [file EXCEPT !.off = 0, !.blk = op.blk]
     /\ op' = [op EXCEPT !.pc = "direrase", !.then = "done"]
     /\ UNCHANGED last
  \/ /\ op.then = "free" /\ ret = "READY" /\ ~FreedAll(W[cf], op.blk)
     /\ wa' = [W EXCEPT ![cf] = Freed(@, op.blk)]
     /\ Finish("BROKEN") /\ UNCHANGED file
  \/ /\ op.then = "free" /\ ret = "READY" /\ FreedAll(W[cf], op.blk)   \* __delete_callback
     /\ wa' = [W EXCEPT ![cf] = FatChanged(Freed(@, op.blk))]
     /\ op' = [op EXCEPT !.pc = "faterase", !.then = "done"]
     /\ UNCHANGED <<file, last>>

---------------------------------------------------------------------------
(* Sector updates: each action ends when the card has executed the command *)
(* and the callback has started the next one.                              *)
DirErasedOther ==
  /\ op.pc = "direrase"
  /\ disk' = [disk EXCEPT ![Other(cd)] = Erased(cd)]
  /\ op' = [op EXCEPT !.pc = "dirwrite"]
  /\ UNCHANGED <<wa, cd, cf, mnt, file, buf, last, ops, crashes>>

DirErased ==
  /\ op.pc = "direrase"
  /\ disk' = [disk EXCEPT ![cd] = Erased(cd)]
  /\ op' = [op EXCEPT !.pc = "dirwrite"]
  /\ UNCHANGED <<wa, cd, cf, mnt, file, buf, last, ops, crashes>>

DirWrittenInPlace ==
  /\ op.pc = "dirwrite"
  /\ disk' = [disk EXCEPT ![cd] = wa[cd]]
  /\ Continue(wa, "READY")
  /\ UNCHANGED <<cd, cf, mnt, buf, ops, crashes>>

DirWritten ==
  /\ op.pc = "dirwrite"
  /\ disk' = [disk EXCEPT ![cd] = wa[cd]]
  /\ cd' = Other(cd)
  /\ Continue([wa EXCEPT ![Other(cd)] = wa[cd]], "READY")
  /\ UNCHANGED <<cf, mnt, buf, ops, crashes>>

FatErased ==
  /\ op.pc = "faterase"
  /\ disk' = [disk EXCEPT ![cf] = Erased(cf)]
  /\ op' = [op EXCEPT !.pc = "fatwrite"]
  /\ UNCHANGED <<wa, cd, cf, mnt, file, buf, last, ops, crashes>>

FatWrittenOneSided ==
  /\ op.pc = "fatwrite"
  /\ disk' = [disk EXCEPT ![cf] = wa[cf]]
  /\ cf' = Other(cf)
  /\ Continue(wa, "READY")
  /\ UNCHANGED <<cd, mnt, buf, ops, crashes>>

FatWritten ==
  /\ op.pc = "fatwrite"
  /\ disk' = [disk EXCEPT ![cf] = wa[cf]]
  /\ cf' = Other(cf)
  /\ Continue([wa EXCEPT ![Other(cf)] = wa[cf]], "READY")
  /\ UNCHANGED <<cd, mnt, buf, ops, crashes>>

(* A command fails: an erasure may have happened or not, a sector that was *)
(* being written is bad.                                                   *)
SystemSectorFails ==
  /\ "io" \in Faults
  /\ \E c \in {cd, cf} :
       /\ op.pc \in (IF c = cd THEN {"direrase", "dirwrite"} ELSE {"faterase", "fatwrite"})
       /\ disk' = [disk EXCEPT ![c] = Erased(c)] \/ (op.pc \in {"direrase", "faterase"} /\ UNCHANGED disk)
  /\ Continue(wa, "IOERROR")
  /\ UNCHANGED <<cd, cf, mnt, buf, ops, crashes>>

---------------------------------------------------------------------------
(* Creating, deleting, renaming.                                           *)

(* A bad size, which k = 0 stands for, is refused after the control block  *)
(* was taken and before it is put back.                                    *)
CARD_Create(n, k) ==
  LET d == wa[cd]  f == wa[cf]  free == {i \in Slots : d.ent[i] = NULL}
  IN
  /\ Ready /\ Called
  /\ \/ k = 0 /\ op' = Stuck /\ UNCHANGED <<last, wa, file>>
     \/ k > 0 /\ Named(d, n) # {} /\ FailsNow("create", "EXIST") /\ UNCHANGED <<wa, file>>
     \/ k > 0 /\ Named(d, n) = {} /\ free = {} /\ FailsNow("create", "NOENT") /\ UNCHANGED <<wa, file>>
     \/ k > 0 /\ Named(d, n) = {} /\ free # {} /\ f.free < k /\ FailsNow("create", "INSSPACE") /\ UNCHANGED <<wa, file>>
     \/ /\ k > 0 /\ Named(d, n) = {} /\ free # {} /\ f.free >= k /\ Len(FreeOrder(f)) < k
        /\ wa' = [wa EXCEPT ![cf].fat = Linked(@, FreeOrder(f))]
        /\ file' = [file EXCEPT !.num = Min(free)]
        /\ FailsNow("create", "BROKEN")
     \/ /\ k > 0 /\ Named(d, n) = {} /\ free # {} /\ f.free >= k /\ Len(FreeOrder(f)) >= k
        /\ wa' = [wa EXCEPT ![cf] = FatChanged(Alloc(f, k))]
        /\ file' = [file EXCEPT !.num = Min(free)]
        /\ Start([pc |-> "faterase", then |-> "entry", api |-> "create", arg |-> <<n, k>>,
                  blk |-> FreeOrder(f)[1]])
  /\ UNCHANGED <<disk, cd, cf, mnt, buf, crashes>>

CARD_Delete(n) ==
  LET d == wa[cd]
  IN
  /\ Ready /\ Called
  /\ \/ Named(d, n) = {} /\ FailsNow("delete", "NOFILE") /\ UNCHANGED wa
     \/ \E i \in Named(d, n) :
          /\ i = Min(Named(d, n))
          /\ wa' = [wa EXCEPT ![cd] = DirChanged([d EXCEPT !.ent[i] = NULL])]
          /\ Start([pc |-> "direrase", then |-> "free", api |-> "delete", arg |-> <<n>>, blk |-> d.ent[i].block])
  /\ UNCHANGED <<disk, cd, cf, mnt, file, buf, crashes>>

(* CARD_SetStatusEx; with the file's own name also CARD_SetStatus and      *)
(* CARD_SetAttributes, whose other fields are not modelled.                *)
CARD_SetStatusEx(i, m) ==
  LET d == wa[cd]
  IN
  /\ Ready /\ Called
  /\ d.ent[i] # NULL
  /\ \/ Named(d, m) \ {i} # {} /\ FailsNow("rename", "EXIST") /\ UNCHANGED wa
     \/ /\ Named(d, m) \ {i} = {}
        /\ wa' = [wa EXCEPT ![cd] = DirChanged([d EXCEPT !.ent[i].name = m])]
        /\ Start([pc |-> "direrase", then |-> "done", api |-> "rename", arg |-> <<m>>, blk |-> END])
  /\ UNCHANGED <<disk, cd, cf, mnt, file, buf, crashes>>

CARD_Open(n) ==
  LET d == wa[cd]
  IN
  /\ Ready /\ Called
  /\ \/ Named(d, n) = {} /\ FailsNow("open", "NOFILE") /\ file' = NoFile
     \/ \E i \in Named(d, n) :
          /\ i = Min(Named(d, n))
          /\ \/ d.ent[i].block \notin Data /\ FailsNow("open", "BROKEN") /\ file' = NoFile
             \/ /\ d.ent[i].block \in Data
                /\ file' = [num |-> i, off |-> 0, blk |-> d.ent[i].block, len |-> d.ent[i].len * S]
                /\ op' = Idle /\ last' = NoResult
  /\ UNCHANGED <<disk, wa, cd, cf, mnt, buf, crashes>>

CARD_Close ==
  /\ mnt # "no" /\ op = Idle /\ file # NoFile
  /\ file' = NoFile
  /\ UNCHANGED <<disk, wa, cd, cf, mnt, op, buf, last, ops, crashes>>

---------------------------------------------------------------------------
(* __card_seek: offsets and lengths in units.                              *)
RECURSIVE Follow(_, _, _)
Follow(f, fat, target) ==
  IF f.off >= target \/ f.blk \notin Data THEN f
  ELSE Follow([f EXCEPT !.off = @ + S, !.blk = fat[f.blk]], fat, target)

SeekForward(f, len, off) == Follow([f EXCEPT !.len = len], wa[cf].fat, S * (off \div S))

Seek(f, len, off) ==
  Follow(IF off < f.off THEN [f EXCEPT !.len = len, !.off = 0, !.blk = wa[cd].ent[f.num].block]
         ELSE [f EXCEPT !.len = len],
         wa[cf].fat, S * (off \div S))

OutOfFile(len, off) == LET total == wa[cd].ent[file.num].len * S IN total <= off \/ total < off + len

(* A call on an open file whose entry exists.  Continues with the file at  *)
(* the right block, or ends.                                               *)
OnFile(api, len, off, Go(_)) ==
  LET f == [Seek(file, len, off) EXCEPT !.off = off]
      Fails(ret, g) == FailsNow(api, ret) /\ file' = g /\ UNCHANGED buf
  IN
  /\ Ready /\ Called
  /\ file.num \in Slots /\ wa[cd].ent[file.num] # NULL
  /\ \/ file.blk \notin Data /\ Fails("FATAL_ERROR", file)
     \/ file.blk \in Data /\ OutOfFile(len, off) /\ Fails("LIMIT", file)
     \/ file.blk \in Data /\ ~OutOfFile(len, off) /\ f.blk \notin Data /\ Fails("BROKEN", Seek(file, len, off))
     \/ file.blk \in Data /\ ~OutOfFile(len, off) /\ f.blk \in Data /\ file' = f /\ Go(f)
  /\ UNCHANGED <<disk, wa, cd, cf, mnt, crashes>>

(* Writing whole sectors; vals is the buffer.                              *)
CARD_Write(vals, off) ==
  OnFile("write", Len(vals) * S, off * S, LAMBDA f :
    /\ Start([pc |-> "erase", api |-> "write", arg |-> <<wa[cd].ent[f.num].name, off, vals>>, pos |-> 1])
    /\ UNCHANGED buf)

SectorErased ==
  /\ op.pc = "erase"
  /\ disk' = [disk EXCEPT ![file.blk] = NULL]
  /\ op' = [op EXCEPT !.pc = "write"]
  /\ UNCHANGED <<wa, cd, cf, mnt, file, buf, last, ops, crashes>>

(* file->len after a sector, as __write_callback computes it.              *)
LenLeft(len) == S - len

SectorWritten ==
  /\ op.pc = "write"
  /\ disk' = [disk EXCEPT ![file.blk] = op.arg[3][op.pos]]
  /\ LET left == LenLeft(file.len)
     IN  \/ /\ left <= 0
            /\ file' = [file EXCEPT !.len = left]
            /\ wa' = [wa EXCEPT ![cd] = DirChanged(@)]        \* last_modified
            /\ op' = [op EXCEPT !.pc = "direrase"] @@ [then |-> "done"]
            /\ UNCHANGED last
         \/ /\ left > 0
            /\ file' = [file EXCEPT !.len = left, !.off = @ + S, !.blk = wa[cf].fat[@]]
            /\ IF file'.blk \in Data THEN op' = [op EXCEPT !.pc = "erase", !.pos = @ + 1] /\ UNCHANGED last
               ELSE Finish("BROKEN")
            /\ UNCHANGED wa
  /\ UNCHANGED <<cd, cf, mnt, buf, ops, crashes>>

DataSectorFails ==
  /\ "io" \in Faults /\ op.pc \in {"erase", "write"}
  /\ disk' = [disk EXCEPT ![file.blk] = NULL]
  /\ Finish("IOERROR")
  /\ UNCHANGED <<wa, cd, cf, mnt, file, buf, ops, crashes>>

Units(v, k) == [i \in 1..k |-> <<v, i - 1>>]
RestOfSector(off) == S - (off % S)

CARD_Read(len, off) ==
  OnFile("read", len, off, LAMBDA f :
    /\ Start([pc |-> "read", api |-> "read", arg |-> <<wa[cd].ent[f.num].name, off, len>>,
              now |-> Min({len, RestOfSector(f.off)})])
    /\ buf' = <<>>)

(* __read_callback.  Reading starts at the start of the block whatever the *)
(* offset is, and a failure to start the next read is not reported.        *)
SectorRead ==
  /\ op.pc = "read"
  /\ buf' = buf \o Units(disk[file.blk], op.now)
  /\ LET left == file.len - RestOfSector(file.off)
     IN  \/ left <= 0 /\ file' = [file EXCEPT !.len = left] /\ Finish("READY")
         \/ /\ left > 0
            /\ file' = [file EXCEPT !.len = left, !.off = @ + RestOfSector(@), !.blk = wa[cf].fat[@]]
            /\ \/ file'.blk \notin Data /\ Finish("BROKEN")
               \/ file'.blk \in Data /\ "start" \in Faults /\ Finish("READY")
               \/ /\ file'.blk \in Data
                  /\ op' = [op EXCEPT !.now = Min({left, S})] /\ UNCHANGED last
  /\ UNCHANGED <<disk, wa, cd, cf, mnt, ops, crashes>>

ReadFails ==
  /\ "io" \in Faults /\ op.pc = "read"
  /\ Finish("IOERROR")
  /\ UNCHANGED <<disk, wa, cd, cf, mnt, file, buf, ops, crashes>>

---------------------------------------------------------------------------
(* Formatting: five sectors erased, five written, header first.            *)
CARD_Format ==
  /\ mnt # "no" /\ op = Idle /\ ops < MaxOps /\ Called
  /\ wa' = [c \in 1..4 |-> IF c < 3 THEN FormattedDir ELSE FormattedFat(c - 3)]
  /\ Start([pc |-> "format", api |-> "format", arg |-> <<>>, step |-> 0])
  /\ UNCHANGED <<disk, cd, cf, mnt, file, buf, crashes>>

(* __format_callback                                                       *)
FormatStep ==
  /\ op.pc = "format"
  /\ disk' = IF op.step < CARD_SYSAREA THEN [disk EXCEPT ![op.step] = Erased(op.step)]
             ELSE IF op.step = CARD_SYSAREA THEN disk
             ELSE [disk EXCEPT ![op.step - CARD_SYSAREA] = wa[op.step - CARD_SYSAREA]]
  /\ IF op.step < 9
     THEN op' = [op EXCEPT !.step = @ + 1] /\ UNCHANGED <<wa, cd, cf, mnt, last>>
     ELSE /\ wa' = [wa EXCEPT ![1] = wa[2], ![3] = wa[4]]
          /\ cd' = 1 /\ cf' = 3 /\ mnt' = "READY"
          /\ Finish("READY")
  /\ UNCHANGED <<file, buf, ops, crashes>>

FormatFails ==
  /\ "io" \in Faults /\ op.pc = "format"
  /\ disk' = [disk EXCEPT ![op.step % CARD_SYSAREA] = Erased(op.step % CARD_SYSAREA)]
  /\ Finish("IOERROR")
  /\ UNCHANGED <<wa, cd, cf, mnt, file, buf, ops, crashes>>

---------------------------------------------------------------------------
(* Mounting, and losing the card or the power.                             *)
CARD_Mount ==
  /\ mnt = "no"
  /\ cd' = StaleDir(disk) /\ cf' = StaleFat(disk)
  /\ wa' = [c \in 1..4 |-> IF c \in {cd', cf'} THEN disk[Other(c)] ELSE disk[c]]
  /\ mnt' = Verified(disk)
  /\ UNCHANGED <<disk, op, file, buf, last, ops, crashes>>

(* ... or CARD_Unmount, when no command is under way                       *)
PowerOff ==
  /\ mnt # "no"
  /\ op \in {Idle, Stuck} \/ crashes < MaxCrashes
  /\ crashes' = IF op \in {Idle, Stuck} THEN crashes ELSE crashes + 1
  /\ mnt' = "no" /\ op' = Idle /\ file' = NoFile /\ buf' = <<>>
  /\ wa' = [c \in 1..4 |-> Erased(c)] /\ cd' = 1 /\ cf' = 3
  /\ last' = IF last.api = "read" THEN NoResult ELSE last
  /\ UNCHANGED <<disk, ops>>

(* A card that was formatted and used elsewhere, with no file.             *)
Init ==
  /\ disk = [s \in 0..(Blocks - 1) |->
              CASE s \in {1, 2} -> [FormattedDir EXCEPT !.upd = s - 1]
                [] s \in {3, 4} -> FormattedFat(s - 3)
                [] OTHER -> NULL]
  /\ wa = [c \in 1..4 |-> Erased(c)] /\ cd = 1 /\ cf = 3
  /\ mnt = "no" /\ op = Idle /\ file = NoFile /\ buf = <<>> /\ last = NoResult
  /\ ops = 0 /\ crashes = 0

---------------------------------------------------------------------------
(* What a mount would find on the card.                                    *)
RecoveredDir(m) == m[Other(StaleDir(m))]
RecoveredFat(m) == m[Other(StaleFat(m))]
Used(d) == {i \in Slots : d.ent[i] # NULL}
FileBlocks(e, f) == Front(Chain(f.fat, e.block))
FilesIn(m, d, f) ==
  [n \in {d.ent[i].name : i \in Used(d)} |->
     LET c == FileBlocks(d.ent[Min(Named(d, n))], f) IN [i \in 1..Len(c) |-> m[c[i]]]]
FilesOn(m) == FilesIn(m, RecoveredDir(m), RecoveredFat(m))
RecoveredFiles == FilesOn(disk)

(* What a mount would find is consistent: both tables have a good copy,    *)
(* every entry's chain has the length of the file and ends, no block is in *)
(* two files, and free blocks are in none (order of the updates in         *)
(* CARD_Create and CARD_Delete).                                           *)
ChainsSound ==
  /\ Cardinality(BadDirs(disk)) <= 1 /\ Cardinality(BadFats(disk)) <= 1
  /\ LET d == RecoveredDir(disk)  f == RecoveredFat(disk)
     IN  /\ \A i \in Used(d) : /\ Last(Chain(f.fat, d.ent[i].block)) = END
                             /\ Len(FileBlocks(d.ent[i], f)) = d.ent[i].len
         /\ \A i, j \in Used(d) :
              i # j => Range(FileBlocks(d.ent[i], f)) \cap Range(FileBlocks(d.ent[j], f)) = {}

(* A mounted card works on the copies that are not the good ones: as long  *)
(* as nobody formats it, the other directory and the other table on the    *)
(* card are good (Stale in __card_checkdir and __card_checkfat, the flip   *)
(* in __card_dirwritecallback and __card_fatwritecallback).                *)
WorksOnSpareCopy ==
  mnt = "READY" /\ op.pc # "format" => GoodDir(disk[Other(cd)]) /\ GoodFat(disk[Other(cf)])

(* When CARD_Format reports success the card is sound and empty, whatever  *)
(* it was before.                                                          *)
FormatRestores ==
  last.api = "format" /\ last.ret = "READY" => BadDirs(disk) \cup BadFats(disk) = {} /\ Used(RecoveredDir(disk)) = {}

(* A result READY holds on the card, also when power fails right after:    *)
(* a created file is there, a deleted one is gone, written sectors have    *)
(* the caller's data.                                                      *)
Acknowledged ==
  last.ret = "READY" =>
    LET f == RecoveredFiles  a == last.arg
    IN  /\ last.api = "create" => a[1] \in DOMAIN f /\ Len(f[a[1]]) = a[2]
        /\ last.api = "delete" => a[1] \notin DOMAIN f
        /\ last.api = "rename" => a[1] \in DOMAIN f
        /\ last.api = "write" => \A i \in 1..Len(a[3]) : f[a[1]][a[2] + i] = a[3][i]

(* A read that reports READY has put into the buffer what the file holds   *)
(* at the given offset, across sectors (__card_seek, __read_callback).     *)
ReadsRight ==
  last.api = "read" /\ last.ret = "READY" =>
    LET a == last.arg
    IN  buf = [i \in 1..a[3] |-> <<RecoveredFiles[a[1]][1 + (a[2] + i - 1) \div S], (a[2] + i - 1) % S>>]

(* Without a failure no block is lost: what the table says is in use       *)
(* belongs to a file whenever the card is not busy.                        *)
NoLeak ==
  mnt = "READY" /\ op = Idle /\ crashes = 0 =>
    {b \in Data : wa[cf].fat[b] # 0} =
      UNION {Range(FileBlocks(wa[cd].ent[i], wa[cf])) : i \in Used(wa[cd])}
=============================================================================
