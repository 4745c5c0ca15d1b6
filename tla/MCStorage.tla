----------------------------- MODULE MCStorage -----------------------------
(***************************************************************************)
(* Instances for TLC of the storage drivers: the file system of a memory   *)
(* card.  A behaviour is about one of the Parts and only that component    *)
(* moves.                                                                  *)
(***************************************************************************)
EXTENDS Naturals, FiniteSets

CONSTANTS Parts,
          NULL                 \* a model value

VARIABLES part,
  disk, wa, cd, cf, mnt, op, file, buf, last, ops, crashes,     \* CardFS
  fs                           \* the files on the card: always RecoveredFiles

cardVars == <<disk, wa, cd, cf, mnt, op, file, buf, last, ops, crashes, fs>>
vars == <<part, cardVars>>

(* Without and with commands that fail.                                    *)
Sound == INSTANCE CardFS WITH
  Names <- {"a", "b"}, Values <- {"v"}, MaxFiles <- 2, Blocks <- 8, S <- 2, Wrap <- 100,
  Faults <- {}, MaxOps <- 5, MaxCrashes <- 1
Faulty == INSTANCE CardFS WITH
  Names <- {"a", "b"}, Values <- {"v"}, MaxFiles <- 2, Blocks <- 8, S <- 2, Wrap <- 100,
  Faults <- {"io", "start"}, MaxOps <- 4, MaxCrashes <- 1

---------------------------------------------------------------------------
(* The open file is not deleted.                                           *)
OpenNames == {wa[cd].ent[i].name : i \in {j \in Sound!Slots : j = file.num /\ wa[cd].ent[j] # NULL}}

SoundNext ==
  \/ Sound!DirErased \/ Sound!DirWritten \/ Sound!FatErased \/ Sound!FatWritten
  \/ Sound!SectorErased \/ Sound!SectorWritten \/ Sound!SectorRead
  \/ \E k \in {0, 1, 2} : Sound!CARD_Create("a", k)
  \/ Sound!CARD_Create("b", 1)
  \/ \E n \in {"a", "b"} : (n \notin OpenNames /\ Sound!CARD_Delete(n)) \/ Sound!CARD_Open(n)
  \/ \E i \in Sound!Slots, m \in {"a", "b"} : Sound!CARD_SetStatusEx(i, m)
  \/ Sound!CARD_Close
  \/ \E off \in 0..1 : Sound!CARD_Write(<<"v">>, off)
  \/ \E r \in {<<4, 0>>, <<1, 0>>, <<2, 2>>} : Sound!CARD_Read(r[1], r[2])
  \/ Sound!CARD_Mount \/ Sound!PowerOff

(* Commands fail, except the update of the table in CARD_Create.           *)
FaultyNext ==
  \/ Faulty!DirErased \/ Faulty!DirWritten \/ Faulty!FatErased \/ Faulty!FatWritten
  \/ Faulty!SectorErased \/ Faulty!SectorWritten \/ Faulty!SectorRead
  \/ \E n \in {"a", "b"}, k \in {1, 2} : Faulty!CARD_Create(n, k)
  \/ \E n \in {"a", "b"} : (n \notin OpenNames /\ Faulty!CARD_Delete(n)) \/ Faulty!CARD_Open(n)
  \/ Faulty!CARD_Write(<<"v">>, 0) \/ Faulty!CARD_Read(4, 0)
  \/ Faulty!CARD_Mount \/ Faulty!PowerOff \/ Faulty!DataSectorFails \/ Faulty!ReadFails
  \/ op.pc \in {"direrase", "dirwrite", "faterase", "fatwrite"} /\ op.then # "entry"
     /\ Faulty!SystemSectorFails

(* Formatting, interrupted or failing, and files that are created.         *)
FormatNext ==
  \/ Faulty!CARD_Mount \/ Faulty!PowerOff \/ Faulty!CARD_Format \/ Faulty!FormatStep \/ Faulty!FormatFails
  \/ Faulty!DirErased \/ Faulty!DirWritten \/ Faulty!FatErased \/ Faulty!FatWritten
  \/ \E k \in {1, 2} : Faulty!CARD_Create("a", k)

(* A write of two sectors.                                                 *)
LongNext ==
  \/ Sound!DirErased \/ Sound!DirWritten \/ Sound!FatErased \/ Sound!FatWritten
  \/ Sound!SectorErased \/ Sound!SectorWritten
  \/ Sound!CARD_Mount \/ Sound!CARD_Create("a", 2) \/ Sound!CARD_Open("a")
  \/ Sound!CARD_Write(<<"v", "v">>, 0)

Init == part \in Parts /\ Sound!Init /\ fs = Sound!RecoveredFiles
Next ==
  /\ \/ /\ part = "sound" /\ SoundNext /\ fs' = Sound!FilesOn(disk')
     \/ /\ part = "faulty" /\ FaultyNext /\ UNCHANGED fs
     \/ /\ part = "format" /\ FormatNext /\ UNCHANGED fs
  /\ UNCHANGED part
Spec == Init /\ [][Next]_vars
LongSpec == Init /\ [][LongNext /\ UNCHANGED <<part, fs>>]_vars

---------------------------------------------------------------------------
(* What a mount would find on the card is consistent whatever was cut      *)
(* short: the order of the updates in CARD_Create and CARD_Delete, the     *)
(* spare copies of directory and table, the count of free blocks.          *)
CardConsistent ==
  /\ part \in {"sound", "faulty"} => Sound!ChainsSound /\ Sound!WorksOnSpareCopy
  /\ part = "sound" => Sound!NoLeak
  /\ part = "format" => Faulty!FormatRestores

(* A result READY of a card operation holds on the card, and a read has    *)
(* returned what the file holds.                                           *)
Acknowledged == part = "sound" => Sound!Acknowledged /\ Sound!ReadsRight

(* "Writes the data to the file from the buffer to the given offset with   *)
(* the given length" (card.h): so when CARD_Write reports READY.           *)
WritesGivenLength == Sound!Acknowledged

(* The files on the card, as a mount would find them, are a file store:    *)
(* power failures and mounts change nothing, and every operation takes     *)
(* effect at once or not at all (the two copies of directory and table,    *)
(* __card_updatedir, __card_updatefat, __card_verify).                     *)
Store == INSTANCE FileStore WITH
  Names <- {"a", "b"}, files <- fs, Contents <- {"v", NULL}, MaxSize <- 8
IsFileStore == Store!Init /\ [][part = "sound" => [Store!Next]_fs]_vars
=============================================================================
