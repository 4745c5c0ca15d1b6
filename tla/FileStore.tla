----------------------------- MODULE FileStore -----------------------------
(***************************************************************************)
(* What a memory card promises: named files of a fixed number of sectors.  *)
(* A file appears, disappears and is renamed in one step whatever else     *)
(* happens; one sector of one file changes at a time, and the sector that  *)
(* is being written may be lost.                                           *)
(***************************************************************************)
EXTENDS Naturals, Sequences, Functions

CONSTANTS Names, Contents, MaxSize

VARIABLE files

Init == files = [n \in {} |-> <<>>]

(* The sectors of a new file hold anything.                                *)
Create(n) ==
  /\ n \notin DOMAIN files
  /\ DOMAIN files' = DOMAIN files \cup {n} /\ Restrict(files', DOMAIN files) = files
  /\ Len(files'[n]) \in 1..MaxSize /\ Range(files'[n]) \subseteq Contents

Delete(n) == n \in DOMAIN files /\ files' = Restrict(files, DOMAIN files \ {n})

Rename(n, m) ==
  /\ n \in DOMAIN files /\ m \notin DOMAIN files
  /\ files' = [x \in (DOMAIN files \ {n}) \cup {m} |-> IF x = m THEN files[n] ELSE files[x]]

SetSector(n) ==
  /\ n \in DOMAIN files /\ DOMAIN files' = DOMAIN files
  /\ \E i \in DOMAIN files[n] : /\ files'[n][i] \in Contents
                                /\ files' = [files EXCEPT ![n][i] = files'[n][i]]

Next == \E n \in Names : \/ Create(n) \/ Delete(n) \/ SetSector(n)
                         \/ \E m \in Names : Rename(n, m)

Spec == Init /\ [][Next]_files
=============================================================================
