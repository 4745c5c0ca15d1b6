------------------------------- MODULE Lists -------------------------------
(***************************************************************************)
(* The linked lists of src/tuxedo as sequences: the thread list and the    *)
(* wait queues of thread_priv.h, the task list of tick.c.                  *)
(***************************************************************************)
EXTENDS Integers, Sequences

(* The least of a set of positions or priorities.                          *)
Least(S) == CHOOSE x \in S : \A y \in S : x <= y

(* The elements of a list.                                                 *)
Linked(s) == {s[i] : i \in DOMAIN s}

(* e becomes the i-th element; the later ones move up.                     *)
LinkAt(s, i, e) == SubSeq(s, 1, i - 1) \o <<e>> \o SubSeq(s, i, Len(s))

(* The i-th element leaves; the later ones move down.                      *)
UnlinkAt(s, i) == SubSeq(s, 1, i - 1) \o SubSeq(s, i + 1, Len(s))

(* Nothing is linked into a list twice.                                    *)
Distinct(s) == \A i, j \in 1..Len(s) : s[i] = s[j] => i = j
============================================================================
