------------------------------ MODULE LwpQueue ------------------------------
(***************************************************************************)
(* The doubly linked lists of src/libogc/lwp_queue.c and lwp_queue.inl, as *)
(* operators on the links of all nodes: h.next and h.prev.  A queue q owns *)
(* two sentinels that overlap in memory, its head (first) and its tail     *)
(* (last).  A node that leaves a queue keeps its links, so extracting it   *)
(* again writes through stale pointers, and the operators do so too.       *)
(***************************************************************************)
EXTENDS Naturals, FiniteSets

HeadOf(q) == <<q, "head">>
TailOf(q) == <<q, "tail">>

(* The memory before any queue is initialised: static, so zero.            *)
Unlinked(nodes, queues, null) ==
  [next |-> [n \in nodes \cup {HeadOf(q) : q \in queues} |-> null],
   prev |-> [n \in nodes \cup {TailOf(q) : q \in queues} |-> null]]

InitEmpty(h, q) ==
  [h EXCEPT !.next[HeadOf(q)] = TailOf(q), !.prev[TailOf(q)] = HeadOf(q)]

IsEmpty(h, q) == h.next[HeadOf(q)] = TailOf(q)

First(h, q) == h.next[HeadOf(q)]

(* __lwp_queue_firstnodeI, called by __lwp_queue_getI on a non-empty queue *)
DropFirst(h, q) ==
  LET new == h.next[First(h, q)]
  IN  [h EXCEPT !.next[HeadOf(q)] = new, !.prev[new] = HeadOf(q)]

AppendOneWay(h, q, n) ==
  [next |-> [h.next EXCEPT ![n] = TailOf(q), ![h.prev[TailOf(q)]] = n],
   prev |-> [h.prev EXCEPT ![TailOf(q)] = n]]

AppendI(h, q, n) ==
  LET old == h.prev[TailOf(q)]
  IN  [next |-> [h.next EXCEPT ![n] = TailOf(q), ![old] = n],
       prev |-> [h.prev EXCEPT ![TailOf(q)] = n, ![n] = old]]

ExtractI(h, n) ==
  [h EXCEPT !.prev[h.next[n]] = h.prev[n], !.next[h.prev[n]] = h.next[n]]

---------------------------------------------------------------------------
(* Reading a list: the i-th node from the head, and the nodes on the way.  *)
Walk(h, q, nodes) ==
  LET step[i \in 0..Cardinality(nodes)] ==
        IF i = 0 THEN First(h, q)
        ELSE LET n == step[i - 1] IN IF n \in nodes THEN h.next[n] ELSE n
  IN  step

Members(h, q, nodes) ==
  LET step == Walk(h, q, nodes)
  IN  {step[i] : i \in 0..Cardinality(nodes)} \cap nodes

(* The list ends in its own tail, and leads back the way it came.          *)
WellFormed(h, q, nodes) ==
  /\ Walk(h, q, nodes)[Cardinality(nodes)] = TailOf(q)
  /\ \A n \in Members(h, q, nodes) \cup {HeadOf(q)} : h.prev[h.next[n]] = n
=============================================================================
