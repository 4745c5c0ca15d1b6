------------------------------ MODULE Channel ------------------------------
(***************************************************************************)
(* What a mailbox promises: a first-in first-out channel of bounded        *)
(* length.  A message that is sent is received once, by one thread, in the *)
(* order of sending.                                                       *)
(***************************************************************************)
EXTENDS Naturals, Sequences

CONSTANTS Mailboxes, Threads, Messages, NULL, Slots

VARIABLES chan,    \* the messages in each mailbox, oldest first
          got      \* the last message each thread received
vars == <<chan, got>>

Init ==
  /\ chan = [mb \in Mailboxes |-> <<>>]
  /\ got = [t \in Threads |-> NULL]

Send(mb, msg) ==
  /\ Len(chan[mb]) < Slots
  /\ chan' = [chan EXCEPT ![mb] = Append(@, msg)]
  /\ UNCHANGED got

Receive(t, mb) ==
  /\ chan[mb] # <<>>
  /\ got' = [got EXCEPT ![t] = Head(chan[mb])]
  /\ chan' = [chan EXCEPT ![mb] = Tail(@)]

Next ==
  \E mb \in Mailboxes :
    (\E msg \in Messages : Send(mb, msg)) \/ (\E t \in Threads : Receive(t, mb))

Spec == Init /\ [][Next]_vars
============================================================================
