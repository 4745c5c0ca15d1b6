------------------------------- MODULE MCTick -------------------------------
(***************************************************************************)
(* An instance for TLC of the timer queue: two tasks, a time base of eight *)
(* ticks that wraps around and a decrementer that does not reach as far as *)
(* the longest delay.                                                      *)
(***************************************************************************)
EXTENDS KTick
=============================================================================
