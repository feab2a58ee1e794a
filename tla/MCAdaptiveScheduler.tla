-------------------------- MODULE MCAdaptiveScheduler --------------------------
(***************************************************************************)
(* Instances of AdaptiveScheduler: seven inputs, the last of them          *)
(* larger than the byte bound, and memory samples on both sides of every   *)
(* threshold of the controller.                                            *)
(***************************************************************************)
EXTENDS AdaptiveScheduler

MCOffset == [i \in 0 .. 7 |-> <<0, 1, 2, 3, 4, 5, 6, 18>>[i + 1]]
================================================================================
