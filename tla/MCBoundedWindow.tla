---------------------------- MODULE MCBoundedWindow ----------------------------
(***************************************************************************)
(* Instances of BoundedWindow: nine inputs, the sixth larger than the byte  *)
(* bound on its own.                                                       *)
(***************************************************************************)
EXTENDS BoundedWindow

MCOffset == [i \in 0 .. 9 |-> <<0, 1, 3, 4, 5, 6, 15, 16, 18, 19>>[i + 1]]
================================================================================
