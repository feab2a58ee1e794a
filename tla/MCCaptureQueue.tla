--------------------------- MODULE MCCaptureQueue ---------------------------
(***************************************************************************)
(* Instances of CaptureQueue: the values are in the cfg files.  The order  *)
(* of tasks matters only to the order in which they are awaited, so the    *)
(* tasks are not made symmetric.                                           *)
(***************************************************************************)
EXTENDS CaptureQueue
================================================================================
