------------------------- MODULE MCFaultDetection -------------------------
(***************************************************************************)
(* A tick loop and one API request evaluating the same rule, with delays   *)
(* of two and one clock units: long enough for a series to be interrupted  *)
(* before it is complete, and for a stale timestamp to be applied.         *)
(***************************************************************************)
EXTENDS FaultDetection
===========================================================================
