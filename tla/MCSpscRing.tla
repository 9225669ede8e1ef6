----------------------------- MODULE MCSpscRing -----------------------------
(***************************************************************************)
(* SpscRing for TLC.  The run pushes more elements than the ring has       *)
(* slots, so every index wraps and most slots are used a second time; two  *)
(* values tell one element from another.                                   *)
(***************************************************************************)
EXTENDS SpscRing
=============================================================================
