------------------------------ MODULE MCEngine ------------------------------
(***************************************************************************)
(* Engine for TLC.  A ring of two elements and a local queue of one frame  *)
(* fill up; five ticks make two frames and a remainder.                    *)
(***************************************************************************)
EXTENDS Engine
=============================================================================
