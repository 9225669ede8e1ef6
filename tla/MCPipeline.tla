----------------------------- MODULE MCPipeline -----------------------------
(***************************************************************************)
(* Pipeline for TLC: two frames, one of them an alert, two restarts of the *)
(* classifier, so that either frame can be scored three times, and two     *)
(* crashes, signals or lost memberships of the agent service.              *)
(***************************************************************************)
EXTENDS Pipeline
=============================================================================
