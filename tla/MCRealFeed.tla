----------------------------- MODULE MCRealFeed -----------------------------
(***************************************************************************)
(* The three WebSocket servers for TLC, each a process of its own, so a    *)
(* behaviour is about one: the realfeed adapter with three clients, so     *)
(* that one can leave and another come while a broadcast waits for the     *)
(* third; or one of the scripts, with a burst of five ticks that is not a  *)
(* multiple of the batch.                                                  *)
(***************************************************************************)
EXTENDS Feeds

VARIABLE about  \* "realfeed" or "script"

MCInit ==
  /\ Realfeed!Init /\ Feed!Init
  /\ \/ about = "realfeed" /\ script = "mock-ticker"
     \/ about = "script"

MCNext ==
  \/ about = "realfeed" /\ Realfeed!Next /\ UNCHANGED <<about, scriptVars>>
  \/ about = "script" /\ Feed!Next /\ UNCHANGED <<about, realfeedVars>>

MCSpec == MCInit /\ [][MCNext]_<<about, realfeedVars, scriptVars>> /\ Realfeed!Fairness
=============================================================================
