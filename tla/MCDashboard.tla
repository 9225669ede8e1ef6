----------------------------- MODULE MCDashboard -----------------------------
(***************************************************************************)
(* The dashboard's two machines for TLC, the page and the replay modal.  A *)
(* behaviour is about one of them: they share no state.                    *)
(***************************************************************************)
EXTENDS FrontPage, Integers

VARIABLE about  \* "page" or "replay"

\* Reports 1 and 3 tie on ts_ns, 2 and 4 on wire_ts_ns; inserted out of order.
MCTs == <<2, 4, 2, 3>>
MCWire == <<2, 4, 3, 4>>
\* The ids 9, 10, 11 and 12 as text: "10" comes first, "9" last.
MCIdText == <<4, 1, 2, 3>>
MCEnforced == {2, 3, 4}

\* The stamps of a case, some missing, some earlier than the one before.
MCRows ==
  [wire : {Null, 2}, compute : {Null, 1, 3}, score : {Null, 1, 4},
   verdict : {Null, 3, 6}, enforced : {Null, 2, 7, 11},
   nodes : SUBSET {"forensic", "auditor", "enforcer"}]

MCInit == about \in {"page", "replay"} /\ Page!Init /\ Modal!Init

MCNext ==
  \/ about = "page" /\ Page!Next /\ UNCHANGED <<about, modalVars>>
  \/ about = "replay" /\ Modal!Next /\ UNCHANGED <<about, pageVars>>

MCSpec ==
  /\ MCInit /\ [][MCNext]_<<about, pageVars, modalVars>>
  /\ Page!Fairness
=============================================================================
