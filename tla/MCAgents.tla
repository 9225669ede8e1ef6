------------------------------ MODULE MCAgents ------------------------------
(***************************************************************************)
(* Agents and VectorDb for TLC.  What the seeding of Qdrant does to a      *)
(* search is any match, so a behaviour is about one of the two.            *)
(*                                                                         *)
(* Agents is in thousandths: the classifier's threshold is 0.85 and the    *)
(* gate 0.95.  One record is at the threshold and one certain, with one    *)
(* below the threshold in between; an LLM says less than the gate, the     *)
(* gate, more than 1, or nothing, and the mock's score for the three       *)
(* records is rounded up to the gate, far below it, and above it.          *)
(***************************************************************************)
EXTENDS Investigation, Sequences

VARIABLE about  \* "cases" or "seeding"

MCInit ==
  /\ Init /\ Qdrant!Init
  /\ \/ about = "cases"
     \/ about = "seeding" /\ backend = "mock" /\ highRiskOnly

MCNext ==
  \/ about = "cases" /\ Next /\ UNCHANGED <<about, qdrantVars>>
  \/ about = "seeding" /\ Qdrant!Next /\ UNCHANGED <<about, vars>>

MCSpec == MCInit /\ [][MCNext]_<<about, vars, qdrantVars>> /\ Fairness

MCScore == [r \in 0 .. MaxRecords - 1 |-> <<850, 849, 1000>>[r + 1]]
MCOfiShare == [r \in 0 .. MaxRecords - 1 |-> <<447, 0, 900>>[r + 1]]
MCVolShare == [r \in 0 .. MaxRecords - 1 |-> <<0, 30, 40>>[r + 1]]
MCMatches == {0, 900}
MCAnswers == {949, 950, 1250}
MCEnvironments == LLM!Environment
=============================================================================
