---------------------------- MODULE Investigation ----------------------------
(***************************************************************************)
(* The agent service and the scripts that fill and test its vector         *)
(* database.  What these do to a search is any match for the agents.       *)
(***************************************************************************)
EXTENDS Agents

CONSTANTS Corpus, Seeders, Validators, Attacks, MaxRestarts

VARIABLES store, request, late, restarts, seeded

qdrantVars == <<store, request, late, restarts, seeded>>

Qdrant == INSTANCE VectorDb

ASSUME QdrantAssumption == Qdrant!VectorDbAssumption

\* VectorDb!SuccessesHold: what a script reported as done is done.
SuccessesHold == Qdrant!SuccessesHold
=============================================================================
