------------------------------ MODULE MCNightly ------------------------------
(***************************************************************************)
(* The two nightly DAGs for TLC.  They share Airflow and PostgreSQL, but   *)
(* no table and no file, so a behaviour here is about one of them: three   *)
(* nights of retraining, one with many rows, one with none and one with    *)
(* fewer rows than folds; or one night of evaluation with two cases, its   *)
(* retry, and a user at the /eval page.  The judge says 0.9025, 0.95 or    *)
(* 1.0, in units of 1/400: each is five per cent below the next, and in    *)
(* double precision only the drop from 1.0 comes out at 0.05 or more.      *)
(***************************************************************************)
EXTENDS Nightly

VARIABLE about  \* "retraining" or "evaluation"

\* The options Airflow passes: none.
AirflowOptions == [limit |-> None, dryRun |-> FALSE]

NightlyInit ==
  /\ Init /\ Training!Init
  /\ \/ about = "evaluation"
     \/ about = "retraining" /\ options = AirflowOptions /\ version = (CHOOSE v \in Versions : TRUE)

NightlyNext ==
  \/ about = "retraining" /\ Training!Next /\ UNCHANGED <<about, vars>>
  \/ about = "evaluation" /\ Next /\ UNCHANGED <<about, trainingVars>>

NightlySpec == NightlyInit /\ [][NightlyNext]_<<about, vars, trainingVars>>

MCRows == <<25, 0, 2>>
MCOptions ==
  {AirflowOptions, [limit |-> None, dryRun |-> TRUE]}
    \cup {[limit |-> n, dryRun |-> FALSE] : n \in {-1, 0}}
VersionSymmetry == Permutations(Versions)
MCExactDrops == {<< <<400 * m, m>>, <<380 * n, n>> >> : m, n \in 1 .. 2}
MCSeverities == <<95, 70>>
MCLatencies == <<7, 3>>
MCVerdicts ==
  << {[freezes |-> TRUE, confident |-> TRUE], [freezes |-> FALSE, confident |-> FALSE]},
     {[freezes |-> FALSE, confident |-> TRUE]} >>
=============================================================================
