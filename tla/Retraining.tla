----------------------------- MODULE Retraining -----------------------------
(***************************************************************************)
(* Nightly retraining: the trainer pod (services/classifier/trainer.py,    *)
(* model.py) that Airflow runs, the model file it leaves on a volume, and  *)
(* the table model_registry.                                               *)
(*                                                                         *)
(* A model is the day it was trained on; a file that is still being        *)
(* written is not whole.  What a booster predicts is left out, and so is   *)
(* the classifier, which reads another file of the volume.                 *)
(*                                                                         *)
(* An operator placed directly above a definition, with the same           *)
(* parameters and no comment, is a way to get that definition wrong.       *)
(***************************************************************************)
EXTENDS PyNumbers, Sequences

CONSTANTS
  Nights, Retries,   \* see DagTask
  Rows,              \* feature_log rows of each day
  Splits,            \* n_splits
  EmbargoPercent     \* embargo_pct, in percent

\* What is assumed of the constants.  A day with fewer rows than folds is too
\* short for an embargo: with the defaults, five folds and one per cent, rounding
\* leaves none of it.
RetrainingAssumption ==
  /\ Rows \in [1 .. Nights -> Nat]
  /\ Splits \in Nat /\ Splits >= 2
  /\ EmbargoPercent \in 0 .. 99 /\ EmbargoPercent * Splits <= 50

VARIABLES
  night, task, attempt,
  trainer,    \* how far the trainer pod has got
  latest,     \* /models/latest.txt
  bytes,      \* model_bytes
  open,       \* the row inserted and not yet committed
  registry    \* model_registry: committed rows

dagVars == <<night, task, attempt>>
podVars == <<trainer, bytes, open>>
vars == <<dagVars, latest, podVars, registry>>

Dag == INSTANCE DagTask

Absent == [day |-> -1, whole |-> FALSE]
Model(day) == [day |-> day, whole |-> TRUE]

Init ==
  /\ Dag!Init
  /\ latest = Absent
  /\ trainer = "off" /\ bytes = Absent /\ open = << >>
  /\ registry = << >>

-----------------------------------------------------------------------------
(* Purged k-fold cross-validation of n samples in the order of their time *)

FoldSize(n) == n \div Splits
Embargo(n) == Rounded(EmbargoPercent * n, 100)
ValStart(n, k) == k * FoldSize(n)
EqualFolds(n, k) == (k + 1) * FoldSize(n)
\* The last fold also takes the remainder.
ValStop(n, k) == IF k = Splits - 1 THEN n ELSE (k + 1) * FoldSize(n)

Validation(n, k) == ValStart(n, k) .. ValStop(n, k) - 1
TrainingSet(n, k) == (0 .. n - 1) \ (ValStart(n, k) .. ValStop(n, k) + Embargo(n) - 1)

-----------------------------------------------------------------------------
(* The trainer pod *)

\* A pod starts and connects to PostgreSQL.
Launch ==
  /\ Dag!Launch
  /\ trainer' = "fetch"
  /\ bytes' = Absent
  /\ UNCHANGED <<latest, open, registry>>

\* fetch_dataset found rows of the day, and train() came to an end.
Train ==
  /\ trainer = "fetch"
  /\ Rows[night] > 0
  /\ trainer' = "save"
  /\ UNCHANGED <<dagVars, latest, bytes, open, registry>>

\* save_booster opens the file, which truncates it, ...
Truncate ==
  /\ trainer = "save"
  /\ latest' = [day |-> night, whole |-> FALSE]
  /\ trainer' = "write"
  /\ UNCHANGED <<dagVars, bytes, open, registry>>

\* ... writes it and closes it.
Write ==
  /\ trainer = "write"
  /\ latest' = Model(night)
  /\ trainer' = "read"
  /\ UNCHANGED <<dagVars, bytes, open, registry>>

BeforeSaving == "save"
\* When the artifact is read back: once it is saved.
AfterSaving == "read"

\* out_path.read_bytes.
ReadBack ==
  /\ trainer = AfterSaving
  /\ bytes' = latest
  /\ trainer' = "insert"
  /\ UNCHANGED <<dagVars, latest, open, registry>>

InsertAndClose == "close"
\* What follows the INSERT.
AfterInsert == "commit"

\* write_registry_row executes the INSERT.
Insert ==
  /\ trainer = "insert"
  /\ open' = <<[day |-> night, model |-> bytes]>>
  /\ trainer' = AfterInsert
  /\ UNCHANGED <<dagVars, latest, bytes, registry>>

\* conn.commit, answered.
Commit ==
  /\ trainer = "commit"
  /\ registry' = registry \o open
  /\ open' = << >>
  /\ trainer' = "close"
  /\ UNCHANGED <<dagVars, latest, bytes>>

\* conn.close, which rolls an open transaction back, and exit with 0.
Exit ==
  /\ trainer = "close"
  /\ Dag!Succeed
  /\ trainer' = "off" /\ open' = << >>
  /\ UNCHANGED <<latest, bytes, registry>>

PodEnds ==
  /\ Dag!Fail
  /\ trainer' = "off" /\ open' = << >>
  /\ UNCHANGED <<latest, bytes>>

\* Any step raises (no rows for the day, a fold LightGBM cannot train on, a full
\* volume, a lost connection) or the pod is killed.
Fail == trainer # "off" /\ PodEnds /\ UNCHANGED registry

\* The same, when the server has committed and its answer got lost.
CommitUnanswered == trainer = "commit" /\ PodEnds /\ registry' = registry \o open

-----------------------------------------------------------------------------

Next ==
  \/ Launch \/ Train \/ Truncate \/ Write \/ ReadBack \/ Insert \/ Commit
  \/ Exit \/ Fail \/ CommitUnanswered

Spec == Init /\ [][Next]_vars

-----------------------------------------------------------------------------
(* Properties *)

TypeOK ==
  /\ night \in 0 .. Nights /\ task \in Dag!TaskStates /\ attempt \in 0 .. Retries + 1
  /\ trainer \in {"off", "fetch", "save", "write", "read", "insert", "commit", "close"}
  /\ \A m \in {latest, bytes} :
       m \in [day : -1 .. Nights, whole : BOOLEAN]
  /\ open \in Seq([day : 1 .. Nights, model : [day : -1 .. Nights, whole : BOOLEAN]])
  /\ registry \in Seq([day : 1 .. Nights, model : [day : -1 .. Nights, whole : BOOLEAN]])

(***************************************************************************)
(* Whatever fails and is retried, every row of model_registry holds a      *)
(* whole model, and the one trained on the day the row says: never the     *)
(* artifact another night or an interrupted attempt left on the volume.    *)
(* And a task that Airflow counts as successful has left its model both in *)
(* the registry and on the volume.                                         *)
(***************************************************************************)
RegistryRowsAreModels ==
  /\ \A i \in 1 .. Len(registry) : registry[i].model = Model(registry[i].day)
  /\ task = "success" =>
       /\ latest = Model(night)
       /\ \E i \in 1 .. Len(registry) : registry[i].day = night

(***************************************************************************)
(* The folds (model.py:50-80), for every day's number of rows: every       *)
(* sample is validated exactly once; a fold trains on nothing it validates *)
(* on nor on the embargo behind it, and on everything else.                *)
(***************************************************************************)
PurgedFolds ==
  LET n == Rows[night]
      folds == 0 .. Splits - 1
  IN  night > 0 =>
        /\ \A i \in 0 .. n - 1 : \E k \in folds : i \in Validation(n, k)
        /\ \A j, k \in folds : j # k => Validation(n, j) \cap Validation(n, k) = {}
        /\ \A k \in folds, i \in 0 .. n - 1 :
             i \in TrainingSet(n, k) <=>
               \A v \in Validation(n, k) : i < v \/ i > v + Embargo(n)
=============================================================================
