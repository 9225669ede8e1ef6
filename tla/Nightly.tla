------------------------------- MODULE Nightly -------------------------------
(***************************************************************************)
(* The two nightly DAGs: the retraining, and the evaluation with the page  *)
(* that shows its runs.  They share Airflow and PostgreSQL, but no table   *)
(* and no file.                                                            *)
(***************************************************************************)
EXTENDS EvalBoard

CONSTANTS Days, Rows, Splits, EmbargoPercent

VARIABLES day, training, trial, trainer, latest, bytes, open, registry

trainingVars == <<day, training, trial, trainer, latest, bytes, open, registry>>

Training == INSTANCE Retraining WITH
  Nights <- Days, night <- day, task <- training, attempt <- trial

ASSUME TrainingAssumption == Days \in Nat /\ Training!RetrainingAssumption

\* Retraining!RegistryRowsAreModels: a registry row holds the whole model of its
\* day, and a successful task has one.
RegistryRowsAreModels == Training!RegistryRowsAreModels

\* Retraining!PurgedFolds: the folds against their definition.
PurgedFolds == Training!PurgedFolds
=============================================================================
