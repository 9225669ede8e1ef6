------------------------------- MODULE DagTask -------------------------------
(***************************************************************************)
(* What Airflow does with the one task of a DAG, as the two DAGs configure *)
(* it (airflow/dags/retraining_pipeline.py, volatix_eval.py): a run every  *)
(* night, never two at a time (max_active_runs=1), none for nights missed  *)
(* (catchup=False), and one more attempt after a failure (retries=1).      *)
(***************************************************************************)
EXTENDS Naturals

CONSTANTS
  Nights,   \* bound on the scheduled runs
  Retries   \* DEFAULT_ARGS["retries"]

VARIABLES
  night,    \* logical date of the current run; 0 before the first
  task,     \* state of its task
  attempt   \* which attempt this is

vars == <<night, task, attempt>>

TaskStates == {"none", "running", "up_for_retry", "success", "failed"}

Init == night = 0 /\ task = "none" /\ attempt = 0

\* The schedule starts a run, and with it the first pod, when the last is over.
Trigger ==
  /\ task \in {"none", "success", "failed"}
  /\ night < Nights
  /\ night' = night + 1
  /\ task' = "running"
  /\ attempt' = 1

\* retry_delay is over: a new pod with the same arguments.
Retry ==
  /\ task = "up_for_retry"
  /\ task' = "running"
  /\ attempt' = attempt + 1
  /\ UNCHANGED night

\* The pod exits with 0.
Succeed == task = "running" /\ task' = "success" /\ UNCHANGED <<night, attempt>>

\* The pod exits with another code or is killed.
Fail ==
  /\ task = "running"
  /\ task' = IF attempt <= Retries THEN "up_for_retry" ELSE "failed"
  /\ UNCHANGED <<night, attempt>>

\* A pod starts.
Launch == Trigger \/ Retry
=============================================================================
