------------------------------- MODULE EvalRun -------------------------------
(***************************************************************************)
(* The evaluation harness (services/agents/eval), as Airflow runs it every *)
(* night: the cases of the fixture go through the agents' graph one by     *)
(* one, each is scored, the scores are rolled up, and the roll-up and the  *)
(* rows of the cases are written in one transaction.                       *)
(*                                                                         *)
(* Of the state the graph ends with, only what normalize_action looks at   *)
(* is kept; of the two metrics Ragas computes, faithfulness; a mean is the *)
(* pair of the sum and the number of its terms.  Airflow passes the runner *)
(* neither --limit nor --dry-run; somebody who runs it by hand, again      *)
(* after a failure, may.                                                   *)
(*                                                                         *)
(* An operator placed directly above a definition, with the same           *)
(* parameters and no comment, is a way to get that definition wrong.       *)
(***************************************************************************)
EXTENDS PyNumbers, SequencesExt

CONSTANTS
  Nights, Retries,  \* see DagTask
  Severities,       \* of the attacks of the fixture, in percent, see SEED_POINTS
  PerClass,         \* PER_CLASS, how many cases there are of each attack
  Latencies,        \* how long each case takes
  Options,          \* the options of a run, [limit, dryRun]
  Versions,         \* PROMPT_VERSION
  Verdicts,         \* what each case may end with: did the enforcer freeze or halt
                    \* something, is the confidence at least 0.85
  Judgements,       \* what the judge may say
  NaN,              \* what Ragas says when the judge makes no sense
  None              \* null

\* --limit is an int, there is a number of cases of each attack, a case takes a
\* number of milliseconds, and what stands for no number is none.
ASSUME EvalRunAssumption ==
  /\ Severities \in Seq(Nat) /\ PerClass \in Nat
  /\ Options \subseteq [limit : Int \cup {None}, dryRun : BOOLEAN]
  /\ \A i \in 1 .. Len(Severities) * PerClass : Latencies[i] \in Nat
  /\ Judgements \subseteq Int /\ NaN \notin Int
  /\ None \notin Int \cup {NaN} \cup (Int \cup {NaN}) \X Nat

VARIABLES
  night, task, attempt,
  options, version, \* --limit and --dry-run; PROMPT_VERSION of the pod
  runner,    \* how far the runner has got
  results,   \* case_results
  ragas,     \* _ragas_singleton: untried, ok or unavailable
  nextId,    \* sequence of eval_run.id
  openRun, openCases,  \* rows of the open transaction
  evalRun, evalCaseResult  \* committed rows

dagVars == <<night, task, attempt>>
podVars == <<options, version>>
runnerVars == <<runner, results, ragas>>
openVars == <<openRun, openCases>>
tables == <<evalRun, evalCaseResult>>
evalVars == <<dagVars, podVars, runnerVars, nextId, openVars, tables>>

Dag == INSTANCE DagTask

EvalInit ==
  /\ Dag!Init
  /\ options \in Options /\ version \in Versions
  /\ runner = "off" /\ results = << >> /\ ragas = "untried"
  /\ nextId = 1
  /\ openRun = {} /\ openCases = {}
  /\ evalRun = {} /\ evalCaseResult = {}

-----------------------------------------------------------------------------
(* The fixture, and how much of it is run *)

\* _action_for
ActionFor(severity) ==
  IF severity >= 90 THEN "FREEZE" ELSE IF severity >= 60 THEN "MONITOR" ELSE "NO_ACTION"

\* build_cases: expected_action of each case, one attack after the other.
Expected ==
  [i \in 1 .. Len(Severities) * PerClass |-> ActionFor(Severities[1 + (i - 1) \div PerClass])]

\* Of n elements, how many cases[:limit] keeps.
Kept(n, limit) ==
  IF limit = None THEN n ELSE Max({0, Min({n, IF limit < 0 THEN n + limit ELSE limit})})

\* How many cases are run.
Due == Kept(Len(Expected), options.limit)

-----------------------------------------------------------------------------
(* Scoring *)

\* The enforcer's verb, the auditor's confidence, or nothing.
NormalizeAction(v) ==
  IF v.freezes THEN "FREEZE" ELSE IF v.confident THEN "MONITOR" ELSE "NO_ACTION"

\* _get_ragas: the first case of a process finds out, the others remember.
RagasAfter == IF ragas = "untried" THEN {"ok", "unavailable"} ELSE {ragas}

\* Without Ragas, with an empty rationale or when the judge raises: null.
Judged(bundle) == {None} \cup (IF bundle = "ok" THEN Judgements \cup {NaN} ELSE {})

Row(i, actual, faith) ==
  [case |-> i, actual |-> actual, correct |-> actual = Expected[i], faith |-> faith,
   latency |-> Latencies[i]]

Correct(rows) == Cardinality({i \in DOMAIN rows : rows[i].correct})
Faiths(rows) == {i \in DOMAIN rows : rows[i].faith # None}

\* sum(faiths), which one NaN turns into NaN.
Sum(rows, terms) ==
  IF \E i \in terms : rows[i].faith = NaN THEN NaN
  ELSE SumFunctionOnSet([i \in terms |-> rows[i].faith], terms)

MeanOverAll(rows, terms) == <<Sum(rows, terms), Len(rows)>>
\* The mean of the cases that have a value; null if none has.
MeanFaith(rows, terms) == IF terms = {} THEN None ELSE <<Sum(rows, terms), Cardinality(terms)>>

\* pct: the latency that has place k, from 0, among the latencies in order.
Percentile(rows, p) ==
  LET k == Rounded(p * (Len(rows) - 1), 100)
  IN  CHOOSE ms \in {rows[i].latency : i \in DOMAIN rows} :
        /\ Cardinality({i \in DOMAIN rows : rows[i].latency < ms}) <= k
        /\ Cardinality({i \in DOMAIN rows : rows[i].latency <= ms}) > k

\* _summarize, and the columns of eval_run it fills.
Summary(rows) ==
  IF rows = << >>
  THEN [correctness |-> None, faithfulness |-> None, p50 |-> None, p95 |-> None]
  ELSE [correctness |-> <<Correct(rows), Len(rows)>>,
        faithfulness |-> MeanFaith(rows, Faiths(rows)),
        p50 |-> Percentile(rows, 50), p95 |-> Percentile(rows, 95)]

-----------------------------------------------------------------------------
(* run_eval *)

\* The pod starts: fixture, LLM, RAG and graph are there.
StartRunner ==
  /\ Dag!Launch
  /\ version' \in Versions
  /\ runner' = "cases"
  /\ UNCHANGED <<options, results, ragas, nextId, openVars, tables>>

NextCase == Len(results) + 1
CaseDue == runner = "cases" /\ NextCase <= Due

\* graph.invoke raises: a wrong answer.
CaseFails ==
  /\ CaseDue
  /\ results' = Append(results, Row(NextCase, None, None))
  /\ UNCHANGED <<dagVars, podVars, runner, ragas, nextId, openVars, tables>>

\* The graph ends, and score_case scores what it ends with.
CaseScored ==
  /\ CaseDue
  /\ \E v \in Verdicts[NextCase], bundle \in RagasAfter : \E faith \in Judged(bundle) :
       /\ ragas' = bundle
       /\ results' = Append(results, Row(NextCase, NormalizeAction(v), faith))
  /\ UNCHANGED <<dagVars, podVars, runner, nextId, openVars, tables>>

\* All cases are done; the connection to PostgreSQL is opened only now.
Summarize ==
  /\ runner = "cases" /\ NextCase > Due
  /\ runner' = IF options.dryRun THEN "exit" ELSE "insertRun"
  /\ UNCHANGED <<dagVars, podVars, results, ragas, nextId, openVars, tables>>

Autocommitted(rows, table) == table \cup rows
\* A table, as others see it, after an INSERT of write_run's transaction.
Uncommitted(rows, table) == table

\* INSERT INTO eval_run ... RETURNING id
InsertRun ==
  LET row == {[id |-> nextId, version |-> version, n |-> Len(results), summary |-> Summary(results)]}
  IN  /\ runner = "insertRun"
      /\ openRun' = row
      /\ evalRun' = Uncommitted(row, evalRun)
      /\ nextId' = nextId + 1
      /\ runner' = "insertCases"
      /\ UNCHANGED <<dagVars, podVars, results, ragas, openCases, evalCaseResult>>

\* execute_values
InsertCases ==
  /\ runner = "insertCases"
  /\ openCases' = {[run |-> nextId - 1, row |-> results[i]] : i \in DOMAIN results}
  /\ runner' = "commit"
  /\ UNCHANGED <<dagVars, podVars, results, ragas, nextId, openRun, tables>>

CommitOpen ==
  /\ evalRun' = evalRun \cup openRun
  /\ evalCaseResult' = evalCaseResult \cup openCases
  /\ openRun' = {} /\ openCases' = {}

\* The process is gone, and what it knew with it.
PodEnds ==
  /\ runner' = "off" /\ results' = << >> /\ ragas' = "untried"
  /\ UNCHANGED <<podVars, nextId>>

\* --dry-run: nothing is written.
ExitDry == runner = "exit" /\ PodEnds /\ Dag!Succeed /\ UNCHANGED <<openVars, tables>>

\* "with conn" commits, and the server answers; the pod exits with 0.
Commit == runner = "commit" /\ CommitOpen /\ PodEnds /\ Dag!Succeed

\* Any step raises or the pod is killed: "with conn" or the server roll back.
Fail ==
  /\ runner # "off"
  /\ PodEnds /\ Dag!Fail
  /\ openRun' = {} /\ openCases' = {}
  /\ UNCHANGED tables

\* The same, when the server has committed and its answer got lost.
CommitUnanswered == runner = "commit" /\ CommitOpen /\ PodEnds /\ Dag!Fail

EvalNext ==
  \/ StartRunner \/ CaseFails \/ CaseScored \/ Summarize
  \/ InsertRun \/ InsertCases \/ Commit \/ ExitDry \/ Fail \/ CommitUnanswered

-----------------------------------------------------------------------------
(* Properties *)

RowsOf(id) == {c.row : c \in {c \in evalCaseResult : c.run = id}}

(***************************************************************************)
(* storage.py:6-7, "either the whole batch lands or none of it, so the     *)
(* dashboard never reads a partial result set": every row of eval_run that *)
(* can be read comes with a row for every case that was to be run,         *)
(* whatever failed and was tried again, and no case row is without its     *)
(* run; a dry run writes nothing.                                          *)
(***************************************************************************)
WholeRunsOnly ==
  /\ \A r \in evalRun :
       /\ r.n = Due /\ ~options.dryRun
       /\ Cardinality(RowsOf(r.id)) = r.n
       /\ {row.case : row \in RowsOf(r.id)} = 1 .. r.n
  /\ {c.run : c \in evalCaseResult} \subseteq {r.id : r \in evalRun}

JudgedRows(id) == {row \in RowsOf(id) : row.faith # None}

\* The share of a run's latencies that are at most ms, in percent, is at least p.
Covers(id, ms, p) ==
  100 * Cardinality({row \in RowsOf(id) : row.latency <= ms}) >= p * Cardinality(RowsOf(id))

(***************************************************************************)
(* The roll-up of a run is what one recomputes from its case rows: a case  *)
(* whose graph raised counts as wrong and its latency counts, one that was *)
(* not judged does not count, and one judged NaN spoils the mean.  At      *)
(* least half of the latencies lie at or below p50.                        *)
(***************************************************************************)
SummaryMatchesCases ==
  \A r \in {r \in evalRun : r.n > 0} :
    LET rows == RowsOf(r.id)
        judged == JudgedRows(r.id)
        mean == r.summary.faithfulness
    IN  /\ r.summary.correctness = <<Cardinality({row \in rows : row.actual = Expected[row.case]}),
                                     Cardinality(rows)>>
        /\ judged = {} <=> mean = None
        /\ judged # {} => mean[1] = NaN <=> \E row \in judged : row.faith = NaN
        /\ judged # {} /\ mean[1] # NaN =>
             mean[1] * Cardinality(judged)
               = SumFunctionOnSet([row \in judged |-> row.faith], judged) * mean[2]
        /\ Covers(r.id, r.summary.p50, 50) /\ r.summary.p50 <= r.summary.p95
        /\ {r.summary.p50, r.summary.p95} \subseteq {row.latency : row \in rows}
=============================================================================
