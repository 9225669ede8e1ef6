------------------------------ MODULE EvalBoard ------------------------------
(***************************************************************************)
(* The /eval page of the dashboard (web/app/eval): the runs it was         *)
(* rendered with, the selected one, and the case rows RunDrilldown fetches *)
(* for it, on top of the harness that writes both tables.                  *)
(*                                                                         *)
(* React runs an effect after the render that follows a selection, so      *)
(* there is a moment at which the page shows the new run above the old     *)
(* one's cases.                                                            *)
(*                                                                         *)
(* An operator placed directly above a definition, with the same           *)
(* parameters and no comment, is a way to get that definition wrong.       *)
(***************************************************************************)
EXTENDS EvalRun

CONSTANTS
  RunLimit,    \* how many runs the page lists at most
  ExactDrops   \* pairs of means, the later one exactly five per cent below the
               \* earlier one, whose drop is 0.05 or more in double precision

ASSUME EvalBoardAssumption == RunLimit \in Nat

VARIABLES
  runs,      \* ids of the runs the page was rendered with; empty: no board
  selected,  \* selectedId
  effectOf,  \* the run whose effect is in force
  cases,     \* the case rows of the state; empty before the first answer
  loading,
  fetches    \* fetches of case rows not over yet

boardVars == <<runs, selected, effectOf, cases, loading, fetches>>
vars == <<evalVars, boardVars>>

Init ==
  /\ EvalInit
  /\ runs = {} /\ selected = None /\ effectOf = None
  /\ cases = {} /\ loading = FALSE /\ fetches = {}

BoardShown == runs # {}

\* loadRuns: the newest runs.
NewestRuns ==
  LET newer(run) == {r \in evalRun : r.id > run.id}
  IN  {run.id : run \in {r \in evalRun : Cardinality(newer(r)) < RunLimit}}

\* The page is opened or reloaded: the newest runs are listed, and the first of
\* them is selected.  A query that fails leaves an empty list.
OpenPage ==
  /\ \E listed \in {{}, NewestRuns} :
       /\ runs' = listed
       /\ selected' = IF listed = {} THEN None ELSE Max(listed)
  /\ effectOf' = None
  /\ cases' = {} /\ loading' = FALSE /\ fetches' = {}
  /\ UNCHANGED evalVars

\* A click in the list of runs.
Select(id) ==
  /\ id \in runs
  /\ selected' = id
  /\ UNCHANGED <<evalVars, runs, effectOf, cases, loading, fetches>>

Forgotten(f) == f
\* What the cleanup of the previous effect does to a fetch.
Cancelled(f) == [f EXCEPT !.cancelled = TRUE]

\* The effect for [run.id]: cleanup, then a new fetch.
Effect ==
  /\ BoardShown
  /\ effectOf # selected
  /\ effectOf' = selected
  /\ loading' = TRUE
  /\ fetches' = {Cancelled(f) : f \in fetches}
                  \cup {[run |-> selected, cancelled |-> FALSE]}
  /\ UNCHANGED <<evalVars, runs, selected, cases>>

\* /api/eval/cases: the rows of the run, or none where the query failed.
CasesOf(id) == {c \in evalCaseResult : c.run = id}

\* The answer arrives, or the fetch fails.
Receive(f) ==
  /\ f \in fetches
  /\ fetches' = fetches \ {f}
  /\ IF f.cancelled THEN UNCHANGED <<cases, loading>>
     ELSE cases' \in {{}, CasesOf(f.run)} /\ loading' = FALSE
  /\ UNCHANGED <<evalVars, runs, selected, effectOf>>

BoardNext ==
  \/ OpenPage \/ Effect
  \/ \E id \in runs : Select(id)
  \/ \E f \in fetches : Receive(f)

Next == (EvalNext /\ UNCHANGED boardVars) \/ BoardNext

Spec == Init /\ [][Next]_vars

-----------------------------------------------------------------------------
(* detectRegressions, of the runs the board has.  The runner runs once at a *)
(* time, so created_at grows with id.                                       *)

Listed(id) == CHOOSE r \in evalRun : r.id = id

Metrics == {"correctness", "faithfulness"}

\* p > 0 && (p - c) / p >= REGRESSION_THRESHOLD; NaN is neither.  The division is
\* one of doubles: where the drop is five per cent exactly, how means and quotient
\* are rounded decides.
Regressed(p, c) ==
  /\ p[1] # NaN /\ c[1] # NaN /\ p[1] > 0
  /\ LET drop == 20 * (p[1] * c[2] - c[1] * p[2])
     IN  drop > p[1] * c[2] \/ (drop = p[1] * c[2] /\ <<p, c>> \in ExactDrops)

AnyVersion(v) == runs
\* The runs of a prompt version.
OfVersion(v) == {id \in runs : Listed(id).version = v}

\* What the banner names: a prompt version and a metric that dropped from its
\* last but one run to its last.
Regressions ==
  {vm \in Versions \X Metrics :
     LET ids == OfVersion(vm[1])
         curr == Max(ids)
         prev == Max(ids \ {curr})
         Value(id) == Listed(id).summary[vm[2]]
     IN  /\ Cardinality(ids) >= 2
         /\ Value(curr) # None /\ Value(prev) # None
         /\ Regressed(Value(prev), Value(curr))}

-----------------------------------------------------------------------------
(* Properties *)

TypeOK ==
  /\ night \in 0 .. Nights /\ task \in Dag!TaskStates /\ attempt \in 0 .. Retries + 1
  /\ runner \in {"off", "cases", "insertRun", "insertCases", "commit", "exit"}
  /\ ragas \in {"untried", "ok", "unavailable"}
  /\ nextId \in Nat
  /\ runs \subseteq Nat /\ selected \in runs \cup {None}
  /\ effectOf \in runs \cup {None}
  /\ cases \subseteq evalCaseResult
  /\ loading \in BOOLEAN
  /\ fetches \in SUBSET [run : runs, cancelled : BOOLEAN]

(***************************************************************************)
(* However fast the user clicks from run to run and however slowly and out *)
(* of order the answers arrive, once the effect of the selection has run   *)
(* and nothing is loading, the cases shown are those of the selected run,  *)
(* all of them, or none if the fetch failed.                               *)
(***************************************************************************)
DrilldownShowsSelected ==
  BoardShown /\ effectOf = selected /\ ~loading => cases \in {{}, CasesOf(selected)}

\* The values of the case rows that a metric of a run averages.
Terms(id, metric) ==
  IF metric = "correctness"
  THEN [row \in RowsOf(id) |-> IF row.correct THEN 1 ELSE 0]
  ELSE [row \in JudgedRows(id) |-> row.faith]

\* A metric of a prompt version fell: from one listed run of the version to
\* another, none of that version between them or after, both with cases to average,
\* none of them NaN, the average fell by more than five per cent, or by five.
Fell(v, metric, orExactly) ==
  \E p, c \in {id \in runs : Listed(id).version = v} :
    LET before == Terms(p, metric)
        after == Terms(c, metric)
        Total(t) == SumFunctionOnSet(t, DOMAIN t)
        Size(t) == Cardinality(DOMAIN t)
        now == 100 * Total(after) * Size(before)
        bound == 95 * Total(before) * Size(after)
    IN  /\ p < c /\ ~\E id \in runs \ {p, c} : Listed(id).version = v /\ id > p
        /\ DOMAIN before # {} /\ DOMAIN after # {}
        /\ \A row \in DOMAIN before : before[row] # NaN
        /\ \A row \in DOMAIN after : after[row] # NaN
        /\ Total(before) > 0
        /\ now < bound \/ (orExactly /\ now = bound)

(***************************************************************************)
(* The banner tells the truth about the case rows, which it never sees:    *)
(* what it names fell by five per cent or more from the version's last but *)
(* one listed run to its last, and what fell by more than five per cent it *)
(* names.  At five per cent exactly the doubles decide, and nothing is     *)
(* promised.                                                               *)
(***************************************************************************)
BannerIsTrue ==
  \A v \in Versions, m \in Metrics :
    /\ <<v, m>> \in Regressions => Fell(v, m, TRUE)
    /\ Fell(v, m, FALSE) => <<v, m>> \in Regressions
=============================================================================
