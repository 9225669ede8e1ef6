---------------------------- MODULE PostgresProofs ----------------------------
(***************************************************************************)
(* What the writers and the readers of PostgreSQL promise one another, for *)
(* every value of the constants: the evaluation harness and the board that *)
(* shows its runs (EvalRun, EvalBoard), the trainer and its folds          *)
(* (Retraining), and the main page of the dashboard (Dashboard).           *)
(***************************************************************************)
EXTENDS Nightly, FrontPage, Arithmetic, FiniteSetTheorems

-----------------------------------------------------------------------------
(* The evaluation *)

\* What case_results may hold.
CaseRows ==
  {Row(i, actual, faith) : i \in Nat,
                           actual \in {"FREEZE", "MONITOR", "NO_ACTION", None},
                           faith \in Judgements \cup {NaN, None}}

\* The pod runs exactly while the task does, and has so far one result per case.
HarnessInv ==
  /\ runner \in {"off", "cases", "insertRun", "insertCases", "commit", "exit"}
  /\ runner # "off" <=> task = "running"
  /\ options \in Options
  /\ nextId \in Nat \ {0}
  /\ results \in Seq(CaseRows) /\ Len(results) <= Due
  /\ \A i \in 1 .. Len(results) : results[i].case = i

\* The open transaction holds nothing, the row of the run, or that and its cases.
OpenInv ==
  /\ runner \in {"insertRun", "insertCases", "commit"} =>
       Len(results) = Due /\ ~options.dryRun
  /\ IF runner \in {"insertCases", "commit"}
     THEN nextId > 1 /\ \E r : openRun = {r} /\ r.id = nextId - 1 /\ r.n = Due
     ELSE openRun = {}
  /\ openCases = IF runner = "commit"
                 THEN {[run |-> nextId - 1, row |-> results[i]] : i \in DOMAIN results}
                 ELSE {}

\* The least id that no transaction has committed.
Fresh == IF runner \in {"insertCases", "commit"} THEN nextId - 1 ELSE nextId

RunIds == {r.id : r \in evalRun}

\* Committed runs have older ids, one of them the largest, and are whole.
CommittedInv ==
  /\ RunIds \subseteq 1 .. Fresh - 1
  /\ RunIds # {} => \E m \in RunIds : \A id \in RunIds : id <= m
  /\ WholeRunsOnly

EvalInv == HarnessInv /\ OpenInv /\ CommittedInv

LEMMA DueIsNat == ASSUME options \in Options PROVE Due \in Nat /\ Due <= Len(Expected)
<1> DEFINE n == Len(Expected)
           limit == options.limit
<1>1. n \in Nat
  <2>1. Len(Severities) \in Nat /\ PerClass \in Nat BY EvalRunAssumption
  <2>2. Len(Severities) * PerClass \in Nat BY <2>1
  <2> DEFINE k == Len(Severities) * PerClass
  <2>3. k \in Nat BY <2>2
  <2> HIDE DEF k
  <2>4. Expected = [i \in 1 .. k |-> ActionFor(Severities[1 + (i - 1) \div PerClass])]
    BY DEF Expected, k
  <2> QED BY <2>3, <2>4
<1>2. limit \in Int \cup {None} BY EvalRunAssumption
<1> HIDE DEF n, limit
<1>3. SUFFICES Due \in Nat /\ Due <= n BY DEF n
<1>5. CASE limit = None BY <1>1, <1>5 DEF Due, Kept, n, limit
<1>4. CASE limit # None
  <2> DEFINE l == IF limit < 0 THEN n + limit ELSE limit
             m == Min({n, l})
  <2>1. limit \in Int BY <1>2, <1>4
  <2>2. l \in Int BY <1>1, <2>1
  <2>3. Due = Max({0, m}) BY <1>4 DEF Due, Kept, n, limit
  <2> HIDE DEF l
  <2>4. m \in {n, l} /\ m <= n
    <3>1. \E x \in {n, l} : \A y \in {n, l} : x <= y BY <1>1, <2>2
    <3> QED BY <3>1 DEF Min
  <2>5. m \in Int BY <1>1, <2>2, <2>4
  <2> HIDE DEF m
  <2>6. /\ \E x \in {0, m} : \A y \in {0, m} : x >= y
        /\ \A x \in {0, m} : x >= 0 => x \in Nat
    BY <2>5
  <2>7. Max({0, m}) \in {0, m} /\ Max({0, m}) >= 0 BY <2>6 DEF Max
  <2> QED BY <1>1, <2>3, <2>4, <2>6, <2>7
<1> QED BY <1>4, <1>5

\* The case rows of a run that is written whole.
LEMMA OneRowPerCase ==
  ASSUME NEW S, NEW s \in Seq(S), \A i \in 1 .. Len(s) : s[i].case = i
  PROVE  /\ Cardinality({s[i] : i \in DOMAIN s}) = Len(s)
         /\ {row.case : row \in {s[i] : i \in DOMAIN s}} = 1 .. Len(s)
<1> DEFINE T == {s[i] : i \in DOMAIN s}
           f == [i \in 1 .. Len(s) |-> s[i]]
<1>1. Len(s) \in Nat /\ DOMAIN s = 1 .. Len(s) OBVIOUS
<1>2. f \in Bijection(1 .. Len(s), T)
  <2>1. f \in [1 .. Len(s) -> T] BY <1>1
  <2>2. \A i, j \in 1 .. Len(s) : f[i] = f[j] => i = j
    <3>1. \A i \in 1 .. Len(s) : f[i].case = i OBVIOUS
    <3> HIDE DEF f
    <3> QED BY <3>1
  <2>3. \A row \in T : \E i \in 1 .. Len(s) : f[i] = row BY <1>1
  <2> HIDE DEF f, T
  <2> QED BY <2>1, <2>2, <2>3 DEF Bijection, Injection, IsInjective, Surjection
<1>3. IsFiniteSet(1 .. Len(s)) /\ Cardinality(1 .. Len(s)) = Len(s) BY <1>1, FS_Interval
<1>4. Cardinality(T) = Len(s)
  <2> HIDE DEF f, T
  <2> QED BY <1>2, <1>3, FS_Bijection DEF ExistsBijection
<1>5. {row.case : row \in T} = 1 .. Len(s) BY <1>1
<1> QED BY <1>4, <1>5

LEMMA EvalInitial == EvalInit => EvalInv
<1> SUFFICES ASSUME EvalInit PROVE EvalInv OBVIOUS
<1> USE DEF EvalInit, Dag!Init
<1>1. options \in Options OBVIOUS
<1>2. Due \in Nat BY <1>1, DueIsNat
<1>3. HarnessInv BY <1>1, <1>2 DEF HarnessInv
<1>4. OpenInv BY DEF OpenInv
<1>5. RunIds = {} BY DEF RunIds
<1>6. CommittedInv BY <1>5 DEF CommittedInv, WholeRunsOnly
<1> QED BY <1>3, <1>4, <1>6 DEF EvalInv

LEMMA NewResult ==
  ASSUME HarnessInv, CaseDue, NEW actual \in {"FREEZE", "MONITOR", "NO_ACTION", None},
         NEW faith \in Judgements \cup {NaN, None},
         results' = Append(results, Row(NextCase, actual, faith)),
         UNCHANGED <<dagVars, podVars, runner, nextId>>
  PROVE  HarnessInv'
<1> DEFINE row == Row(NextCase, actual, faith)
<1>1. NextCase \in Nat /\ NextCase = Len(results) + 1 /\ NextCase <= Due
  BY DEF HarnessInv, CaseDue, NextCase
<1>2. row \in CaseRows BY <1>1 DEF CaseRows
<1>3. row.case = NextCase BY DEF Row
<1>4. Due' = Due BY DEF podVars, Due
<1> HIDE DEF row
<1>5. results' \in Seq(CaseRows) /\ Len(results') = Len(results) + 1 /\ Len(results') <= Due
  BY <1>1, <1>2 DEF HarnessInv, row
<1>6. \A i \in 1 .. Len(results') : results'[i].case = i
  BY <1>1, <1>2, <1>3, <1>5 DEF HarnessInv, row
<1> QED BY <1>4, <1>5, <1>6 DEF HarnessInv, dagVars, podVars

LEMMA HarnessStep == HarnessInv /\ OpenInv /\ [EvalNext]_evalVars => HarnessInv'
<1> SUFFICES ASSUME HarnessInv, OpenInv, [EvalNext]_evalVars PROVE HarnessInv' OBVIOUS
<1> USE DEF dagVars, podVars, Dag!Launch, Dag!Trigger, Dag!Retry, Dag!Succeed, Dag!Fail
<1>1. options' = options
  BY DEF EvalNext, evalVars, StartRunner, CaseFails, CaseScored, Summarize, InsertRun,
         InsertCases, Commit, ExitDry, Fail, CommitUnanswered, PodEnds
<1>2. Due' = Due /\ Due \in Nat BY <1>1, DueIsNat DEF Due, HarnessInv
<1>3. CASE UNCHANGED evalVars BY <1>2, <1>3 DEF evalVars, runnerVars, HarnessInv
<1>4. CASE StartRunner
  <2>1. task' = "running" /\ runner' = "cases" /\ UNCHANGED <<results, nextId>>
    BY <1>4 DEF StartRunner
  <2> QED BY <1>1, <1>2, <2>1 DEF HarnessInv
<1>5. CASE CaseFails
  <2>1. CaseDue /\ results' = Append(results, Row(NextCase, None, None)) BY <1>5 DEF CaseFails
  <2>2. UNCHANGED <<dagVars, podVars, runner, nextId>> BY <1>5 DEF CaseFails
  <2> QED BY <2>1, <2>2, NewResult
<1>6. CASE CaseScored
  <2>1. CaseDue BY <1>6 DEF CaseScored
  <2>2. PICK v \in Verdicts[NextCase], bundle \in RagasAfter :
          \E faith \in Judged(bundle) :
            results' = Append(results, Row(NextCase, NormalizeAction(v), faith))
    BY <1>6 DEF CaseScored
  <2>3. PICK faith \in Judged(bundle) :
          results' = Append(results, Row(NextCase, NormalizeAction(v), faith))
    BY <2>2
  <2>4. NormalizeAction(v) \in {"FREEZE", "MONITOR", "NO_ACTION", None}
    BY DEF NormalizeAction
  <2>5. faith \in Judgements \cup {NaN, None} BY DEF Judged
  <2>6. UNCHANGED <<dagVars, podVars, runner, nextId>> BY <1>6 DEF CaseScored
  <2> QED BY <2>1, <2>3, <2>4, <2>5, <2>6, NewResult
<1>7. CASE Summarize
  <2>1. /\ runner = "cases" /\ runner' \in {"exit", "insertRun"}
        /\ UNCHANGED <<results, nextId, task>>
    BY <1>7 DEF Summarize
  <2> QED BY <1>1, <1>2, <2>1 DEF HarnessInv
<1>8. CASE InsertRun
  <2>1. /\ runner = "insertRun" /\ runner' = "insertCases" /\ nextId' = nextId + 1
        /\ UNCHANGED <<results, task>>
    BY <1>8 DEF InsertRun
  <2> QED BY <1>1, <1>2, <2>1 DEF HarnessInv
<1>9. CASE InsertCases
  <2>1. /\ runner = "insertCases" /\ runner' = "commit" /\ UNCHANGED <<results, nextId, task>>
    BY <1>9 DEF InsertCases
  <2> QED BY <1>1, <1>2, <2>1 DEF HarnessInv
<1>10. CASE Commit \/ ExitDry \/ Fail \/ CommitUnanswered
  <2>1. /\ runner' = "off" /\ results' = << >> /\ nextId' = nextId
        /\ task' \in {"success", "up_for_retry", "failed"}
    BY <1>10 DEF Commit, ExitDry, Fail, CommitUnanswered, PodEnds
  <2> QED BY <1>1, <1>2, <2>1 DEF HarnessInv
<1> QED BY <1>3, <1>4, <1>5, <1>6, <1>7, <1>8, <1>9, <1>10 DEF EvalNext

LEMMA OpenStep == HarnessInv /\ OpenInv /\ [EvalNext]_evalVars => OpenInv'
<1> SUFFICES ASSUME HarnessInv, OpenInv, [EvalNext]_evalVars PROVE OpenInv' OBVIOUS
<1> USE DEF dagVars, podVars, openVars
<1>1. options' = options
  BY DEF EvalNext, evalVars, StartRunner, CaseFails, CaseScored, Summarize, InsertRun,
         InsertCases, Commit, ExitDry, Fail, CommitUnanswered, PodEnds
<1>2. Due' = Due /\ Due \in Nat BY <1>1, DueIsNat DEF Due, HarnessInv
<1>3. CASE UNCHANGED evalVars BY <1>2, <1>3 DEF evalVars, runnerVars, OpenInv
<1>4. CASE StartRunner
  <2>1. task # "running" /\ runner' = "cases" /\ UNCHANGED openVars
    BY <1>4 DEF StartRunner, Dag!Launch, Dag!Trigger, Dag!Retry
  <2> QED BY <2>1 DEF HarnessInv, OpenInv
<1>5. CASE CaseFails \/ CaseScored
  <2>1. runner = "cases" /\ runner' = runner /\ UNCHANGED openVars
    BY <1>5 DEF CaseFails, CaseScored, CaseDue
  <2> QED BY <2>1 DEF OpenInv
<1>6. CASE Summarize
  <2>1. /\ runner = "cases" /\ NextCase > Due /\ results' = results /\ UNCHANGED openVars
        /\ \/ options.dryRun /\ runner' = "exit"
           \/ ~options.dryRun /\ runner' = "insertRun"
    BY <1>6 DEF Summarize
  <2>2. Len(results) = Due BY <1>2, <2>1 DEF HarnessInv, NextCase
  <2> QED BY <1>1, <1>2, <2>1, <2>2 DEF OpenInv
<1>7. CASE InsertRun
  <2> DEFINE r == [id |-> nextId, version |-> version, n |-> Len(results),
                   summary |-> Summary(results)]
  <2>1. /\ runner = "insertRun" /\ runner' = "insertCases" /\ nextId' = nextId + 1
        /\ openRun' = {r} /\ UNCHANGED <<results, openCases>>
    BY <1>7 DEF InsertRun
  <2>2. r.id = nextId /\ r.n = Len(results) OBVIOUS
  <2>3. nextId \in Nat \ {0} /\ Len(results) = Due /\ ~options.dryRun /\ openCases = {}
    BY <2>1 DEF HarnessInv, OpenInv
  <2> HIDE DEF r
  <2>4. nextId' > 1 /\ r.id = nextId' - 1 /\ r.n = Due' BY <1>2, <2>1, <2>2, <2>3
  <2> QED BY <1>1, <1>2, <2>1, <2>3, <2>4 DEF OpenInv
<1>8. CASE InsertCases
  <2>1. /\ runner = "insertCases" /\ runner' = "commit"
        /\ openCases' = {[run |-> nextId - 1, row |-> results[i]] : i \in DOMAIN results}
        /\ UNCHANGED <<results, nextId, openRun>>
    BY <1>8 DEF InsertCases
  <2> QED BY <1>1, <1>2, <2>1 DEF OpenInv
<1>9. CASE Commit \/ Fail \/ CommitUnanswered
  <2>1. runner' = "off" /\ openRun' = {} /\ openCases' = {}
    BY <1>9 DEF Commit, Fail, CommitUnanswered, CommitOpen, PodEnds
  <2> QED BY <2>1 DEF OpenInv
<1>10. CASE ExitDry
  <2>1. runner = "exit" /\ runner' = "off" /\ UNCHANGED openVars BY <1>10 DEF ExitDry, PodEnds
  <2> QED BY <2>1 DEF OpenInv
<1> QED BY <1>3, <1>4, <1>5, <1>6, <1>7, <1>8, <1>9, <1>10 DEF EvalNext

\* A commit adds one whole run, and nothing to the runs that are there.
LEMMA CommitAddsRun ==
  ASSUME EvalInv, runner = "commit", CommitOpen, options' = options
  PROVE  /\ RunIds' = RunIds \cup {nextId - 1}
         /\ \A id \in RunIds : CasesOf(id)' = CasesOf(id)
         /\ \A id : id = nextId - 1 => RowsOf(id)' = {results[i] : i \in DOMAIN results}
         /\ WholeRunsOnly'
<1> SUFFICES ASSUME NEW id0, id0 = nextId - 1
             PROVE  /\ RunIds' = RunIds \cup {id0}
                    /\ \A id \in RunIds : CasesOf(id)' = CasesOf(id)
                    /\ RowsOf(id0)' = {results[i] : i \in DOMAIN results}
                    /\ WholeRunsOnly'
  OBVIOUS
<1> DEFINE added == {[run |-> id0, row |-> results[i]] : i \in DOMAIN results}
<1>1. PICK r0 : openRun = {r0} /\ r0.id = id0 /\ r0.n = Due BY DEF EvalInv, OpenInv
<1>2. /\ evalRun' = evalRun \cup {r0} /\ evalCaseResult' = evalCaseResult \cup added
      /\ Due' = Due /\ options' = options
    BY <1>1 DEF EvalInv, OpenInv, CommitOpen, Due
<1>3. /\ id0 \notin RunIds /\ id0 \in Nat
      /\ Len(results) = Due /\ ~options.dryRun
  BY DEF EvalInv, HarnessInv, OpenInv, CommittedInv, Fresh
<1>4. RunIds' = RunIds \cup {id0} BY <1>1, <1>2 DEF RunIds
<1>5. \A c \in evalCaseResult : c.run \in RunIds
  BY DEF EvalInv, CommittedInv, WholeRunsOnly, RunIds
<1>6. \A c \in added : c.run = id0 /\ c.row \in {results[i] : i \in DOMAIN results} OBVIOUS
<1>7. {c.row : c \in added} = {results[i] : i \in DOMAIN results}
  <2>1. ASSUME NEW i \in DOMAIN results PROVE \E c \in added : c.row = results[i]
    <3>1. [run |-> id0, row |-> results[i]] \in added OBVIOUS
    <3> QED BY <3>1
  <2> HIDE DEF added
  <2> QED BY <1>6, <2>1
<1> HIDE DEF added
<1>8. ASSUME NEW id \in RunIds PROVE CasesOf(id)' = CasesOf(id) /\ RowsOf(id)' = RowsOf(id)
  <2>1. {c \in evalCaseResult' : c.run = id} = {c \in evalCaseResult : c.run = id}
    BY <1>2, <1>3, <1>6, <1>8
  <2> QED BY <2>1 DEF CasesOf, RowsOf
<1>9. RowsOf(id0)' = {results[i] : i \in DOMAIN results}
  <2>1. {c \in evalCaseResult' : c.run = id0} = added BY <1>2, <1>3, <1>5, <1>6
  <2> QED BY <2>1, <1>7 DEF RowsOf
<1>10. WholeRunsOnly'
  <2>1. /\ Cardinality(RowsOf(id0)') = Due
        /\ {row.case : row \in RowsOf(id0)'} = 1 .. Due
    BY <1>3, <1>9, OneRowPerCase DEF EvalInv, HarnessInv
  <2>2. ASSUME NEW r \in evalRun'
        PROVE  /\ r.n = Due' /\ ~options'.dryRun
               /\ Cardinality(RowsOf(r.id)') = r.n
               /\ {row.case : row \in RowsOf(r.id)'} = 1 .. r.n
    <3>1. CASE r \in evalRun
      <4>1. /\ r.n = Due /\ Cardinality(RowsOf(r.id)) = r.n
            /\ {row.case : row \in RowsOf(r.id)} = 1 .. r.n
        BY <3>1 DEF EvalInv, CommittedInv, WholeRunsOnly
      <4>2. r.id \in RunIds BY <3>1 DEF RunIds
      <4> QED BY <1>2, <1>3, <1>8, <4>1, <4>2
    <3>2. CASE r = r0 BY <1>1, <1>2, <1>3, <2>1, <3>2
    <3> QED BY <1>2, <3>1, <3>2
  <2>3. \A c \in evalCaseResult' : c.run \in RunIds' BY <1>2, <1>4, <1>5, <1>6
  <2> QED BY <2>2, <2>3 DEF WholeRunsOnly, RunIds
<1> QED BY <1>4, <1>8, <1>9, <1>10

\* Only a commit shows in the tables.
LEMMA NothingCommitted ==
  ASSUME EvalInv, [EvalNext]_evalVars, ~(Commit \/ CommitUnanswered)
  PROVE  UNCHANGED <<evalRun, evalCaseResult>>
BY DEF EvalNext, evalVars, tables, StartRunner, CaseFails, CaseScored, Summarize, InsertRun,
       InsertCases, ExitDry, Fail, Uncommitted

LEMMA EvalStep ==
  ASSUME EvalInv, [EvalNext]_evalVars
  PROVE  /\ EvalInv'
         /\ RunIds \subseteq RunIds'
         /\ \A id \in RunIds : CasesOf(id)' = CasesOf(id)
<1>1. HarnessInv' /\ OpenInv' BY HarnessStep, OpenStep DEF EvalInv
<1>2. options' = options
  BY DEF EvalNext, evalVars, podVars, StartRunner, CaseFails, CaseScored, Summarize, InsertRun,
         InsertCases, Commit, ExitDry, Fail, CommitUnanswered, PodEnds
<1>3. nextId \in Nat \ {0} /\ nextId' \in Nat \ {0} BY <1>1 DEF EvalInv, HarnessInv
<1>4. CASE Commit \/ CommitUnanswered
  <2>1. runner = "commit" /\ CommitOpen /\ runner' = "off" /\ nextId' = nextId
    BY <1>4 DEF Commit, CommitUnanswered, PodEnds
  <2>2. /\ RunIds' = RunIds \cup {nextId - 1}
        /\ \A id \in RunIds : CasesOf(id)' = CasesOf(id)
        /\ WholeRunsOnly'
    BY <1>2, <2>1, CommitAddsRun
  <2>3. Fresh = nextId - 1 /\ Fresh' = nextId /\ nextId > 1
    BY <2>1 DEF Fresh, EvalInv, OpenInv
  <2>4. RunIds \subseteq 1 .. nextId - 2 BY <1>3, <2>3 DEF EvalInv, CommittedInv
  <2>5. RunIds' \subseteq 1 .. Fresh' - 1 BY <1>3, <2>2, <2>3, <2>4
  <2>6. \A id \in RunIds' : id <= nextId - 1 BY <1>3, <2>2, <2>4
  <2>7. CommittedInv' BY <2>2, <2>5, <2>6 DEF CommittedInv
  <2> QED BY <1>1, <2>2, <2>7 DEF EvalInv
<1>5. CASE ~(Commit \/ CommitUnanswered)
  <2>1. evalRun' = evalRun /\ evalCaseResult' = evalCaseResult BY <1>5, NothingCommitted
  <2>2. RunIds' = RunIds /\ \A id : CasesOf(id)' = CasesOf(id) BY <2>1 DEF RunIds, CasesOf
  <2>3. WholeRunsOnly'
    BY <1>2, <2>1 DEF EvalInv, CommittedInv, WholeRunsOnly, RowsOf, Due
  <2>4. Fresh <= Fresh' /\ Fresh \in Nat /\ Fresh' \in Nat
    <3>1. CASE InsertRun
      BY <1>3, <3>1 DEF InsertRun, Fresh
    <3>2. CASE Fail
      <4>1. runner' = "off" /\ nextId' = nextId BY <3>2 DEF Fail, PodEnds
      <4> QED BY <1>3, <4>1 DEF Fresh
    <3>3. CASE ~InsertRun /\ ~Fail
      <4>1. /\ nextId' = nextId
            /\ runner' \in {"insertCases", "commit"} => runner \in {"insertCases", "commit"}
        BY <1>5, <3>3
        DEF EvalNext, evalVars, runnerVars, StartRunner, CaseFails, CaseScored, Summarize,
            InsertCases, ExitDry, PodEnds
      <4> QED BY <1>3, <4>1 DEF Fresh
    <3> QED BY <3>1, <3>2, <3>3
  <2>5. RunIds' \subseteq 1 .. Fresh' - 1
    <3>1. 1 .. Fresh - 1 \subseteq 1 .. Fresh' - 1
      <4>1. \A a, b \in Nat : a <= b => 1 .. a - 1 \subseteq 1 .. b - 1 OBVIOUS
      <4> QED BY <2>4, <4>1
    <3> QED BY <2>2, <3>1 DEF EvalInv, CommittedInv
  <2>6. CommittedInv'
    <3>1. RunIds # {} => \E m \in RunIds : \A id \in RunIds : id <= m
      BY DEF EvalInv, CommittedInv
    <3> QED BY <2>2, <2>3, <2>5, <3>1 DEF CommittedInv
  <2> QED BY <1>1, <2>2, <2>6 DEF EvalInv
<1> QED BY <1>4, <1>5

-----------------------------------------------------------------------------
(* What a run is summed up as *)

\* round(a / 100) is the nearest whole number.
LEMMA RoundedBounds ==
  ASSUME NEW a \in Nat
  PROVE  Rounded(a, 100) \in Nat /\ 100 * Rounded(a, 100) <= a + 50
         /\ 100 * Rounded(a, 100) >= a - 50
<1> DEFINE q == a \div 100
           r == a % 100
<1>1. q \in Nat /\ r \in 0 .. 99 /\ a = 100 * q + r OBVIOUS
<1>2. Rounded(a, 100) = IF 2 * r > 100 \/ (2 * r = 100 /\ q % 2 = 1) THEN q + 1 ELSE q
  BY DEF Rounded
<1> HIDE DEF q, r
<1>3. \/ Rounded(a, 100) = q + 1 /\ 2 * r >= 100
      \/ Rounded(a, 100) = q /\ 2 * r <= 100
  BY <1>1, <1>2
<1> QED BY <1>1, <1>3

\* The columns of a case row.
LEMMA CaseRow ==
  ASSUME NEW row \in CaseRows
  PROVE  /\ row.case \in Nat
         /\ row.correct = (row.actual = Expected[row.case])
         /\ row.latency = Latencies[row.case]
         /\ row.faith \in Judgements \cup {NaN, None}
<1>1. PICK i \in Nat, faith \in Judgements \cup {NaN, None} :
        \E actual \in {"FREEZE", "MONITOR", "NO_ACTION", None} : row = Row(i, actual, faith)
  <2>1. \E i \in Nat : \E faith \in Judgements \cup {NaN, None} :
          \E actual \in {"FREEZE", "MONITOR", "NO_ACTION", None} : row = Row(i, actual, faith)
    BY DEF CaseRows
  <2> QED BY <2>1
<1>2. PICK actual \in {"FREEZE", "MONITOR", "NO_ACTION", None} : row = Row(i, actual, faith)
  BY <1>1
<1> QED BY <1>2 DEF Row

\* v is what a summary says where it averages the terms t.
Averages(v, t) ==
  /\ v = None <=> DOMAIN t = {}
  /\ v # None =>
       /\ v[2] = Cardinality(DOMAIN t) /\ v[2] \in Nat \ {0}
       /\ v[1] = NaN <=> \E x \in DOMAIN t : t[x] = NaN
       /\ v[1] # NaN => v[1] = SumFunctionOnSet(t, DOMAIN t) /\ v[1] \in Int

\* What write_run has when the cases are done.
Done(s) ==
  /\ s \in Seq(CaseRows) /\ Len(s) <= Len(Expected)
  /\ \A i \in 1 .. Len(s) : s[i].case = i

\* The rows with numbers I.
RowsAt(s, I) == {s[i] : i \in I}

\* One row per case of a part of the cases.
LEMMA PartOfRows ==
  ASSUME NEW s, Done(s),
         NEW I, I \subseteq 1 .. Len(s)
  PROVE  /\ IsFiniteSet(I) /\ IsFiniteSet(RowsAt(s, I))
         /\ Cardinality(RowsAt(s, I)) = Cardinality(I)
<1> DEFINE T == RowsAt(s, I)
           f == [i \in I |-> s[i]]
<1>1. Len(s) \in Nat /\ \A i \in 1 .. Len(s) : s[i].case = i BY DEF Done
<1>2. IsFiniteSet(I)
  <2>1. IsFiniteSet(1 .. Len(s)) BY <1>1, FS_Interval
  <2> QED BY <2>1, FS_Subset
<1>3. f \in Bijection(I, T)
  <2>1. f \in [I -> T] BY DEF RowsAt
  <2>2. \A i, j \in I : f[i] = f[j] => i = j
    <3>1. \A i \in I : f[i].case = i BY <1>1
    <3> HIDE DEF f
    <3> QED BY <3>1
  <2>3. \A row \in T : \E i \in I : f[i] = row BY DEF RowsAt
  <2> HIDE DEF f, T
  <2> QED BY <2>1, <2>2, <2>3 DEF Bijection, Injection, IsInjective, Surjection
<1> HIDE DEF f, T
<1>4. ExistsBijection(I, T) BY <1>3 DEF ExistsBijection
<1>5. IsFiniteSet(T) /\ Cardinality(T) = Cardinality(I) BY <1>2, <1>4, FS_Bijection
<1> QED BY <1>2, <1>5 DEF T

\* There is a latency for every case of the fixture.
LEMMA LatenciesAreNat == Len(Expected) \in Nat /\ \A i \in 1 .. Len(Expected) : Latencies[i] \in Nat
<1> DEFINE k == Len(Severities) * PerClass
<1>1. k \in Nat
  <2>1. Len(Severities) \in Nat /\ PerClass \in Nat BY EvalRunAssumption
  <2> QED BY <2>1
<1>2. \A i \in 1 .. k : Latencies[i] \in Nat BY EvalRunAssumption
<1>3. Expected = [i \in 1 .. k |-> ActionFor(Severities[1 + (i - 1) \div PerClass])]
  BY DEF Expected
<1> HIDE DEF k
<1>4. Len(Expected) = k BY <1>1, <1>3
<1> QED BY <1>1, <1>2, <1>4

\* One for every correct case, summed up.
LEMMA CorrectnessAverages ==
  ASSUME NEW s, Done(s), s # << >>, NEW T, T = RowsAt(s, DOMAIN s)
  PROVE  /\ Averages(<<Correct(s), Len(s)>>, [row \in T |-> IF row.correct THEN 1 ELSE 0])
         /\ Correct(s) = Cardinality({row \in T : row.actual = Expected[row.case]})
         /\ Len(s) = Cardinality(T)
         /\ Correct(s) \in Nat
<1> DEFINE I == {i \in DOMAIN s : s[i].correct}
           R == {row \in T : row.correct}
           t == [row \in T |-> IF row.correct THEN 1 ELSE 0]
           one == [row \in R |-> 1]
<1>1. /\ s \in Seq(CaseRows) /\ Len(s) \in Nat \ {0} /\ DOMAIN s = 1 .. Len(s)
      /\ \A i \in 1 .. Len(s) : s[i].case = i
  BY DEF Done
<1>0. T = {s[i] : i \in DOMAIN s} BY DEF RowsAt
<1>2. T \subseteq CaseRows /\ T # {} BY <1>0, <1>1
<1>3. R = RowsAt(s, I) BY <1>0 DEF RowsAt
<1>4. R = {row \in T : row.actual = Expected[row.case]} BY <1>2, CaseRow
<1>5. IsFiniteSet(T) /\ Cardinality(T) = Len(s)
  <2>1. T = RowsAt(s, 1 .. Len(s)) BY <1>1 DEF RowsAt
  <2>2. IsFiniteSet(T) /\ Cardinality(T) = Cardinality(1 .. Len(s)) BY <2>1, PartOfRows
  <2>3. Cardinality(1 .. Len(s)) = Len(s) BY <1>1, FS_Interval
  <2> QED BY <2>2, <2>3
<1>6. Cardinality(R) = Cardinality(I) /\ IsFiniteSet(R) /\ Cardinality(R) \in Nat
  <2>1. I \subseteq 1 .. Len(s) BY <1>1
  <2> HIDE DEF I, R
  <2>2. Cardinality(R) = Cardinality(I) /\ IsFiniteSet(R) BY <1>3, <2>1, PartOfRows
  <2> QED BY <2>2, FS_CardinalityType
<1>7. Correct(s) = Cardinality(R) BY <1>6 DEF Correct
<1>8. SumFunctionOnSet(t, T) = Cardinality(R)
  <2>1. /\ \A x \in T : t[x] \in Int
        /\ R \subseteq T /\ \A x \in R : one[x] = t[x] /\ one[x] = 1
        /\ \A x \in T \ R : t[x] = 0
    OBVIOUS
  <2> HIDE DEF t, R, one
  <2>2. SumFunctionOnSet(t, T) = SumFunctionOnSet(one, R) BY <1>5, <2>1, SumDropsZeros
  <2>3. SumFunctionOnSet(one, R) = 1 * Cardinality(R) BY <1>6, <2>1, SumOfConstant
  <2> QED BY <1>6, <2>2, <2>3
<1>9. DOMAIN t = T /\ \A x \in T : t[x] # NaN
  <2>1. 0 # NaN /\ 1 # NaN BY EvalRunAssumption
  <2> QED BY <2>1
<1> DEFINE c == Correct(s)
           n == Len(s)
           v == <<c, n>>
<1>10. c \in Nat /\ n \in Nat \ {0} /\ c = SumFunctionOnSet(t, DOMAIN t) /\ n = Cardinality(DOMAIN t)
  BY <1>1, <1>5, <1>6, <1>7, <1>8, <1>9
<1> HIDE DEF c, n, t, R, I
<1>11. v # None /\ v[1] = c /\ v[2] = n
  <2>1. v \in (Int \cup {NaN}) \X Nat BY <1>10
  <2>2. None \notin (Int \cup {NaN}) \X Nat BY EvalRunAssumption
  <2> QED BY <2>1, <2>2
<1>12. c # NaN /\ DOMAIN t # {} BY <1>2, <1>9, <1>10, EvalRunAssumption
<1>13. Averages(v, t)
  <2> HIDE DEF v
  <2> QED BY <1>9, <1>10, <1>11, <1>12 DEF Averages
<1> QED BY <1>4, <1>5, <1>7, <1>10, <1>13 DEF c, n, t

\* The faithfulness of the judged cases, summed up; one NaN spoils it.
LEMMA FaithAverages ==
  ASSUME NEW s, Done(s), NEW judged,
         judged = {row \in {s[i] : i \in DOMAIN s} : row.faith # None}
  PROVE  Averages(MeanFaith(s, Faiths(s)), [row \in judged |-> row.faith])
<1> DEFINE I == Faiths(s)
           t == [row \in judged |-> row.faith]
           f == [i \in I |-> s[i].faith]
<1>1. /\ s \in Seq(CaseRows) /\ Len(s) \in Nat /\ DOMAIN s = 1 .. Len(s)
      /\ \A i \in 1 .. Len(s) : s[i].case = i
  BY DEF Done
<1>2. judged = {s[i] : i \in I} /\ judged = RowsAt(s, I) BY DEF Faiths, RowsAt
<1>3. I \subseteq 1 .. Len(s) BY <1>1 DEF Faiths
<1>4. /\ IsFiniteSet(I) /\ Cardinality(judged) = Cardinality(I) /\ Cardinality(I) \in Nat
      /\ (Cardinality(I) = 0 <=> I = {})
  <2> HIDE DEF I
  <2>1. IsFiniteSet(I) /\ Cardinality(judged) = Cardinality(I) BY <1>2, <1>3, PartOfRows
  <2> QED BY <2>1, FS_CardinalityType, FS_EmptySet
<1>5. \A i \in I : f[i] = s[i].faith /\ f[i] \in Int \cup {NaN} /\ t[s[i]] = f[i]
  <2> SUFFICES ASSUME NEW i \in I PROVE f[i] \in Int \cup {NaN} /\ s[i] \in judged
    OBVIOUS
  <2>1. s[i] \in CaseRows /\ s[i].faith # None BY <1>1, <1>3 DEF Faiths
  <2>2. s[i].faith \in Judgements \cup {NaN, None} BY <2>1, CaseRow
  <2> QED BY <1>2, <2>1, <2>2, EvalRunAssumption
<1>6. DOMAIN t = judged OBVIOUS
<1>7. CASE I = {}
  <2>1. judged = {} BY <1>2, <1>7
  <2>2. MeanFaith(s, I) = None BY <1>7 DEF MeanFaith
  <2> QED BY <1>6, <2>1, <2>2 DEF Averages
<1>8. CASE I # {}
  <2> DEFINE a == Sum(s, I)
             n == Cardinality(I)
             v == <<a, n>>
  <2>1. MeanFaith(s, I) = v BY <1>8 DEF MeanFaith
  <2>2. judged # {} /\ n \in Nat \ {0} BY <1>2, <1>4, <1>8
  <2>3. (\E i \in I : f[i] = NaN) <=> (\E x \in judged : t[x] = NaN)
    <3> HIDE DEF I, f, t
    <3> QED BY <1>2, <1>5
  <2>4. CASE \E i \in I : f[i] = NaN
    <3>1. a = NaN BY <1>5, <2>4 DEF Sum
    <3>2. v \in (Int \cup {NaN}) \X Nat BY <2>2, <3>1
    <3>3. v # None BY <3>2, EvalRunAssumption
    <3>4. v[1] = NaN /\ v[2] = n BY <3>1
    <3>5. \E x \in judged : t[x] = NaN BY <2>3, <2>4
    <3> HIDE DEF v, t, n, I
    <3> QED BY <1>4, <1>6, <2>1, <2>2, <3>3, <3>4, <3>5 DEF Averages, n, t, I
  <2>5. CASE ~ \E i \in I : f[i] = NaN
    <3>1. a = SumFunctionOnSet(f, I) BY <1>5, <2>5 DEF Sum
    <3>2. \A i \in I : f[i] \in Int BY <1>5, <2>5
    <3>3. \A i, j \in I : s[i] = s[j] => i = j BY <1>1, <1>3
    <3>4. SumFunctionOnSet(f, I) = SumFunctionOnSet(t, judged) /\ SumFunctionOnSet(f, I) \in Int
      <4> HIDE DEF I, f, t
      <4> QED BY <1>2, <1>4, <1>5, <3>2, <3>3, SumReindexed, SumStep
    <3>5. a \in Int /\ a = SumFunctionOnSet(t, judged) BY <3>1, <3>4
    <3>6. v \in (Int \cup {NaN}) \X Nat BY <2>2, <3>5
    <3>7. v # None /\ a # NaN BY <3>5, <3>6, EvalRunAssumption
    <3>8. v[1] = a /\ v[2] = n OBVIOUS
    <3>9. ~ \E x \in judged : t[x] = NaN BY <2>3, <2>5
    <3> HIDE DEF v, a, t, n, I
    <3> QED BY <1>4, <1>6, <2>1, <2>2, <3>5, <3>7, <3>8, <3>9 DEF Averages, n, t, I
  <2> QED BY <2>4, <2>5
<1> QED BY <1>7, <1>8 DEF t

\* The rows of a run, by number, whose latency is below or at most ms.
Below(s, ms) == {i \in DOMAIN s : s[i].latency < ms}
AtMost(s, ms) == {i \in DOMAIN s : s[i].latency <= ms}

\* There is a latency with place k, and pct finds it.
LEMMA PercentileIs ==
  ASSUME NEW s, Done(s), s # << >>, NEW p \in 0 .. 100,
         NEW k, k = Rounded(p * (Len(s) - 1), 100), k \in 0 .. Len(s) - 1
  PROVE  /\ Percentile(s, p) \in {s[i].latency : i \in DOMAIN s}
         /\ Cardinality(Below(s, Percentile(s, p))) <= k
         /\ Cardinality(AtMost(s, Percentile(s, p))) > k
<1> DEFINE n == Len(s)
           lat == [i \in 1 .. n |-> s[i].latency]
           L == {s[i].latency : i \in DOMAIN s}
           Is(v) == Cardinality(Below(s, v)) <= k /\ Cardinality(AtMost(s, v)) > k
<1>1. s \in Seq(CaseRows) /\ n \in Nat \ {0} /\ DOMAIN s = 1 .. n BY DEF Done
<1>2. \A i \in 1 .. n : lat[i] = s[i].latency /\ lat[i] \in Nat
  <2> SUFFICES ASSUME NEW i \in 1 .. n PROVE s[i].latency \in Nat OBVIOUS
  <2>1. s[i] \in CaseRows /\ s[i].case = i BY <1>1 DEF Done
  <2>2. i \in 1 .. Len(Expected) BY <1>1, LatenciesAreNat DEF Done
  <2> QED BY <2>1, <2>2, CaseRow, LatenciesAreNat
<1>3. {lat[i] : i \in 1 .. n} = L BY <1>1
<1>4. \A v : /\ {i \in 1 .. n : lat[i] < v} = Below(s, v)
             /\ {i \in 1 .. n : lat[i] <= v} = AtMost(s, v)
  BY <1>1, <1>2 DEF Below, AtMost
<1>5. \E v \in L : Is(v)
  <2>1. \E v \in {lat[i] : i \in 1 .. n} :
          /\ Cardinality({i \in 1 .. n : lat[i] < v}) <= k
          /\ Cardinality({i \in 1 .. n : lat[i] <= v}) > k
    <3>1. k \in 0 .. n - 1 /\ n \in Nat \ {0} /\ \A i \in 1 .. n : lat[i] \in Nat BY <1>1, <1>2
    <3> HIDE DEF lat, n
    <3> QED BY <3>1, OrderStatistic, Zenon
  <2> HIDE DEF L, lat
  <2> QED BY <2>1, <1>3, <1>4
<1>6. Percentile(s, p) = CHOOSE v \in L : Is(v) BY DEF Percentile, Below, AtMost
<1> HIDE DEF L, Is
<1>7. Percentile(s, p) \in L /\ Is(Percentile(s, p)) BY <1>5, <1>6
<1> QED BY <1>7 DEF L, Is

\* p50 covers half of the latencies, and p95 is not below it.
LEMMA PercentilesOrdered ==
  ASSUME NEW s, Done(s), s # << >>, NEW T, T = RowsAt(s, DOMAIN s)
  PROVE  /\ {Percentile(s, 50), Percentile(s, 95)} \subseteq {row.latency : row \in T}
         /\ 100 * Cardinality({row \in T : row.latency <= Percentile(s, 50)}) >= 50 * Len(s)
         /\ Percentile(s, 50) <= Percentile(s, 95)
<1> DEFINE n == Len(s)
           p50 == Percentile(s, 50)
           p95 == Percentile(s, 95)
           j == Rounded(50 * (n - 1), 100)
           k == Rounded(95 * (n - 1), 100)
<1>1. s \in Seq(CaseRows) /\ n \in Nat \ {0} /\ DOMAIN s = 1 .. n BY DEF Done
<1>2. 50 * (n - 1) \in Nat /\ 95 * (n - 1) \in Nat BY <1>1
<1>3. /\ j \in Nat /\ 100 * j <= 50 * (n - 1) + 50 /\ 100 * j >= 50 * (n - 1) - 50
      /\ k \in Nat /\ 100 * k <= 95 * (n - 1) + 50 /\ 100 * k >= 95 * (n - 1) - 50
  BY <1>2, RoundedBounds
<1> HIDE DEF j, k
<1>4. j \in 0 .. n - 1 /\ k \in 0 .. n - 1 /\ j <= k /\ 100 * (j + 1) >= 50 * n
  BY <1>1, <1>3
<1> HIDE DEF n
<1>5. /\ p50 \in {s[i].latency : i \in DOMAIN s}
      /\ Cardinality(Below(s, p50)) <= j /\ Cardinality(AtMost(s, p50)) > j
  BY <1>4, PercentileIs DEF j, n
<1>6. /\ p95 \in {s[i].latency : i \in DOMAIN s}
      /\ Cardinality(Below(s, p95)) <= k /\ Cardinality(AtMost(s, p95)) > k
  <2>1. 95 \in 0 .. 100 /\ k = Rounded(95 * (Len(s) - 1), 100) /\ k \in 0 .. Len(s) - 1
    BY <1>4 DEF k, n
  <2> QED BY <2>1, PercentileIs
<1>0. T = {s[i] : i \in DOMAIN s} BY DEF RowsAt
<1>7. {s[i].latency : i \in DOMAIN s} \subseteq {row.latency : row \in T} \cap Nat
  <2> SUFFICES ASSUME NEW i \in DOMAIN s PROVE s[i] \in T /\ s[i].latency \in Nat
    OBVIOUS
  <2>1. s[i] \in CaseRows /\ s[i].case = i BY <1>1 DEF Done, n
  <2>2. i \in 1 .. Len(Expected) BY <1>1, LatenciesAreNat DEF Done, n
  <2> QED BY <1>0, <2>1, <2>2, CaseRow, LatenciesAreNat
<1>8. p50 \in Nat /\ p95 \in Nat /\ {p50, p95} \subseteq {row.latency : row \in T}
  <2> DEFINE L == {s[i].latency : i \in DOMAIN s}
             M == {row.latency : row \in T}
  <2> HIDE DEF L, M, p50, p95
  <2> SUFFICES p50 \in Nat /\ p95 \in Nat /\ {p50, p95} \subseteq M BY DEF M
  <2>1. p50 \in L /\ p95 \in L /\ L \subseteq M \cap Nat BY <1>5, <1>6, <1>7 DEF L, M
  <2> QED BY <2>1
<1> HIDE DEF p50, p95
<1>9. \A v : /\ Below(s, v) \subseteq 1 .. Len(s) /\ AtMost(s, v) \subseteq 1 .. Len(s)
             /\ IsFiniteSet(Below(s, v)) /\ IsFiniteSet(AtMost(s, v))
             /\ Cardinality(Below(s, v)) \in Nat /\ Cardinality(AtMost(s, v)) \in Nat
  <2> TAKE v
  <2>1. Below(s, v) \subseteq 1 .. Len(s) /\ AtMost(s, v) \subseteq 1 .. Len(s)
    BY <1>1 DEF Below, AtMost, n
  <2> QED BY <2>1, PartOfRows, FS_CardinalityType
<1>10. 100 * Cardinality({row \in T : row.latency <= p50}) >= 50 * n
  <2>1. {row \in T : row.latency <= p50} = RowsAt(s, AtMost(s, p50)) BY <1>0 DEF RowsAt, AtMost
  <2>2. Cardinality(RowsAt(s, AtMost(s, p50))) = Cardinality(AtMost(s, p50))
    BY <1>9, PartOfRows
  <2>3. Cardinality(AtMost(s, p50)) >= j + 1 BY <1>4, <1>5, <1>9
  <2> DEFINE c == Cardinality(AtMost(s, p50))
  <2>4. c \in Nat /\ c >= j + 1 BY <1>9, <2>3
  <2> HIDE DEF c
  <2>5. 100 * c >= 50 * n BY <1>1, <1>3, <1>4, <2>4
  <2> QED BY <2>1, <2>2, <2>5 DEF c
<1>11. p50 <= p95
  <2>1. SUFFICES ASSUME p95 < p50 PROVE FALSE BY <1>8
  <2>2. AtMost(s, p95) \subseteq Below(s, p50)
    <3> SUFFICES ASSUME NEW i \in AtMost(s, p95) PROVE s[i].latency < p50
      BY DEF AtMost, Below
    <3>1. s[i].latency \in Nat /\ s[i].latency <= p95 BY <1>7 DEF AtMost
    <3> QED BY <1>8, <2>1, <3>1
  <2>3. Cardinality(AtMost(s, p95)) <= Cardinality(Below(s, p50)) BY <1>9, <2>2, FS_Subset
  <2> QED BY <1>4, <1>5, <1>6, <1>9, <2>3
<1> QED BY <1>8, <1>10, <1>11 DEF n, p50, p95

\* The case rows of a run are those it was summarized from.
Summed(r) ==
  \E s \in Seq(CaseRows) :
    /\ Done(s) /\ Len(s) = r.n
    /\ RowsOf(r.id) = {s[i] : i \in DOMAIN s} /\ r.summary = Summary(s)

\* So it is in the tables, and in the transaction that is open.
SummaryInv ==
  /\ runner \in {"insertCases", "commit"} => \A r \in openRun : r.summary = Summary(results)
  /\ \A r \in evalRun : Summed(r)

\* A run commits with the rows its summary is of, and both stay.
LEMMA SummaryStep ==
  ASSUME EvalInv, SummaryInv, [EvalNext]_evalVars
  PROVE  SummaryInv'
<1>1. CASE Commit \/ CommitUnanswered
  <2>1. runner = "commit" /\ CommitOpen /\ runner' = "off" /\ options' = options
    BY <1>1 DEF Commit, CommitUnanswered, PodEnds, podVars
  <2>2. /\ \A id \in RunIds : CasesOf(id)' = CasesOf(id)
        /\ \A id : id = nextId - 1 => RowsOf(id)' = {results[i] : i \in DOMAIN results}
    BY <2>1, CommitAddsRun
  <2>3. PICK r0 : openRun = {r0} /\ r0.id = nextId - 1 /\ r0.n = Due
    BY <2>1 DEF EvalInv, OpenInv
  <2>4. evalRun' = evalRun \cup {r0} BY <2>1, <2>3 DEF CommitOpen
  <2>5. ASSUME NEW r \in evalRun PROVE Summed(r)'
    <3>1. r.id \in RunIds BY DEF RunIds
    <3>2. RowsOf(r.id)' = RowsOf(r.id)
      <4>1. \A id : RowsOf(id) = {c.row : c \in CasesOf(id)} BY DEF RowsOf, CasesOf
      <4>2. \A id : RowsOf(id)' = {c.row : c \in CasesOf(id)'} BY DEF RowsOf, CasesOf
      <4> QED BY <2>2, <3>1, <4>1, <4>2
    <3> QED BY <3>2 DEF SummaryInv, Summed
  <2>6. Summed(r0)'
    <3>1. /\ results \in Seq(CaseRows) /\ Len(results) = Due /\ Due <= Len(Expected)
          /\ \A i \in 1 .. Len(results) : results[i].case = i
      BY <2>1, DueIsNat DEF EvalInv, HarnessInv, OpenInv
    <3>2. Done(results) BY <3>1 DEF Done
    <3>3. r0.summary = Summary(results) BY <2>1, <2>3 DEF SummaryInv
    <3>4. RowsOf(r0.id)' = {results[i] : i \in DOMAIN results} BY <2>2, <2>3
    <3> QED BY <2>3, <3>1, <3>2, <3>3, <3>4 DEF Summed
  <2>7. \A r \in evalRun' : Summed(r)' BY <2>4, <2>5, <2>6
  <2> QED BY <2>1, <2>7 DEF SummaryInv
<1>2. CASE ~(Commit \/ CommitUnanswered)
  <2>1. evalRun' = evalRun /\ evalCaseResult' = evalCaseResult BY <1>2, NothingCommitted
  <2>2. \A r \in evalRun' : Summed(r)' BY <2>1 DEF SummaryInv, Summed, RowsOf
  <2>3. runner' \in {"insertCases", "commit"} => \A r \in openRun' : r.summary = Summary(results)'
    <3>1. CASE InsertRun
      <4>1. openRun' = {[id |-> nextId, version |-> version, n |-> Len(results),
                         summary |-> Summary(results)]}
            /\ results' = results
        BY <3>1 DEF InsertRun
      <4>2. Summary(results)' = Summary(results)
        BY <4>1 DEF Summary, Correct, Faiths, MeanFaith, Sum, Percentile
      <4> QED BY <4>1, <4>2
    <3>2. CASE ~InsertRun
      <4>1. \/ runner' \notin {"insertCases", "commit"}
            \/ /\ runner \in {"insertCases", "commit"}
               /\ openRun' = openRun /\ results' = results
        BY <1>2, <3>2
        DEF EvalNext, evalVars, runnerVars, openVars, StartRunner, CaseFails, CaseScored, CaseDue,
            Summarize, InsertCases, ExitDry, Fail, PodEnds
      <4>2. results' = results => Summary(results)' = Summary(results)
        BY DEF Summary, Correct, Faiths, MeanFaith, Sum, Percentile
      <4> QED BY <4>1, <4>2 DEF SummaryInv
    <3> QED BY <3>1, <3>2
  <2> QED BY <2>2, <2>3 DEF SummaryInv
<1> QED BY <1>1, <1>2

-----------------------------------------------------------------------------
(* The board *)

\* Every fetch still wanted is one of the effect in force, and while none is
\* loading the cases are those of its run, or none.
BoardInv ==
  /\ runs \subseteq RunIds
  /\ BoardShown => selected \in RunIds
  /\ fetches \subseteq [run : RunIds, cancelled : BOOLEAN]
  /\ \A f \in fetches : ~f.cancelled => f.run = effectOf /\ loading
  /\ ~loading => cases = {} \/ (effectOf \in RunIds /\ cases = CasesOf(effectOf))

LEMMA BoardStep == EvalInv /\ BoardInv /\ [Next]_vars => BoardInv'
<1> SUFFICES ASSUME EvalInv, BoardInv, [Next]_vars PROVE BoardInv' OBVIOUS
<1> USE DEF BoardInv, BoardShown
<1>1. CASE [EvalNext]_evalVars /\ UNCHANGED boardVars
  <2>1. RunIds \subseteq RunIds' /\ \A id \in RunIds : CasesOf(id)' = CasesOf(id)
    BY <1>1, EvalStep
  <2>2. UNCHANGED <<runs, selected, effectOf, cases, loading, fetches>> BY <1>1 DEF boardVars
  <2>3. effectOf \in RunIds => CasesOf(effectOf)' = CasesOf(effectOf)
    <3>1. ASSUME NEW id \in RunIds, id = effectOf PROVE CasesOf(effectOf)' = CasesOf(id)
      BY <2>1, <2>2, <3>1 DEF CasesOf
    <3> QED BY <3>1
  <2>4. [run : RunIds, cancelled : BOOLEAN] \subseteq [run : RunIds', cancelled : BOOLEAN]
    BY <2>1
  <2> QED BY <2>1, <2>2, <2>3, <2>4
<1>2. ASSUME UNCHANGED evalVars
      PROVE  RunIds' = RunIds /\ \A id : CasesOf(id)' = CasesOf(id)
  BY <1>2 DEF evalVars, tables, RunIds, CasesOf
<1>3. CASE OpenPage
  <2>0. NewestRuns \subseteq RunIds BY DEF NewestRuns, RunIds
  <2>1. PICK listed \in SUBSET RunIds :
          runs' = listed /\ selected' = IF listed = {} THEN None ELSE Max(listed)
    BY <1>3, <2>0 DEF OpenPage
  <2>2. /\ cases' = {} /\ loading' = FALSE /\ fetches' = {} /\ UNCHANGED evalVars
    BY <1>3 DEF OpenPage
  <2>3. RunIds' = RunIds BY <1>2, <2>2
  <2>4. listed # {} => Max(listed) \in RunIds
    <3>1. /\ RunIds \subseteq 1 .. Fresh - 1 /\ Fresh \in Int
      BY DEF EvalInv, CommittedInv, HarnessInv, Fresh
    <3>2. IsFiniteSet(1 .. Fresh - 1) BY <3>1, FS_Interval
    <3>3. listed \subseteq 1 .. Fresh - 1 /\ listed \subseteq Int BY <2>1, <3>1
    <3>4. IsFiniteSet(listed) BY <3>2, <3>3, FS_Subset
    <3>5. listed # {} => \E m \in listed : \A id \in listed : m >= id
      BY <3>3, <3>4, MaxExists
    <3> QED BY <2>1, <3>5 DEF Max
  <2> QED BY <2>1, <2>2, <2>3, <2>4
<1>4. ASSUME NEW id \in runs, Select(id) PROVE BoardInv'
  BY <1>2, <1>4 DEF Select
<1>5. CASE Effect
  <2> DEFINE new == [run |-> selected, cancelled |-> FALSE]
             old == {Cancelled(f) : f \in fetches}
  <2>1. /\ runs # {} /\ effectOf' = selected /\ loading' = TRUE
        /\ fetches' = old \cup {new}
        /\ UNCHANGED <<evalVars, runs, selected, cases>>
    BY <1>5 DEF Effect
  <2>2. RunIds' = RunIds BY <1>2, <2>1
  <2>3. /\ new \in [run : RunIds, cancelled : BOOLEAN] /\ new.run = selected
        /\ old \subseteq [run : RunIds, cancelled : BOOLEAN]
        /\ \A f \in old : f.cancelled
    BY <2>1 DEF Cancelled
  <2> HIDE DEF new, old
  <2> QED BY <2>1, <2>2, <2>3
<1>6. ASSUME NEW f \in fetches, Receive(f) PROVE BoardInv'
  <2>1. /\ fetches' = fetches \ {f} /\ UNCHANGED <<evalVars, runs, selected, effectOf>>
        /\ IF f.cancelled THEN UNCHANGED <<cases, loading>>
           ELSE cases' \in {{}, CasesOf(f.run)} /\ loading' = FALSE
    BY <1>6 DEF Receive
  <2>2. RunIds' = RunIds /\ CasesOf(f.run)' = CasesOf(f.run)
        /\ CasesOf(effectOf)' = CasesOf(effectOf)
    BY <1>2, <2>1 DEF CasesOf
  <2>3. CASE f.cancelled BY <2>1, <2>2, <2>3
  <2>4. CASE ~f.cancelled
    <3>1. f.run = effectOf /\ f.run \in RunIds BY <2>4
    <3>2. \A g \in fetches' : g.cancelled
      <4>1. ASSUME NEW g \in fetches', ~g.cancelled PROVE FALSE
        <5>1. g \in fetches /\ g # f /\ g.run = effectOf BY <2>1, <4>1
        <5>2. g.run = f.run /\ g.cancelled = f.cancelled BY <2>4, <3>1, <4>1, <5>1
        <5>3. f \in [run : RunIds, cancelled : BOOLEAN]
              /\ g \in [run : RunIds, cancelled : BOOLEAN]
          BY <5>1
        <5> QED BY <5>1, <5>2, <5>3
      <4> QED BY <4>1
    <3> QED BY <2>1, <2>2, <2>4, <3>1, <3>2
  <2> QED BY <2>3, <2>4
<1> QED BY <1>1, <1>3, <1>4, <1>5, <1>6 DEF Next, BoardNext, vars

LEMMA BoardInvariant == Spec => [](EvalInv /\ BoardInv)
<1>1. Init => EvalInv /\ BoardInv
  BY EvalInitial DEF Init, BoardInv, BoardShown
<1>2. EvalInv /\ [Next]_vars => EvalInv'
  <2>1. [Next]_vars => [EvalNext]_evalVars
    BY DEF Next, vars, BoardNext, OpenPage, Select, Effect, Receive
  <2> QED BY <2>1, EvalStep
<1> QED BY <1>1, <1>2, BoardStep, PTL DEF Spec

\* Every row of eval_run comes with one row for each case that was to be run.
THEOREM RunsAreWhole == Spec => []WholeRunsOnly
<1>1. EvalInv => WholeRunsOnly BY DEF EvalInv, CommittedInv
<1> QED BY <1>1, BoardInvariant, PTL

\* The cases below a run that is selected, in effect and loaded are that run's.
THEOREM DrilldownIsOfSelected == Spec => []DrilldownShowsSelected
<1>1. BoardInv => DrilldownShowsSelected BY DEF BoardInv, DrilldownShowsSelected
<1> QED BY <1>1, BoardInvariant, PTL

LEMMA SummaryInvariant == Spec => [](EvalInv /\ SummaryInv /\ BoardInv)
<1>1. Init => SummaryInv BY DEF Init, EvalInit, SummaryInv
<1>2. EvalInv /\ SummaryInv /\ [Next]_vars => SummaryInv'
  <2>1. [Next]_vars => [EvalNext]_evalVars
    BY DEF Next, vars, BoardNext, OpenPage, Select, Effect, Receive
  <2> QED BY <2>1, SummaryStep
<1> QED BY <1>1, <1>2, BoardInvariant, PTL DEF Spec

\* What the summary of a run says for a metric is the mean of the case rows' values.
LEMMA RunAverages ==
  ASSUME SummaryInv, NEW r \in evalRun, NEW m \in Metrics
  PROVE  Averages(r.summary[m], Terms(r.id, m))
<1>1. PICK s \in Seq(CaseRows) :
        /\ Done(s) /\ Len(s) = r.n
        /\ RowsOf(r.id) = {s[i] : i \in DOMAIN s} /\ r.summary = Summary(s)
  BY DEF SummaryInv, Summed
<1>2. CASE s = << >>
  <2>1. RowsOf(r.id) = {} /\ JudgedRows(r.id) = {} BY <1>1, <1>2 DEF JudgedRows
  <2>2. DOMAIN Terms(r.id, m) = {} BY <2>1 DEF Terms
  <2>3. r.summary[m] = None BY <1>1, <1>2 DEF Summary, Metrics
  <2> QED BY <2>2, <2>3 DEF Averages
<1>3. CASE s # << >>
  <2>1. CASE m = "correctness"
    <3>1. r.summary[m] = <<Correct(s), Len(s)>> BY <1>1, <1>3, <2>1 DEF Summary
    <3>2. Terms(r.id, m) = [row \in RowsOf(r.id) |-> IF row.correct THEN 1 ELSE 0]
      BY <2>1 DEF Terms
    <3>3. Averages(<<Correct(s), Len(s)>>, Terms(r.id, m))
      <4> DEFINE T == RowsOf(r.id)
      <4>1. T = RowsAt(s, DOMAIN s) BY <1>1 DEF RowsAt
      <4> HIDE DEF T
      <4>2. Averages(<<Correct(s), Len(s)>>, [row \in T |-> IF row.correct THEN 1 ELSE 0])
        BY <1>1, <1>3, <4>1, CorrectnessAverages
      <4> QED BY <3>2, <4>2 DEF T
    <3> QED BY <3>1, <3>3
  <2>2. CASE m = "faithfulness"
    <3>1. r.summary[m] = MeanFaith(s, Faiths(s)) BY <1>1, <1>3, <2>2 DEF Summary
    <3>2. Terms(r.id, m) = [row \in JudgedRows(r.id) |-> row.faith] BY <2>2 DEF Terms
    <3>3. JudgedRows(r.id) = {row \in {s[i] : i \in DOMAIN s} : row.faith # None}
      BY <1>1 DEF JudgedRows
    <3> QED BY <1>1, <3>1, <3>2, <3>3, FaithAverages
  <2> QED BY <2>1, <2>2 DEF Metrics
<1> QED BY <1>2, <1>3

(***************************************************************************)
(* The correctness, the mean faithfulness and the percentiles in a row of  *)
(* eval_run are what one recomputes from the case rows committed with it:  *)
(* _summarize and write_run see the same results, and no later run touches *)
(* them.                                                                   *)
(***************************************************************************)
THEOREM SummariesMatch == Spec => []SummaryMatchesCases
<1>1. ASSUME SummaryInv PROVE SummaryMatchesCases
  <2> SUFFICES ASSUME NEW r \in evalRun, r.n > 0
               PROVE  LET T == RowsOf(r.id)
                          judged == JudgedRows(r.id)
                          mean == r.summary.faithfulness
                      IN  /\ r.summary.correctness
                               = <<Cardinality({row \in T : row.actual = Expected[row.case]}),
                                   Cardinality(T)>>
                          /\ judged = {} <=> mean = None
                          /\ judged # {} => mean[1] = NaN <=> \E row \in judged : row.faith = NaN
                          /\ judged # {} /\ mean[1] # NaN =>
                               mean[1] * Cardinality(judged)
                                 = SumFunctionOnSet([row \in judged |-> row.faith], judged) * mean[2]
                          /\ Covers(r.id, r.summary.p50, 50) /\ r.summary.p50 <= r.summary.p95
                          /\ {r.summary.p50, r.summary.p95} \subseteq {row.latency : row \in T}
    BY DEF SummaryMatchesCases
  <2> DEFINE T == RowsOf(r.id)
             judged == JudgedRows(r.id)
             mean == r.summary.faithfulness
             t == [row \in judged |-> row.faith]
  <2>1. PICK s \in Seq(CaseRows) :
          /\ Done(s) /\ Len(s) = r.n /\ T = RowsAt(s, DOMAIN s) /\ r.summary = Summary(s)
    BY <1>1 DEF SummaryInv, Summed, RowsAt
  <2>2. s # << >>
    <3>1. Len(s) > 0 BY <2>1
    <3> QED BY <3>1
  <2>3. /\ r.summary.correctness = <<Correct(s), Len(s)>>
        /\ r.summary.p50 = Percentile(s, 50) /\ r.summary.p95 = Percentile(s, 95)
    BY <2>1, <2>2 DEF Summary
  <2>4. Averages(mean, t)
    <3>1. r.summary["faithfulness"] = mean /\ Terms(r.id, "faithfulness") = t BY DEF Terms
    <3> HIDE DEF t
    <3> QED BY <1>1, <3>1, RunAverages DEF Metrics
  <2>5. DOMAIN t = judged /\ \A row \in judged : t[row] = row.faith OBVIOUS
  <2> HIDE DEF T, judged, mean, t
  <2>6. /\ Correct(s) = Cardinality({row \in T : row.actual = Expected[row.case]})
        /\ Len(s) = Cardinality(T)
    BY <2>1, <2>2, CorrectnessAverages
  <2>7. /\ {Percentile(s, 50), Percentile(s, 95)} \subseteq {row.latency : row \in T}
        /\ 100 * Cardinality({row \in T : row.latency <= Percentile(s, 50)}) >= 50 * Len(s)
        /\ Percentile(s, 50) <= Percentile(s, 95)
    BY <2>1, <2>2, PercentilesOrdered
  <2>8. Covers(r.id, r.summary.p50, 50) BY <2>3, <2>6, <2>7 DEF Covers, T
  <2>9. /\ judged = {} <=> mean = None
        /\ judged # {} => mean[1] = NaN <=> \E row \in judged : row.faith = NaN
        /\ judged # {} /\ mean[1] # NaN =>
             mean[1] * Cardinality(judged) = SumFunctionOnSet(t, judged) * mean[2]
    BY <2>4, <2>5 DEF Averages
  <2> QED BY <2>3, <2>6, <2>7, <2>8, <2>9 DEF T, judged, mean, t
<1> QED BY <1>1, SummaryInvariant, PTL

\* The largest of some integers.
LEMMA MaxIs ==
  ASSUME NEW S, S \subseteq Int, NEW m \in S, \A x \in S : x <= m
  PROVE  Max(S) = m
<1>1. \A x \in S : m >= x OBVIOUS
<1>2. Max(S) \in S /\ \A x \in S : Max(S) >= x BY <1>1 DEF Max
<1>3. Max(S) >= m /\ m >= Max(S) /\ Max(S) \in Int /\ m \in Int BY <1>1, <1>2
<1> QED BY <1>3

\* The threshold of detectRegressions, 5 per cent, without division.
LEMMA FiveLess ==
  ASSUME NEW a \in Int, NEW b \in Int, NEW m \in Nat, NEW n \in Nat
  PROVE  /\ 20 * (a * n - b * m) > a * n <=> 100 * b * m < 95 * a * n
         /\ 20 * (a * n - b * m) = a * n <=> 100 * b * m = 95 * a * n
<1> DEFINE x == a * n
           y == b * m
<1>1. x \in Int /\ y \in Int OBVIOUS
<1>2. 100 * b * m = 100 * y /\ 95 * a * n = 95 * x OBVIOUS
<1> HIDE DEF x, y
<1>3. /\ 20 * (x - y) > x <=> 100 * y < 95 * x
      /\ 20 * (x - y) = x <=> 100 * y = 95 * x
  BY <1>1
<1> QED BY <1>2, <1>3 DEF x, y

\* What falls from one run's terms to another's, by more than five per cent or by
\* exactly that.
Drops(before, after, orExactly) ==
  LET now == 100 * SumFunctionOnSet(after, DOMAIN after) * Cardinality(DOMAIN before)
      bound == 95 * SumFunctionOnSet(before, DOMAIN before) * Cardinality(DOMAIN after)
  IN  /\ DOMAIN before # {} /\ DOMAIN after # {}
      /\ \A x \in DOMAIN before : before[x] # NaN
      /\ \A x \in DOMAIN after : after[x] # NaN
      /\ SumFunctionOnSet(before, DOMAIN before) > 0
      /\ now < bound \/ (orExactly /\ now = bound)

\* Two values are a regression when what they are means of fell by more than five
\* per cent, and only when it fell by five or more.
LEMMA RegressedMeans ==
  ASSUME NEW v, NEW w, NEW before, NEW after, Averages(v, before), Averages(w, after)
  PROVE  /\ v # None /\ w # None /\ Regressed(v, w) => Drops(before, after, TRUE)
         /\ Drops(before, after, FALSE) => v # None /\ w # None /\ Regressed(v, w)
<1> DEFINE Numbers == /\ DOMAIN before # {} /\ DOMAIN after # {}
                      /\ \A x \in DOMAIN before : before[x] # NaN
                      /\ \A x \in DOMAIN after : after[x] # NaN
           a == SumFunctionOnSet(before, DOMAIN before)
           b == SumFunctionOnSet(after, DOMAIN after)
           m == Cardinality(DOMAIN before)
           n == Cardinality(DOMAIN after)
<1>1. Numbers <=> v # None /\ w # None /\ v[1] # NaN /\ w[1] # NaN BY DEF Averages
<1>2. \A e \in BOOLEAN : Drops(before, after, e) <=>
        Numbers /\ a > 0 /\ (100 * b * m < 95 * a * n \/ (e /\ 100 * b * m = 95 * a * n))
  BY Zenon DEF Drops
<1>3. CASE Numbers
  <2>1. v[1] = a /\ a \in Int /\ v[2] = m /\ m \in Nat BY <1>1, <1>3 DEF Averages
  <2>2. w[1] = b /\ b \in Int /\ w[2] = n /\ n \in Nat BY <1>1, <1>3 DEF Averages
  <2> HIDE DEF a, b, m, n, Numbers
  <2>3. Regressed(v, w) <=>
          /\ a > 0
          /\ \/ 20 * (a * n - b * m) > a * n
             \/ 20 * (a * n - b * m) = a * n /\ <<v, w>> \in ExactDrops
    BY <1>1, <1>3, <2>1, <2>2 DEF Regressed
  <2>4. Regressed(v, w) <=>
          /\ a > 0
          /\ \/ 100 * b * m < 95 * a * n
             \/ 100 * b * m = 95 * a * n /\ <<v, w>> \in ExactDrops
    BY <2>1, <2>2, <2>3, FiveLess
  <2> QED BY <1>1, <1>2, <1>3, <2>4
<1>4. CASE ~Numbers
  <2>1. ~(v # None /\ w # None /\ Regressed(v, w)) BY <1>1, <1>4 DEF Regressed
  <2>2. ~Drops(before, after, FALSE) BY <1>2, <1>4
  <2> QED BY <2>1, <2>2
<1> QED BY <1>3, <1>4

\* The last two of a finite set are those after which nothing comes.
LEMMA LastTwo ==
  ASSUME NEW S, IsFiniteSet(S), S \subseteq Int
  PROVE  /\ Cardinality(S) >= 2 =>
              LET c == Max(S)
                  p == Max(S \ {c})
              IN  p \in S /\ c \in S /\ p < c /\ \A x \in S \ {p, c} : ~(x > p)
         /\ \A p, c \in S : p < c /\ (\A x \in S \ {p, c} : ~(x > p)) =>
              Cardinality(S) >= 2 /\ c = Max(S) /\ p = Max(S \ {Max(S)})
<1>1. ASSUME Cardinality(S) >= 2, NEW c, c = Max(S), NEW p, p = Max(S \ {c})
      PROVE  p \in S /\ c \in S /\ p < c /\ \A x \in S \ {p, c} : ~(x > p)
  <2>1. S # {} /\ Cardinality(S) \in Nat BY <1>1, FS_EmptySet, FS_CardinalityType
  <2>2. \E m \in S : \A x \in S : m >= x BY <2>1, MaxExists
  <2>3. c \in S /\ \A x \in S : c >= x BY <1>1, <2>2 DEF Max
  <2>4. IsFiniteSet(S \ {c}) /\ Cardinality(S \ {c}) = Cardinality(S) - 1
    BY <2>3, FS_RemoveElement
  <2>5. S \ {c} # {}
    <3>1. Cardinality(S \ {c}) # 0 BY <1>1, <2>1, <2>4
    <3> QED BY <3>1, FS_EmptySet
  <2>6. S \ {c} \subseteq Int OBVIOUS
  <2>7. \E m \in S \ {c} : \A x \in S \ {c} : m >= x BY <2>4, <2>5, <2>6, MaxExists
  <2>8. p \in S \ {c} /\ \A x \in S \ {c} : p >= x BY <1>1, <2>7 DEF Max
  <2>9. p < c BY <2>3, <2>8
  <2>10. \A x \in S \ {p, c} : ~(x > p) BY <2>8
  <2> QED BY <2>3, <2>8, <2>9, <2>10
<1>2. ASSUME NEW p \in S, NEW c \in S, p < c, \A x \in S \ {p, c} : ~(x > p)
      PROVE  Cardinality(S) >= 2 /\ c = Max(S) /\ p = Max(S \ {Max(S)})
  <2>1. p \in Int /\ c \in Int /\ p # c BY <1>2
  <2>2. \A x \in S : x <= c
    <3> SUFFICES ASSUME NEW x \in S PROVE x <= c OBVIOUS
    <3>1. CASE x \in {p, c} BY <1>2, <2>1, <3>1
    <3>2. CASE x \notin {p, c}
      <4>1. ~(x > p) /\ x \in Int BY <1>2, <3>2
      <4> QED BY <1>2, <2>1, <4>1
    <3> QED BY <3>1, <3>2
  <2>3. Max(S) = c BY <2>2, MaxIs
  <2>4. \A x \in S \ {c} : x <= p
    <3> SUFFICES ASSUME NEW x \in S \ {c} PROVE x <= p OBVIOUS
    <3>1. CASE x = p BY <2>1, <3>1
    <3>2. CASE x # p
      <4>1. ~(x > p) /\ x \in Int BY <1>2, <3>2
      <4> QED BY <2>1, <4>1
    <3> QED BY <3>1, <3>2
  <2>5. S \ {c} \subseteq Int /\ p \in S \ {c} BY <2>1
  <2>6. Max(S \ {c}) = p BY <2>4, <2>5, MaxIs
  <2>7. Cardinality({p, c}) = 2
    <3>1. IsFiniteSet({}) /\ Cardinality({}) = 0 BY FS_EmptySet
    <3>2. IsFiniteSet({c}) /\ Cardinality({c}) = 1 BY FS_Singleton
    <3>3. Cardinality({c} \cup {p}) = Cardinality({c}) + 1 BY <2>1, <3>2, FS_AddElement
    <3>4. {c} \cup {p} = {p, c} OBVIOUS
    <3> QED BY <3>2, <3>3, <3>4
  <2>8. Cardinality(S) >= 2
    <3>1. {p, c} \in SUBSET S OBVIOUS
    <3>2. Cardinality({p, c}) <= Cardinality(S) BY <3>1, FS_Subset
    <3>3. Cardinality(S) \in Nat BY FS_CardinalityType
    <3> QED BY <2>7, <3>2, <3>3
  <2> QED BY <2>3, <2>6, <2>8
<1> QED BY <1>1, <1>2

(***************************************************************************)
(* detectRegressions against the case rows of a version's last two listed  *)
(* runs, for any number of runs, cases and judgements, and whichever way   *)
(* the doubles fall at exactly five per cent: what it names fell by five   *)
(* per cent or more, and what fell by more than five per cent it names.    *)
(***************************************************************************)
THEOREM BannerTellsTruth == Spec => []BannerIsTrue
<1>1. ASSUME EvalInv, SummaryInv, BoardInv PROVE BannerIsTrue
  <2> DEFINE Value(id, m) == Listed(id).summary[m]
             Of(v) == {id \in runs : Listed(id).version = v}
             Reg(p, c, m) == Value(p, m) # None /\ Value(c, m) # None
                               /\ Regressed(Value(p, m), Value(c, m))
             NoneLater(v, p, c) == ~\E id \in runs \ {p, c} : Listed(id).version = v /\ id > p
  <2>1. ASSUME NEW p \in runs, NEW c \in runs, NEW m \in Metrics
        PROVE  /\ Reg(p, c, m) => Drops(Terms(p, m), Terms(c, m), TRUE)
               /\ Drops(Terms(p, m), Terms(c, m), FALSE) => Reg(p, c, m)
    <3>1. \A id \in runs : Listed(id) \in evalRun /\ Listed(id).id = id
      <4> SUFFICES ASSUME NEW id \in runs PROVE Listed(id) \in evalRun /\ Listed(id).id = id
        OBVIOUS
      <4>1. \E r \in evalRun : r.id = id BY <1>1 DEF BoardInv, RunIds
      <4> QED BY <4>1 DEF Listed
    <3>2. Averages(Value(p, m), Terms(p, m)) /\ Averages(Value(c, m), Terms(c, m))
      BY <1>1, <3>1, RunAverages
    <3> HIDE DEF Value
    <3> QED BY <3>2, RegressedMeans
  <2>2. ASSUME NEW v \in Versions
        PROVE  IsFiniteSet(Of(v)) /\ Of(v) \subseteq Int
    <3>1. RunIds \subseteq 1 .. Fresh - 1 /\ Fresh \in Int /\ runs \subseteq RunIds
      BY <1>1 DEF EvalInv, CommittedInv, BoardInv, HarnessInv, Fresh
    <3>2. IsFiniteSet(1 .. Fresh - 1) BY <3>1, FS_Interval
    <3>3. Of(v) \subseteq 1 .. Fresh - 1 BY <3>1
    <3> HIDE DEF Of
    <3> QED BY <3>1, <3>2, <3>3, FS_Subset
  <2>3. ASSUME NEW v \in Versions, NEW m \in Metrics
        PROVE  <<v, m>> \in Regressions
                 <=> \E p, c \in Of(v) : p < c /\ NoneLater(v, p, c) /\ Reg(p, c, m)
    <3> DEFINE S == Of(v)
               c1 == Max(S)
               p1 == Max(S \ {c1})
    <3>1. <<v, m>> \in Regressions <=> Cardinality(S) >= 2 /\ Reg(p1, c1, m)
      BY DEF Regressions, OfVersion
    <3>2. \A p, c \in S : NoneLater(v, p, c) <=> \A x \in S \ {p, c} : ~(x > p)
      OBVIOUS
    <3>3. IsFiniteSet(S) /\ S \subseteq Int BY <2>2
    <3> HIDE DEF S, Reg, NoneLater
    <3>4. Cardinality(S) >= 2 => p1 \in S /\ c1 \in S /\ p1 < c1 /\ \A x \in S \ {p1, c1} : ~(x > p1)
      BY <3>3, LastTwo
    <3>5. \A p, c \in S : p < c /\ (\A x \in S \ {p, c} : ~(x > p)) =>
            Cardinality(S) >= 2 /\ c = c1 /\ p = p1
      BY <3>3, LastTwo
    <3> HIDE DEF p1, c1
    <3>6. <<v, m>> \in Regressions
            <=> \E p, c \in S : p < c /\ NoneLater(v, p, c) /\ Reg(p, c, m)
      BY <3>1, <3>2, <3>4, <3>5
    <3> QED BY <3>6 DEF S
  <2>4. ASSUME NEW v \in Versions, NEW m \in Metrics, NEW e \in BOOLEAN
        PROVE  Fell(v, m, e) <=> \E p, c \in Of(v) :
                 p < c /\ NoneLater(v, p, c) /\ Drops(Terms(p, m), Terms(c, m), e)
    BY Zenon DEF Fell, Drops
  <2>5. \A v : Of(v) \subseteq runs OBVIOUS
  <2> HIDE DEF Of, NoneLater, Reg
  <2> QED BY <2>1, <2>3, <2>4, <2>5 DEF BannerIsTrue
<1> QED BY <1>1, SummaryInvariant, PTL

-----------------------------------------------------------------------------
(* The trainer *)

\* How far the pod is says what is on the volume, read back and inserted.
TrainerInv ==
  /\ day \in 0 .. Days
  /\ trainer \in {"off", "fetch", "save", "write", "read", "insert", "commit", "close"}
  /\ trainer # "off" <=> training = "running"
  /\ training # "none" => day > 0
  /\ trainer \in {"read", "insert", "commit", "close"} => latest = Training!Model(day)
  /\ trainer \in {"insert", "commit"} => bytes = Training!Model(day)
  /\ open = IF trainer = "commit"
            THEN <<[day |-> day, model |-> Training!Model(day)]>> ELSE << >>

RegistryRows == [day : 1 .. Days, model : {Training!Model(d) : d \in 1 .. Days}]

RegistryInv ==
  /\ registry \in Seq(RegistryRows)
  /\ trainer = "close" => \E i \in 1 .. Len(registry) : registry[i].day = day
  /\ Training!RegistryRowsAreModels

LEMMA TrainerInit ==
  ASSUME Training!RetrainingAssumption, Days \in Nat, Training!Init
  PROVE  TrainerInv /\ RegistryInv
BY DEF Training!Init, Training!Dag!Init, TrainerInv, RegistryInv, Training!RegistryRowsAreModels

LEMMA TrainerStep ==
  ASSUME Days \in Nat, TrainerInv, [Training!Next]_(Training!vars)
  PROVE  TrainerInv'
<1> USE DEF Training!dagVars, Training!podVars
<1>1. CASE UNCHANGED Training!vars BY <1>1 DEF Training!vars, TrainerInv, Training!Model
<1>2. CASE Training!Launch
  <2>1. /\ training # "running" /\ training' = "running" /\ trainer' = "fetch" /\ open' = open
        /\ \/ day < Days /\ day' = day + 1
           \/ training = "up_for_retry" /\ day' = day
    BY <1>2 DEF Training!Launch, Training!Dag!Launch, Training!Dag!Trigger, Training!Dag!Retry
  <2> QED BY <2>1 DEF TrainerInv
<1>3. CASE Training!Train \/ Training!Truncate \/ Training!Write \/ Training!ReadBack
           \/ Training!Insert \/ Training!Commit
  BY <1>3
  DEF Training!Train, Training!Truncate, Training!Write, Training!ReadBack, Training!Insert,
      Training!Commit, Training!AfterSaving, Training!AfterInsert, TrainerInv, Training!Model
<1>4. CASE Training!Exit \/ Training!Fail \/ Training!CommitUnanswered
  <2>1. /\ training = "running" /\ training' # "running"
        /\ trainer' = "off" /\ open' = << >> /\ day' = day
    BY <1>4
    DEF Training!Exit, Training!Fail, Training!CommitUnanswered, Training!PodEnds,
        Training!Dag!Succeed, Training!Dag!Fail
  <2> QED BY <2>1 DEF TrainerInv
<1> QED BY <1>1, <1>2, <1>3, <1>4 DEF Training!Next

\* Appending a row of the day to the registry, or nothing.
LEMMA MoreRows ==
  ASSUME NEW old \in Seq(RegistryRows), NEW new \in Seq(RegistryRows)
  PROVE  /\ old \o new \in Seq(RegistryRows)
         /\ \A i \in 1 .. Len(old) :
              i \in 1 .. Len(old \o new) /\ (old \o new)[i] = old[i]
         /\ \A i \in 1 .. Len(new) :
              Len(old) + i \in 1 .. Len(old \o new)
              /\ (old \o new)[Len(old) + i] = new[i]
         /\ \A i \in 1 .. Len(old \o new) :
              \/ i \in 1 .. Len(old) /\ (old \o new)[i] = old[i]
              \/ \E j \in 1 .. Len(new) : (old \o new)[i] = new[j]
<1>1. Len(old) \in Nat /\ Len(new) \in Nat OBVIOUS
<1>2. /\ old \o new \in Seq(RegistryRows) /\ Len(old \o new) = Len(old) + Len(new)
      /\ \A i \in 1 .. Len(old) + Len(new) :
           (old \o new)[i] = IF i <= Len(old) THEN old[i] ELSE new[i - Len(old)]
  OBVIOUS
<1> DEFINE both == old \o new
           m == Len(old)
           n == Len(new)
<1> HIDE DEF both, m, n
<1>3. \A i \in 1 .. m + n : i <= m \/ (i - m \in 1 .. n) BY <1>1 DEF m, n
<1>4. \A i \in 1 .. n : m + i \in 1 .. m + n /\ ~(m + i <= m) /\ (m + i) - m = i
  BY <1>1 DEF m, n
<1>5. \A i \in 1 .. m : i \in 1 .. m + n /\ i <= m BY <1>1 DEF m, n
<1>6. /\ Len(both) = m + n
      /\ \A i \in 1 .. m + n : both[i] = IF i <= m THEN old[i] ELSE new[i - m]
  BY <1>2 DEF both, m, n
<1>7. /\ \A i \in 1 .. m : i \in 1 .. Len(both) /\ both[i] = old[i]
      /\ \A i \in 1 .. n : m + i \in 1 .. Len(both) /\ both[m + i] = new[i]
  BY <1>4, <1>5, <1>6
<1>8. ASSUME NEW i \in 1 .. Len(both)
      PROVE  \/ i \in 1 .. m /\ both[i] = old[i]
             \/ \E j \in 1 .. n : both[i] = new[j]
  <2>1. CASE i <= m
    <3>1. i \in 1 .. m BY <1>1, <1>6, <2>1 DEF m, n
    <3> QED BY <1>7, <3>1
  <2>2. CASE ~(i <= m) BY <1>3, <1>6, <2>2
  <2> QED BY <2>1, <2>2
<1> QED BY <1>2, <1>7, <1>8 DEF both, m, n

LEMMA RowAppended ==
  ASSUME Days \in Nat, TrainerInv, RegistryInv, trainer = "commit",
         registry' = registry \o open
  PROVE  /\ registry' \in Seq(RegistryRows)
         /\ \A i \in 1 .. Len(registry') :
              registry'[i].model = Training!Model(registry'[i].day)
         /\ \E i \in 1 .. Len(registry') : registry'[i].day = day
<1> DEFINE row == [day |-> day, model |-> Training!Model(day)]
<1>1. open = <<row>> /\ day \in 1 .. Days BY DEF TrainerInv
<1>2. row \in RegistryRows /\ row.day = day /\ row.model = Training!Model(day)
  BY <1>1 DEF RegistryRows
<1> HIDE DEF row
<1>3. open \in Seq(RegistryRows) /\ Len(open) = 1 /\ open[1] = row BY <1>1, <1>2
<1>4. /\ registry \in Seq(RegistryRows)
      /\ \A i \in 1 .. Len(registry) : registry[i].model = Training!Model(registry[i].day)
  BY DEF RegistryInv, Training!RegistryRowsAreModels
<1>5. registry' \in Seq(RegistryRows) BY <1>3, <1>4, MoreRows
<1>6. ASSUME NEW i \in 1 .. Len(registry')
      PROVE  registry'[i].model = Training!Model(registry'[i].day)
  <2>1. CASE i \in 1 .. Len(registry) /\ registry'[i] = registry[i] BY <1>4, <2>1
  <2>2. CASE \E j \in 1 .. Len(open) : registry'[i] = open[j] BY <1>2, <1>3, <2>2
  <2> QED BY <1>3, <1>4, <2>1, <2>2, MoreRows
<1>7. /\ Len(registry) + 1 \in 1 .. Len(registry')
      /\ registry'[Len(registry) + 1] = row
  <2>1. \A i \in 1 .. Len(open) :
          Len(registry) + i \in 1 .. Len(registry') /\ registry'[Len(registry) + i] = open[i]
    BY <1>3, <1>4, MoreRows
  <2>2. 1 \in 1 .. Len(open) BY <1>3
  <2> QED BY <1>3, <2>1, <2>2
<1> QED BY <1>2, <1>5, <1>6, <1>7

LEMMA RegistryStep ==
  ASSUME Days \in Nat, TrainerInv, RegistryInv, [Training!Next]_(Training!vars)
  PROVE  RegistryInv'
<1> USE DEF Training!dagVars, Training!podVars, RegistryInv, Training!RegistryRowsAreModels
<1>1. CASE UNCHANGED Training!vars BY <1>1 DEF Training!vars, Training!Model
<1>2. CASE Training!Launch
  <2>1. training' = "running" /\ trainer' = "fetch" /\ registry' = registry
    BY <1>2 DEF Training!Launch, Training!Dag!Launch, Training!Dag!Trigger, Training!Dag!Retry
  <2> QED BY <2>1
<1>3. CASE Training!Train \/ Training!Truncate \/ Training!Write \/ Training!ReadBack
           \/ Training!Insert
  <2>1. /\ trainer' \in {"save", "write", "read", "insert", "commit"}
        /\ trainer # "off" /\ UNCHANGED <<training, registry>>
    BY <1>3
    DEF Training!Train, Training!Truncate, Training!Write, Training!ReadBack, Training!Insert,
        Training!AfterSaving, Training!AfterInsert
  <2> QED BY <2>1 DEF TrainerInv
<1>4. CASE Training!Commit
  <2>1. /\ trainer = "commit" /\ registry' = registry \o open
        /\ UNCHANGED <<training, day>>
    BY <1>4 DEF Training!Commit
  <2>2. training = "running" BY <2>1 DEF TrainerInv
  <2> QED BY <2>1, <2>2, RowAppended
<1>5. CASE Training!CommitUnanswered
  <2>1. /\ trainer = "commit" /\ registry' = registry \o open
        /\ trainer' = "off" /\ training' \in {"up_for_retry", "failed"}
    BY <1>5 DEF Training!CommitUnanswered, Training!PodEnds, Training!Dag!Fail
  <2> QED BY <2>1, RowAppended
<1>6. CASE Training!Fail
  <2>1. trainer' = "off" /\ training' \in {"up_for_retry", "failed"} /\ registry' = registry
    BY <1>6 DEF Training!Fail, Training!PodEnds, Training!Dag!Fail
  <2> QED BY <2>1
<1>7. CASE Training!Exit
  <2>1. /\ trainer = "close" /\ trainer' = "off" /\ UNCHANGED <<day, latest, registry>>
    BY <1>7 DEF Training!Exit, Training!Dag!Succeed
  <2>2. /\ latest = Training!Model(day)
        /\ \E i \in 1 .. Len(registry) : registry[i].day = day
    BY <2>1 DEF TrainerInv
  <2> QED BY <2>1, <2>2 DEF Training!Model
<1> QED BY <1>1, <1>2, <1>3, <1>4, <1>5, <1>6, <1>7 DEF Training!Next

\* Rows of model_registry hold whole models of their day, and a task that succeeded
\* has left one there and on the volume.
THEOREM RegistryHoldsModels == Training!Spec => []RegistryRowsAreModels
<1> Training!RetrainingAssumption /\ Days \in Nat BY TrainingAssumption
<1>1. RegistryInv => RegistryRowsAreModels BY DEF RegistryInv, RegistryRowsAreModels
<1> QED BY <1>1, TrainerInit, TrainerStep, RegistryStep, PTL DEF Training!Spec

-----------------------------------------------------------------------------
(* The folds *)

\* How large the folds are, and that a day too short for them has no embargo.
LEMMA FoldSizes ==
  ASSUME Training!RetrainingAssumption, NEW n \in Nat
  PROVE  /\ Training!FoldSize(n) \in Nat
         /\ Splits * Training!FoldSize(n) <= n
         /\ n < Splits * Training!FoldSize(n) + Splits
         /\ Training!Embargo(n) \in Nat
         /\ n < Splits => Training!Embargo(n) = 0
<1> DEFINE q == n \div Splits
           p == EmbargoPercent * n
<1>1. Splits \in Nat \ {0} /\ EmbargoPercent \in 0 .. 99 /\ EmbargoPercent * Splits <= 50
  BY DEF Training!RetrainingAssumption
<1>2. q \in Int /\ n = Splits * q + (n % Splits) /\ n % Splits \in 0 .. Splits - 1 BY <1>1
<1>3. q \in Nat
  <2>1. CASE q >= 0 BY <1>2, <2>1
  <2>2. CASE q < 0
    <3>1. Splits * (-q) >= Splits
      <4>1. -q \in Int /\ -q >= 1 BY <1>2, <2>2
      <4> HIDE DEF q
      <4> QED BY <1>1, <4>1, MultipleBound
    <3>2. Splits * (-q) = -(Splits * q) BY <1>1, <1>2
    <3> DEFINE m == Splits * q
    <3>3. m \in Int /\ m <= -Splits
      <4>1. m \in Int BY <1>1, <1>2
      <4>2. -m >= Splits BY <3>1, <3>2
      <4> HIDE DEF m
      <4> QED BY <1>1, <4>1, <4>2
    <3> HIDE DEF m, q
    <3>4. n < 0 BY <1>1, <1>2, <3>3 DEF m
    <3> QED BY <3>4
  <2> QED BY <1>2, <2>1, <2>2
<1>4. Splits * q <= n /\ n < Splits * q + Splits
  <2> DEFINE m == Splits * q
             r == n % Splits
  <2>1. m \in Int /\ r \in 0 .. Splits - 1 /\ n = m + r BY <1>1, <1>2
  <2> HIDE DEF m, r
  <2>2. m <= n /\ n < m + Splits BY <1>1, <2>1
  <2> QED BY <2>2 DEF m
<1>5. p \in Nat BY <1>1
<1>6. /\ p \div 100 \in Nat /\ p % 100 \in 0 .. 99
      /\ p < 50 => p \div 100 = 0 /\ p % 100 = p
  <2> HIDE DEF p
  <2> QED BY <1>5
<1>7. Training!Embargo(n) = Training!Rounded(p, 100) BY DEF Training!Embargo
<1>8. Training!Embargo(n) \in Nat BY <1>6, <1>7 DEF Training!Rounded
<1>9. ASSUME n < Splits PROVE Training!Embargo(n) = 0
  <2>1. p < 50
    <3>1. CASE EmbargoPercent = 0 BY <3>1
    <3>2. CASE EmbargoPercent > 0
      <4> DEFINE e == EmbargoPercent
      <4>1. e * (Splits - n) = e * Splits - e * n /\ e * Splits \in Nat BY <1>1
      <4>2. e * (Splits - n) >= e
        <5>1. e \in Nat \ {0} /\ Splits - n \in Int /\ Splits - n >= 1
          BY <1>1, <1>9, <3>2
        <5> HIDE DEF e
        <5> QED BY <5>1, MultipleBound
      <4>3. p = e * n OBVIOUS
      <4> DEFINE a == e * Splits
      <4> HIDE DEF p, a
      <4>4. a - p >= e /\ a \in Nat /\ a <= 50 /\ e > 0 /\ e \in Nat
        BY <1>1, <3>2, <4>1, <4>2, <4>3 DEF a
      <4> HIDE DEF e
      <4> QED BY <1>5, <4>4
    <3> QED BY <1>1, <3>1, <3>2
  <2> HIDE DEF p
  <2> QED BY <1>6, <1>7, <2>1 DEF Training!Rounded
<1> QED BY <1>3, <1>4, <1>8, <1>9 DEF Training!FoldSize

\* Multiplication by a fold's size keeps the order.
LEMMA FoldOrder ==
  ASSUME NEW f \in Nat, NEW j \in Nat, NEW k \in Nat, j <= k
  PROVE  j * f \in Nat /\ k * f \in Nat /\ j * f <= k * f /\ (j + 1) * f = j * f + f
<1>1. j * f \in Nat /\ k * f \in Nat /\ (j + 1) * f = j * f + f OBVIOUS
<1>2. (k - j) * f \in Nat /\ (k - j) * f = k * f - j * f OBVIOUS
<1> DEFINE a == j * f
           b == k * f
<1>3. a <= b
  <2>1. a \in Nat /\ b \in Nat /\ b - a \in Nat BY <1>1, <1>2
  <2> HIDE DEF a, b
  <2> QED BY <2>1
<1> QED BY <1>1, <1>3

\* Where a fold of n samples starts and stops.
LEMMA FoldEnds ==
  ASSUME Training!RetrainingAssumption, NEW n \in Nat, NEW k \in 0 .. Splits - 1
  PROVE  LET f == Training!FoldSize(n)
             a == Training!ValStart(n, k)
             b == Training!ValStop(n, k)
         IN  /\ f \in Nat /\ a \in Nat /\ b \in Nat /\ a <= b /\ b <= n
             /\ a = k * f
             /\ k # Splits - 1 => b = k * f + f
             /\ k = Splits - 1 => b = n
             /\ a = b /\ n > 0 => a = 0 /\ Training!Embargo(n) = 0
<1> DEFINE f == Training!FoldSize(n)
           a == Training!ValStart(n, k)
           b == Training!ValStop(n, k)
           c == Splits * f
           d == k * f
<1>1. Splits \in Nat /\ Splits >= 2 BY DEF Training!RetrainingAssumption
<1>2. /\ f \in Nat /\ c <= n /\ n < c + Splits
      /\ Training!Embargo(n) \in Nat
      /\ n < Splits => Training!Embargo(n) = 0
  BY FoldSizes
<1>3. a = d /\ (k # Splits - 1 => b = (k + 1) * f) /\ (k = Splits - 1 => b = n)
  BY DEF Training!ValStart, Training!ValStop
<1> HIDE DEF f, a, b
<1>4. d \in Nat /\ c \in Nat /\ (k + 1) * f = d + f BY <1>1, <1>2, FoldOrder
<1>5. d + f <= c
  <2>1. k + 1 \in Nat /\ k + 1 <= Splits BY <1>1
  <2>2. (k + 1) * f <= Splits * f BY <1>1, <1>2, <2>1, FoldOrder
  <2> QED BY <1>4, <2>2
<1>6. f = 0 => c = 0 /\ d = 0 BY <1>1
<1> HIDE DEF c, d
<1>7. a \in Nat /\ b \in Nat /\ a <= b /\ b <= n
  <2>1. CASE k = Splits - 1 BY <1>2, <1>3, <1>4, <1>5, <2>1
  <2>2. CASE k # Splits - 1 BY <1>2, <1>3, <1>4, <1>5, <2>2
  <2> QED BY <2>1, <2>2
<1>8. a = b => f = 0
  <2>1. CASE k = Splits - 1 BY <1>2, <1>3, <1>4, <1>5, <2>1
  <2>2. CASE k # Splits - 1 BY <1>2, <1>3, <1>4, <1>5, <2>2
  <2> QED BY <2>1, <2>2
<1>9. a = b => a = 0 /\ Training!Embargo(n) = 0
  BY <1>1, <1>2, <1>3, <1>6, <1>8
<1> QED BY <1>2, <1>3, <1>4, <1>7, <1>9 DEF f, a, b, d

LEMMA EverySampleValidated ==
  ASSUME Training!RetrainingAssumption, NEW n \in Nat, NEW i \in 0 .. n - 1
  PROVE  \E k \in 0 .. Splits - 1 : i \in Training!Validation(n, k)
<1> DEFINE f == Training!FoldSize(n)
           last == Splits - 1
<1>1. Splits \in Nat /\ Splits >= 2 /\ last \in 0 .. Splits - 1 /\ last \in Nat
  BY DEF Training!RetrainingAssumption
<1>2. f \in Nat BY FoldSizes
<1>3. ASSUME NEW k \in 0 .. Splits - 1, k * f <= i, k = last \/ i < k * f + f
      PROVE  i \in Training!Validation(n, k)
  <2> DEFINE a == Training!ValStart(n, k)
             b == Training!ValStop(n, k)
             d == k * f
  <2>1. /\ a = d /\ a \in Nat /\ b \in Nat
        /\ k # last => b = d + f
        /\ k = last => b = n
    BY FoldEnds
  <2>2. d <= i /\ (k = last \/ i < d + f) BY <1>3
  <2> HIDE DEF a, b, d, f, last
  <2>3. a <= i /\ i < b BY <2>1, <2>2
  <2>4. i \in a .. b - 1 BY <2>1, <2>3
  <2> QED BY <2>4 DEF Training!Validation, a, b
<1> HIDE DEF f, last
<1>4. CASE last * f <= i BY <1>1, <1>3, <1>4
<1>5. CASE ~(last * f <= i)
  <2> DEFINE q == i \div f
             d == q * f
  <2>1. f \in Nat \ {0} BY <1>1, <1>2, <1>5
  <2>2. i \in Int /\ q \in Int /\ i = f * q + (i % f) /\ i % f \in 0 .. f - 1 BY <2>1
  <2>3. d \in Int /\ f * q = d BY <2>1, <2>2
  <2> DEFINE r == i % f
  <2>4. i = d + r /\ r \in 0 .. f - 1 BY <2>2, <2>3
  <2> HIDE DEF d, r
  <2>5. d <= i /\ i < d + f BY <2>1, <2>2, <2>3, <2>4
  <2>6. q \in Nat
    <3>1. CASE q >= 0 BY <2>2, <3>1
    <3>2. CASE q < 0
      <4>1. -q \in Int /\ -q >= 1 BY <2>2, <3>2
      <4>2. f * (-q) >= f
        <5> DEFINE m == -q
        <5>1. m \in Int /\ m >= 1 BY <4>1
        <5> HIDE DEF m
        <5>2. f * m >= f BY <2>1, <5>1, MultipleBound
        <5> QED BY <5>2 DEF m
      <4>3. f * (-q) = -d BY <2>1, <2>2, <2>3
      <4> QED BY <2>1, <2>3, <2>5, <4>2, <4>3
    <3> QED BY <2>2, <3>1, <3>2
  <2>7. q < last
    <3>1. CASE last <= q
      <4>1. last * f <= q * f /\ last * f \in Nat
        <5> HIDE DEF q
        <5> QED BY <1>1, <1>2, <2>6, <3>1, FoldOrder
      <4>2. q * f = d BY DEF d
      <4> QED BY <1>5, <2>3, <2>5, <4>1, <4>2
    <3> QED BY <1>1, <2>6, <3>1
  <2>8. q \in 0 .. Splits - 1 BY <1>1, <2>6, <2>7 DEF last
  <2> HIDE DEF q
  <2> QED BY <1>3, <2>5, <2>8 DEF d
<1> QED BY <1>4, <1>5

LEMMA FoldsDisjoint ==
  ASSUME Training!RetrainingAssumption, NEW n \in Nat,
         NEW j \in 0 .. Splits - 1, NEW k \in 0 .. Splits - 1, j < k
  PROVE  Training!Validation(n, j) \cap Training!Validation(n, k) = {}
<1> DEFINE f == Training!FoldSize(n)
           a == Training!ValStart(n, k)
           b == Training!ValStop(n, j)
<1>1. Splits \in Nat /\ j # Splits - 1 /\ j + 1 <= k /\ j + 1 \in Nat /\ k \in Nat
  BY DEF Training!RetrainingAssumption
<1>2. f \in Nat /\ a = k * f /\ b = j * f + f /\ a \in Nat /\ b \in Nat BY <1>1, FoldEnds
<1> HIDE DEF f, a, b
<1>3. b <= a
  <2>1. (j + 1) * f <= k * f BY <1>1, <1>2, FoldOrder
  <2>2. (j + 1) * f = j * f + f BY <1>1, <1>2, FoldOrder
  <2> QED BY <1>2, <2>1, <2>2
<1>4. \A c, d \in Int : (c .. b - 1) \cap (a .. d - 1) = {} BY <1>2, <1>3
<1>5. Training!ValStart(n, j) \in Int /\ Training!ValStop(n, k) \in Int
  <2>1. Training!ValStart(n, j) \in Nat BY FoldEnds, SMTT(30)
  <2>2. Training!ValStop(n, k) \in Nat BY FoldEnds, SMTT(30)
  <2> QED BY <2>1, <2>2
<1> QED BY <1>4, <1>5 DEF Training!Validation, a, b

LEMMA TrainingPurged ==
  ASSUME Training!RetrainingAssumption, NEW n \in Nat,
         NEW k \in 0 .. Splits - 1, NEW i \in 0 .. n - 1
  PROVE  i \in Training!TrainingSet(n, k) <=>
           \A v \in Training!Validation(n, k) : i < v \/ i > v + Training!Embargo(n)
<1> DEFINE a == Training!ValStart(n, k)
           b == Training!ValStop(n, k)
           e == Training!Embargo(n)
<1>1. /\ a \in Nat /\ b \in Nat /\ a <= b /\ e \in Nat /\ n > 0
      /\ a = b => a = 0 /\ e = 0
  <2>1. n > 0 OBVIOUS
  <2>2. e \in Nat BY FoldSizes
  <2>3. a \in Nat /\ b \in Nat /\ a <= b /\ (a = b /\ n > 0 => a = 0 /\ e = 0)
    BY FoldEnds
  <2> HIDE DEF a, b, e
  <2> QED BY <2>1, <2>2, <2>3
<1>2. /\ i \in Training!TrainingSet(n, k) <=> ~(i \in a .. b + e - 1)
      /\ Training!Validation(n, k) = a .. b - 1
  BY DEF Training!TrainingSet, Training!Validation
<1> HIDE DEF a, b, e
<1> SUFFICES ~(i \in a .. b + e - 1) <=> \A v \in a .. b - 1 : i < v \/ i > v + e
  BY <1>2 DEF e
<1>3. ASSUME i < a \/ i >= b + e, NEW v \in a .. b - 1 PROVE i < v \/ i > v + e
  BY <1>1, <1>3
<1>4. ASSUME i \in a .. b + e - 1 PROVE \E v \in a .. b - 1 : ~(i < v \/ i > v + e)
  <2>1. a < b BY <1>1, <1>4
  <2>2. CASE i < b
    <3>1. i \in a .. b - 1 /\ ~(i < i \/ i > i + e) BY <1>1, <1>4, <2>2
    <3> QED BY <3>1
  <2>3. CASE i >= b
    <3>1. b - 1 \in a .. b - 1 /\ ~(i < b - 1 \/ i > (b - 1) + e) BY <1>1, <1>4, <2>1, <2>3
    <3> QED BY <3>1
  <2> QED BY <1>1, <2>2, <2>3
<1>5. i \in a .. b + e - 1 <=> ~(i < a \/ i >= b + e) BY <1>1
<1> QED BY <1>3, <1>4, <1>5

\* Every sample is validated in one fold, and a fold trains on all but its own
\* samples and their embargo, however many rows the day has.
THEOREM FoldsArePurged == Training!Spec => []PurgedFolds
<1> Training!RetrainingAssumption /\ Days \in Nat BY TrainingAssumption
<1>1. ASSUME TrainerInv PROVE Training!PurgedFolds
  <2> DEFINE n == Rows[day]
             folds == 0 .. Splits - 1
  <2> SUFFICES ASSUME day > 0
               PROVE  /\ \A i \in 0 .. n - 1 : \E k \in folds : i \in Training!Validation(n, k)
                      /\ \A j, k \in folds : j # k =>
                           Training!Validation(n, j) \cap Training!Validation(n, k) = {}
                      /\ \A k \in folds, i \in 0 .. n - 1 :
                           i \in Training!TrainingSet(n, k) <=>
                             \A v \in Training!Validation(n, k) :
                               i < v \/ i > v + Training!Embargo(n)
    BY DEF Training!PurgedFolds
  <2>1. n \in Nat
    <3>1. day \in 1 .. Days BY <1>1 DEF TrainerInv
    <3> QED BY <3>1 DEF Training!RetrainingAssumption
  <2> HIDE DEF n
  <2>2. \A i \in 0 .. n - 1 : \E k \in folds : i \in Training!Validation(n, k)
    BY <2>1, EverySampleValidated
  <2>3. ASSUME NEW j \in folds, NEW k \in folds, j # k
        PROVE  Training!Validation(n, j) \cap Training!Validation(n, k) = {}
    <3>1. j < k \/ k < j BY <2>3 DEF Training!RetrainingAssumption
    <3>2. CASE j < k BY <2>1, <2>3, <3>2, FoldsDisjoint
    <3>3. CASE k < j
      <4>1. Training!Validation(n, k) \cap Training!Validation(n, j) = {}
        BY <2>1, <2>3, <3>3, FoldsDisjoint
      <4> QED BY <4>1
    <3> QED BY <3>1, <3>2, <3>3
  <2>4. ASSUME NEW k \in folds, NEW i \in 0 .. n - 1
        PROVE  i \in Training!TrainingSet(n, k) <=>
                 \A v \in Training!Validation(n, k) : i < v \/ i > v + Training!Embargo(n)
    BY <2>1, TrainingPurged
  <2> QED BY <2>2, <2>3, <2>4
<1>2. TrainerInv => PurgedFolds BY <1>1 DEF PurgedFolds
<1> QED BY <1>2, TrainerInit, TrainerStep, PTL DEF Training!Spec

-----------------------------------------------------------------------------
(* The main page of the dashboard *)

\* A fetch is over whenever the page is closed.
FetchInv ==
  /\ count \in 0 .. MaxReports
  /\ request \in [Page!Endpoints -> Page!Requests]
  /\ page = "closed" => \A e \in Page!Endpoints : request[e].stage = "over"

\* Of the receipts that could be read so far, none in an answer is older than the
\* one shown.
ReceiptInv ==
  /\ receipt \in {Null} \cup (Enforced \cap 1 .. count)
  /\ request["receipt"].stage = "answered" =>
       /\ request["receipt"].rows \subseteq Enforced \cap 1 .. count
       /\ receipt # Null =>
            \A next \in request["receipt"].rows : Wire[next] >= Wire[receipt]

\* The list is what the database could have answered, and no answer that may still
\* be applied is older.
ListInv ==
  /\ seen \in 0 .. count
  /\ rows \subseteq [id : Page!Ids, stamped : BOOLEAN]
  /\ \A r, s \in rows : r.id = s.id => r = s
  /\ Page!IdsOf(rows) \in Page!NewestReports(seen)
  /\ request["reports"].stage = "answered" =>
       /\ request["reports"].rows \in Page!NewestReports(request["reports"].count)
       /\ request["reports"].count \in seen .. count

\* The instance counts as FiniteSets does.
LEMMA SameCardinality == ASSUME NEW S PROVE Page!Cardinality(S) = Cardinality(S)
BY DEF Page!Cardinality, Cardinality

LEMMA NoneIsNewest ==
  ASSUME Page!DashboardAssumption
  PROVE  {} \in Page!NewestReports(0)
<1>1. 1 .. 0 = {} /\ Cardinality({}) = 0 BY FS_EmptySet
<1> QED
  BY <1>1, SameCardinality DEF Page!NewestReports, Page!NewestOf, Page!DashboardAssumption

LEMMA FetchStep ==
  ASSUME Page!DashboardAssumption, FetchInv, [Page!Next]_(Page!vars)
  PROVE  FetchInv'
<1> USE DEF FetchInv
<1>1. CASE UNCHANGED Page!vars BY <1>1 DEF Page!vars
<1>2. CASE Page!Insert BY <1>2 DEF Page!Insert, Page!DashboardAssumption
<1>3. CASE Page!Open \/ Page!Hide BY <1>3 DEF Page!Open, Page!Hide
<1>4. CASE \E r \in rows : Page!Select(r) BY <1>4 DEF Page!Select
<1>5. Page!Over \in Page!Requests /\ Page!Sent \in Page!Requests /\ Page!Over.stage = "over"
  BY DEF Page!Over, Page!Sent, Page!Requests, Page!DashboardAssumption
<1>6. CASE Page!Close
  <2>1. request' = [e \in Page!Endpoints |-> Page!Over] /\ count' = count
    BY <1>6 DEF Page!Close
  <2> QED BY <1>5, <2>1
<1>7. ASSUME NEW e \in Page!Endpoints,
             Page!Tick(e) \/ Page!Answer(e) \/ Page!Lose(e) \/ Page!Receive(e)
      PROVE  FetchInv'
  <2>1. count' = count /\ page' = page /\ page # "closed"
    <3>1. CASE page = "closed"
      <4>1. request[e].stage = "over" BY <3>1
      <4> QED BY <1>7, <3>1, <4>1 DEF Page!Tick, Page!Answer, Page!Lose, Page!Receive
    <3> QED BY <1>7, <3>1 DEF Page!Tick, Page!Answer, Page!Lose, Page!Receive
  <2>2. \E q \in Page!Requests : request' = [request EXCEPT ![e] = q]
    <3>1. CASE Page!Tick(e) BY <1>5, <3>1 DEF Page!Tick
    <3>2. CASE Page!Lose(e) BY <1>5, <3>2 DEF Page!Lose
    <3>3. CASE Page!Receive(e) BY <1>5, <3>3 DEF Page!Receive
    <3>4. CASE Page!Answer(e)
      <4>1. PICK answer \in IF e = "reports" THEN Page!NewestReports(count)
                            ELSE {Page!LatestReceipt(count)} :
              request' = [request EXCEPT ![e] =
                            [stage |-> "answered", rows |-> answer, count |-> count]]
        BY <3>4 DEF Page!Answer
      <4>2. answer \in SUBSET (1 .. count)
        BY DEF Page!NewestReports, Page!NewestOf, Page!LatestReceipt
      <4>3. 1 .. count \subseteq Page!Ids BY DEF Page!Ids, Page!DashboardAssumption
      <4> QED BY <4>1, <4>2, <4>3 DEF Page!Requests
    <3> QED BY <1>7, <3>1, <3>2, <3>3, <3>4
  <2> QED BY <2>1, <2>2
<1> QED BY <1>1, <1>2, <1>3, <1>4, <1>6, <1>7 DEF Page!Next

LEMMA ReceiptStep ==
  ASSUME Page!DashboardAssumption, FetchInv, ReceiptInv, [Page!Next]_(Page!vars)
  PROVE  /\ ReceiptInv'
         /\ page = "open" /\ page' = "open" /\ receipt # Null =>
              receipt' # Null /\ Wire[receipt'] >= Wire[receipt]
<1> USE DEF FetchInv, ReceiptInv
<1>1. /\ "receipt" \in Page!Endpoints /\ count \in Nat /\ MaxReports \in Nat
      /\ \A i \in Enforced : Wire[i] \in Nat /\ i # Null
  BY DEF Page!Endpoints, Page!DashboardAssumption
<1>2. receipt # Null => Wire[receipt] >= Wire[receipt] BY <1>1
<1>3. CASE UNCHANGED Page!vars BY <1>2, <1>3 DEF Page!vars
<1>4. CASE Page!Insert
  <2>1. count' = count + 1 /\ UNCHANGED <<request, receipt>> BY <1>4 DEF Page!Insert
  <2>2. 1 .. count \subseteq 1 .. count + 1 BY <1>1
  <2> QED BY <1>2, <2>1, <2>2
<1>5. CASE Page!Open
  <2>1. /\ page = "closed" /\ receipt' \in {Null} \cup Page!LatestReceipt(count)
        /\ UNCHANGED <<count, request>>
    BY <1>5 DEF Page!Open
  <2>2. request["receipt"].stage = "over" BY <1>1, <2>1
  <2> QED BY <2>1, <2>2 DEF Page!LatestReceipt
<1>6. CASE Page!Close
  <2>1. /\ page' = "closed" /\ receipt' = Null /\ count' = count
        /\ request'["receipt"] = Page!Over
    BY <1>1, <1>6 DEF Page!Close
  <2> QED BY <2>1 DEF Page!Over
<1>7. CASE Page!Hide \/ \E r \in rows : Page!Select(r)
  BY <1>2, <1>7 DEF Page!Hide, Page!Select
<1>8. ASSUME NEW e \in Page!Endpoints, Page!Tick(e) \/ Page!Lose(e)
      PROVE  ReceiptInv' /\ receipt' = receipt
  <2>1. /\ request' \in {[request EXCEPT ![e] = Page!Sent], [request EXCEPT ![e] = Page!Over]}
        /\ UNCHANGED <<count, receipt>>
    BY <1>8 DEF Page!Tick, Page!Lose
  <2>2. request'["receipt"] = request["receipt"]
        \/ request'["receipt"].stage \in {"sent", "over"}
    BY <1>1, <2>1 DEF Page!Sent, Page!Over
  <2> QED BY <2>1, <2>2
<1>9. ASSUME NEW e \in Page!Endpoints, e # "receipt", Page!Answer(e) \/ Page!Receive(e)
      PROVE  ReceiptInv' /\ receipt' = receipt
  <2>1. e = "reports" BY <1>9 DEF Page!Endpoints
  <2>2. UNCHANGED <<count, receipt>>
    BY <1>9, <2>1 DEF Page!Answer, Page!Receive, Page!ReceiveReports
  <2>3. request'["receipt"] = request["receipt"]
    BY <1>1, <1>9 DEF Page!Answer, Page!Receive
  <2> QED BY <2>2, <2>3
<1>10. CASE Page!Answer("receipt")
  <2>1. /\ UNCHANGED <<count, receipt>>
        /\ request'["receipt"]
             = [stage |-> "answered", rows |-> Page!LatestReceipt(count), count |-> count]
    BY <1>1, <1>10 DEF Page!Answer
  <2>2. Page!LatestReceipt(count) \subseteq Enforced \cap 1 .. count
    BY DEF Page!LatestReceipt
  <2>3. ASSUME receipt # Null, NEW next \in Page!LatestReceipt(count)
        PROVE  Wire[next] >= Wire[receipt]
    <3>1. next = receipt \/ Page!Precedes(next, receipt) BY <2>3 DEF Page!LatestReceipt
    <3>2. Wire[next] \in Nat /\ Wire[receipt] \in Nat BY <1>1, <2>2, <2>3
    <3> QED BY <3>1, <3>2 DEF Page!Precedes
  <2> QED BY <1>2, <2>1, <2>2, <2>3
<1>11. CASE Page!Receive("receipt")
  <2>1. /\ request["receipt"].stage = "answered" /\ count' = count
        /\ request'["receipt"] = Page!Over
        /\ \E next \in request["receipt"].rows : receipt' \in {next, receipt}
        /\ receipt = Null => receipt' \in request["receipt"].rows
    BY <1>1, <1>11 DEF Page!Receive, Page!ReceiveReceipt
  <2> QED BY <1>1, <1>2, <2>1 DEF Page!Over
<1> QED
  BY <1>2, <1>3, <1>4, <1>5, <1>6, <1>7, <1>8, <1>9, <1>10, <1>11 DEF Page!Next

\* The receipt card never goes back to a case that came off the wire earlier.
THEOREM ReceiptsGoForward == Page!Spec => ReceiptNeverGoesBack
<1> Page!DashboardAssumption BY PageAssumption
<1>1. Page!Init => FetchInv /\ ReceiptInv
  BY DEF Page!Init, FetchInv, ReceiptInv, Page!Over, Page!Requests, Page!Endpoints,
         Page!DashboardAssumption
<1> QED
  BY <1>1, FetchStep, ReceiptStep, PTL
  DEF Page!Spec, ReceiptNeverGoesBack, Page!ReceiptNeverGoesBack

\* Merging an answer into a list and cutting it gives what the database would have
\* answered, if the answer is the later of the two.
LEMMA NewestOfMerged ==
  ASSUME Page!DashboardAssumption, NEW m \in 0 .. MaxReports, NEW k \in 0 .. m,
         NEW A \in Page!NewestReports(k), NEW B \in Page!NewestReports(m),
         NEW top \in Page!NewestOf(A \cup B)
  PROVE  top \in Page!NewestReports(m)
<1> DEFINE all == 1 .. m
           both == A \cup B
<1>1. /\ Capacity \in Nat /\ m \in Nat /\ k \in Nat /\ all \subseteq Page!Ids
      /\ \A i \in all : Ts[i] \in Nat
  BY DEF Page!DashboardAssumption, Page!Ids
<1>2. A \subseteq all /\ B \subseteq all /\ both \subseteq all /\ top \subseteq both
  BY <1>1 DEF Page!NewestReports, Page!NewestOf
<1>3. /\ IsFiniteSet(all) /\ IsFiniteSet(both) /\ IsFiniteSet(B) /\ IsFiniteSet(top)
      /\ Cardinality(B) <= Cardinality(both) /\ Cardinality(both) <= Cardinality(all)
      /\ (Cardinality(both) = Cardinality(all) => both = all)
  <2>1. IsFiniteSet(all) BY <1>1, FS_Interval
  <2>2. IsFiniteSet(both) BY <1>2, <2>1, FS_Subset
  <2> QED BY <1>2, <2>1, <2>2, FS_Subset
<1>4. /\ Cardinality(all) \in Nat /\ Cardinality(both) \in Nat /\ Cardinality(B) \in Nat
      /\ Cardinality(top) \in Nat
  BY <1>3, FS_CardinalityType
<1> HIDE DEF all, both
<1>5. /\ Cardinality(B) = IF Cardinality(all) < Capacity THEN Cardinality(all) ELSE Capacity
      /\ \A i \in B, j \in all \ B : Ts[i] >= Ts[j]
  BY SameCardinality DEF Page!NewestReports, Page!NewestOf, all
<1>6. /\ Cardinality(top) = IF Cardinality(both) < Capacity THEN Cardinality(both)
                             ELSE Capacity
      /\ \A i \in top, j \in both \ top : Ts[i] >= Ts[j]
  BY SameCardinality DEF Page!NewestOf, both
<1>7. Cardinality(top) = Cardinality(B) BY <1>1, <1>3, <1>4, <1>5, <1>6
<1>8. ASSUME NEW i \in top, NEW j \in all \ top PROVE Ts[i] >= Ts[j]
  <2>1. CASE j \in both BY <1>6, <2>1
  <2>2. CASE j \notin both
    <3>1. j \notin B /\ i \in both /\ j \in all BY <1>2, <2>2 DEF both
    <3>2. CASE i \in B BY <1>5, <3>1, <3>2
    <3>3. CASE i \notin B
      <4>1. ~(B \subseteq top)
        <5>1. CASE B \subseteq top
          <6>1. B = top BY <1>3, <1>7, <5>1, FS_Subset
          <6> QED BY <3>3, <6>1
        <5> QED BY <5>1
      <4>2. PICK b \in B : b \notin top BY <4>1
      <4>3. Ts[i] >= Ts[b] /\ Ts[b] >= Ts[j] BY <1>5, <1>6, <3>1, <4>2 DEF both
      <4>4. Ts[i] \in Nat /\ Ts[b] \in Nat /\ Ts[j] \in Nat BY <1>1, <1>2, <3>1
      <4> QED BY <4>3, <4>4
    <3> QED BY <3>2, <3>3
  <2> QED BY <2>1, <2>2
<1>9. top \subseteq all BY <1>2
<1> QED
  BY <1>5, <1>7, <1>8, <1>9, SameCardinality DEF Page!NewestReports, Page!NewestOf, all

\* The rows an answer or the server makes of ids.
LEMMA RowsFromIds ==
  ASSUME NEW ids \in SUBSET Page!Ids, NEW stamps \in BOOLEAN,
         NEW list, list = {[id |-> i, stamped |-> stamps] : i \in ids}
  PROVE  /\ list \subseteq [id : Page!Ids, stamped : BOOLEAN]
         /\ \A r, s \in list : r.id = s.id => r = s
         /\ Page!IdsOf(list) = ids
<1>1. ASSUME NEW r \in list
      PROVE  r.id \in ids /\ r = [id |-> r.id, stamped |-> stamps]
  OBVIOUS
<1>2. ASSUME NEW i \in ids PROVE \E r \in list : r.id = i
  <2>1. [id |-> i, stamped |-> stamps] \in list OBVIOUS
  <2> QED BY <2>1
<1>3. list \subseteq [id : Page!Ids, stamped : BOOLEAN] OBVIOUS
<1>4. ASSUME NEW r \in list, NEW s \in list, r.id = s.id PROVE r = s
  <2>1. /\ r = [id |-> r.id, stamped |-> stamps]
        /\ s = [id |-> s.id, stamped |-> stamps]
    BY <1>1
  <2> QED BY <1>4, <2>1
<1>5. Page!IdsOf(list) = ids BY <1>1, <1>2 DEF Page!IdsOf
<1> QED BY <1>3, <1>4, <1>5

LEMMA ListReceives ==
  ASSUME Page!DashboardAssumption, FetchInv, ListInv,
         request["reports"].stage = "answered",
         Page!ReceiveReports(request["reports"])
  PROVE  /\ rows' \subseteq [id : Page!Ids, stamped : BOOLEAN]
         /\ \A r, s \in rows' : r.id = s.id => r = s
         /\ Page!IdsOf(rows') \in Page!NewestReports(seen')
<1> DEFINE q == request["reports"]
           next == {[id |-> i, stamped |-> FALSE] : i \in q.rows}
           merged == Page!Merged(next, rows)
<1>1. /\ q.rows \in Page!NewestReports(q.count) /\ q.count \in seen .. count
      /\ seen \in 0 .. count /\ count \in 0 .. MaxReports /\ seen' = q.count
  BY DEF ListInv, FetchInv, Page!ReceiveReports
<1>2. q.count \in 0 .. MaxReports /\ seen \in 0 .. q.count
  BY <1>1 DEF Page!DashboardAssumption
<1>3. q.rows \subseteq Page!Ids
  BY <1>1, <1>2
  DEF Page!NewestReports, Page!NewestOf, Page!Ids, Page!DashboardAssumption
<1>4. PICK top \in Page!NewestOf(Page!IdsOf(merged)) :
        rows' = {r \in merged : r.id \in top}
  BY DEF Page!ReceiveReports, Page!Capped
<1>5. /\ next \subseteq [id : Page!Ids, stamped : BOOLEAN]
      /\ \A r, s \in next : r.id = s.id => r = s
      /\ Page!IdsOf(next) = q.rows
  BY <1>3, RowsFromIds
<1> HIDE DEF q, next
<1>6. /\ merged \subseteq [id : Page!Ids, stamped : BOOLEAN]
      /\ \A r, s \in merged : r.id = s.id => r = s
      /\ Page!IdsOf(merged) = Page!IdsOf(rows) \cup Page!IdsOf(next)
  BY <1>5 DEF ListInv, Page!Merged, Page!Unseen, Page!IdsOf
<1> HIDE DEF merged
<1>7. top \subseteq Page!IdsOf(merged) BY DEF Page!NewestOf
<1>8. Page!IdsOf(rows') = top
  <2>1. \A i \in top : \E r \in rows' : r.id = i BY <1>4, <1>7 DEF Page!IdsOf
  <2> QED BY <1>4, <2>1 DEF Page!IdsOf
<1>9. top \in Page!NewestReports(q.count)
  <2>1. Page!IdsOf(rows) \in Page!NewestReports(seen) BY DEF ListInv
  <2> QED BY <1>1, <1>2, <1>4, <1>5, <1>6, <2>1, NewestOfMerged
<1> QED BY <1>1, <1>4, <1>6, <1>8, <1>9

LEMMA ListStep ==
  ASSUME Page!DashboardAssumption, FetchInv, ListInv, [Page!Next]_(Page!vars)
  PROVE  ListInv'
<1>1. /\ "reports" \in Page!Endpoints /\ count \in Nat /\ MaxReports \in Nat
      /\ request \in [Page!Endpoints -> Page!Requests] /\ seen \in 0 .. count
  BY DEF FetchInv, ListInv, Page!Endpoints, Page!DashboardAssumption
<1>2. ASSUME UNCHANGED <<rows, seen, count>>,
             request'["reports"] = request["reports"]
             \/ request'["reports"].stage \in {"sent", "over"}
      PROVE  ListInv'
  BY <1>2 DEF ListInv
<1>3. CASE UNCHANGED Page!vars \/ Page!Hide \/ \E r \in rows : Page!Select(r)
  BY <1>2, <1>3 DEF Page!vars, Page!Hide, Page!Select
<1>4. CASE Page!Insert
  <2>1. count' = count + 1 /\ UNCHANGED <<request, rows, seen>> BY <1>4 DEF Page!Insert
  <2>2. 0 .. count \subseteq 0 .. count + 1
        /\ \A k : seen .. count \subseteq seen .. count + 1
    BY <1>1
  <2> QED BY <2>1, <2>2 DEF ListInv
<1>5. CASE Page!Open
  <2>1. /\ page = "closed" /\ UNCHANGED <<count, request>> /\ seen' \in {0, count}
    BY <1>5 DEF Page!Open
  <2>2. PICK top \in Page!NewestReports(seen') :
          rows' = {[id |-> i, stamped |-> TRUE] : i \in top}
    BY <1>5 DEF Page!Open
  <2>3. top \subseteq Page!Ids
    BY <1>1, <2>1 DEF Page!NewestReports, Page!NewestOf, Page!Ids, FetchInv
  <2>4. Page!IdsOf(rows') = top BY <2>2, <2>3, RowsFromIds
  <2>5. /\ rows' \subseteq [id : Page!Ids, stamped : BOOLEAN]
        /\ \A r, s \in rows' : r.id = s.id => r = s
    BY <2>2, <2>3, RowsFromIds
  <2>6. request["reports"].stage = "over" BY <1>1, <2>1 DEF FetchInv
  <2> QED BY <1>1, <2>1, <2>2, <2>4, <2>5, <2>6 DEF ListInv
<1>6. CASE Page!Close
  <2>1. /\ rows' = {} /\ seen' = 0 /\ count' = count /\ request'["reports"] = Page!Over
    BY <1>1, <1>6 DEF Page!Close
  <2>2. Page!IdsOf(rows') = {} BY <2>1 DEF Page!IdsOf
  <2> QED BY <1>1, <2>1, <2>2, NoneIsNewest DEF ListInv, Page!Over
<1>7. ASSUME NEW e \in Page!Endpoints, Page!Tick(e) \/ Page!Lose(e) PROVE ListInv'
  <2>1. /\ request' \in {[request EXCEPT ![e] = Page!Sent], [request EXCEPT ![e] = Page!Over]}
        /\ UNCHANGED <<count, rows, seen>>
    BY <1>7 DEF Page!Tick, Page!Lose
  <2>2. request'["reports"] = request["reports"]
        \/ request'["reports"].stage \in {"sent", "over"}
    BY <1>1, <2>1 DEF Page!Sent, Page!Over
  <2> QED BY <1>2, <2>1, <2>2
<1>8. ASSUME NEW e \in Page!Endpoints, e # "reports", Page!Answer(e) \/ Page!Receive(e)
      PROVE  ListInv'
  <2>1. UNCHANGED <<rows, seen, count>>
    BY <1>8 DEF Page!Answer, Page!Receive, Page!ReceiveReceipt
  <2>2. request'["reports"] = request["reports"]
    BY <1>1, <1>8 DEF Page!Answer, Page!Receive
  <2> QED BY <1>2, <2>1, <2>2
<1>9. CASE Page!Answer("reports")
  <2>1. PICK answer \in Page!NewestReports(count) :
          request' = [request EXCEPT !["reports"] =
                        [stage |-> "answered", rows |-> answer, count |-> count]]
    BY <1>9 DEF Page!Answer
  <2>2. UNCHANGED <<rows, seen, count>> BY <1>9 DEF Page!Answer
  <2>3. /\ request'["reports"].rows = answer /\ request'["reports"].count = count
    BY <1>1, <2>1
  <2>4. count \in seen .. count BY <1>1
  <2> QED BY <2>2, <2>3, <2>4 DEF ListInv
<1>10. CASE Page!Receive("reports")
  <2>1. /\ request["reports"].stage = "answered" /\ count' = count
        /\ Page!ReceiveReports(request["reports"])
        /\ request'["reports"] = Page!Over
    BY <1>1, <1>10 DEF Page!Receive
  <2>2. seen' = request["reports"].count BY <2>1 DEF Page!ReceiveReports
  <2>3. seen' \in 0 .. count BY <1>1, <2>1, <2>2 DEF ListInv
  <2> QED BY <2>1, <2>3, ListReceives DEF ListInv, Page!Over
<1> QED BY <1>3, <1>4, <1>5, <1>6, <1>7, <1>8, <1>9, <1>10 DEF Page!Next

\* The inspector's list is one the database could have answered.
THEOREM InspectorIsNewest == Page!Spec => []InspectorShowsNewest
<1> Page!DashboardAssumption BY PageAssumption
<1>1. ASSUME Page!Init PROVE FetchInv /\ ListInv
  <2>1. FetchInv
    BY <1>1 DEF Page!Init, FetchInv, Page!Over, Page!Requests, Page!Endpoints,
                Page!DashboardAssumption
  <2>2. Page!IdsOf(rows) = {} BY <1>1 DEF Page!Init, Page!IdsOf
  <2>3. ListInv
    BY <1>1, <2>2, NoneIsNewest DEF Page!Init, ListInv, Page!Over, Page!Endpoints
  <2> QED BY <2>1, <2>3
<1>2. ASSUME FetchInv, ListInv PROVE Page!InspectorShowsNewest
  <2> DEFINE ids == Page!IdsOf(rows)
             f == [i \in ids |-> CHOOSE r \in rows : r.id = i]
  <2>1. IsFiniteSet(ids)
    <3>1. ids \subseteq 1 .. seen /\ seen \in Nat
      BY <1>2 DEF ListInv, FetchInv, Page!NewestReports, Page!NewestOf
    <3>2. IsFiniteSet(1 .. seen) BY <3>1, FS_Interval
    <3> HIDE DEF ids
    <3> QED BY <3>1, <3>2, FS_Subset
  <2>2. f \in Bijection(ids, rows)
    <3>1. \A i \in ids : f[i] \in rows /\ f[i].id = i BY DEF Page!IdsOf
    <3>2. \A r \in rows : r.id \in ids BY DEF Page!IdsOf
    <3>3. f \in [ids -> rows] BY <3>1
    <3> HIDE DEF f, ids
    <3>4. \A r \in rows : f[r.id] = r BY <1>2, <3>1, <3>2 DEF ListInv
    <3> QED BY <3>1, <3>2, <3>3, <3>4 DEF Bijection, Injection, IsInjective, Surjection
  <2> HIDE DEF ids, f
  <2>3. Cardinality(rows) = Cardinality(ids) BY <2>1, <2>2, FS_Bijection DEF ExistsBijection
  <2> QED BY <1>2, <2>3, SameCardinality DEF ids, ListInv, Page!InspectorShowsNewest
<1>3. FetchInv /\ ListInv => InspectorShowsNewest BY <1>2 DEF InspectorShowsNewest
<1> QED BY <1>1, <1>3, FetchStep, ListStep, PTL DEF Page!Spec

-----------------------------------------------------------------------------
(* The replay of a case *)


\* A stamp is a time or null, and only agents leave a rationale.
LEMMA RowShape ==
  ASSUME NEW r \in Replayable
  PROVE  /\ r.nodes \subseteq {"forensic", "auditor", "enforcer"}
         /\ r.wire \in Int \cup {Null} /\ r.compute \in Int \cup {Null}
         /\ r.score \in Int \cup {Null} /\ r.verdict \in Int \cup {Null}
         /\ r.enforced \in Int \cup {Null}
<1>1. r.nodes \subseteq Modal!AgentNodes /\ \A stage \in Modal!Stages : r[stage] \in Int \cup {Null}
  BY ModalAssumption DEF Modal!ReplayAssumption
<1>2. {"wire", "compute", "score", "verdict", "enforced"} = Modal!Stages BY DEF Modal!Stages
<1> QED BY <1>1, <1>2 DEF Modal!AgentNodes, Modal!Stages

\* What a concatenation holds, and where.
LEMMA CatParts ==
  ASSUME NEW S, NEW s \in Seq(S), NEW t \in Seq(S)
  PROVE  /\ s \o t \in Seq(S) /\ Len(s \o t) = Len(s) + Len(t)
         /\ \A i \in DOMAIN s : (s \o t)[i] = s[i]
         /\ \A i \in DOMAIN (s \o t) \ DOMAIN s : i - Len(s) \in DOMAIN t /\ (s \o t)[i] = t[i - Len(s)]
OBVIOUS

LEMMA CatLast ==
  ASSUME NEW S, NEW s \in Seq(S), NEW t \in Seq(S), t # <<>>
  PROVE  Modal!Last(s \o t) = Modal!Last(t)
BY DEF Modal!Last

LEMMA CatEmpty == ASSUME NEW S, NEW s \in Seq(S) PROVE s \o <<>> = s /\ <<>> \o s = s
OBVIOUS

\* A node that spoke is one node.
LEMMA SpokeShape ==
  ASSUME NEW r, NEW S, NEW node \in S
  PROVE  LET s == Modal!Spoke(r, node)
         IN  /\ s \in Seq(S) /\ Len(s) = IF node \in r.nodes THEN 1 ELSE 0
             /\ \A i \in 1 .. Len(s) : s[i] = node
<1>1. CASE node \in r.nodes
  <2>1. Modal!Spoke(r, node) = <<node>> BY <1>1 DEF Modal!Spoke
  <2> QED BY <1>1, <2>1
<1>2. CASE node \notin r.nodes
  <2>1. Modal!Spoke(r, node) = <<>> BY <1>2 DEF Modal!Spoke
  <2> QED BY <1>2, <2>1
<1> QED BY <1>1, <1>2

\* The nodes that spoke, in order; the enforcer is the last of them.
LEMMA SpeakersShape ==
  ASSUME NEW r \in Replayable
  PROVE  LET s == Modal!Speakers(r)
         IN  /\ s \in Seq(Modal!AgentNodes) /\ Len(s) \in 0 .. 3
             /\ Len(s) = 0 <=> r.nodes = {}
             /\ \A i \in 1 .. Len(s) : s[i] = "enforcer" => i = Len(s)
<1> DEFINE F == Modal!Spoke(r, "forensic")
           A == Modal!Spoke(r, "auditor")
           E == Modal!Spoke(r, "enforcer")
<1>1. /\ r.nodes \subseteq Modal!AgentNodes
      /\ Modal!AgentNodes = {"forensic", "auditor", "enforcer"}
  BY RowShape DEF Modal!AgentNodes
<1>2. {"forensic", "auditor", "enforcer"} = Modal!AgentNodes BY DEF Modal!AgentNodes
<1>3. /\ F \in Seq(Modal!AgentNodes) /\ Len(F) = (IF "forensic" \in r.nodes THEN 1 ELSE 0)
      /\ A \in Seq(Modal!AgentNodes) /\ Len(A) = (IF "auditor" \in r.nodes THEN 1 ELSE 0)
      /\ E \in Seq(Modal!AgentNodes) /\ Len(E) = (IF "enforcer" \in r.nodes THEN 1 ELSE 0)
      /\ \A i \in 1 .. Len(F) : F[i] # "enforcer"
      /\ \A i \in 1 .. Len(A) : A[i] # "enforcer"
  <2>1. "forensic" # "enforcer" /\ "auditor" # "enforcer" OBVIOUS
  <2>2. /\ F \in Seq(Modal!AgentNodes) /\ Len(F) = (IF "forensic" \in r.nodes THEN 1 ELSE 0)
        /\ \A i \in 1 .. Len(F) : F[i] = "forensic"
    BY <1>1, SpokeShape
  <2>3. /\ A \in Seq(Modal!AgentNodes) /\ Len(A) = (IF "auditor" \in r.nodes THEN 1 ELSE 0)
        /\ \A i \in 1 .. Len(A) : A[i] = "auditor"
    BY <1>1, SpokeShape
  <2>4. E \in Seq(Modal!AgentNodes) /\ Len(E) = (IF "enforcer" \in r.nodes THEN 1 ELSE 0)
    BY <1>1, SpokeShape
  <2> HIDE DEF F, A, E
  <2> QED BY <2>1, <2>2, <2>3, <2>4
<1> HIDE DEF F, A, E
<1>4. Len(F) + Len(A) + Len(E) = 0 <=> r.nodes = {}
  <2>1. r.nodes = {} <=> ~ \E node \in {"forensic", "auditor", "enforcer"} : node \in r.nodes
    BY <1>1
  <2> QED BY <1>3, <2>1
<1>5. Modal!Speakers(r) = (F \o A) \o E BY DEF Modal!Speakers, F, A, E
<1>6. /\ F \o A \in Seq(Modal!AgentNodes) /\ Len(F \o A) = Len(F) + Len(A)
      /\ \A i \in DOMAIN (F \o A) : (F \o A)[i] # "enforcer"
  BY <1>3, CatParts
<1> DEFINE FA == F \o A
<1> HIDE DEF FA
<1>7. /\ FA \in Seq(Modal!AgentNodes) /\ Len(FA) = Len(F) + Len(A)
      /\ \A i \in DOMAIN FA : FA[i] # "enforcer"
  BY <1>6 DEF FA
<1>8. /\ FA \o E \in Seq(Modal!AgentNodes) /\ Len(FA \o E) = Len(FA) + Len(E)
      /\ \A i \in 1 .. Len(FA \o E) : (FA \o E)[i] = "enforcer" => i = Len(FA \o E)
  <2>1. FA \o E \in Seq(Modal!AgentNodes) /\ Len(FA \o E) = Len(FA) + Len(E) BY <1>7, <1>3, CatParts
  <2>2. ASSUME NEW i \in 1 .. Len(FA \o E), (FA \o E)[i] = "enforcer" PROVE i = Len(FA \o E)
    <3>1. i \notin DOMAIN FA BY <2>2, <1>7, <1>3, CatParts
    <3>2. Len(E) \in {0, 1} /\ Len(FA) \in Nat BY <1>3, <1>7
    <3>3. i \notin 1 .. Len(FA) BY <3>1, <1>7
    <3>4. Len(FA \o E) = Len(FA) + Len(E) BY <2>1
    <3> DEFINE a == Len(FA)
               e == Len(E)
               m == Len(FA \o E)
    <3> HIDE DEF a, e, m
    <3>5. i \in 1 .. m /\ i \notin 1 .. a /\ m = a + e /\ a \in Nat /\ e \in {0, 1}
      BY <2>2, <3>2, <3>3, <3>4 DEF a, e, m
    <3>6. i = m BY <3>5
    <3> QED BY <3>6 DEF m
  <2> QED BY <2>1, <2>2
<1>9. Modal!Speakers(r) = FA \o E BY <1>5 DEF FA
<1> DEFINE s == Modal!Speakers(r)
<1>10. s \in Seq(Modal!AgentNodes) /\ \A i \in 1 .. Len(s) : s[i] = "enforcer" => i = Len(s)
  BY <1>9, <1>8
<1>11. Len(s) = Len(F) + Len(A) + Len(E) BY <1>9, <1>8, <1>7
<1>12. Len(s) \in 0 .. 3 BY <1>11, <1>3
<1>13. Len(s) = 0 <=> r.nodes = {} BY <1>11, <1>4
<1> QED BY <1>10, <1>12, <1>13

-----------------------------------------------------------------------------
\* Where the span starts and ends is known as soon as the tick has a time.
LEMMA SpanIsInt ==
  ASSUME NEW r \in Replayable, r.wire # Null
  PROVE  Modal!SpanStart(r) \in Int /\ Modal!SpanEnd(r) \in Int
BY RowShape DEF Modal!SpanStart, Modal!SpanEnd, Modal!Or

\* The i-th of at most three parts of a span that is not negative.
LEMMA PartOfSpan ==
  ASSUME NEW d \in Nat, NEW n \in 1 .. 3, NEW i \in 1 .. n
  PROVE  (d * i) \div n \in 0 .. d
<1>1. CASE n = 1 BY <1>1
<1>2. CASE n = 2
  <2>1. CASE i = 1 BY <1>2, <2>1
  <2>2. CASE i = 2 BY <1>2, <2>2
  <2> QED BY <1>2, <2>1, <2>2
<1>3. CASE n = 3
  <2>1. CASE i = 1 BY <1>3, <2>1
  <2>2. CASE i = 2 BY <1>3, <2>2
  <2>3. CASE i = 3 BY <1>3, <2>3
  <2> QED BY <1>3, <2>1, <2>2, <2>3
<1> QED BY <1>1, <1>2, <1>3

LEMMA PartsGrow ==
  ASSUME NEW d \in Nat, NEW n \in 1 .. 3, NEW i \in 1 .. n, NEW j \in 1 .. n, i <= j
  PROVE  (d * i) \div n <= (d * j) \div n
<1>1. CASE n = 1 BY <1>1
<1>2. CASE n = 2
  <2>1. CASE i = 1 /\ j = 2 BY <1>2, <2>1
  <2>2. CASE i = j BY <1>2, <2>2
  <2> QED BY <1>2, <2>1, <2>2
<1>3. CASE n = 3
  <2>1. CASE i = 1 /\ j = 2 BY <1>3, <2>1
  <2>2. CASE i = 1 /\ j = 3 BY <1>3, <2>2
  <2>3. CASE i = 2 /\ j = 3 BY <1>3, <2>3
  <2>4. CASE i = j BY <1>3, <2>4
  <2> QED BY <1>3, <2>1, <2>2, <2>3, <2>4
<1> QED BY <1>1, <1>2, <1>3

\* The whole of a span, whatever its sign.
LEMMA WholeSpan ==
  ASSUME NEW d \in Int, NEW n \in 1 .. 3
  PROVE  Modal!Quotient(d * n, n) = d
<1>1. CASE n = 1 BY <1>1 DEF Modal!Quotient
<1>2. CASE n = 2
  <2>1. (d * 2) >= 0 => (d * 2) \div 2 = d OBVIOUS
  <2>2. (-(d * 2)) \div 2 = -d OBVIOUS
  <2> QED BY <1>2, <2>1, <2>2 DEF Modal!Quotient
<1>3. CASE n = 3
  <2>1. (d * 3) >= 0 => (d * 3) \div 3 = d OBVIOUS
  <2>2. (-(d * 3)) \div 3 = -d OBVIOUS
  <2> QED BY <1>3, <2>1, <2>2 DEF Modal!Quotient
<1> QED BY <1>1, <1>2, <1>3

\* The time an agent node is given: of the last one, the end of the span.
Moment(r, i) == Modal!NodeEvents(r)[i].ts

EventKeys == Modal!AgentNodes \cup Modal!Stages

LEMMA NodeTimes ==
  ASSUME NEW r \in Replayable, r.wire # Null, NEW n \in 1 .. 3, NEW i \in 1 .. n
  PROVE  /\ Modal!NodeTime(r, i, n) \in Int
         /\ i = n => Modal!NodeTime(r, i, n) = Modal!SpanEnd(r)
<1> DEFINE a == Modal!SpanStart(r)
           e == Modal!SpanEnd(r)
<1>1. a \in Int /\ e \in Int BY SpanIsInt
<1> HIDE DEF a, e
<1>2. Modal!NodeTime(r, i, n) = IF n = 1 THEN e ELSE a + Modal!Quotient((e - a) * i, n)
  BY DEF Modal!NodeTime, a, e
<1>3. \A d \in Int : Modal!Quotient(d * i, n) \in Int
  <2>1. CASE n = 1 BY <2>1 DEF Modal!Quotient
  <2>2. CASE n = 2
    <3>1. i = 1 \/ i = 2 BY <2>2
    <3> QED BY <2>2, <3>1 DEF Modal!Quotient
  <2>3. CASE n = 3
    <3>1. i = 1 \/ i = 2 \/ i = 3 BY <2>3
    <3> QED BY <2>3, <3>1 DEF Modal!Quotient
  <2> QED BY <2>1, <2>2, <2>3
<1>4. e - a \in Int BY <1>1
<1>5. Modal!Quotient((e - a) * i, n) \in Int BY <1>3, <1>4
<1>6. i = n => Modal!Quotient((e - a) * i, n) = e - a BY <1>4, WholeSpan
<1> DEFINE q == Modal!Quotient((e - a) * i, n)
<1> HIDE DEF q
<1>7. q \in Int /\ (i = n => q = e - a) /\ Modal!NodeTime(r, i, n) = IF n = 1 THEN e ELSE a + q
  BY <1>2, <1>5, <1>6 DEF q
<1>8. Modal!NodeTime(r, i, n) \in Int /\ (i = n => Modal!NodeTime(r, i, n) = e)
  BY <1>1, <1>7
<1> QED BY <1>8 DEF e

LEMMA NodeEventsShape ==
  ASSUME NEW r \in Replayable, r.wire # Null
  PROVE  LET n == Len(Modal!Speakers(r))
         IN  /\ Modal!NodeEvents(r) \in Seq([key : EventKeys, ts : Int])
             /\ Len(Modal!NodeEvents(r)) = n
             /\ \A i \in 1 .. n - 1 : Moment(r, i) = Modal!NodeTime(r, i, n)
             /\ n > 0 => Moment(r, n) = Modal!SpanEnd(r)
<1> DEFINE s == Modal!Speakers(r)
           n == Len(s)
           N == Modal!NodeEvents(r)
           Told(i) == IF s[i] = "enforcer" THEN Modal!Or(r.enforced, Modal!NodeTime(r, i, n))
                     ELSE Modal!NodeTime(r, i, n)
<1>1. /\ s \in Seq(Modal!AgentNodes) /\ n \in 0 .. 3
      /\ \A i \in 1 .. n : s[i] = "enforcer" => i = n
  BY SpeakersShape
<1>2. n > 0 => n \in 1 .. 3 BY <1>1
<1>3. \A i \in 1 .. n : Modal!NodeTime(r, i, n) \in Int
  <2> HIDE DEF n
  <2> TAKE i \in 1 .. n
  <2>1. n \in 1 .. 3 BY <1>1, <1>2
  <2> QED BY <2>1, NodeTimes
<1>4. n > 0 => Modal!NodeTime(r, n, n) = Modal!SpanEnd(r)
  <2> HAVE n > 0
  <2>1. n \in 1 .. 3 /\ n \in 1 .. n BY <1>2
  <2> HIDE DEF n, s
  <2> QED BY <2>1, NodeTimes
<1>5. Modal!Or(r.enforced, Modal!SpanEnd(r)) = Modal!SpanEnd(r)
  BY DEF Modal!SpanEnd, Modal!Or
<1>6. N = [i \in DOMAIN s |-> [key |-> s[i], ts |-> Told(i)]]
  BY DEF Modal!NodeEvents, Modal!Event
<1>7. DOMAIN s = 1 .. n /\ \A i \in 1 .. n : s[i] \in EventKeys BY <1>1 DEF EventKeys
<1>8. n \in Nat BY <1>1
<1>9. \A i \in 1 .. n : Told(i) \in Int BY <1>3, RowShape DEF Modal!Or
<1>10. \A i \in 1 .. n - 1 : Told(i) = Modal!NodeTime(r, i, n)
  <2> TAKE i \in 1 .. n - 1
  <2>1. i \in 1 .. n /\ i # n BY <1>8
  <2>2. s[i] # "enforcer" BY <2>1, <1>1
  <2> QED BY <2>2
<1>11. n > 0 => Told(n) = Modal!SpanEnd(r) BY <1>4, <1>5
<1> HIDE DEF s, n, N, Told
<1>12. N \in Seq([key : EventKeys, ts : Int]) /\ Len(N) = n
  <2>1. N = [i \in 1 .. n |-> [key |-> s[i], ts |-> Told(i)]] BY <1>6, <1>7
  <2>2. \A i \in 1 .. n : [key |-> s[i], ts |-> Told(i)] \in [key : EventKeys, ts : Int]
    BY <1>7, <1>9
  <2> DEFINE T == [key : EventKeys, ts : Int]
             e(i) == [key |-> s[i], ts |-> Told(i)]
  <2>3. N = [i \in 1 .. n |-> e(i)] /\ \A i \in 1 .. n : e(i) \in T BY <2>1, <2>2
  <2> HIDE DEF T, e
  <2>4. N \in Seq(T) /\ Len(N) = n BY <2>3, <1>8
  <2> QED BY <2>4 DEF T
<1>13. \A i \in 1 .. n : N[i].ts = Told(i) BY <1>6, <1>7
<1>14. \A i \in 1 .. n - 1 : N[i].ts = Modal!NodeTime(r, i, n) BY <1>10, <1>13, <1>8
<1>15. n > 0 => N[n].ts = Modal!SpanEnd(r) BY <1>11, <1>13, <1>8
<1> QED BY <1>12, <1>14, <1>15 DEF N, s, n, Moment

-----------------------------------------------------------------------------
\* The events up to the score are the stamps that the row has.
LEMMA StampedShape ==
  ASSUME NEW r \in Replayable, NEW stage \in Modal!Stages
  PROVE  LET s == Modal!Stamped(r, stage)
         IN  /\ s \in Seq([key : EventKeys, ts : Int]) /\ Len(s) \in Nat
             /\ \A i \in 1 .. Len(s) : r[stage] # Null /\ i = 1 /\ s[i].ts = r[stage]
             /\ r[stage] # Null => Len(s) = 1
<1> DEFINE T == [key : EventKeys, ts : Int]
<1>1. CASE r[stage] # Null
  <2>1. r[stage] \in Int BY <1>1, ModalAssumption DEF Modal!ReplayAssumption
  <2> DEFINE e == [key |-> stage, ts |-> r[stage]]
  <2>2. e \in T /\ e.ts = r[stage] BY <2>1 DEF EventKeys
  <2>3. Modal!Stamped(r, stage) = <<e>> BY <1>1 DEF Modal!Stamped, Modal!Event
  <2> HIDE DEF e, T
  <2>4. <<e>> \in Seq(T) /\ Len(<<e>>) = 1 /\ <<e>>[1] = e BY <2>2
  <2> QED BY <1>1, <2>2, <2>3, <2>4 DEF T
<1>2. CASE r[stage] = Null
  <2>1. Modal!Stamped(r, stage) = <<>> BY <1>2 DEF Modal!Stamped
  <2> HIDE DEF T
  <2>2. <<>> \in Seq(T) /\ Len(<<>>) = 0 OBVIOUS
  <2> QED BY <1>2, <2>1, <2>2 DEF T
<1> QED BY <1>1, <1>2

\* Events in order, all of them between two times.
Spans(s, from, to) ==
  /\ s \in Seq([key : EventKeys, ts : Int])
  /\ \A i \in 1 .. Len(s) : from <= s[i].ts /\ s[i].ts <= to
  /\ \A i, j \in 1 .. Len(s) : i < j => s[i].ts <= s[j].ts

LEMMA SpansJoin ==
  ASSUME NEW s, NEW t, NEW a \in Int, NEW b \in Int, NEW c \in Int, a <= b, b <= c,
         Spans(s, a, b), Spans(t, b, c)
  PROVE  Spans(s \o t, a, c)
<1> DEFINE T == [key : EventKeys, ts : Int]
<1>1. \A e \in T : e.ts \in Int OBVIOUS
<1>2. s \in Seq(T) /\ t \in Seq(T) BY DEF Spans
<1> DEFINE u == s \o t
           m == Len(s)
           n == Len(t)
<1>3. \A i \in 1 .. m : s[i].ts \in Int /\ a <= s[i].ts /\ s[i].ts <= b
  <2> TAKE i \in 1 .. m
  <2>1. s[i] \in T
    <3> HIDE DEF T
    <3> QED BY <1>2
  <2> QED BY <1>1, <2>1 DEF Spans
<1>4. \A i \in 1 .. n : t[i].ts \in Int /\ b <= t[i].ts /\ t[i].ts <= c
  <2> TAKE i \in 1 .. n
  <2>1. t[i] \in T
    <3> HIDE DEF T
    <3> QED BY <1>2
  <2> QED BY <1>1, <2>1 DEF Spans
<1>5. m \in Nat /\ n \in Nat BY <1>2
<1>6. /\ u \in Seq(T) /\ Len(u) = m + n
      /\ \A i \in 1 .. m : u[i] = s[i]
      /\ \A i \in 1 .. m + n : i \notin 1 .. m => i - m \in 1 .. n /\ u[i] = t[i - m]
  <2> HIDE DEF T
  <2> QED BY <1>2
<1>7. /\ \A i, j \in 1 .. m : i < j => s[i].ts <= s[j].ts
      /\ \A i, j \in 1 .. n : i < j => t[i].ts <= t[j].ts
  BY DEF Spans
<1> HIDE DEF u, m, n
<1>8. ASSUME NEW i \in 1 .. Len(u) PROVE a <= u[i].ts /\ u[i].ts <= c
  <2>1. CASE i \in 1 .. m BY <2>1, <1>3, <1>6
  <2>2. CASE i \notin 1 .. m
    <3>1. i - m \in 1 .. n /\ u[i] = t[i - m] BY <2>2, <1>6, <1>8
    <3> QED BY <3>1, <1>4
  <2> QED BY <2>1, <2>2
<1>9. ASSUME NEW i \in 1 .. Len(u), NEW j \in 1 .. Len(u), i < j PROVE u[i].ts <= u[j].ts
  <2>1. CASE j \in 1 .. m
    <3>1. i \in 1 .. m BY <2>1, <1>9, <1>5
    <3>2. u[i] = s[i] /\ u[j] = s[j] BY <2>1, <3>1, <1>6
    <3> QED BY <2>1, <3>1, <3>2, <1>7, <1>9
  <2>2. CASE i \in 1 .. m /\ j \notin 1 .. m
    <3>1. j - m \in 1 .. n /\ u[j] = t[j - m] BY <2>2, <1>6, <1>9
    <3>2. b <= t[j - m].ts /\ t[j - m].ts \in Int BY <3>1, <1>4
    <3>3. u[i] = s[i] /\ s[i].ts <= b /\ s[i].ts \in Int BY <2>2, <1>3, <1>6
    <3> QED BY <3>1, <3>2, <3>3
  <2>3. CASE i \notin 1 .. m
    <3>1. j \notin 1 .. m BY <2>3, <1>9, <1>5
    <3>2. /\ i - m \in 1 .. n /\ u[i] = t[i - m]
          /\ j - m \in 1 .. n /\ u[j] = t[j - m]
      BY <2>3, <3>1, <1>6, <1>9
    <3>3. i - m < j - m BY <1>5, <1>9
    <3> QED BY <3>2, <3>3, <1>7
  <2> QED BY <2>1, <2>2, <2>3
<1>10. u \in Seq(T) BY <1>6
<1> QED BY <1>8, <1>9, <1>10 DEF Spans, u

\* A stage whose stamp, if it has one, is in a span.
LEMMA SpansStage ==
  ASSUME NEW r \in Replayable, NEW stage \in Modal!Stages, NEW a \in Int, NEW b \in Int,
         r[stage] # Null => a <= r[stage] /\ r[stage] <= b
  PROVE  Spans(Modal!Stamped(r, stage), a, b)
<1> DEFINE s == Modal!Stamped(r, stage)
<1>1. /\ s \in Seq([key : EventKeys, ts : Int]) /\ Len(s) \in Nat
      /\ \A i \in 1 .. Len(s) : r[stage] # Null /\ i = 1 /\ s[i].ts = r[stage]
  BY StampedShape
<1> HIDE DEF s
<1>2. Spans(s, a, b) BY <1>1 DEF Spans
<1> QED BY <1>2 DEF s

\* The nodes are spread, in order, over a span that does not run backwards.
LEMMA SpansNodes ==
  ASSUME NEW r \in Replayable, r.wire # Null, Modal!SpanStart(r) <= Modal!SpanEnd(r)
  PROVE  Spans(Modal!NodeEvents(r), Modal!SpanStart(r), Modal!SpanEnd(r))
<1> DEFINE N == Modal!NodeEvents(r)
           n == Len(Modal!Speakers(r))
           a == Modal!SpanStart(r)
           e == Modal!SpanEnd(r)
           d == e - a
<1>1. /\ N \in Seq([key : EventKeys, ts : Int]) /\ Len(N) = n
      /\ \A i \in 1 .. n - 1 : N[i].ts = Modal!NodeTime(r, i, n)
      /\ n > 0 => N[n].ts = e
  BY NodeEventsShape DEF Moment
<1>2. n \in 0 .. 3 BY SpeakersShape
<1>3. a \in Int /\ e \in Int /\ d \in Nat BY SpanIsInt
<1>4. \A i \in 1 .. n - 1 : Modal!NodeTime(r, i, n) = a + Modal!Quotient(d * i, n)
  <2> HIDE DEF n
  <2> TAKE i \in 1 .. n - 1
  <2>1. n # 1 BY <1>2
  <2> QED BY <2>1 DEF Modal!NodeTime
<1> HIDE DEF N, n, a, e, d
<1>5. \A i \in 1 .. n : Modal!Quotient(d * i, n) = (d * i) \div n
  <2> TAKE i \in 1 .. n
  <2>1. i \in Nat BY <1>2
  <2>2. d * i >= 0 BY <2>1, <1>3
  <2> QED BY <2>2 DEF Modal!Quotient
<1> DEFINE q(i) == (d * i) \div n
<1>6. \A i \in 1 .. n : q(i) \in 0 .. d
  <2> TAKE i \in 1 .. n
  <2>1. n \in 1 .. 3 BY <1>2
  <2> QED BY <2>1, <1>3, PartOfSpan
<1>7. \A i, j \in 1 .. n : i <= j => q(i) <= q(j)
  <2> TAKE i, j \in 1 .. n
  <2> HAVE i <= j
  <2>1. n \in 1 .. 3 BY <1>2
  <2> QED BY <2>1, <1>3, PartsGrow
<1>8. \A i \in 1 .. n - 1 : i \in 1 .. n /\ N[i].ts = a + q(i)
  <2> TAKE i \in 1 .. n - 1
  <2>1. i \in 1 .. n BY <1>2
  <2> QED BY <2>1, <1>1, <1>4, <1>5
<1>9. d = e - a BY DEF d
<1> HIDE DEF q
<1>10. \A i \in 1 .. n : a <= N[i].ts /\ N[i].ts <= e
  <2> TAKE i \in 1 .. n
  <2>1. CASE i = n BY <2>1, <1>1, <1>2, <1>3, <1>9
  <2>2. CASE i # n
    <3>1. i \in 1 .. n - 1 BY <2>2, <1>2
    <3>2. N[i].ts = a + q(i) /\ q(i) \in 0 .. d BY <3>1, <1>6, <1>8
    <3> QED BY <3>2, <1>3, <1>9
  <2> QED BY <2>1, <2>2
<1>11. \A i, j \in 1 .. n : i < j => N[i].ts <= N[j].ts
  <2> TAKE i, j \in 1 .. n
  <2> HAVE i < j
  <2>1. i \in 1 .. n - 1 BY <1>2
  <2>2. CASE j = n BY <2>2, <2>1, <1>10, <1>1, <1>2
  <2>3. CASE j # n
    <3>1. j \in 1 .. n - 1 BY <2>3, <1>2
    <3>2. q(i) <= q(j) /\ q(i) \in 0 .. d /\ q(j) \in 0 .. d BY <2>1, <3>1, <1>6, <1>7, <1>8
    <3> QED BY <2>1, <3>1, <3>2, <1>8, <1>3
  <2> QED BY <2>2, <2>3
<1>12. Spans(N, a, e) BY <1>1, <1>10, <1>11 DEF Spans
<1> QED BY <1>12 DEF N, a, e

-----------------------------------------------------------------------------
\* The stages of the receipt.
Holds(s, x) == \E i \in 1 .. Len(s) : s[i] = x
Precedes(s, x, y) == \E i, j \in 1 .. Len(s) : i < j /\ s[i] = x /\ s[j] = y

\* In a concatenation the elements keep their order, those of the first part first.
LEMMA CatPrecedes ==
  ASSUME NEW S, NEW s \in Seq(S), NEW t \in Seq(S), NEW x, NEW y
  PROVE  /\ s \o t \in Seq(S)
         /\ Holds(s, x) => Holds(s \o t, x)
         /\ Holds(t, x) => Holds(s \o t, x)
         /\ Precedes(s, x, y) => Precedes(s \o t, x, y)
         /\ Holds(s, x) /\ Holds(t, y) => Precedes(s \o t, x, y)
<1> DEFINE u == s \o t
           m == Len(s)
           n == Len(t)
<1>1. /\ u \in Seq(S) /\ Len(u) = m + n /\ m \in Nat /\ n \in Nat
      /\ \A i \in 1 .. m : u[i] = s[i]
      /\ \A i \in 1 .. n : u[m + i] = t[i]
  OBVIOUS
<1> HIDE DEF u, m, n
<1>2. \A i \in 1 .. m : i \in 1 .. Len(u) BY <1>1
<1>3. \A i \in 1 .. n : m + i \in 1 .. Len(u) BY <1>1
<1>4. \A i \in 1 .. m, j \in 1 .. n : i < m + j BY <1>1
<1>5. Holds(s, x) => Holds(u, x) BY <1>1, <1>2 DEF Holds, m
<1>6. Holds(t, x) => Holds(u, x) BY <1>1, <1>3 DEF Holds, n
<1>7. Precedes(s, x, y) => Precedes(u, x, y) BY <1>1, <1>2 DEF Precedes, m
<1>8. ASSUME Holds(s, x), Holds(t, y) PROVE Precedes(u, x, y)
  <2>1. PICK i \in 1 .. m : s[i] = x BY <1>8 DEF Holds, m
  <2>2. PICK j \in 1 .. n : t[j] = y BY <1>8 DEF Holds, n
  <2>3. i \in 1 .. Len(u) /\ m + j \in 1 .. Len(u) /\ i < m + j BY <1>2, <1>3, <1>4
  <2>4. u[i] = x /\ u[m + j] = y BY <2>1, <2>2, <1>1
  <2> QED BY <2>3, <2>4 DEF Precedes
<1> QED BY <1>1, <1>5, <1>6, <1>7, <1>8 DEF u

LEMMA PresentShape ==
  ASSUME NEW r, NEW stage \in Modal!Stages
  PROVE  /\ Modal!Present(r, stage) \in Seq(Modal!Stages)
         /\ r[stage] # Null => Holds(Modal!Present(r, stage), stage)
<1>1. CASE r[stage] # Null
  <2>1. Modal!Present(r, stage) = <<stage>> BY <1>1 DEF Modal!Present
  <2>2. <<stage>> \in Seq(Modal!Stages) /\ Len(<<stage>>) = 1 /\ <<stage>>[1] = stage OBVIOUS
  <2> QED BY <2>1, <2>2 DEF Holds
<1>2. CASE r[stage] = Null
  <2>1. Modal!Present(r, stage) = <<>> BY <1>2 DEF Modal!Present
  <2> QED BY <1>2, <2>1
<1> QED BY <1>1, <1>2

\* The stages that the proofs need in order are in order.
LEMMA CapturedOrder ==
  ASSUME NEW r \in Replayable, r.wire # Null, r.score # Null
  PROVE  LET c == Modal!Captured(r)
         IN  /\ Precedes(c, "wire", "score")
             /\ r.compute # Null => Precedes(c, "wire", "compute") /\ Precedes(c, "compute", "score")
             /\ r.verdict # Null => Precedes(c, "score", "verdict")
             /\ r.enforced # Null => Precedes(c, "score", "enforced")
<1> DEFINE W == Modal!Present(r, "wire")
           C == Modal!Present(r, "compute")
           S == Modal!Present(r, "score")
           V == Modal!Present(r, "verdict")
           E == Modal!Present(r, "enforced")
           T == Modal!Stages
<1>1. /\ W \in Seq(T) /\ C \in Seq(T) /\ S \in Seq(T) /\ V \in Seq(T) /\ E \in Seq(T)
      /\ Holds(W, "wire") /\ Holds(S, "score")
      /\ r.compute # Null => Holds(C, "compute")
      /\ r.verdict # Null => Holds(V, "verdict")
      /\ r.enforced # Null => Holds(E, "enforced")
  <2>1. {"wire", "compute", "score", "verdict", "enforced"} = T BY DEF Modal!Stages
  <2> HIDE DEF T
  <2>2. W \in Seq(T) /\ Holds(W, "wire") BY <2>1, PresentShape DEF T
  <2>3. C \in Seq(T) /\ (r.compute # Null => Holds(C, "compute")) BY <2>1, PresentShape DEF T
  <2>4. S \in Seq(T) /\ Holds(S, "score") BY <2>1, PresentShape DEF T
  <2>5. V \in Seq(T) /\ (r.verdict # Null => Holds(V, "verdict")) BY <2>1, PresentShape DEF T
  <2>6. E \in Seq(T) /\ (r.enforced # Null => Holds(E, "enforced")) BY <2>1, PresentShape DEF T
  <2> QED BY <2>2, <2>3, <2>4, <2>5, <2>6
<1>2. Modal!Captured(r) = (((W \o C) \o S) \o V) \o E BY DEF Modal!Captured
<1> HIDE DEF W, C, S, V, E, T
<1> DEFINE WC == W \o C
<1>3. /\ WC \in Seq(T) /\ Holds(WC, "wire")
      /\ r.compute # Null => Holds(WC, "compute") /\ Precedes(WC, "wire", "compute")
  BY <1>1, CatPrecedes
<1> HIDE DEF WC
<1> DEFINE WCS == WC \o S
<1>4. /\ WCS \in Seq(T) /\ Precedes(WCS, "wire", "score") /\ Holds(WCS, "score")
      /\ r.compute # Null => Precedes(WCS, "wire", "compute") /\ Precedes(WCS, "compute", "score")
  BY <1>1, <1>3, CatPrecedes
<1> HIDE DEF WCS
<1> DEFINE P == WCS \o V
<1>5. /\ P \in Seq(T) /\ Precedes(P, "wire", "score") /\ Holds(P, "score")
      /\ r.compute # Null => Precedes(P, "wire", "compute") /\ Precedes(P, "compute", "score")
      /\ r.verdict # Null => Precedes(P, "score", "verdict")
  BY <1>1, <1>4, CatPrecedes
<1> HIDE DEF P
<1> DEFINE c == P \o E
<1>6. /\ Precedes(c, "wire", "score")
      /\ r.compute # Null => Precedes(c, "wire", "compute") /\ Precedes(c, "compute", "score")
      /\ r.verdict # Null => Precedes(c, "score", "verdict")
      /\ r.enforced # Null => Precedes(c, "score", "enforced")
  BY <1>1, <1>5, CatPrecedes
<1>7. c = Modal!Captured(r) BY <1>2 DEF c, P, WCS, WC
<1> QED BY <1>6, <1>7

\* Stamps in order put the stages in order.
LEMMA InOrderStamps ==
  ASSUME NEW r, NEW x, NEW y, Precedes(Modal!Captured(r), x, y),
         Modal!InOrder([i \in DOMAIN Modal!Captured(r) |-> r[Modal!Captured(r)[i]]]),
         Modal!Captured(r) \in Seq(Modal!Stages)
  PROVE  r[x] <= r[y]
<1> DEFINE c == Modal!Captured(r)
           f == [i \in DOMAIN c |-> r[c[i]]]
<1>1. PICK i \in 1 .. Len(c), j \in 1 .. Len(c) : i < j /\ c[i] = x /\ c[j] = y BY DEF Precedes
<1>2. DOMAIN c = 1 .. Len(c) OBVIOUS
<1>3. Modal!InOrder(f) OBVIOUS
<1> HIDE DEF c
<1>4. DOMAIN f = 1 .. Len(c) /\ f[i] = r[x] /\ f[j] = r[y] BY <1>1, <1>2
<1> HIDE DEF f
<1> QED BY <1>1, <1>3, <1>4 DEF Modal!InOrder

\* The stages captured are stages; the last of them is the last that has a stamp.
LEMMA CapturedLast ==
  ASSUME NEW r \in Replayable, r.wire # Null
  PROVE  /\ Modal!Captured(r) \in Seq(Modal!Stages)
         /\ (r.enforced # Null \/ r.verdict # Null \/ r.score # Null) =>
              r[Modal!Last(Modal!Captured(r))] = Modal!SpanEnd(r)
<1> DEFINE W == Modal!Present(r, "wire")
           C == Modal!Present(r, "compute")
           S == Modal!Present(r, "score")
           V == Modal!Present(r, "verdict")
           E == Modal!Present(r, "enforced")
           T == Modal!Stages
<1>1. W \in Seq(T) /\ C \in Seq(T) /\ S \in Seq(T) /\ V \in Seq(T) /\ E \in Seq(T)
  BY PresentShape DEF Modal!Stages
<1>2. Modal!Captured(r) = (((W \o C) \o S) \o V) \o E BY DEF Modal!Captured
<1> DEFINE P == (W \o C)
           Q == P \o S
           R == Q \o V
<1>3. P \in Seq(T) BY <1>1, CatParts
<1>4. Q \in Seq(T) BY <1>1, <1>3, CatParts
<1>5. R \in Seq(T) BY <1>1, <1>4, CatParts
<1>6. R \o E \in Seq(T) BY <1>1, <1>5, CatParts
<1>7. Modal!Captured(r) = R \o E BY <1>2
<1>8. \A x : Modal!Last(<<x>>) = x /\ <<x>> # <<>> BY DEF Modal!Last
<1>9. CASE r.enforced # Null
  <2>1. E = <<"enforced">> BY <1>9 DEF Modal!Present
  <2>2. Modal!Last(R \o E) = "enforced" BY <2>1, <1>1, <1>5, <1>8, CatLast
  <2> QED BY <2>2, <1>6, <1>7, <1>9 DEF Modal!SpanEnd, Modal!Or
<1>10. CASE r.enforced = Null /\ r.verdict # Null
  <2>1. E = <<>> /\ V = <<"verdict">> BY <1>10 DEF Modal!Present
  <2>2. R \o E = R BY <2>1, <1>5, CatEmpty
  <2>3. Modal!Last(R) = "verdict"
    <3>1. V # <<>> /\ Modal!Last(V) = "verdict" BY <2>1, <1>8
    <3> HIDE DEF Q, V
    <3> QED BY <3>1, <1>1, <1>4, CatLast
  <2> QED BY <2>2, <2>3, <1>6, <1>7, <1>10 DEF Modal!SpanEnd, Modal!Or
<1>11. CASE r.enforced = Null /\ r.verdict = Null /\ r.score # Null
  <2>1. E = <<>> /\ V = <<>> /\ S = <<"score">> BY <1>11 DEF Modal!Present
  <2>2. R \o E = R BY <2>1, <1>5, CatEmpty
  <2>3. R = Q BY <2>1, <1>4, CatEmpty
  <2>4. Modal!Last(Q) = "score"
    <3>1. S # <<>> /\ Modal!Last(S) = "score" BY <2>1, <1>8
    <3> HIDE DEF P, S
    <3> QED BY <3>1, <1>1, <1>3, CatLast
  <2> QED BY <2>2, <2>3, <2>4, <1>6, <1>7, <1>11 DEF Modal!SpanEnd, Modal!SpanStart, Modal!Or
<1> QED BY <1>6, <1>7, <1>9, <1>10, <1>11

-----------------------------------------------------------------------------
\* The last event is the last node's, and it is at the end of the span.
LEMMA LastEvent ==
  ASSUME NEW r \in Replayable, r.wire # Null, r.nodes # {}
  PROVE  Modal!Last(Modal!BuildReplay(r)).ts = Modal!SpanEnd(r)
<1> DEFINE T == [key : EventKeys, ts : Int]
           W == Modal!Stamped(r, "wire")
           C == Modal!Stamped(r, "compute")
           S == Modal!Stamped(r, "score")
           N == Modal!NodeEvents(r)
<1>1. W \in Seq(T) /\ C \in Seq(T) /\ S \in Seq(T) BY StampedShape DEF Modal!Stages
<1>2. N \in Seq(T) /\ Len(N) > 0 /\ N[Len(N)].ts = Modal!SpanEnd(r)
  <2>1. Len(Modal!Speakers(r)) > 0 BY SpeakersShape
  <2> QED BY <2>1, NodeEventsShape DEF Moment
<1>3. Modal!BuildReplay(r) = ((W \o C) \o S) \o N
  BY DEF Modal!BuildReplay, Modal!StampEvents
<1> HIDE DEF W, C, S, N, T
<1>4. W \o C \in Seq(T) BY <1>1, CatParts
<1>5. (W \o C) \o S \in Seq(T) BY <1>1, <1>4, CatParts
<1>6. N # <<>> BY <1>2
<1>7. Modal!Last(((W \o C) \o S) \o N) = Modal!Last(N) BY <1>2, <1>5, <1>6, CatLast
<1>8. Modal!Last(N) = N[Len(N)] BY DEF Modal!Last
<1> QED BY <1>2, <1>3, <1>7, <1>8

\* Where the receipt is in order, so are the events.
LEMMA EventsInOrder ==
  ASSUME NEW r \in Replayable, r.wire # Null, r.score # Null,
         Modal!InOrder([i \in DOMAIN Modal!Captured(r) |-> r[Modal!Captured(r)[i]]])
  PROVE  Modal!InOrder([i \in DOMAIN Modal!BuildReplay(r) |-> Modal!BuildReplay(r)[i].ts])
<1> DEFINE c == Modal!Captured(r)
           B == Modal!BuildReplay(r)
           a == Modal!SpanStart(r)
           e == Modal!SpanEnd(r)
<1>1. c \in Seq(Modal!Stages) BY CapturedLast
<1>2. /\ r.wire \in Int /\ r.score \in Int /\ a = r.score /\ e \in Int
  BY RowShape, SpanIsInt DEF Modal!SpanStart, Modal!Or
<1>3. r.wire <= r.score BY <1>1, CapturedOrder, InOrderStamps
<1>4. r.compute # Null => r.wire <= r.compute /\ r.compute <= r.score
  BY <1>1, CapturedOrder, InOrderStamps
<1>5. r.verdict # Null => r.score <= r.verdict BY <1>1, CapturedOrder, InOrderStamps
<1>6. r.enforced # Null => r.score <= r.enforced BY <1>1, CapturedOrder, InOrderStamps
<1>7. a <= e BY <1>2, <1>5, <1>6 DEF Modal!SpanEnd, Modal!Or
<1> DEFINE W == Modal!Stamped(r, "wire")
           C == Modal!Stamped(r, "compute")
           S == Modal!Stamped(r, "score")
           N == Modal!NodeEvents(r)
<1> HIDE DEF a, e, c
<1>8. Spans(W, r.wire, r.wire) BY <1>2, SpansStage DEF Modal!Stages
<1>9. Spans(C, r.wire, r.score) BY <1>2, <1>4, SpansStage DEF Modal!Stages
<1>10. Spans(S, r.score, r.score) BY <1>2, SpansStage DEF Modal!Stages
<1>11. Spans(N, r.score, e) BY <1>2, <1>7, SpansNodes DEF a, e
<1>12. B = ((W \o C) \o S) \o N BY DEF Modal!BuildReplay, Modal!StampEvents
<1> HIDE DEF W, C, S, N, B
<1>13. Spans(W \o C, r.wire, r.score) BY <1>2, <1>3, <1>8, <1>9, SpansJoin
<1>14. Spans((W \o C) \o S, r.wire, r.score) BY <1>2, <1>3, <1>10, <1>13, SpansJoin
<1>15. r.score <= e BY <1>2, <1>7
<1>16. Spans(B, r.wire, e) BY <1>2, <1>3, <1>11, <1>12, <1>14, <1>15, SpansJoin
<1>17. DOMAIN B = 1 .. Len(B) BY <1>16 DEF Spans
<1>18. Modal!InOrder([i \in DOMAIN B |-> B[i].ts]) BY <1>16, <1>17 DEF Spans, Modal!InOrder
<1> QED BY <1>18 DEF B

(***************************************************************************)
(* The last offset of a replay is the total of the receipt, also where the *)
(* clocks disagree, and stamps in order give events in order.              *)
(***************************************************************************)
THEOREM ReplayAgrees ==
  Modal!Init /\ [][Modal!Next]_modalVars => []ReplayMatchesReceipt
<1> DEFINE Inv == replayed \in Replayable \cup {Null}
<1>1. Modal!Init => Inv BY DEF Modal!Init
<1>2. Inv /\ [Modal!Next]_modalVars => Inv'
  BY DEF Modal!Next, Modal!Click, Modal!Open, Modal!Close, Modal!PlayPause, Modal!Restart,
         Modal!Jump, Modal!Advance, modalVars
<1>3. Inv => ReplayMatchesReceipt
  <2> SUFFICES ASSUME Inv, Modal!Events # <<>> PROVE
        /\ (replayed.nodes # {} /\ \E s \in {"score", "verdict", "enforced"} : replayed[s] # Null) =>
             Modal!Offset(replayed, Modal!Last(Modal!Events)) = Modal!Total(replayed)
        /\ (replayed.score # Null /\ Modal!InOrder([i \in DOMAIN Modal!Captured(replayed) |->
                                                   replayed[Modal!Captured(replayed)[i]]])) =>
             Modal!InOrder([i \in DOMAIN Modal!Events |-> Modal!Events[i].ts])
    BY DEF ReplayMatchesReceipt, Modal!ReplayMatchesReceipt
  <2>1. /\ replayed \in Replayable /\ replayed.wire # Null
        /\ Modal!Events = Modal!BuildReplay(replayed)
    BY DEF Modal!Events, Modal!BuildReplay
  <2>2. ASSUME replayed.nodes # {}, NEW s \in {"score", "verdict", "enforced"}, replayed[s] # Null
        PROVE  Modal!Offset(replayed, Modal!Last(Modal!Events)) = Modal!Total(replayed)
    <3>1. Modal!Last(Modal!Events).ts = Modal!SpanEnd(replayed) BY <2>1, <2>2, LastEvent
    <3>2. replayed.enforced # Null \/ replayed.verdict # Null \/ replayed.score # Null BY <2>2
    <3>3. replayed[Modal!Last(Modal!Captured(replayed))] = Modal!SpanEnd(replayed)
      BY <2>1, <3>2, CapturedLast
    <3> QED BY <2>1, <3>1, <3>3 DEF Modal!Offset, Modal!Total
  <2>3. ASSUME replayed.score # Null,
               Modal!InOrder([i \in DOMAIN Modal!Captured(replayed) |-> replayed[Modal!Captured(replayed)[i]]])
        PROVE  Modal!InOrder([i \in DOMAIN Modal!Events |-> Modal!Events[i].ts])
    BY <2>1, <2>3, EventsInOrder
  <2> QED BY <2>2, <2>3
<1> QED BY <1>1, <1>2, <1>3, PTL
=============================================================================
