------------------------------- MODULE Agents -------------------------------
(***************************************************************************)
(* The agent service (services/agents): its poll loop, the LangGraph of    *)
(* forensic investigator, risk auditor and settlement enforcer that each   *)
(* high-risk score goes through, and the agent_report row it ends in.      *)
(*                                                                         *)
(* A record of the anomaly-scores topic is its offset.  Scores and         *)
(* confidences are multiples of 1 / One, rounded down, so that what        *)
(* reaches a threshold does and what does not does not.  Prompts and       *)
(* rationales are abstracted away, but for the recommendation that the     *)
(* mock auditor writes into its rationale.                                 *)
(*                                                                         *)
(* An operator placed directly above a definition, with the same           *)
(* parameters and no comment, is a way to get that definition wrong.       *)
(***************************************************************************)
EXTENDS Naturals, FiniteSets

CONSTANTS
  MaxRecords, BatchMax, MaxDeaths,  \* see PollLoop
  One,        \* 1.0
  Threshold,  \* SCORE_THRESHOLD of the classifier
  Gate,       \* ENFORCEMENT_GATE
  Score,      \* the classifier's score for each record
  OfiShare, VolShare,  \* abs(ofi) / 20,000 and 4 * realized_vol of each record
  Environments, \* environments of the container, see Llm
  Matches,    \* similarity * severity of the best attack in Qdrant
  Answers,    \* confidences an LLM may state
  None        \* no confidence or recommendation stated; a column left NULL

ASSUME AgentsAssumption ==
  /\ MaxRecords \in Nat /\ BatchMax \in Nat \ {0} /\ MaxDeaths \in Nat
  /\ One \in Nat /\ Threshold \in 0 .. One /\ Gate \in 0 .. One
  /\ Score \in [0 .. MaxRecords - 1 -> 0 .. One]
  /\ OfiShare \in [0 .. MaxRecords - 1 -> Nat] /\ VolShare \in [0 .. MaxRecords - 1 -> Nat]
  /\ Matches \subseteq 0 .. One
  /\ Answers \subseteq Nat
  /\ None \notin Nat /\ None \notin BOOLEAN

\* 1.0 and the gate are whole numbers of the hundredths the mock prints.
ASSUME HundredthsAssumption ==
  /\ One > 0 /\ One % 100 = 0
  /\ Gate % (One \div 100) = 0

VARIABLES
  end, committed, position, cursor, loop, stop, member, deaths, handled,
  backend,   \* what make_chat_llm makes of the environment
  highRiskOnly, \* HIGH_RISK_ONLY
  step,      \* the graph node the record in hand is at
  case,      \* its CaseState
  cases,     \* how many case_ids uuid4 has handed out
  clock,     \* how many timestamps have been taken
  pg,        \* _pg_conn: none, up or broken
  reports,   \* rows of agent_report
  lost       \* history: high-risk records some delivery of which left no row

loopVars == <<end, committed, position, cursor, loop, stop, member, deaths, handled>>
config == <<backend, highRiskOnly>>
caseVars == <<step, case, cases, clock>>
vars == <<loopVars, config, caseVars, pg, reports, lost>>

PollLoop == INSTANCE PollLoop
LLM == INSTANCE Llm

Records == 0 .. MaxRecords - 1

NoCase == [id |-> 0, match |-> 0, confidence |-> 0, advice |-> None, action |-> FALSE,
           enforcedTs |-> None, verdictTs |-> None]

Init ==
  /\ PollLoop!Init
  /\ backend \in {LLM!Backend(env) : env \in Environments}
  /\ highRiskOnly \in {TRUE, backend # "mock"}
  /\ step = "record" /\ case = NoCase /\ cases = 0 /\ clock = 0
  /\ pg = "none"
  /\ reports = {} /\ lost = {}

At(s) == PollLoop!Handling /\ step = s

NextRecord == PollLoop!FinishRecord /\ step' = "record" /\ case' = NoCase

AboveThreshold(record) == Score[record] > Threshold
\* The high_risk flag the classifier puts in the record.
HighRisk(record) == Score[record] >= Threshold

-----------------------------------------------------------------------------

\* __init__ makes the LLM client, which may raise, and connects to PostgreSQL
\* once.
Start ==
  /\ backend # "raises"
  /\ PollLoop!Start
  /\ pg' \in {"up", "none"}
  /\ step' = "record" /\ case' = NoCase
  /\ UNCHANGED <<config, cases, clock, reports, lost>>

\* An unknown provider, or OpenAI without a key: the container fails to start
\* for ever.
StartRaises ==
  /\ loop = "down" /\ backend = "raises"
  /\ UNCHANGED vars

Skip ==
  /\ At("record") /\ highRiskOnly /\ ~HighRisk(cursor)
  /\ NextRecord
  /\ UNCHANGED <<config, cases, clock, pg, reports, lost>>

IdOfRecord == cursor + 1
\* uuid4: an id nobody has.
FreshId == cases + 1

Begin ==
  /\ At("record") /\ (highRiskOnly => HighRisk(cursor))
  /\ cases' = cases + 1
  /\ case' = [NoCase EXCEPT !.id = FreshId]
  /\ step' = "forensic"
  /\ UNCHANGED <<config, loopVars, clock, pg, reports, lost>>

Forensic ==
  /\ At("forensic")
  /\ \E match \in Matches : case' = [case EXCEPT !.match = match]
  /\ step' = "auditor"
  /\ UNCHANGED <<config, loopVars, cases, clock, pg, reports, lost>>

\* max(0.0, min(1.0, n))
Clamp(n) == IF n > One THEN One ELSE n

\* _heuristic_confidence
Heuristic == Clamp((Score[cursor] + case.match) \div 2)

\* _extract_confidence
Confidence(answer) == IF answer = None THEN Heuristic ELSE Clamp(answer)

GateOpen(confidence) == TRUE
\* route_after_audit
Passes(confidence) == confidence >= Gate

\* What the LLM answers: the confidence it states, if any, and whether it says
\* to escalate, which only the mock does in a form that can be relied on.
LlmAnswers ==
  IF backend = "mock"
  THEN LET score == LLM!MockConfidence(OfiShare[cursor], VolShare[cursor])
       IN  LLM!Printed(score) \X {LLM!Escalates(score)}
  ELSE (Answers \cup {None}) \X {None}

Auditor ==
  /\ At("auditor")
  /\ \E answer \in LlmAnswers :
       /\ case' = [case EXCEPT !.confidence = Confidence(answer[1]), !.advice = answer[2]]
       /\ step' = IF Passes(case'.confidence) THEN "enforcer" ELSE "finish"
  /\ UNCHANGED <<config, loopVars, cases, clock, pg, reports, lost>>

\* The freeze instruction is compiled and stamped.
Enforcer ==
  /\ At("enforcer")
  /\ clock' = clock + 1
  /\ case' = [case EXCEPT !.action = TRUE, !.enforcedTs = clock']
  /\ step' = "finish"
  /\ UNCHANGED <<config, loopVars, cases, pg, reports, lost>>

\* Back in run(): the verdict is stamped, once the graph has returned.
Finish ==
  /\ At("finish")
  /\ clock' = clock + 1
  /\ case' = [case EXCEPT !.verdictTs = clock']
  /\ step' = "persist"
  /\ UNCHANGED <<config, loopVars, cases, pg, reports, lost>>

Row == [case |-> case.id, record |-> cursor, confidence |-> case.confidence,
        advice |-> case.advice, enforced |-> case.action, enforcedTs |-> case.enforcedTs,
        verdictTs |-> case.verdictTs]

\* INSERT ... ON CONFLICT (case_id) DO UPDATE
Upserted(row) == {r \in reports : r.case # row.case} \cup {row}

\* The row is committed, though the answer may be lost with the connection.
Persist ==
  /\ At("persist") /\ pg = "up"
  /\ reports' = Upserted(Row)
  /\ pg' \in {"up", "broken"}
  /\ NextRecord
  /\ UNCHANGED <<config, cases, clock, lost>>

\* There is no connection, or the insert or the commit raises: no row, and the
\* loop goes on.
PersistFails ==
  /\ At("persist")
  /\ pg' \in IF pg = "none" THEN {"none"} ELSE {pg, "broken"}
  /\ lost' = lost \cup {cursor}
  /\ NextRecord
  /\ UNCHANGED <<config, cases, clock, reports>>

\* Qdrant or the LLM raises, or times out if it has a timeout: run() logs it and
\* takes the next record.
StageFails ==
  /\ \E s \in {"forensic", "auditor", "enforcer"} : At(s)
  /\ lost' = lost \cup {cursor}
  /\ NextRecord
  /\ UNCHANGED <<config, cases, clock, pg, reports>>

Loop ==
  /\ \/ PollLoop!Poll \/ PollLoop!LoseMembership \/ PollLoop!Rejoin
     \/ PollLoop!BatchDone \/ PollLoop!Signal \/ PollLoop!Leave
  /\ UNCHANGED <<config, caseVars, pg, reports, lost>>

\* The consumer, the Qdrant client and the connection are closed; or the
\* process dies.
End ==
  /\ PollLoop!Close \/ PollLoop!Crash
  /\ pg' = "none"
  /\ UNCHANGED <<config, caseVars, reports, lost>>

\* The classifier appends a score (see Classifier).
Publish == PollLoop!Publish /\ UNCHANGED <<config, caseVars, pg, reports, lost>>

-----------------------------------------------------------------------------

Graph == Forensic \/ Auditor \/ Enforcer \/ StageFails

Work == Skip \/ Begin \/ Graph \/ Finish \/ Persist \/ PersistFails

\* The record in hand is at a node that asks an LLM which may never answer.
AwaitsLlm ==
  /\ ~LLM!HasTimeout(backend)
  /\ \E s \in {"forensic", "auditor", "enforcer"} : At(s)

Next == Start \/ StartRaises \/ Work \/ Loop \/ End \/ Publish

Spec == Init /\ [][Next]_vars

FruitfulPoll ==
  /\ PollLoop!Poll
  /\ position' > position
  /\ UNCHANGED <<config, caseVars, pg, reports, lost>>

\* Kubernetes restarts the container, the thread runs, and a broker that holds
\* records does not answer every poll with none.  Calls to Qdrant and to hosted
\* LLMs time out, and a statement for PostgreSQL is answered or its connection
\* breaks; a call to Ollama has no timeout, and may keep the thread for ever.
Fairness ==
  /\ WF_vars(Start)
  /\ WF_vars(Work /\ ~AwaitsLlm)
  /\ SF_vars(FruitfulPoll)
  /\ WF_vars((PollLoop!Rejoin \/ PollLoop!BatchDone \/ PollLoop!Leave)
             /\ UNCHANGED <<config, caseVars, pg, reports, lost>>)
  /\ WF_vars(PollLoop!Close /\ pg' = "none" /\ UNCHANGED <<config, caseVars, reports, lost>>)

FairSpec == Spec /\ Fairness

-----------------------------------------------------------------------------
(* Properties *)

Stamp == Nat \cup {None}

TypeOK ==
  /\ PollLoop!TypeOK
  /\ step \in {"record", "forensic", "auditor", "enforcer", "finish", "persist"}
  /\ backend \in {"mock", "hosted", "ollama", "raises"} /\ highRiskOnly \in BOOLEAN
  /\ case \in [id : 0 .. cases, match : 0 .. One, confidence : 0 .. One,
               advice : BOOLEAN \cup {None}, action : BOOLEAN,
               enforcedTs : Stamp, verdictTs : Stamp]
  /\ cases \in Nat /\ clock \in Nat
  /\ pg \in {"none", "up", "broken"}
  /\ reports \subseteq [case : 1 .. cases, record : Records, confidence : 0 .. One,
                        advice : BOOLEAN \cup {None}, enforced : BOOLEAN, enforcedTs : Stamp, verdictTs : Stamp]
  /\ lost \subseteq Records

(***************************************************************************)
(* The three columns of a report that three different pieces of code set   *)
(* agree: a case is enforced exactly when its confidence reached the gate, *)
(* and has an enforcement time exactly when it is enforced; and only       *)
(* high-risk records have reports, unless the service is told otherwise.   *)
(* The confidence is the one clamped, whether it came from the LLM or from *)
(* the fallback.  A case the mock auditor says to escalate is enforced;    *)
(* one it says to monitor may be too, but only when printing its score     *)
(* rounded it up to the gate.                                              *)
(***************************************************************************)
ReportsConsistent ==
  \A r \in reports :
    /\ r.confidence <= One
    /\ r.enforced <=> r.confidence >= Gate
    /\ r.enforced <=> r.enforcedTs # None
    /\ highRiskOnly => Score[r.record] >= Threshold
    /\ r.advice = TRUE => r.enforced
    /\ r.advice = FALSE /\ r.enforced => r.confidence = Gate

\* Every high-risk record below the committed offset, which no restart will
\* read again, has a report or is known to have lost one.
NoCaseForgotten ==
  \A r \in 0 .. committed - 1 :
    Score[r] >= Threshold => r \in lost \cup {rep.record : rep \in reports}

\* A verdict is final: a record delivered again gets another report and never
\* overwrites the one that somebody may have acted upon.
VerdictsAreFinal == [][reports \subseteq reports']_vars

\* Every score is investigated, skipped or given up, whatever crashes, signals and
\* lost memberships happen, as long as they stop happening and the service can
\* make its LLM client; only an Ollama server that never answers can hold it up.
EveryCaseHandled ==
  \A r \in Records :
    end > r /\ backend # "raises" ~> r \in handled \/ []AwaitsLlm
=============================================================================
