----------------------------- MODULE AgentsProofs -----------------------------
(***************************************************************************)
(* What the agent service promises about cases and reports, for a topic,   *)
(* batches and a number of failures of any size and whatever the LLM and   *)
(* Qdrant answer.                                                          *)
(***************************************************************************)
EXTENDS Investigation, Arithmetic

OffsetInv ==
  /\ committed \in Nat /\ cursor \in Nat /\ position \in Nat
  /\ end \in Nat /\ end <= MaxRecords
  /\ committed <= cursor /\ cursor <= position /\ position <= end
  /\ loop \in {"down", "poll", "handle", "ending"}
  /\ loop \in {"poll", "ending"} => cursor = position
  /\ loop # "down" /\ cursor = position => step = "record"

\* Which record the case in hand is about, and that its id is not in use.
CaseInv ==
  /\ cases \in Nat
  /\ DOMAIN case = DOMAIN NoCase
  /\ \A r \in reports : r.case \in 1 .. cases
  /\ loop # "down" /\ step # "record" =>
       /\ case.id \in 1 .. cases
       /\ \A r \in reports : r.case # case.id

\* Records that need no further handling.
Covered == {r \in Nat : ~HighRisk(r)} \cup lost \cup {rep.record : rep \in reports}

Behind == 0 .. cursor - 1 \subseteq Covered

AgentsInv == OffsetInv /\ CaseInv /\ Behind

LEMMA AgentsInit == Init => AgentsInv
BY AgentsAssumption DEF Init, PollLoop!Init, AgentsInv, OffsetInv, CaseInv, Behind

\* The poll, its tests, the group and the topic leave cases and reports alone.
LEMMA LoopSteps ==
  ASSUME OffsetInv, Loop \/ Publish \/ StartRaises \/ UNCHANGED vars
  PROVE  /\ OffsetInv'
         /\ UNCHANGED <<step, case, cases, reports, lost>>
         /\ loop = "down" <=> loop' = "down"
         /\ cursor' \in {cursor, committed}
         /\ cursor' # cursor => step = "record"
         /\ UNCHANGED highRiskOnly
<1> USE DEF OffsetInv, vars, loopVars, caseVars, config
<1>1. CASE StartRaises \/ UNCHANGED vars BY <1>1 DEF StartRaises
<1>2. CASE Publish BY <1>2, AgentsAssumption DEF Publish, PollLoop!Publish
<1>3. CASE Loop
  <2>1. CASE PollLoop!Poll
    <3>1. /\ UNCHANGED <<config, end, cursor, caseVars, reports, lost>>
          /\ loop = "poll" /\ loop' = "handle"
          /\ position' \in position .. position + BatchMax /\ position' <= end
          /\ committed' \in {committed, position}
      BY <1>3, <2>1 DEF Loop, PollLoop!Poll, PollLoop!AutoCommitted, PollLoop!BatchEnds
    <3>2. position' \in Nat /\ position' >= position BY <3>1, AgentsAssumption
    <3> QED BY <3>1, <3>2
  <2>2. CASE PollLoop!LoseMembership BY <1>3, <2>2 DEF Loop, PollLoop!LoseMembership
  <2>3. CASE PollLoop!Rejoin BY <1>3, <2>3 DEF Loop, PollLoop!Rejoin, PollLoop!Resumed
  <2>4. CASE PollLoop!BatchDone BY <1>3, <2>4 DEF Loop, PollLoop!BatchDone
  <2>5. CASE PollLoop!Signal BY <1>3, <2>5 DEF Loop, PollLoop!Signal
  <2>6. CASE PollLoop!Leave BY <1>3, <2>6 DEF Loop, PollLoop!Leave, PollLoop!MayLeave
  <2> QED BY <1>3, <2>1, <2>2, <2>3, <2>4, <2>5, <2>6 DEF Loop
<1> QED BY <1>1, <1>2, <1>3

LEMMA OffsetStep == OffsetInv /\ [Next]_vars => OffsetInv'
<1> SUFFICES ASSUME OffsetInv, [Next]_vars PROVE OffsetInv'
  OBVIOUS
<1> USE DEF OffsetInv, loopVars, caseVars, At, PollLoop!Handling
<1>1. CASE Loop \/ Publish \/ StartRaises \/ UNCHANGED vars BY <1>1, LoopSteps
<1>2. CASE Start BY <1>2 DEF Start, PollLoop!Start, PollLoop!Resumed
<1>3. CASE Skip \/ StageFails \/ Persist \/ PersistFails
  <2>1. NextRecord BY <1>3 DEF Skip, StageFails, Persist, PersistFails
  <2> QED BY <2>1 DEF NextRecord, PollLoop!FinishRecord
<1>4. CASE Begin \/ Forensic \/ Auditor \/ Enforcer \/ Finish
  <2>1. PollLoop!Handling /\ UNCHANGED loopVars
    BY <1>4 DEF Begin, Forensic, Auditor, Enforcer, Finish
  <2> QED BY <2>1
<1>5. CASE End BY <1>5 DEF End, PollLoop!Close, PollLoop!Crash, PollLoop!Die
<1> QED BY <1>1, <1>2, <1>3, <1>4, <1>5 DEF Next, Work, Graph

\* A report is written under the id of the case in hand, which none has.
LEMMA PersistAdds ==
  ASSUME CaseInv, Persist
  PROVE  /\ reports' = reports \cup {Row}
         /\ Row.case = case.id /\ Row.record = cursor
<1>1. loop # "down" /\ step # "record" BY DEF Persist, At, PollLoop!Handling
<1>2. Row.case = case.id /\ Row.record = cursor BY DEF Row
<1>3. {r \in reports : r.case # Row.case} = reports BY <1>1, <1>2 DEF CaseInv
<1> QED BY <1>2, <1>3 DEF Persist, Upserted

LEMMA CaseStep == OffsetInv /\ CaseInv /\ [Next]_vars => CaseInv'
<1> SUFFICES ASSUME OffsetInv, CaseInv, [Next]_vars PROVE CaseInv'
  OBVIOUS
<1> USE DEF CaseInv, caseVars, loopVars, At, PollLoop!Handling
<1>1. CASE Loop \/ Publish \/ StartRaises \/ UNCHANGED vars BY <1>1, LoopSteps
<1>2. CASE Start BY <1>2 DEF Start
<1>3. CASE Skip \/ StageFails \/ PersistFails
  BY <1>3 DEF Skip, StageFails, PersistFails, NextRecord
<1>4. CASE Persist
  <2>1. /\ reports' = reports \cup {Row} /\ Row.case = case.id
        /\ case.id \in 1 .. cases
    BY <1>4, PersistAdds DEF Persist
  <2> QED BY <1>4, <2>1 DEF Persist, NextRecord
<1>5. CASE Begin
  <2>1. /\ cases' = cases + 1 /\ case' = [NoCase EXCEPT !.id = cases + 1]
        /\ UNCHANGED <<loop, reports>>
    BY <1>5 DEF Begin, FreshId
  <2>2. DOMAIN case' = DOMAIN NoCase /\ case'.id = cases + 1 BY <2>1 DEF NoCase
  <2> QED BY <2>1, <2>2
<1>6. CASE Forensic \/ Auditor \/ Enforcer \/ Finish
  <2>1. /\ UNCHANGED <<loop, cases, reports>> /\ loop # "down" /\ step # "record"
        /\ DOMAIN case' = DOMAIN case /\ case'.id = case.id
    BY <1>6 DEF Forensic, Auditor, Enforcer, Finish, NoCase
  <2> QED BY <2>1
<1>7. CASE End BY <1>7 DEF End, PollLoop!Close, PollLoop!Crash, PollLoop!Die
<1> QED BY <1>1, <1>2, <1>3, <1>4, <1>5, <1>6, <1>7 DEF Next, Work, Graph

\* No step takes a report away.
LEMMA ReportsGrow ==
  ASSUME OffsetInv, CaseInv, [Next]_vars
  PROVE  reports \subseteq reports'
<1>1. CASE Loop \/ Publish \/ StartRaises \/ UNCHANGED vars BY <1>1, LoopSteps
<1>2. CASE Persist BY <1>2, PersistAdds
<1>3. CASE Start \/ Skip \/ Begin \/ Graph \/ Finish \/ PersistFails \/ End
  BY <1>3 DEF Start, Skip, Begin, Graph, Forensic, Auditor, Enforcer, StageFails, Finish,
              PersistFails, End
<1> QED BY <1>1, <1>2, <1>3 DEF Next, Work

LEMMA BehindStep == OffsetInv /\ CaseInv /\ Behind /\ [Next]_vars => Behind'
<1> SUFFICES ASSUME OffsetInv, CaseInv, Behind, [Next]_vars PROVE Behind'
  OBVIOUS
<1>g. reports \subseteq reports' BY ReportsGrow
<1>l. lost \subseteq lost'
  BY LoopSteps
     DEF Next, Work, Graph, Start, Skip, Begin, Forensic, Auditor, Enforcer, StageFails, Finish,
         Persist, PersistFails, End
<1>c. Covered \subseteq Covered' BY <1>g, <1>l DEF Covered, HighRisk
<1>o. /\ committed \in Nat /\ cursor \in Nat
      /\ 0 .. committed - 1 \subseteq 0 .. cursor - 1
  BY DEF OffsetInv
<1> USE DEF Behind, loopVars
<1>1. CASE Loop \/ Publish \/ StartRaises \/ UNCHANGED vars
  <2>1. cursor' \in {cursor, committed} BY <1>1, LoopSteps
  <2> QED BY <1>c, <1>o, <2>1
<1>2. CASE Start
  <2>1. cursor' = committed BY <1>2 DEF Start, PollLoop!Start, PollLoop!Resumed
  <2> QED BY <1>c, <1>o, <2>1
<1>3. CASE Begin \/ Forensic \/ Auditor \/ Enforcer \/ Finish
  BY <1>3, <1>c DEF Begin, Forensic, Auditor, Enforcer, Finish
<1>4. CASE Skip \/ StageFails \/ Persist \/ PersistFails
  <2>1. NextRecord BY <1>4 DEF Skip, StageFails, Persist, PersistFails
  <2>2. cursor' = cursor + 1 BY <2>1 DEF NextRecord, PollLoop!FinishRecord
  <2>3. 0 .. cursor' - 1 = 0 .. cursor - 1 \cup {cursor} BY <1>o, <2>2
  <2>4. CASE Skip BY <1>c, <1>o, <2>3, <2>4 DEF Skip, Covered
  <2>5. CASE StageFails \/ PersistFails
    <3>1. cursor \in lost' BY <2>5 DEF StageFails, PersistFails
    <3> QED BY <1>c, <2>3, <3>1 DEF Covered
  <2>6. CASE Persist
    <3>1. Row \in reports' /\ Row.record = cursor BY <2>6, PersistAdds
    <3> QED BY <1>c, <2>3, <3>1 DEF Covered
  <2> QED BY <1>4, <2>4, <2>5, <2>6
<1>5. CASE End
  BY <1>5, <1>c DEF End, PollLoop!Close, PollLoop!Crash, PollLoop!Die
<1> QED BY <1>1, <1>2, <1>3, <1>4, <1>5 DEF Next, Work, Graph

LEMMA AgentsInvariant == Spec => []AgentsInv
<1>1. AgentsInv /\ [Next]_vars => AgentsInv'
  BY OffsetStep, CaseStep, BehindStep DEF AgentsInv
<1> QED BY <1>1, AgentsInit, PTL DEF Spec

\* Every high-risk record below the committed offset has a report or is known to
\* have lost one.
THEOREM CasesRemembered == Spec => []NoCaseForgotten
<1>1. AgentsInv => NoCaseForgotten
  <2> SUFFICES ASSUME AgentsInv, NEW r \in 0 .. committed - 1, Score[r] >= Threshold
               PROVE  r \in lost \cup {rep.record : rep \in reports}
    BY DEF NoCaseForgotten
  <2>1. r \in 0 .. cursor - 1 BY DEF AgentsInv, OffsetInv
  <2> QED BY <2>1 DEF AgentsInv, Behind, Covered, HighRisk
<1> QED BY <1>1, AgentsInvariant, PTL

\* A report, once written, is never overwritten or taken away.
THEOREM FinalVerdicts == Spec => VerdictsAreFinal
<1>1. ASSUME AgentsInv, [Next]_vars PROVE reports \subseteq reports'
  BY <1>1, ReportsGrow DEF AgentsInv
<1> QED BY <1>1, AgentsInvariant, PTL DEF Spec, VerdictsAreFinal

-----------------------------------------------------------------------------
(* The confidence *)

LEMMA Hundredths ==
  LET h == One \div 100 IN
  /\ h \in Nat \ {0} /\ One = h * 100
  /\ \E g \in Int : Gate = h * g
<1> DEFINE h == One \div 100
<1>1. One \in Nat /\ One > 0 /\ One % 100 = 0 /\ Gate \in Nat /\ Gate % h = 0
  BY AgentsAssumption, HundredthsAssumption
<1>2. h \in Nat \ {0} /\ One = h * 100 BY <1>1
<1> HIDE DEF h
<1>3. Gate \div h \in Int /\ Gate = h * (Gate \div h) + (Gate % h) BY <1>1, <1>2
<1>4. Gate = h * (Gate \div h) BY <1>1, <1>2, <1>3
<1> QED BY <1>2, <1>3, <1>4 DEF h

\* A score and its printed form are on the same side of the gate, and of 1.0,
\* unless rounding lifts the score exactly to it.
LEMMA PrintedBounds ==
  ASSUME NEW n \in 0 .. One, NEW c \in LLM!Printed(n)
  PROVE  /\ c \in 0 .. One
         /\ n >= Gate => c >= Gate
         /\ n <= Gate => c <= Gate
<1> DEFINE h == One \div 100
<1>h. h \in Nat \ {0} /\ One = h * 100 BY Hundredths
<1>g. PICK g \in Int : Gate = h * g BY Hundredths
<1> DEFINE r == n % h
<1>0. n \in Int /\ n >= 0 BY AgentsAssumption
<1>1. PICK q \in Int : n = h * q + r /\ r \in 0 .. h - 1
  <2> HIDE DEF h
  <2> QED BY <1>0, <1>h, Division
<1>2. (c = h * q) \/ (c = h * q + h /\ r >= 1)
  <2>1. n - r = h * q
    <3> HIDE DEF r, h
    <3>1. h * q \in Int /\ r \in Int BY <1>1, <1>h
    <3> QED BY <1>0, <1>1, <3>1
  <2>2. (c = n - r) \/ (c = n - r + h /\ ~(2 * r < h)) BY DEF LLM!Printed
  <2>3. ~(2 * r < h) => r >= 1 BY <1>1, <1>h
  <2> HIDE DEF r, h
  <2> QED BY <2>1, <2>2, <2>3
<1> HIDE DEF r, h
<1>3. h * q \in Int /\ h \in Int /\ n \in Int /\ r \in Int BY <1>0, <1>1, <1>h, Distributes
<1>4. q >= 0
  <2>1. ASSUME q <= -1 PROVE FALSE
    <3>1. h * (0 - q) >= h BY <1>h, <2>1, MultipleBound
    <3>2. h * (0 - q) = 0 - h * q BY <1>h
    <3> QED BY <1>0, <1>1, <1>3, <3>1, <3>2
  <2> QED BY <2>1
<1>5. c \in Nat
  <2>1. h * q \in Nat BY <1>4, <1>h
  <2> QED BY <1>2, <1>h, <2>1
<1>6. ASSUME NEW b \in Int, n >= h * b PROVE c >= h * b
  <2>0. h * b \in Int BY <1>h, Distributes
  <2>1. ~(q < b)
    <3>1. ASSUME q < b PROVE FALSE
      <4>1. h * (b - q) >= h /\ h * (b - q) = h * b - h * q
        BY <1>h, <3>1, MultipleBound, Distributes
      <4> QED BY <1>1, <1>3, <1>6, <2>0, <4>1
    <3> QED BY <3>1
  <2>2. h * q >= h * b
    <3>1. CASE q = b BY <3>1, <1>3
    <3>2. CASE q - b >= 1
      <4>1. h * (q - b) >= h /\ h * (q - b) = h * q - h * b
        BY <1>h, <3>2, MultipleBound, Distributes
      <4> QED BY <1>h, <1>3, <2>0, <4>1
    <3> QED BY <2>1, <3>1, <3>2
  <2> QED BY <1>2, <1>3, <1>h, <2>0, <2>2
<1>7. ASSUME NEW b \in Int, n <= h * b PROVE c <= h * b
  <2>0. h * b \in Int BY <1>h, Distributes
  <2>1. CASE c = h * q BY <1>1, <1>3, <1>7, <2>0, <2>1
  <2>2. CASE c = h * q + h /\ r >= 1
    <3>1. h * b > h * q BY <1>1, <1>3, <1>7, <2>0, <2>2
    <3>2. ~(b <= q)
      <4>1. ASSUME b <= q PROVE FALSE
        <5>1. h * (q - b) \in Nat BY <1>h, <4>1
        <5>2. h * (q - b) = h * q - h * b BY <1>h, Distributes
        <5> QED BY <1>3, <2>0, <3>1, <5>1, <5>2
      <4> QED BY <4>1
    <3>3. b - q >= 1 BY <3>2
    <3>4. h * (b - q) >= h /\ h * (b - q) = h * b - h * q
      BY <1>h, <3>3, MultipleBound, Distributes
    <3> QED BY <1>3, <2>0, <2>2, <3>4
  <2> QED BY <1>2, <2>1, <2>2
<1>8. c <= One BY <1>7, <1>h
<1>9. (n >= Gate => c >= Gate) /\ (n <= Gate => c <= Gate) BY <1>6, <1>7, <1>g
<1> QED BY <1>5, <1>8, <1>9, AgentsAssumption

-----------------------------------------------------------------------------
(* The columns of a report *)

\* What an audited confidence owes to the answer it was taken from.
Audited(confidence, advice) ==
  /\ confidence \in 0 .. One
  /\ advice = TRUE => confidence >= Gate
  /\ advice = FALSE /\ confidence >= Gate => confidence = Gate

LEMMA ClampBounds ==
  ASSUME NEW n \in Nat
  PROVE  Clamp(n) \in 0 .. One /\ (n <= One => Clamp(n) = n)
BY AgentsAssumption DEF Clamp

LEMMA ConfidenceAudited ==
  ASSUME cursor \in Records, case.match \in 0 .. One, NEW answer \in LlmAnswers
  PROVE  Audited(Confidence(answer[1]), answer[2])
<1> DEFINE score == LLM!MockConfidence(OfiShare[cursor], VolShare[cursor])
<1>1. Heuristic \in 0 .. One
  <2>1. Score[cursor] \in Nat /\ case.match \in Nat BY AgentsAssumption DEF Records
  <2>2. (Score[cursor] + case.match) \div 2 \in Nat BY <2>1
  <2> QED BY <2>2, ClampBounds DEF Heuristic
<1>2. CASE backend = "mock"
  <2>1. answer[1] \in LLM!Printed(score) /\ answer[2] = LLM!Escalates(score)
    BY <1>2 DEF LlmAnswers
  <2>2. score \in 0 .. One
    <3>1. OfiShare[cursor] \in Nat /\ VolShare[cursor] \in Nat /\ One \in Nat
      BY AgentsAssumption DEF Records
    <3>2. /\ LLM!AtMost(OfiShare[cursor], (45 * One) \div 100) \in Nat
          /\ LLM!AtMost(VolShare[cursor], (20 * One) \div 100) \in Nat
          /\ One \div 2 \in Nat
      BY <3>1 DEF LLM!AtMost
    <3> QED BY <3>1, <3>2 DEF LLM!MockConfidence, LLM!AtMost
  <2> HIDE DEF score
  <2>3. /\ answer[1] \in 0 .. One
        /\ score >= Gate => answer[1] >= Gate
        /\ score <= Gate => answer[1] <= Gate
    BY <2>1, <2>2, PrintedBounds
  <2>4. Confidence(answer[1]) = answer[1]
    <3>1. answer[1] \in Nat /\ answer[1] <= One BY <2>3, AgentsAssumption
    <3>2. answer[1] # None BY <3>1, AgentsAssumption
    <3>3. Clamp(answer[1]) = answer[1] BY <3>1, ClampBounds
    <3> QED BY <3>2, <3>3 DEF Confidence
  <2>5. CASE score >= Gate
    <3>1. answer[2] = TRUE BY <2>1, <2>5 DEF LLM!Escalates
    <3> QED BY <2>3, <2>4, <2>5, <3>1 DEF Audited
  <2>6. CASE ~(score >= Gate)
    <3>1. LLM!Escalates(score) = FALSE BY <2>6 DEF LLM!Escalates
    <3>2. answer[2] = FALSE BY <2>1, <3>1
    <3>3. score <= Gate BY <2>2, <2>6, AgentsAssumption
    <3> QED BY <2>3, <2>4, <3>2, <3>3, AgentsAssumption DEF Audited
  <2> QED BY <2>5, <2>6
<1>3. CASE backend # "mock"
  <2>1. answer[1] \in Answers \cup {None} /\ answer[2] = None BY <1>3 DEF LlmAnswers
  <2>2. Confidence(answer[1]) \in 0 .. One
    BY <1>1, <2>1, ClampBounds, AgentsAssumption DEF Confidence
  <2> QED BY <2>1, <2>2, AgentsAssumption DEF Audited
<1> QED BY <1>2, <1>3

\* The case in hand, node by node.
VerdictInv ==
  /\ clock \in Nat
  /\ loop # "down" /\ step # "record" =>
       /\ step \in {"forensic", "auditor", "enforcer", "finish", "persist"}
       /\ cursor < position
       /\ case.match \in 0 .. One
       /\ highRiskOnly => HighRisk(cursor)
       /\ step \in {"forensic", "auditor", "enforcer"} =>
            case.action = FALSE /\ case.enforcedTs = None
       /\ step \in {"enforcer", "finish", "persist"} => Audited(case.confidence, case.advice)
       /\ step = "enforcer" => case.confidence >= Gate
       /\ step \in {"finish", "persist"} =>
            /\ case.action <=> case.confidence >= Gate
            /\ case.action <=> case.enforcedTs # None

LEMMA VerdictInit == Init => VerdictInv /\ ReportsConsistent
BY DEF Init, PollLoop!Init, VerdictInv, ReportsConsistent

LEMMA VerdictStep == OffsetInv /\ CaseInv /\ VerdictInv /\ [Next]_vars => VerdictInv'
<1> SUFFICES ASSUME OffsetInv, CaseInv, VerdictInv, [Next]_vars PROVE VerdictInv'
  OBVIOUS
<1>d. DOMAIN case = {"id", "match", "confidence", "advice", "action", "enforcedTs", "verdictTs"}
  BY DEF CaseInv, NoCase
<1> USE DEF loopVars, config, At, PollLoop!Handling
<1>1. CASE Loop \/ Publish \/ StartRaises \/ UNCHANGED vars
  <2>1. CASE loop = "down" \/ step = "record"
    BY <1>1, <2>1, LoopSteps DEF VerdictInv, Loop, Publish, StartRaises, vars, caseVars
  <2>2. CASE loop # "down" /\ step # "record"
    <3>1. cursor' = cursor /\ UNCHANGED <<step, case, highRiskOnly, clock>> /\ OffsetInv'
      BY <1>1, <2>2, LoopSteps DEF Loop, Publish, StartRaises, vars, caseVars
    <3>2. cursor' < position' BY <1>1, <2>2, <3>1, LoopSteps DEF OffsetInv
    <3> QED BY <2>2, <3>1, <3>2 DEF VerdictInv
  <2> QED BY <2>1, <2>2
<1>2. CASE Start BY <1>2 DEF Start, VerdictInv
<1>3. CASE Skip \/ StageFails \/ Persist \/ PersistFails
  BY <1>3 DEF Skip, StageFails, Persist, PersistFails, NextRecord, VerdictInv
<1>4. CASE Begin
  <2>1. /\ step' = "forensic" /\ clock' = clock /\ UNCHANGED <<loopVars, config>>
        /\ cursor < position
        /\ highRiskOnly => HighRisk(cursor)
    BY <1>4 DEF Begin
  <2>2. case' = [NoCase EXCEPT !.id = FreshId] BY <1>4 DEF Begin
  <2>3. case'.match = 0 /\ case'.action = FALSE /\ case'.enforcedTs = None BY <2>2 DEF NoCase
  <2>4. case'.match \in 0 .. One BY <2>3, AgentsAssumption
  <2>5. highRiskOnly' => HighRisk(cursor') BY <2>1
  <2>6. clock' \in Nat BY <2>1 DEF VerdictInv
  <2>7. cursor' < position' BY <2>1
  <2> QED BY <2>1, <2>3, <2>4, <2>5, <2>6, <2>7 DEF VerdictInv, HighRisk
<1>5. CASE Forensic
  <2>1. PICK match \in Matches : case' = [case EXCEPT !.match = match] BY <1>5 DEF Forensic
  <2>2. /\ case'.match \in 0 .. One
        /\ case'.action = case.action /\ case'.enforcedTs = case.enforcedTs
    BY <1>d, <2>1, AgentsAssumption
  <2>3. /\ step = "forensic" /\ step' = "auditor" /\ loop # "down"
        /\ UNCHANGED <<loopVars, config, clock>>
    BY <1>5 DEF Forensic
  <2> QED BY <2>2, <2>3 DEF VerdictInv, HighRisk
<1>6. CASE Auditor
  <2>1. /\ step = "auditor" /\ loop # "down" /\ cursor < position
        /\ UNCHANGED <<loopVars, config, clock>>
    BY <1>6 DEF Auditor
  <2>2. PICK answer \in LlmAnswers :
          /\ case' = [case EXCEPT !.confidence = Confidence(answer[1]), !.advice = answer[2]]
          /\ step' = IF Passes(case'.confidence) THEN "enforcer" ELSE "finish"
    BY <1>6 DEF Auditor
  <2>3. cursor \in Records /\ case.match \in 0 .. One
    BY <2>1, AgentsAssumption DEF OffsetInv, VerdictInv, Records
  <2>4. /\ case'.confidence = Confidence(answer[1]) /\ case'.advice = answer[2]
        /\ case'.match = case.match
        /\ case'.action = case.action /\ case'.enforcedTs = case.enforcedTs
    BY <1>d, <2>2
  <2>5. Audited(case'.confidence, case'.advice) BY <2>3, <2>4, ConfidenceAudited
  <2>6. case.action = FALSE /\ case.enforcedTs = None /\ (highRiskOnly => HighRisk(cursor))
    BY <2>1 DEF VerdictInv
  <2>7. step' = IF case'.confidence >= Gate THEN "enforcer" ELSE "finish" BY <2>2 DEF Passes
  <2>8. /\ cursor' < position' /\ clock' \in Nat /\ case'.match \in 0 .. One
        /\ case'.action = FALSE /\ case'.enforcedTs = None
        /\ highRiskOnly' => HighRisk(cursor')
    BY <2>1, <2>3, <2>4, <2>6 DEF VerdictInv
  <2>9. CASE case'.confidence >= Gate
    <3>1. step' = "enforcer" BY <2>7, <2>9
    <3> QED BY <2>5, <2>8, <2>9, <3>1 DEF VerdictInv, HighRisk
  <2>10. CASE ~(case'.confidence >= Gate)
    <3>1. step' = "finish" BY <2>7, <2>10
    <3>2. /\ case'.action <=> case'.confidence >= Gate
          /\ case'.action <=> case'.enforcedTs # None
      BY <2>8, <2>10
    <3> QED BY <2>5, <2>8, <3>1, <3>2 DEF VerdictInv, HighRisk
  <2> QED BY <2>9, <2>10
<1>7. CASE Enforcer
  <2>1. /\ step = "enforcer" /\ step' = "finish" /\ loop # "down"
        /\ clock' = clock + 1 /\ UNCHANGED <<loopVars, config>>
        /\ case' = [case EXCEPT !.action = TRUE, !.enforcedTs = clock']
    BY <1>7 DEF Enforcer
  <2>2. /\ case'.action = TRUE /\ case'.enforcedTs = clock'
        /\ case'.match = case.match /\ case'.confidence = case.confidence
        /\ case'.advice = case.advice
    BY <1>d, <2>1
  <2>3. clock' \in Nat /\ clock' # None BY <2>1, AgentsAssumption DEF VerdictInv
  <2>4. case.confidence >= Gate /\ Audited(case.confidence, case.advice)
        /\ case.match \in 0 .. One /\ cursor < position /\ (highRiskOnly => HighRisk(cursor))
    BY <2>1 DEF VerdictInv
  <2> QED BY <2>1, <2>2, <2>3, <2>4 DEF VerdictInv, HighRisk
<1>8. CASE Finish
  <2>1. /\ step = "finish" /\ step' = "persist" /\ loop # "down"
        /\ clock' = clock + 1 /\ UNCHANGED <<loopVars, config>>
        /\ case' = [case EXCEPT !.verdictTs = clock']
    BY <1>8 DEF Finish
  <2>2. /\ case'.action = case.action /\ case'.enforcedTs = case.enforcedTs
        /\ case'.match = case.match /\ case'.confidence = case.confidence
        /\ case'.advice = case.advice
    BY <1>d, <2>1
  <2> QED BY <2>1, <2>2 DEF VerdictInv, HighRisk
<1>9. CASE End BY <1>9 DEF End, PollLoop!Close, PollLoop!Crash, PollLoop!Die, caseVars, VerdictInv
<1> QED BY <1>1, <1>2, <1>3, <1>4, <1>5, <1>6, <1>7, <1>8, <1>9 DEF Next, Work, Graph

LEMMA ReportStep ==
  OffsetInv /\ CaseInv /\ VerdictInv /\ ReportsConsistent /\ [Next]_vars => ReportsConsistent'
<1> SUFFICES ASSUME OffsetInv, CaseInv, VerdictInv, ReportsConsistent, [Next]_vars
             PROVE  ReportsConsistent'
  OBVIOUS
<1>1. highRiskOnly' = highRiskOnly
  BY LoopSteps
     DEF Next, Work, Graph, Start, Skip, Begin, Forensic, Auditor, Enforcer, StageFails, Finish,
         Persist, PersistFails, End, config
<1>2. CASE reports' = reports BY <1>1, <1>2 DEF ReportsConsistent
<1>3. CASE Persist
  <2>1. reports' = reports \cup {Row} BY <1>3, PersistAdds
  <2>2. step = "persist" /\ loop # "down" BY <1>3 DEF Persist, At, PollLoop!Handling
  <2>3. /\ Row.record = cursor /\ Row.confidence = case.confidence /\ Row.advice = case.advice
        /\ Row.enforced = case.action /\ Row.enforcedTs = case.enforcedTs
    BY DEF Row
  <2>4. /\ highRiskOnly => HighRisk(cursor)
        /\ Audited(case.confidence, case.advice)
        /\ case.action <=> case.confidence >= Gate
        /\ case.action <=> case.enforcedTs # None
    BY <2>2 DEF VerdictInv
  <2>5. /\ case.confidence <= One
        /\ case.advice = TRUE => case.action
        /\ case.advice = FALSE /\ case.action => case.confidence = Gate
    BY <2>4 DEF Audited
  <2>6. Row.confidence <= One BY <2>3, <2>5
  <2>7. Row.enforced <=> Row.confidence >= Gate BY <2>3, <2>4
  <2>8. Row.enforced <=> Row.enforcedTs # None BY <2>3, <2>4
  <2>9. highRiskOnly => Score[Row.record] >= Threshold BY <2>3, <2>4 DEF HighRisk
  <2>10. /\ Row.advice = TRUE => Row.enforced
         /\ Row.advice = FALSE /\ Row.enforced => Row.confidence = Gate
    BY <2>3, <2>5
  <2> HIDE DEF Row
  <2> QED BY <1>1, <2>1, <2>6, <2>7, <2>8, <2>9, <2>10 DEF ReportsConsistent
<1>4. reports' = reports \/ Persist
  BY LoopSteps
     DEF Next, Work, Graph, Start, Skip, Begin, Forensic, Auditor, Enforcer, StageFails, Finish,
         PersistFails, End
<1> QED BY <1>2, <1>3, <1>4

\* The columns of a report agree: enforced exactly when the confidence reached the
\* gate, stamped exactly when enforced, high-risk, and as the mock auditor advised.
THEOREM ConsistentReports == Spec => []ReportsConsistent
<1>1. AgentsInv => OffsetInv /\ CaseInv BY DEF AgentsInv
<1> QED BY <1>1, VerdictInit, VerdictStep, ReportStep, AgentsInvariant, PTL DEF Spec

-----------------------------------------------------------------------------
(* Types *)

\* What OffsetInv says nothing about.
GroupTypes ==
  /\ stop \in BOOLEAN /\ member \in BOOLEAN
  /\ deaths \in 0 .. MaxDeaths
  /\ handled \in SUBSET Nat

LEMMA LoopTypes == OffsetInv /\ GroupTypes => PollLoop!TypeOK
BY AgentsAssumption DEF OffsetInv, GroupTypes, PollLoop!TypeOK

LEMMA GroupStep == OffsetInv /\ GroupTypes /\ [Next]_vars => GroupTypes'
<1> SUFFICES ASSUME OffsetInv, GroupTypes, [Next]_vars PROVE GroupTypes'
  OBVIOUS
<1> USE AgentsAssumption DEF OffsetInv, GroupTypes, loopVars
<1>d. deaths < MaxDeaths /\ deaths' = deaths + 1 => deaths' \in 0 .. MaxDeaths OBVIOUS
<1>1. CASE UNCHANGED loopVars BY <1>1
<1>2. CASE Publish BY <1>2 DEF Publish, PollLoop!Publish
<1>3. CASE Loop \/ End
  <2>1. /\ handled' = handled /\ stop' \in {stop, TRUE} /\ member' \in BOOLEAN
        /\ deaths' = deaths \/ (deaths < MaxDeaths /\ deaths' = deaths + 1)
    BY <1>3 DEF Loop, PollLoop!Poll, PollLoop!LoseMembership, PollLoop!Rejoin,
                PollLoop!BatchDone, PollLoop!Signal, PollLoop!Leave,
                End, PollLoop!Close, PollLoop!Crash, PollLoop!Die
  <2> QED BY <1>d, <2>1
<1>4. CASE Start BY <1>4 DEF Start, PollLoop!Start
<1>5. CASE NextRecord BY <1>5 DEF NextRecord, PollLoop!FinishRecord
<1>6. CASE Work \/ StartRaises \/ UNCHANGED vars
  BY <1>1, <1>5, <1>6 DEF Work, Skip, Begin, Graph, Forensic, Auditor, Enforcer, StageFails,
                          Finish, Persist, PersistFails, StartRaises, vars
<1> QED BY <1>2, <1>3, <1>4, <1>6 DEF Next

CaseStates(n) ==
  [id : 0 .. n, match : 0 .. One, confidence : 0 .. One, advice : BOOLEAN \cup {None},
   action : BOOLEAN, enforcedTs : Stamp, verdictTs : Stamp]

ReportRows(n) ==
  [case : 1 .. n, record : Records, confidence : 0 .. One, advice : BOOLEAN \cup {None},
   enforced : BOOLEAN, enforcedTs : Stamp, verdictTs : Stamp]

\* The variables of the agent service itself.
ServiceTypes ==
  /\ step \in {"record", "forensic", "auditor", "enforcer", "finish", "persist"}
  /\ backend \in {"mock", "hosted", "ollama", "raises"} /\ highRiskOnly \in BOOLEAN
  /\ case \in CaseStates(cases)
  /\ cases \in Nat /\ clock \in Nat
  /\ pg \in {"none", "up", "broken"}
  /\ reports \subseteq ReportRows(cases)
  /\ lost \subseteq Records

LEMMA NoCaseTypes == ASSUME NEW n \in Nat PROVE NoCase \in CaseStates(n)
BY AgentsAssumption DEF NoCase, CaseStates, Stamp

LEMMA ServiceStep == AgentsInv /\ ServiceTypes /\ [Next]_vars => ServiceTypes'
<1> SUFFICES ASSUME AgentsInv, ServiceTypes, [Next]_vars PROVE ServiceTypes'
  OBVIOUS
<1>c. PollLoop!Handling => cursor \in Records
  BY AgentsAssumption DEF PollLoop!Handling, AgentsInv, OffsetInv, Records
<1>n. NoCase \in CaseStates(cases) BY NoCaseTypes DEF ServiceTypes
<1> USE DEF ServiceTypes, config, caseVars, At
<1>1. CASE Loop \/ Publish \/ StartRaises \/ UNCHANGED vars
  BY <1>1 DEF Loop, Publish, StartRaises, vars
<1>2. CASE Start \/ Skip BY <1>2, <1>n DEF Start, Skip, NextRecord
<1>3. CASE StageFails \/ PersistFails
  <2>1. /\ cursor \in Records /\ lost' = lost \cup {cursor} /\ reports' = reports
        /\ step' = "record" /\ case' = NoCase /\ pg' \in {pg, "none", "broken"}
        /\ UNCHANGED <<config, cases, clock>>
    BY <1>c, <1>3 DEF StageFails, PersistFails, NextRecord
  <2> QED BY <1>n, <2>1
<1>4. CASE Persist
  <2>1. /\ reports' = reports \cup {Row} /\ case.id \in 1 .. cases /\ cursor \in Records
    BY <1>c, <1>4, PersistAdds DEF Persist, AgentsInv, CaseInv, PollLoop!Handling
  <2>2. Row \in ReportRows(cases) BY <2>1 DEF Row, CaseStates, ReportRows
  <2>3. /\ step' = "record" /\ case' = NoCase /\ pg' \in {"up", "broken"}
        /\ UNCHANGED <<config, cases, clock, lost>>
    BY <1>4 DEF Persist, NextRecord
  <2> QED BY <1>n, <2>1, <2>2, <2>3
<1>5. CASE Begin
  <2>1. /\ cases' = cases + 1 /\ case' = [NoCase EXCEPT !.id = cases + 1] /\ step' = "forensic"
        /\ UNCHANGED <<config, clock, pg, reports, lost>>
    BY <1>5 DEF Begin, FreshId
  <2>2. NoCase \in CaseStates(cases + 1) BY NoCaseTypes
  <2>3. case' \in CaseStates(cases + 1) BY <2>1, <2>2 DEF CaseStates
  <2>4. ReportRows(cases) \subseteq ReportRows(cases + 1) BY DEF ReportRows
  <2> QED BY <2>1, <2>3, <2>4
<1>6. CASE Forensic
  <2>1. PICK match \in Matches : case' = [case EXCEPT !.match = match] BY <1>6 DEF Forensic
  <2>2. case' \in CaseStates(cases) BY <2>1, AgentsAssumption DEF CaseStates
  <2> QED BY <1>6, <2>2 DEF Forensic
<1>7. CASE Auditor
  <2>1. PICK answer \in LlmAnswers :
          /\ case' = [case EXCEPT !.confidence = Confidence(answer[1]), !.advice = answer[2]]
          /\ step' = IF Passes(case'.confidence) THEN "enforcer" ELSE "finish"
    BY <1>7 DEF Auditor
  <2>2. cursor \in Records /\ case.match \in 0 .. One BY <1>c, <1>7 DEF Auditor, CaseStates
  <2>3. Confidence(answer[1]) \in 0 .. One BY <2>2, ConfidenceAudited DEF Audited
  <2>4. answer[2] \in BOOLEAN \cup {None}
    <3>1. CASE backend = "mock"
      <4> DEFINE score == LLM!MockConfidence(OfiShare[cursor], VolShare[cursor])
      <4>1. answer[2] = (score >= Gate) BY <3>1 DEF LlmAnswers, LLM!Escalates
      <4> HIDE DEF score
      <4> QED BY <4>1
    <3>2. CASE backend # "mock" BY <3>2 DEF LlmAnswers
    <3> QED BY <3>1, <3>2
  <2>5. case' \in CaseStates(cases) BY <2>1, <2>3, <2>4 DEF CaseStates
  <2> QED BY <1>7, <2>1, <2>5 DEF Auditor
<1>8. CASE Enforcer
  <2>1. clock' \in Nat /\ clock' \in Stamp BY <1>8 DEF Enforcer, Stamp
  <2>2. case' \in CaseStates(cases) BY <1>8, <2>1 DEF Enforcer, CaseStates
  <2> QED BY <1>8, <2>1, <2>2 DEF Enforcer
<1>9. CASE Finish
  <2>1. clock' \in Nat /\ clock' \in Stamp BY <1>9 DEF Finish, Stamp
  <2>2. case' \in CaseStates(cases) BY <1>9, <2>1 DEF Finish, CaseStates
  <2> QED BY <1>9, <2>1, <2>2 DEF Finish
<1>10. CASE End BY <1>10 DEF End
<1> QED
  BY <1>1, <1>2, <1>3, <1>4, <1>5, <1>6, <1>7, <1>8, <1>9, <1>10 DEF Next, Work, Graph

\* The variables have their types: offsets within the topic, confidences between 0
\* and 1 whatever an LLM states, and reports only of records there are under ids
\* that were handed out.
THEOREM TypesHold == Spec => []TypeOK
<1>1. Init => GroupTypes /\ ServiceTypes
  <2> SUFFICES ASSUME Init PROVE GroupTypes /\ ServiceTypes OBVIOUS
  <2>1. stop = FALSE /\ member = FALSE /\ deaths = 0 /\ handled = {}
    BY DEF Init, PollLoop!Init
  <2>2. GroupTypes
    <3>1. 0 \in 0 .. MaxDeaths BY AgentsAssumption
    <3> QED BY <2>1, <3>1 DEF GroupTypes
  <2>3. \A env : LLM!Backend(env) \in {"mock", "hosted", "ollama", "raises"} BY DEF LLM!Backend
  <2>4. backend \in {"mock", "hosted", "ollama", "raises"} /\ highRiskOnly \in BOOLEAN
    BY <2>3 DEF Init
  <2>5. case \in CaseStates(cases) BY NoCaseTypes DEF Init
  <2> QED BY <2>2, <2>4, <2>5 DEF Init, ServiceTypes
<1>2. AgentsInv /\ GroupTypes /\ ServiceTypes => TypeOK
  BY LoopTypes DEF AgentsInv, ServiceTypes, CaseStates, ReportRows, TypeOK
<1>3. AgentsInv => OffsetInv BY DEF AgentsInv
<1> QED BY <1>1, <1>2, <1>3, AgentsInvariant, GroupStep, ServiceStep, PTL DEF Spec

-----------------------------------------------------------------------------
(* The agent service as a reader *)

\* The scores dealt with: the low-risk ones by being read, the others by a
\* report, or by the failure that left none.
Answered == {r \in handled : ~HighRisk(r)} \cup lost \cup {rep.record : rep \in reports}

Reader == INSTANCE AtLeastOnce WITH next <- PollLoop!Resume, handled <- Answered

\* The loop, the group and the topic rewind the reader, commit, or publish.
LEMMA ReadingSteps ==
  ASSUME OffsetInv, Loop \/ Publish \/ StartRaises \/ UNCHANGED vars
  PROVE  [Reader!Next]_(Reader!vars)
<1>1. UNCHANGED <<reports, lost>> BY LoopSteps
<1>2. handled' = handled
  BY DEF Loop, Publish, StartRaises, vars, loopVars, PollLoop!Publish, PollLoop!Poll,
         PollLoop!LoseMembership, PollLoop!Rejoin, PollLoop!BatchDone, PollLoop!Signal,
         PollLoop!Leave
<1>3. Answered' = Answered BY <1>1, <1>2 DEF Answered, HighRisk
<1> USE DEF OffsetInv, Reader!Next, Reader!vars, PollLoop!Resume
<1>4. CASE StartRaises \/ UNCHANGED vars BY <1>3, <1>4 DEF StartRaises, vars, loopVars
<1>5. CASE Publish BY <1>3, <1>5 DEF Publish, PollLoop!Publish, Reader!Publish
<1>6. CASE Loop
  <2>1. CASE PollLoop!Poll
    <3>1. /\ committed' \in {committed, cursor}
          /\ loop = "poll" /\ loop' = "handle" /\ UNCHANGED <<end, cursor>>
      BY <2>1 DEF PollLoop!Poll, PollLoop!AutoCommitted
    <3> QED BY <1>3, <3>1 DEF Reader!Commit
  <2>2. CASE PollLoop!Rejoin
    <3>1. loop = "poll" /\ loop' = loop /\ cursor' = committed /\ UNCHANGED <<end, committed>>
      BY <2>2 DEF PollLoop!Rejoin, PollLoop!Resumed
    <3> QED BY <1>3, <3>1 DEF Reader!Rewind
  <2>3. CASE PollLoop!LoseMembership \/ PollLoop!BatchDone \/ PollLoop!Signal \/ PollLoop!Leave
    <3>1. UNCHANGED <<end, committed, cursor>> /\ loop # "down" /\ loop' # "down"
      BY <2>3 DEF PollLoop!LoseMembership, PollLoop!BatchDone, PollLoop!Signal, PollLoop!Leave,
                  PollLoop!MayLeave
    <3> QED BY <1>3, <3>1
  <2> QED BY <1>6, <2>1, <2>2, <2>3 DEF Loop
<1> QED BY <1>4, <1>5, <1>6

LEMMA ReaderStep ==
  ASSUME OffsetInv, CaseInv, [Next]_vars
  PROVE  [Reader!Next]_(Reader!vars)
<1>1. CASE Loop \/ Publish \/ StartRaises \/ UNCHANGED vars BY <1>1, ReadingSteps
<1> USE DEF OffsetInv, Reader!Next, Reader!vars, PollLoop!Resume
<1>2. CASE Start
  <2>1. /\ loop = "down" /\ loop' = "poll" /\ cursor' = committed
        /\ UNCHANGED <<end, committed, handled, reports, lost>>
    BY <1>2 DEF Start, PollLoop!Start, PollLoop!Resumed
  <2>2. Answered' = Answered BY <2>1 DEF Answered, HighRisk
  <2> QED BY <2>1, <2>2
<1>3. CASE Begin \/ Forensic \/ Auditor \/ Enforcer \/ Finish
  <2>1. UNCHANGED <<loopVars, reports, lost>>
    BY <1>3 DEF Begin, Forensic, Auditor, Enforcer, Finish
  <2>2. Answered' = Answered BY <2>1 DEF Answered, HighRisk, loopVars
  <2> QED BY <2>1, <2>2 DEF loopVars
<1>4. CASE Skip \/ StageFails \/ Persist \/ PersistFails
  <2>1. NextRecord BY <1>4 DEF Skip, StageFails, Persist, PersistFails
  <2>2. /\ loop = "handle" /\ cursor < end /\ cursor' = cursor + 1
        /\ handled' = handled \cup {cursor}
        /\ UNCHANGED <<end, committed, loop>>
    BY <2>1 DEF NextRecord, PollLoop!FinishRecord, PollLoop!Handling
  <2>3. Answered' = Answered \cup {cursor}
    <3>1. CASE Skip
      <4>1. ~HighRisk(cursor) /\ UNCHANGED <<reports, lost>> BY <3>1 DEF Skip
      <4> QED BY <2>2, <4>1 DEF Answered, HighRisk
    <3>2. CASE StageFails \/ PersistFails
      <4>1. lost' = lost \cup {cursor} /\ reports' = reports
        BY <3>2 DEF StageFails, PersistFails
      <4> QED BY <2>2, <4>1 DEF Answered, HighRisk
    <3>3. CASE Persist
      <4>1. reports' = reports \cup {Row} /\ Row.record = cursor BY <3>3, PersistAdds
      <4>2. {rep.record : rep \in reports'} = {rep.record : rep \in reports} \cup {cursor}
        BY <4>1
      <4>3. lost' = lost BY <3>3 DEF Persist
      <4> QED BY <2>2, <4>2, <4>3 DEF Answered, HighRisk
    <3> QED BY <1>4, <3>1, <3>2, <3>3
  <2> QED BY <2>2, <2>3 DEF Reader!Handle
<1>5. CASE End
  <2>1. loop' = "down" /\ UNCHANGED <<end, cursor, handled, reports, lost>>
    BY <1>5 DEF End, PollLoop!Close, PollLoop!Crash, PollLoop!Die
  <2>2. Answered' = Answered BY <2>1 DEF Answered, HighRisk
  <2>3. CASE committed' = committed BY <2>1, <2>2, <2>3 DEF Reader!Rewind
  <2>4. CASE PollLoop!Close /\ committed' = position
    BY <2>1, <2>2, <2>4 DEF PollLoop!Close, Reader!Commit
  <2> QED BY <1>5, <2>3, <2>4 DEF End, PollLoop!Close, PollLoop!Crash, PollLoop!Die
<1> QED BY <1>1, <1>2, <1>3, <1>4, <1>5 DEF Next, Work, Graph

(***************************************************************************)
(* Whatever Qdrant, the LLM and PostgreSQL do, the agent service is an     *)
(* at-least-once reader of the scores: its committed offset stays behind   *)
(* the high-risk scores that have neither a report nor a recorded loss.    *)
(***************************************************************************)
THEOREM AgentsImplementReader == Spec => Reader!Spec
<1>1. Init => Reader!Init
  BY DEF Init, PollLoop!Init, Reader!Init, PollLoop!Resume, Answered
<1>2. AgentsInv /\ [Next]_vars => [Reader!Next]_(Reader!vars) BY ReaderStep DEF AgentsInv
<1> QED BY <1>1, <1>2, AgentsInvariant, PTL DEF Spec, Reader!Spec

-----------------------------------------------------------------------------
(* Qdrant, with any number of seeders and validators.                       *)

\* The requests of each script; nobody deletes attack_vectors.
OpsOn(name) ==
  IF name = Attacks THEN {"get", "create", "upsert"} ELSE {"health", "create", "get", "delete"}

RequestsInv ==
  /\ request \in [Seeders \cup Validators ->
                    {"none", "success", "failure"} \cup OpsOn(Attacks) \cup {"health", "delete"}]
  /\ \A s \in Seeders : request[s] \in {"none", "success", "failure"} \cup OpsOn(Attacks)
  /\ \A v \in Validators : request[v] \in {"none", "success", "failure"} \cup OpsOn(v)

\* What may still arrive: on the collection of a validator, only what it gave up.
LateInv ==
  \A r \in late :
    /\ r[2] \in {Attacks} \cup Validators
    /\ r[1] \in OpsOn(r[2])
    /\ r[2] \in Validators => request[r[2]] = "failure"

StoreInv ==
  /\ Qdrant!Exists(Attacks) => store[Attacks] \in {{}, Corpus}
  /\ Qdrant!SuccessesHold

QdrantInv == RequestsInv /\ LateInv /\ StoreInv

\* One request changes one collection, and none but delete removes it.
LEMMA OneRequest ==
  ASSUME NEW op \in OpsOn(Attacks) \cup {"health", "delete"}, NEW name
  PROVE  /\ \A n : n # name =>
              /\ n \in DOMAIN Qdrant!After(op, name) <=> n \in DOMAIN store
              /\ n \in DOMAIN store => Qdrant!After(op, name)[n] = store[n]
         /\ op \in OpsOn(Attacks) =>
              /\ name \in DOMAIN store => name \in DOMAIN Qdrant!After(op, name)
              /\ name \in DOMAIN Qdrant!After(op, name) =>
                   Qdrant!After(op, name)[name]
                     \in {Corpus} \cup (IF name \in DOMAIN store THEN {store[name]} ELSE {{}})
         /\ op = "upsert" /\ name \in DOMAIN store =>
              Qdrant!After(op, name)[name] = Corpus
         /\ op = "delete" /\ name \in DOMAIN store =>
              name \notin DOMAIN Qdrant!After(op, name)
<1> DEFINE S == Qdrant!After(op, name)
<1>1. CASE Qdrant!Status(op, name) # 200 \/ op \in {"health", "get"}
  <2>1. S = store BY <1>1 DEF Qdrant!After
  <2>2. op \in {"upsert", "delete"} => name \notin DOMAIN store
    BY <1>1 DEF Qdrant!Status, Qdrant!Exists
  <2> QED BY <2>1, <2>2
<1>2. CASE Qdrant!Status(op, name) = 200 /\ op = "create"
  <2>1. S = Qdrant!Holding(name, {}) /\ name \notin DOMAIN store
    BY <1>2 DEF Qdrant!After, Qdrant!Status, Qdrant!Exists
  <2> QED BY <1>2, <2>1 DEF Qdrant!Holding
<1>3. CASE Qdrant!Status(op, name) = 200 /\ op = "upsert"
  <2>1. S = Qdrant!Holding(name, Corpus) BY <1>3 DEF Qdrant!After
  <2> QED BY <1>3, <2>1 DEF Qdrant!Holding
<1>4. CASE Qdrant!Status(op, name) = 200 /\ op = "delete"
  <2>1. S = [n \in DOMAIN store \ {name} |-> store[n]] BY <1>4 DEF Qdrant!After
  <2> QED BY <1>4, <2>1 DEF OpsOn
<1> QED BY <1>1, <1>2, <1>3, <1>4 DEF OpsOn

\* The answer to a request of a program, 500 among them.
LEMMA NextRequest ==
  ASSUME RequestsInv, NEW p \in Seeders \cup Validators, NEW status, Qdrant!Busy(p),
         Qdrant!VectorDbAssumption
  PROVE  /\ p \in Seeders => Qdrant!Answered(p, status)
                               \in {"success", "failure"} \cup OpsOn(Attacks)
         /\ p \in Validators => Qdrant!Answered(p, status)
                               \in {"success", "failure"} \cup OpsOn(p)
         /\ Qdrant!Answered(p, status) = "success" =>
              status = 200 /\ request[p] = (IF p \in Seeders THEN "upsert" ELSE "delete")
<1>1. CASE p \in Seeders
  <2>1. request[p] \in {"get", "create", "upsert"}
    BY <1>1 DEF RequestsInv, Qdrant!Busy, OpsOn
  <2>2. Qdrant!Following(p) = [get |-> "upsert", create |-> "upsert", upsert |-> "success"]
    BY <1>1 DEF Qdrant!Following
  <2>3. p \notin Validators BY <1>1 DEF Qdrant!VectorDbAssumption
  <2> QED BY <1>1, <2>1, <2>2, <2>3 DEF Qdrant!Answered, OpsOn
<1>2. CASE p \in Validators
  <2>1. p # Attacks /\ p \notin Seeders BY <1>2 DEF Qdrant!VectorDbAssumption
  <2>2. request[p] \in {"health", "create", "get", "delete"}
    BY <1>2, <2>1 DEF RequestsInv, Qdrant!Busy, OpsOn
  <2>3. Qdrant!Following(p)
          = [health |-> "create", create |-> "get", get |-> "delete", delete |-> "success"]
    BY <2>1 DEF Qdrant!Following
  <2> QED BY <1>2, <2>1, <2>2, <2>3 DEF Qdrant!Answered, OpsOn
<1> QED BY <1>1, <1>2

LEMMA QdrantStep ==
  ASSUME QdrantInv, Qdrant!VectorDbAssumption, [Qdrant!Next]_(Qdrant!vars)
  PROVE  QdrantInv'
<1> USE DEF QdrantInv
<1>1. CASE UNCHANGED Qdrant!vars
  BY <1>1
  DEF Qdrant!vars, RequestsInv, LateInv, StoreInv, Qdrant!SuccessesHold, Qdrant!Exists
<1>2. ASSUME NEW p \in Seeders \cup Validators, Qdrant!Run(p) PROVE QdrantInv'
  <2>1. /\ UNCHANGED <<store, late, seeded>>
        /\ request' = [request EXCEPT ![p] = Qdrant!First(p)]
        /\ p \in Validators => request[p] = "none"
    BY <1>2 DEF Qdrant!Run, Qdrant!VectorDbAssumption
  <2>2. /\ p \in Seeders => Qdrant!First(p) = "get" /\ p \notin Validators
        /\ p \in Validators => Qdrant!First(p) = "health" /\ p \notin Seeders /\ p # Attacks
    BY DEF Qdrant!First, Qdrant!VectorDbAssumption
  <2>3. RequestsInv' BY <2>1, <2>2 DEF RequestsInv, OpsOn
  <2>4. LateInv' BY <2>1, <2>2 DEF LateInv, RequestsInv
  <2>5. StoreInv' BY <2>1, <2>2 DEF StoreInv, Qdrant!SuccessesHold, Qdrant!Exists, RequestsInv
  <2> QED BY <2>3, <2>4, <2>5
<1>3. ASSUME NEW p \in Seeders \cup Validators, NEW status,
             Qdrant!Busy(p), UNCHANGED late,
             request' = [request EXCEPT ![p] = Qdrant!Answered(p, status)]
      PROVE  RequestsInv' /\ LateInv'
  <2>1. /\ p \in Seeders => Qdrant!Answered(p, status)
                             \in {"success", "failure"} \cup OpsOn(Attacks)
        /\ p \in Validators => Qdrant!Answered(p, status)
                             \in {"success", "failure"} \cup OpsOn(p)
    BY <1>3, NextRequest
  <2>2. p \in Seeders => p \notin Validators BY DEF Qdrant!VectorDbAssumption
  <2>3. RequestsInv' BY <1>3, <2>1, <2>2 DEF RequestsInv, OpsOn
  <2>4. LateInv' BY <1>3, <2>2 DEF LateInv, RequestsInv, Qdrant!Busy
  <2> QED BY <2>3, <2>4
<1>4. ASSUME NEW p \in Seeders \cup Validators, Qdrant!Serve(p) PROVE QdrantInv'
  <2> DEFINE op == request[p]
             name == Qdrant!Collection(p)
             status == Qdrant!Status(op, name)
  <2>1. /\ Qdrant!Busy(p) /\ late' = late
        /\ store' = Qdrant!After(op, name)
        /\ request' = [request EXCEPT ![p] = Qdrant!Answered(p, status)]
        /\ seeded' = (seeded \/ (p \in Seeders /\ request'[p] = "success"))
    BY <1>4 DEF Qdrant!Serve
  <2>2. RequestsInv' /\ LateInv' BY <2>1, <1>3
  <2>3. op \in OpsOn(Attacks) \cup {"health", "delete"}
    BY <2>1 DEF RequestsInv, Qdrant!Busy
  <2>4. request'[p] = Qdrant!Answered(p, status) BY <2>1 DEF RequestsInv
  <2>5. request'[p] = "success" =>
          /\ status = 200
          /\ op = (IF p \in Seeders THEN "upsert" ELSE "delete")
    <3> HIDE DEF op, status, name
    <3>1. Qdrant!Answered(p, status) = "success" =>
            status = 200 /\ request[p] = (IF p \in Seeders THEN "upsert" ELSE "delete")
      BY <2>1, NextRequest
    <3> QED BY <2>4, <3>1 DEF op
  <2>6. request'[p] = "success" => name \in DOMAIN store
    BY <2>5 DEF Qdrant!Status, Qdrant!Exists
  <2> HIDE DEF op, name, status
  <2>7. CASE p \in Seeders
    <3>1. name = Attacks /\ op \in OpsOn(Attacks)
      BY <2>1, <2>7 DEF name, op, Qdrant!Collection, RequestsInv, Qdrant!Busy
    <3>2. \A v \in Validators : v # Attacks /\ v # p
      BY <2>7 DEF Qdrant!VectorDbAssumption
    <3>3. /\ Attacks \in DOMAIN store => Attacks \in DOMAIN store'
          /\ Attacks \in DOMAIN store' =>
               store'[Attacks] \in {Corpus} \cup (IF Attacks \in DOMAIN store
                                                 THEN {store[Attacks]} ELSE {{}})
          /\ op = "upsert" /\ Attacks \in DOMAIN store => store'[Attacks] = Corpus
          /\ \A v \in Validators : v \in DOMAIN store' <=> v \in DOMAIN store
      BY <2>1, <2>3, <3>1, <3>2, OneRequest
    <3>4. \A v \in Validators : request'[v] = request[v] BY <2>1, <3>2 DEF RequestsInv
    <3>5. seeded' => seeded \/ (op = "upsert" /\ Attacks \in DOMAIN store)
      BY <2>1, <2>5, <2>6, <2>7, <3>1
    <3>6. StoreInv'
      BY <3>3, <3>4, <3>5 DEF StoreInv, Qdrant!SuccessesHold, Qdrant!Exists
    <3> QED BY <2>2, <3>6
  <2>8. CASE p \in Validators
    <3>1. name = p /\ p # Attacks /\ p \notin Seeders
      BY <2>8 DEF name, Qdrant!Collection, Qdrant!VectorDbAssumption
    <3>2. /\ Attacks \in DOMAIN store' <=> Attacks \in DOMAIN store
          /\ Attacks \in DOMAIN store => store'[Attacks] = store[Attacks]
          /\ \A v \in Validators \ {p} : v \in DOMAIN store' <=> v \in DOMAIN store
          /\ op = "delete" /\ p \in DOMAIN store => p \notin DOMAIN store'
      BY <2>1, <2>3, <3>1, OneRequest
    <3>3. /\ seeded' => seeded
          /\ \A v \in Validators \ {p} : request'[v] = request[v]
          /\ request'[p] = "success" => op = "delete" /\ p \in DOMAIN store
      BY <2>1, <2>5, <2>6, <3>1 DEF RequestsInv
    <3>4. StoreInv'
      BY <3>2, <3>3 DEF StoreInv, Qdrant!SuccessesHold, Qdrant!Exists
    <3> QED BY <2>2, <3>4
  <2> QED BY <2>7, <2>8
<1>5. ASSUME NEW p \in Seeders \cup Validators, Qdrant!ServerError(p) PROVE QdrantInv'
  <2>1. /\ Qdrant!Busy(p) /\ UNCHANGED <<store, late>>
        /\ request' = [request EXCEPT ![p] = Qdrant!Answered(p, 500)]
        /\ seeded' = (seeded \/ (p \in Seeders /\ request'[p] = "success"))
    BY <1>5 DEF Qdrant!ServerError
  <2>2. RequestsInv' /\ LateInv' BY <2>1, <1>3
  <2>3. request'[p] # "success"
    <3>1. request'[p] = Qdrant!Answered(p, 500) BY <2>1 DEF RequestsInv
    <3> QED BY <2>1, <3>1, NextRequest
  <2>4. StoreInv'
    BY <2>1, <2>3 DEF StoreInv, Qdrant!SuccessesHold, Qdrant!Exists, RequestsInv
  <2> QED BY <2>2, <2>4
<1>6. ASSUME NEW p \in Seeders \cup Validators, Qdrant!GiveUp(p) PROVE QdrantInv'
  <2>1. /\ Qdrant!Busy(p) /\ UNCHANGED <<store, seeded>>
        /\ late' \in {late, late \cup {<<request[p], Qdrant!Collection(p)>>}}
        /\ request' = [request EXCEPT ![p] = "failure"]
    BY <1>6 DEF Qdrant!GiveUp
  <2>2. RequestsInv' BY <2>1 DEF RequestsInv
  <2>3. /\ p \in Seeders => Qdrant!Collection(p) = Attacks /\ p \notin Validators
        /\ p \in Validators => Qdrant!Collection(p) = p
        /\ Attacks \notin Validators
    BY DEF Qdrant!Collection, Qdrant!VectorDbAssumption
  <2>4. request[p] \in OpsOn(Qdrant!Collection(p))
    BY <2>1, <2>3 DEF RequestsInv, Qdrant!Busy
  <2>5. LateInv' BY <2>1, <2>3, <2>4 DEF LateInv, RequestsInv
  <2>6. StoreInv' BY <2>1 DEF StoreInv, Qdrant!SuccessesHold, Qdrant!Exists, RequestsInv
  <2> QED BY <2>2, <2>5, <2>6
<1>7. CASE Qdrant!Arrive
  <2>1. PICK r \in late : store' = Qdrant!After(r[1], r[2]) /\ late' = late \ {r}
    BY <1>7 DEF Qdrant!Arrive
  <2>2. UNCHANGED <<request, seeded>> BY <1>7 DEF Qdrant!Arrive
  <2>3. RequestsInv' /\ LateInv' BY <2>1, <2>2 DEF RequestsInv, LateInv
  <2>4. /\ r[2] \in {Attacks} \cup Validators /\ r[1] \in OpsOn(r[2])
        /\ r[2] \in Validators => request[r[2]] = "failure"
    BY <2>1 DEF LateInv
  <2>5. r[1] \in OpsOn(Attacks) \cup {"health", "delete"} BY <2>4 DEF OpsOn
  <2>6. StoreInv'
    BY <2>1, <2>2, <2>4, <2>5, OneRequest
    DEF StoreInv, Qdrant!SuccessesHold, Qdrant!Exists, Qdrant!VectorDbAssumption
  <2> QED BY <2>3, <2>6
<1>8. CASE Qdrant!Restart
  <2>1. store' = << >> /\ late' = {} /\ seeded' = FALSE /\ request' = request
    BY <1>8 DEF Qdrant!Restart
  <2>2. DOMAIN store' = {} BY <2>1
  <2> QED
    BY <2>1, <2>2 DEF RequestsInv, LateInv, StoreInv, Qdrant!SuccessesHold, Qdrant!Exists
<1> QED BY <1>1, <1>2, <1>4, <1>5, <1>6, <1>7, <1>8 DEF Qdrant!Next, Qdrant!Programs

\* What a seeder or a validator reported as done stays done until the pod is
\* replaced, whatever runs beside it and whatever arrives late.
THEOREM SeedingHolds == Qdrant!Init /\ [][Qdrant!Next]_(Qdrant!vars) => []SuccessesHold
<1> Qdrant!VectorDbAssumption BY QdrantAssumption
<1>1. Qdrant!Init => QdrantInv
  <2> SUFFICES ASSUME Qdrant!Init PROVE QdrantInv OBVIOUS
  <2>1. DOMAIN store = {} BY DEF Qdrant!Init
  <2> QED
    BY <2>1
    DEF Qdrant!Init, Qdrant!Programs, QdrantInv, RequestsInv, LateInv, StoreInv,
        Qdrant!SuccessesHold, Qdrant!Exists
<1>2. QdrantInv => SuccessesHold BY DEF QdrantInv, StoreInv, SuccessesHold
<1> QED BY <1>1, <1>2, QdrantStep, PTL
=============================================================================
