------------------------------ MODULE Pipeline ------------------------------
(***************************************************************************)
(* The path of a frame through the two Python services: from the           *)
(* financial-features topic through the classifier and the anomaly-scores  *)
(* topic to the agent service and its agent_report row.                    *)
(*                                                                         *)
(* The classifier is what Classifier promises, an at-least-once reader     *)
(* that sends a score for each frame through a producer nobody waits for;  *)
(* the agent service is the poll loop, and what Agents does with a record  *)
(* is one step: a row, or none.  A frame is its offset.                    *)
(*                                                                         *)
(* An operator placed directly above a definition, with the same           *)
(* parameters and no comment, is a way to get that definition wrong.       *)
(***************************************************************************)
EXTENDS PollLoop, Sequences

CONSTANTS
  MaxFrames,  \* bound on the length of financial-features
  Alerts,     \* the frames the classifier flags high_risk
  MaxRewinds  \* bound on the classifier's restarts and lost memberships

\* The bound on anomaly-scores is never what stops a delivery.
ASSUME PipelineAssumption ==
  /\ MaxFrames \in Nat /\ MaxRewinds \in Nat
  /\ Alerts \subseteq 0 .. MaxFrames - 1
  /\ MaxFrames * (1 + MaxRewinds) <= MaxRecords

VARIABLES
  frames, next, frameCommit, scored,  \* the classifier, see AtLeastOnce
  rewinds,  \* restarts and lost memberships of the classifier so far
  buffer,   \* scores the classifier's producer holds, oldest first
  scores,   \* the anomaly-scores topic: the frame each score is for
  reports,  \* rows of agent_report for each alert
  lost      \* history: alerts with a score or a case that was lost

readerVars == <<frames, next, frameCommit, scored>>
scoreVars == <<buffer, scores>>
pipelineVars == <<vars, readerVars, rewinds, scoreVars, reports, lost>>

Classifier == INSTANCE AtLeastOnce WITH
  MaxRecords <- MaxFrames, end <- frames, committed <- frameCommit, handled <- scored

Elements(s) == {s[i] : i \in DOMAIN s}

PipelineInit ==
  /\ Init /\ Classifier!Init
  /\ rewinds = 0
  /\ buffer = << >> /\ scores = << >>
  /\ reports = [f \in Alerts |-> 0]
  /\ lost = {}

-----------------------------------------------------------------------------
(* The engine (external) and the classifier *)

\* The engine appends a frame.
Emit ==
  /\ Classifier!Publish
  /\ UNCHANGED <<vars, rewinds, scoreVars, reports, lost>>

\* predict, then send.
Score ==
  /\ Classifier!Handle
  /\ buffer' = Append(buffer, next)
  /\ UNCHANGED <<vars, rewinds, scores, reports, lost>>

CommitFrames ==
  /\ Classifier!Commit
  /\ UNCHANGED <<vars, rewinds, scoreVars, reports, lost>>

\* The process dies, and its buffer with it; or it loses its partition, and
\* only its position goes back.
Rewind ==
  /\ rewinds < MaxRewinds
  /\ Classifier!Rewind
  /\ rewinds' = rewinds + 1
  /\ \/ buffer' = << >> /\ lost' = lost \cup (Elements(buffer) \cap Alerts)
     \/ UNCHANGED <<buffer, lost>>
  /\ UNCHANGED <<vars, scores, reports>>

\* The producer's oldest score is appended to the topic.
Deliver ==
  /\ buffer # << >>
  /\ Publish
  /\ scores' = Append(scores, Head(buffer))
  /\ buffer' = Tail(buffer)
  /\ UNCHANGED <<readerVars, rewinds, reports, lost>>

\* Its delivery fails, and nobody looks at the future.
DeliveryFails ==
  /\ buffer # << >>
  /\ lost' = lost \cup ({Head(buffer)} \cap Alerts)
  /\ buffer' = Tail(buffer)
  /\ UNCHANGED <<vars, readerVars, rewinds, scores, reports>>

-----------------------------------------------------------------------------
(* The agent service *)

\* The frame that the score in hand is for.
Frame == scores[cursor + 1]

\* A score without the flag is passed over.
PassOver ==
  /\ FinishRecord
  /\ Frame \notin Alerts
  /\ UNCHANGED <<readerVars, rewinds, scoreVars, reports, lost>>

\* The graph runs and the row of its case, which is new, is written.
Report ==
  /\ FinishRecord
  /\ Frame \in Alerts
  /\ reports' = [reports EXCEPT ![Frame] = @ + 1]
  /\ UNCHANGED <<readerVars, rewinds, scoreVars, lost>>

\* A stage or the database raises: no row.
LoseCase ==
  /\ FinishRecord
  /\ Frame \in Alerts
  /\ lost' = lost \cup {Frame}
  /\ UNCHANGED <<readerVars, rewinds, scoreVars, reports>>

\* The poll, the tests of the loop, starts and ends.
AgentsLoop ==
  /\ \/ Start \/ Poll \/ LoseMembership \/ Rejoin \/ BatchDone \/ Signal
     \/ Leave \/ Close \/ Crash
  /\ UNCHANGED <<readerVars, rewinds, scoreVars, reports, lost>>

-----------------------------------------------------------------------------

Case == PassOver \/ Report \/ LoseCase

PipelineNext ==
  \/ Emit \/ Score \/ CommitFrames \/ Rewind \/ Deliver \/ DeliveryFails
  \/ Case \/ AgentsLoop

Unmoved == UNCHANGED <<readerVars, rewinds, scoreVars, reports, lost>>

\* What Classifier and Agents assume, for either of the two: see
\* Classifier!EveryFrameHandled and Agents!EveryCaseHandled.  That a case ends is
\* true of the mock and of the hosted LLMs, whose calls time out; of Ollama, whose
\* calls do not, it assumes that the server answers.
PipelineFairness ==
  /\ WF_pipelineVars(Score)
  /\ WF_pipelineVars(Deliver \/ DeliveryFails)
  /\ WF_pipelineVars(Case)
  /\ SF_pipelineVars(Poll /\ position' > position /\ Unmoved)
  /\ WF_pipelineVars((Start \/ Rejoin \/ BatchDone \/ Leave \/ Close) /\ Unmoved)

PipelineSpec ==
  PipelineInit /\ [][PipelineNext]_pipelineVars /\ PipelineFairness

-----------------------------------------------------------------------------
(* Properties *)

PipelineTypeOK ==
  /\ TypeOK
  /\ frames \in 0 .. MaxFrames /\ next \in 0 .. frames /\ frameCommit \in 0 .. frames
  /\ rewinds \in 0 .. MaxRewinds
  /\ Elements(buffer) \cup Elements(scores) \subseteq scored
  /\ Len(scores) = end
  /\ reports \in [Alerts -> Nat] /\ lost \subseteq Alerts

(***************************************************************************)
(* From the frame to the report no alert is forgotten, and none multiplies *)
(* by itself.  An alert below the offset the classifier committed has a    *)
(* report, is known to be lost, waits in the producer, or has a score on   *)
(* the topic that the agents' committed offset has not passed; although    *)
(* neither service ever looks at the other's offset.  And each restart or  *)
(* lost membership of either service adds at most one delivery of what it  *)
(* reads.                                                                  *)
(***************************************************************************)
AlertsConserved ==
  \A f \in Alerts :
    /\ f < frameCommit =>
         \/ reports[f] > 0
         \/ f \in lost \cup Elements(buffer)
         \/ \E i \in committed + 1 .. end : scores[i] = f
    /\ reports[f] <= (1 + rewinds) * (1 + deaths)

\* Every alert that reaches the first topic ends in a report or is known to be
\* lost, as long as the restarts of the two services come to an end.
EveryAlertResolved ==
  \A f \in Alerts : frames > f ~> reports[f] > 0 \/ f \in lost
=============================================================================
