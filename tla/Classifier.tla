----------------------------- MODULE Classifier -----------------------------
(***************************************************************************)
(* The classifier service (services/classifier): its poll loop, the        *)
(* asynchronous send of each score to the anomaly-scores topic, and the    *)
(* mirror of each scored frame into two PostgreSQL tables, in one          *)
(* transaction.                                                            *)
(*                                                                         *)
(* A record of the input topic is its offset; Malformed are the offsets    *)
(* whose payload is not 80 bytes long.  The score itself is abstracted     *)
(* away: what matters is which frames get one.                             *)
(*                                                                         *)
(* An operator placed directly above a definition, with the same           *)
(* parameters and no comment, is a way to get that definition wrong.       *)
(***************************************************************************)
EXTENDS Naturals, Sequences, FiniteSets

CONSTANTS
  MaxRecords, BatchMax, MaxDeaths,  \* see PollLoop
  Malformed,    \* offsets of the records FeatureFrame.from_bytes rejects
  BufferMax     \* how many scores the Kafka producer buffers

ASSUME ClassifierAssumption ==
  /\ MaxRecords \in Nat /\ BatchMax \in Nat \ {0} /\ MaxDeaths \in Nat
  /\ Malformed \subseteq Nat
  /\ BufferMax \in Nat \ {0}

VARIABLES
  end, committed, position, cursor, loop, stop, member, deaths, handled,
  step,        \* how far the record in hand has got
  exit,        \* the call of the shutdown reached: none, flush or close
  leftAt,      \* history: the committed offset when the loop was left
  buffer,      \* scores the producer holds, oldest first
  scores,      \* the anomaly-scores topic: the frame each score is for
  undelivered, \* history: scores the producer gave up or took down with it
  pg,          \* _pg_conn: none, up or broken
  open,        \* rows inserted by the open transaction
  featureLog,  \* feature_log: committed rows by frame
  scoreLog     \* anomaly_score_log: committed rows by frame

loopVars == <<end, committed, position, cursor, loop, stop, member, deaths, handled>>
kafkaVars == <<buffer, scores, undelivered>>
dbVars == <<open, featureLog, scoreLog>>
exitVars == <<exit, leftAt>>
vars == <<loopVars, step, exitVars, kafkaVars, pg, dbVars>>

PollLoop == INSTANCE PollLoop

Records == 0 .. MaxRecords - 1

Init ==
  /\ PollLoop!Init
  /\ step = "record"
  /\ exit = "none" /\ leftAt = 0
  /\ buffer = << >> /\ scores = << >> /\ undelivered = {}
  /\ pg = "none"
  /\ open = {}
  /\ featureLog = [r \in Records |-> 0] /\ scoreLog = [r \in Records |-> 0]

Scoring(s) == PollLoop!Handling /\ step = s

\* The record in hand is done.
NextRecord == PollLoop!FinishRecord /\ step' = "record" /\ UNCHANGED exitVars

Elements(s) == {s[i] : i \in 1 .. Len(s)}

-----------------------------------------------------------------------------
(* The main thread *)

\* __init__ connects to PostgreSQL once; if that fails, nothing is mirrored
\* for the life of the process.
Start ==
  /\ PollLoop!Start
  /\ pg' \in {"up", "none"}
  /\ step' = "record"
  /\ UNCHANGED <<exitVars, kafkaVars, dbVars>>

\* from_bytes raises: the record is skipped.
SkipMalformed ==
  /\ Scoring("record")
  /\ cursor \in Malformed
  /\ NextRecord
  /\ UNCHANGED <<kafkaVars, pg, dbVars>>

\* The producer's buffer can take one more score.
HasRoom == Len(buffer) < BufferMax

\* predict, then send: the score goes into the producer's buffer and the future
\* is ignored.  Without a connection there is nothing to mirror.
Score ==
  /\ Scoring("record")
  /\ cursor \notin Malformed
  /\ HasRoom
  /\ buffer' = Append(buffer, cursor)
  /\ IF pg = "none" THEN NextRecord
                    ELSE step' = "feature" /\ UNCHANGED <<loopVars, exitVars>>
  /\ UNCHANGED <<scores, undelivered, pg, dbVars>>

CommittedEach(table) == [table EXCEPT ![cursor] = @ + 1]
\* feature_log, as others see it, after insert_feature_log.
AfterInsert(table) == table

InsertFeature ==
  /\ Scoring("feature") /\ pg = "up"
  /\ open' = {"feature_log"}
  /\ featureLog' = AfterInsert(featureLog)
  /\ step' = "score"
  /\ UNCHANGED <<loopVars, exitVars, kafkaVars, pg, scoreLog>>

InsertScore ==
  /\ Scoring("score") /\ pg = "up"
  /\ open' = open \cup {"anomaly_score_log"}
  /\ step' = "commit"
  /\ UNCHANGED <<loopVars, exitVars, kafkaVars, pg, featureLog, scoreLog>>

\* A table after the open transaction commits.
Committed(name, table) ==
  IF name \in open THEN [table EXCEPT ![cursor] = @ + 1] ELSE table

\* commit() takes effect.  The connection may be lost before the answer: the
\* caller sees an error, and its rollback finds nothing to undo.
Commit ==
  /\ Scoring("commit") /\ pg = "up"
  /\ featureLog' = Committed("feature_log", featureLog)
  /\ scoreLog' = Committed("anomaly_score_log", scoreLog)
  /\ open' = {}
  /\ pg' \in {"up", "broken"}
  /\ NextRecord
  /\ UNCHANGED kafkaVars

KeepOpen == open
\* The open transaction after rollback().
RolledBack == {}

\* A statement or the commit raises: logged and rolled back, the frame is not
\* mirrored.  A connection once broken stays so.
MirrorFails ==
  /\ \E s \in {"feature", "score", "commit"} : Scoring(s)
  /\ open' = RolledBack
  /\ pg' \in {pg, "broken"}
  /\ NextRecord
  /\ UNCHANGED <<kafkaVars, featureLog, scoreLog>>

\* The poll, the tests of the loop that go on, and what the group coordinator and
\* the operating system do to it.
Loop ==
  /\ \/ PollLoop!Poll \/ PollLoop!LoseMembership \/ PollLoop!Rejoin
     \/ PollLoop!BatchDone \/ PollLoop!Signal
  /\ UNCHANGED <<step, exitVars, kafkaVars, pg, dbVars>>

CloseFirst == "close"
\* The call that follows the loop.
AfterLoop == "flush"

\* The flag is seen: the shutdown begins.
Leave ==
  /\ PollLoop!Leave
  /\ exit' = AfterLoop
  /\ leftAt' = committed
  /\ UNCHANGED <<step, kafkaVars, pg, dbVars>>

\* flush() waits until the producer holds nothing.
Flush ==
  /\ loop = "ending" /\ exit = "flush"
  /\ buffer = << >>
  /\ exit' = "close"
  /\ UNCHANGED <<loopVars, step, leftAt, kafkaVars, pg, dbVars>>

\* What the process held in memory, or in an open transaction, is gone.
Gone ==
  /\ buffer' = << >>
  /\ undelivered' = undelivered \cup Elements(buffer)
  /\ open' = {}
  /\ pg' = "none"
  /\ exit' = "none" /\ leftAt' = 0
  /\ UNCHANGED <<step, scores, featureLog, scoreLog>>

\* The consumer and the connection are closed, and the process ends with
\* whatever it still holds.
Close == exit = "close" /\ PollLoop!Close /\ Gone

\* flush() raises after five seconds with scores still in the buffer: close is
\* never reached.
FlushTimesOut ==
  /\ loop = "ending" /\ exit = "flush"
  /\ buffer # << >>
  /\ PollLoop!Die /\ UNCHANGED deaths
  /\ Gone

\* send() raises: the buffer stayed full for max_block_ms.
SendTimesOut ==
  /\ Scoring("record")
  /\ cursor \notin Malformed
  /\ Len(buffer) = BufferMax
  /\ PollLoop!Crash
  /\ Gone

Crash == PollLoop!Crash /\ Gone

-----------------------------------------------------------------------------
(* The producer's sender thread, the brokers and the engine (external) *)

Publish == PollLoop!Publish /\ UNCHANGED <<step, exitVars, kafkaVars, pg, dbVars>>

\* The oldest score is appended to the topic.
Deliver ==
  /\ loop # "down" /\ buffer # << >>
  /\ scores' = Append(scores, Head(buffer))
  /\ buffer' = Tail(buffer)
  /\ UNCHANGED <<loopVars, step, exitVars, undelivered, pg, dbVars>>

\* Its delivery fails (retries = 0); nobody looks at the future.
DeliveryFails ==
  /\ loop # "down" /\ buffer # << >>
  /\ undelivered' = undelivered \cup {Head(buffer)}
  /\ buffer' = Tail(buffer)
  /\ UNCHANGED <<loopVars, step, exitVars, scores, pg, dbVars>>

-----------------------------------------------------------------------------

Mirror == InsertFeature \/ InsertScore \/ Commit \/ MirrorFails

Work == SkipMalformed \/ Score \/ Mirror

Shutdown == Flush \/ FlushTimesOut \/ Close

Next ==
  \/ Start \/ Work \/ Loop \/ Leave \/ Shutdown \/ SendTimesOut \/ Crash
  \/ Publish \/ Deliver \/ DeliveryFails

Spec == Init /\ [][Next]_vars

FruitfulPoll ==
  /\ PollLoop!Poll
  /\ position' > position
  /\ UNCHANGED <<step, exitVars, kafkaVars, pg, dbVars>>

\* Kubernetes restarts the container, the main thread runs (a statement for
\* PostgreSQL is answered, or its connection breaks: see MirrorFails), and the
\* producer's thread gets rid of what it holds, one way or the other.  A broker
\* that holds records does not answer every poll with none.
Fairness ==
  /\ WF_vars(Start)
  /\ WF_vars(Work)
  /\ SF_vars(FruitfulPoll)
  /\ WF_vars((PollLoop!Rejoin \/ PollLoop!BatchDone)
             /\ UNCHANGED <<step, exitVars, kafkaVars, pg, dbVars>>)
  /\ WF_vars(Leave)
  /\ WF_vars(Shutdown)
  /\ WF_vars(Deliver \/ DeliveryFails)

FairSpec == Spec /\ Fairness

-----------------------------------------------------------------------------
(* Properties *)

TypeOK ==
  /\ PollLoop!TypeOK
  /\ step \in {"record", "feature", "score", "commit"}
  /\ exit \in {"none", "flush", "close"} /\ leftAt \in 0 .. MaxRecords
  /\ buffer \in Seq(Records) /\ Len(buffer) <= BufferMax
  /\ scores \in Seq(Records)
  /\ undelivered \subseteq Records
  /\ pg \in {"none", "up", "broken"}
  /\ open \subseteq {"feature_log", "anomaly_score_log"}
  /\ featureLog \in [Records -> Nat] /\ scoreLog \in [Records -> Nat]

(***************************************************************************)
(* Every record below the committed offset, which no restart will read     *)
(* again, is malformed, has a score on the topic, or has one the producer  *)
(* still holds or is known to have lost: none is forgotten between the     *)
(* poll and the send.                                                      *)
(***************************************************************************)
NoFrameForgotten ==
  \A r \in 0 .. committed - 1 :
    r \in Malformed \cup Elements(scores) \cup Elements(buffer) \cup undelivered

(***************************************************************************)
(* The two mirror tables agree: a frame has as many committed score rows   *)
(* as feature rows, although they are inserted by separate statements of a *)
(* process that may die in between.  And no row waits in an open           *)
(* transaction while the service polls or handles the next frame.          *)
(***************************************************************************)
MirrorPaired ==
  /\ featureLog = scoreLog
  /\ step = "record" \/ loop = "down" \/ pg = "none" => open = {}

(***************************************************************************)
(* However a process that has left its loop ends, by closing, by a flush   *)
(* that raises or by being killed, no score goes down with it for good:    *)
(* the frame of each that the producer still held is read again by the     *)
(* next process, unless a poll had committed it before the loop was left.  *)
(***************************************************************************)
NoLossByClosing ==
  [][loop = "ending" /\ loop' = "down" =>
       \A r \in Elements(buffer) : r < leftAt \/ r >= committed']_vars

\* Every frame published is scored or given up, whatever crashes, signals and
\* lost memberships happen, as long as they stop happening.
EveryFrameHandled == \A r \in Records : end > r ~> r \in handled
=============================================================================
