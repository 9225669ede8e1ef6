--------------------------- MODULE ClassifierProofs ---------------------------
(***************************************************************************)
(* What the classifier promises about scores and mirror rows, for a topic, *)
(* batches, a producer buffer and a number of failures of any size.        *)
(***************************************************************************)
EXTENDS Classifier, TLAPS

-----------------------------------------------------------------------------
(* The records behind the cursor *)

\* Where a record that needs no further handling can be.
Accounted == Malformed \cup Elements(scores) \cup Elements(buffer) \cup undelivered

LEMMA ElementsOfAppend ==
  ASSUME NEW S, NEW s \in Seq(S), NEW e \in S
  PROVE  Elements(Append(s, e)) = Elements(s) \cup {e}
BY DEF Elements

LEMMA ElementsOfRest ==
  ASSUME NEW S, NEW s \in Seq(S), s # << >>
  PROVE  Elements(s) = Elements(Tail(s)) \cup {Head(s)}
<1>1. ASSUME NEW i \in 1 .. Len(s) PROVE s[i] \in Elements(Tail(s)) \cup {Head(s)}
  <2>1. CASE i = 1 BY <2>1
  <2>2. CASE i # 1
    <3>1. i - 1 \in 1 .. Len(Tail(s)) /\ Tail(s)[i - 1] = s[i] BY <2>2
    <3> QED BY <3>1 DEF Elements
  <2> QED BY <2>1, <2>2
<1>2. ASSUME NEW i \in 1 .. Len(Tail(s)) PROVE Tail(s)[i] \in Elements(s)
  <2>1. i + 1 \in 1 .. Len(s) /\ s[i + 1] = Tail(s)[i] OBVIOUS
  <2> QED BY <2>1 DEF Elements
<1>3. Head(s) \in Elements(s) BY DEF Elements
<1> QED BY <1>1, <1>2, <1>3 DEF Elements

OffsetInv ==
  /\ committed \in Nat /\ cursor \in Nat /\ position \in Nat /\ end \in Nat
  /\ committed <= cursor /\ cursor <= position /\ position <= end
  /\ loop \in {"down", "poll", "handle", "ending"}
  /\ step \in {"record", "feature", "score", "commit"}
  /\ loop \in {"poll", "ending"} => cursor = position
  /\ loop # "down" /\ cursor = position => step = "record"
  /\ buffer \in Seq(Nat) /\ scores \in Seq(Nat)

AccountInv ==
  /\ 0 .. cursor - 1 \subseteq Accounted
  /\ loop # "down" /\ step # "record" => cursor \in Accounted

\* The steps no score or row notices: the poll, its tests, the group, the topic.
LEMMA LoopSteps ==
  ASSUME OffsetInv, Loop \/ Publish \/ UNCHANGED vars
  PROVE  /\ OffsetInv'
         /\ UNCHANGED <<step, exit, leftAt, buffer, scores, undelivered, open, featureLog,
                        scoreLog, pg>>
         /\ loop = "down" <=> loop' = "down"
         /\ cursor' \in {cursor, committed}
         /\ cursor' # cursor => step = "record"
<1> USE DEF OffsetInv, vars, loopVars, exitVars, kafkaVars, dbVars
<1>1. CASE UNCHANGED vars BY <1>1
<1>2. CASE Publish BY <1>2 DEF Publish, PollLoop!Publish
<1>3. CASE Loop
  <2>1. CASE PollLoop!Poll
    <3>1. /\ UNCHANGED <<end, cursor, step, exitVars, kafkaVars, pg, dbVars>>
          /\ loop = "poll" /\ loop' = "handle"
          /\ position' \in position .. position + BatchMax /\ position' <= end
          /\ committed' \in {committed, position}
      BY <1>3, <2>1 DEF Loop, PollLoop!Poll, PollLoop!AutoCommitted, PollLoop!BatchEnds
    <3>2. position' \in Nat /\ position' >= position BY <3>1, ClassifierAssumption
    <3> QED BY <3>1, <3>2
  <2>2. CASE PollLoop!LoseMembership BY <1>3, <2>2 DEF Loop, PollLoop!LoseMembership
  <2>3. CASE PollLoop!Rejoin BY <1>3, <2>3 DEF Loop, PollLoop!Rejoin, PollLoop!Resumed
  <2>4. CASE PollLoop!BatchDone BY <1>3, <2>4 DEF Loop, PollLoop!BatchDone
  <2>5. CASE PollLoop!Signal BY <1>3, <2>5 DEF Loop, PollLoop!Signal
  <2> QED BY <1>3, <2>1, <2>2, <2>3, <2>4, <2>5 DEF Loop
<1> QED BY <1>1, <1>2, <1>3

\* The ways a process ends without closing its consumer.
Deaths == FlushTimesOut \/ SendTimesOut \/ Crash

LEMMA OffsetInit == Init => OffsetInv
BY DEF Init, PollLoop!Init, OffsetInv

LEMMA OffsetStep == OffsetInv /\ [Next]_vars => OffsetInv'
<1> SUFFICES ASSUME OffsetInv, [Next]_vars PROVE OffsetInv'
  OBVIOUS
<1> USE DEF OffsetInv, loopVars, kafkaVars, dbVars, Scoring, PollLoop!Handling
<1>1. CASE Loop \/ Publish \/ UNCHANGED vars BY <1>1, LoopSteps
<1>2. CASE Start BY <1>2 DEF Start, PollLoop!Start, PollLoop!Resumed
<1>3. CASE SkipMalformed \/ Commit \/ MirrorFails
  <2>1. NextRecord /\ UNCHANGED <<buffer, scores>>
    BY <1>3 DEF SkipMalformed, Commit, MirrorFails
  <2> QED BY <2>1 DEF NextRecord, PollLoop!FinishRecord
<1>4. CASE Score
  <2>1. /\ Scoring("record") /\ buffer' = Append(buffer, cursor) /\ scores' = scores
        /\ NextRecord \/ (step' = "feature" /\ UNCHANGED loopVars)
    BY <1>4 DEF Score
  <2>2. buffer' \in Seq(Nat) BY <2>1
  <2> QED BY <2>1, <2>2 DEF NextRecord, PollLoop!FinishRecord
<1>5. CASE InsertFeature \/ InsertScore BY <1>5 DEF InsertFeature, InsertScore
<1>6. CASE Close
  <2>1. << >> \in Seq(Nat) OBVIOUS
  <2> QED BY <1>6, <2>1 DEF Close, PollLoop!Close, Gone
<1>7. CASE Deaths
  <2>1. PollLoop!Die /\ Gone
    BY <1>7 DEF Deaths, FlushTimesOut, SendTimesOut, Crash, PollLoop!Crash
  <2>2. << >> \in Seq(Nat) OBVIOUS
  <2> QED BY <2>1, <2>2 DEF PollLoop!Die, Gone
<1>8. CASE Deliver
  <2>1. Head(buffer) \in Nat /\ Tail(buffer) \in Seq(Nat) BY <1>8 DEF Deliver
  <2> QED BY <1>8, <2>1 DEF Deliver
<1>9. CASE DeliveryFails
  <2>1. Tail(buffer) \in Seq(Nat) BY <1>9 DEF DeliveryFails
  <2> QED BY <1>9, <2>1 DEF DeliveryFails
<1>10. CASE Leave BY <1>10 DEF Leave, PollLoop!Leave, PollLoop!MayLeave
<1>11. CASE Flush BY <1>11 DEF Flush
<1> QED
  BY <1>1, <1>2, <1>3, <1>4, <1>5, <1>6, <1>7, <1>8, <1>9, <1>10, <1>11
     DEF Next, Work, Mirror, Shutdown, Deaths

\* Whatever happens, a record that is accounted for remains so.
LEMMA AccountedGrows ==
  ASSUME OffsetInv, [Next]_vars
  PROVE  Accounted \subseteq Accounted'
<1> USE DEF Accounted, kafkaVars
<1>1. CASE UNCHANGED <<buffer, scores, undelivered>> BY <1>1
<1>2. CASE Score
  <2>1. buffer' = Append(buffer, cursor) /\ UNCHANGED <<scores, undelivered>> BY <1>2 DEF Score
  <2>2. Elements(buffer') = Elements(buffer) \cup {cursor}
    BY <2>1, ElementsOfAppend DEF OffsetInv
  <2> QED BY <2>1, <2>2
<1>3. CASE Close \/ Deaths
  <2>1. Gone BY <1>3 DEF Close, Deaths, FlushTimesOut, SendTimesOut, Crash
  <2> QED BY <2>1 DEF Gone
<1>4. CASE Deliver \/ DeliveryFails
  <2>1. buffer # << >> /\ buffer' = Tail(buffer) BY <1>4 DEF Deliver, DeliveryFails
  <2>2. Elements(buffer) = Elements(buffer') \cup {Head(buffer)}
    BY <2>1, ElementsOfRest DEF OffsetInv
  <2>3. CASE Deliver
    <3>1. scores' = Append(scores, Head(buffer)) /\ undelivered' = undelivered
      BY <2>3 DEF Deliver
    <3>2. Head(buffer) \in Nat BY <2>1 DEF OffsetInv
    <3>3. Elements(scores') = Elements(scores) \cup {Head(buffer)}
      BY <3>1, <3>2, ElementsOfAppend DEF OffsetInv
    <3> QED BY <2>2, <3>1, <3>3
  <2>4. CASE DeliveryFails
    <3>1. undelivered' = undelivered \cup {Head(buffer)} /\ scores' = scores
      BY <2>4 DEF DeliveryFails
    <3> QED BY <2>2, <3>1
  <2> QED BY <1>4, <2>3, <2>4
<1> QED
  BY <1>1, <1>2, <1>3, <1>4
     DEF Next, vars, Work, Mirror, Shutdown, Deaths, Start, SkipMalformed, InsertFeature,
         InsertScore, Commit, MirrorFails, Loop, Leave, Flush, Publish

\* Scoring a record accounts for it.
LEMMA ScoreAccounts ==
  ASSUME OffsetInv, Score
  PROVE  cursor \in Accounted'
<1>1. buffer' = Append(buffer, cursor) BY DEF Score
<1>2. Elements(buffer') = Elements(buffer) \cup {cursor}
  BY <1>1, ElementsOfAppend DEF OffsetInv
<1> QED BY <1>2 DEF Accounted

LEMMA AccountInit == Init => AccountInv
BY DEF Init, PollLoop!Init, AccountInv

LEMMA AccountStep == OffsetInv /\ AccountInv /\ [Next]_vars => AccountInv'
<1> SUFFICES ASSUME OffsetInv, AccountInv, [Next]_vars PROVE AccountInv'
  OBVIOUS
<1>g. Accounted \subseteq Accounted' BY AccountedGrows
<1>o. /\ committed \in Nat /\ cursor \in Nat /\ committed <= cursor
      /\ 0 .. committed - 1 \subseteq 0 .. cursor - 1
  BY DEF OffsetInv
<1> USE DEF AccountInv, loopVars, Scoring
<1>1. CASE Loop \/ Publish \/ UNCHANGED vars
  <2>1. CASE cursor' = cursor BY <1>1, <1>g, <2>1, LoopSteps
  <2>2. CASE cursor' # cursor BY <1>1, <1>g, <1>o, <2>2, LoopSteps
  <2> QED BY <2>1, <2>2
<1>2. CASE Start
  <2>1. cursor' = committed /\ step' = "record" BY <1>2 DEF Start, PollLoop!Start, PollLoop!Resumed
  <2> QED BY <1>g, <1>o, <2>1
<1>3. CASE NextRecord /\ cursor \in Accounted'
  <2>1. cursor' = cursor + 1 /\ step' = "record" BY <1>3 DEF NextRecord, PollLoop!FinishRecord
  <2>2. 0 .. cursor' - 1 = 0 .. cursor - 1 \cup {cursor} BY <1>o, <2>1
  <2> QED BY <1>3, <1>g, <2>1, <2>2
<1>4. CASE UNCHANGED cursor /\ (step' = "record" \/ loop' = "down" \/ cursor \in Accounted')
  BY <1>4, <1>g
<1>5. CASE SkipMalformed BY <1>3, <1>5 DEF SkipMalformed, Accounted
<1>6. CASE Score BY <1>3, <1>4, <1>6, ScoreAccounts DEF Score
<1>7. CASE InsertFeature \/ InsertScore \/ Commit \/ MirrorFails
  <2>1. cursor \in Accounted'
    BY <1>7, <1>g DEF InsertFeature, InsertScore, Commit, MirrorFails, PollLoop!Handling
  <2> QED BY <1>3, <1>4, <1>7, <2>1 DEF InsertFeature, InsertScore, Commit, MirrorFails
<1>8. CASE Close BY <1>4, <1>8 DEF Close, PollLoop!Close
<1>9. CASE Deaths
  BY <1>4, <1>9 DEF Deaths, FlushTimesOut, SendTimesOut, Crash, PollLoop!Crash, PollLoop!Die
<1>10. CASE Deliver \/ DeliveryFails BY <1>10, <1>g DEF Deliver, DeliveryFails
<1>11. CASE Leave \/ Flush
  BY <1>11, <1>g DEF Leave, PollLoop!Leave, PollLoop!MayLeave, Flush
<1> QED
  BY <1>1, <1>2, <1>5, <1>6, <1>7, <1>8, <1>9, <1>10, <1>11
     DEF Next, Work, Mirror, Shutdown, Deaths

LEMMA ClassifierInvariant == Spec => [](OffsetInv /\ AccountInv)
BY OffsetInit, OffsetStep, AccountInit, AccountStep, PTL DEF Spec

\* Every record below the committed offset is malformed, has a score on the topic,
\* or has one that the producer still holds or is known to have lost.
THEOREM FramesRemembered == Spec => []NoFrameForgotten
<1>1. OffsetInv /\ AccountInv => NoFrameForgotten
  <2> SUFFICES ASSUME OffsetInv, AccountInv, NEW r \in 0 .. committed - 1 PROVE r \in Accounted
    BY DEF NoFrameForgotten, Accounted
  <2>1. r \in 0 .. cursor - 1 BY DEF OffsetInv
  <2> QED BY <2>1 DEF AccountInv
<1> QED BY <1>1, ClassifierInvariant, PTL

-----------------------------------------------------------------------------
(* The transaction and the last commit *)

\* What the open transaction holds at each step, and that only a service with a
\* connection has one.
MirrorInv ==
  /\ featureLog = scoreLog
  /\ loop = "down" \/ step \in {"record", "feature"} => open = {}
  /\ loop # "down" /\ step = "score" => open = {"feature_log"}
  /\ loop # "down" /\ step = "commit" => open = {"feature_log", "anomaly_score_log"}
  /\ pg = "none" /\ loop # "down" => step = "record"

LEMMA MirrorInit == Init => MirrorInv
BY DEF Init, PollLoop!Init, MirrorInv

LEMMA MirrorStep == OffsetInv /\ MirrorInv /\ [Next]_vars => MirrorInv'
<1> SUFFICES ASSUME OffsetInv, MirrorInv, [Next]_vars PROVE MirrorInv'
  OBVIOUS
<1> USE DEF MirrorInv, dbVars, loopVars, Scoring, PollLoop!Handling
<1>1. CASE Loop \/ Publish \/ UNCHANGED vars BY <1>1, LoopSteps
<1>2. CASE Start BY <1>2 DEF Start, PollLoop!Start
<1>3. CASE SkipMalformed
  BY <1>3 DEF SkipMalformed, NextRecord, PollLoop!FinishRecord
<1>4. CASE Score BY <1>4 DEF Score, NextRecord, PollLoop!FinishRecord
<1>5. CASE InsertFeature BY <1>5 DEF InsertFeature, AfterInsert
<1>6. CASE InsertScore BY <1>6 DEF InsertScore
<1>7. CASE Commit
  <2>1. open = {"feature_log", "anomaly_score_log"} BY <1>7 DEF Commit
  <2>2. featureLog' = scoreLog' BY <1>7, <2>1 DEF Commit, Committed
  <2> QED BY <1>7, <2>2 DEF Commit, NextRecord, PollLoop!FinishRecord
<1>8. CASE MirrorFails
  BY <1>8 DEF MirrorFails, RolledBack, NextRecord, PollLoop!FinishRecord
<1>9. CASE Close
  BY <1>9 DEF Close, PollLoop!Close, Gone
<1>10. CASE Deaths
  BY <1>10 DEF Deaths, FlushTimesOut, SendTimesOut, Crash, PollLoop!Crash, PollLoop!Die, Gone
<1>11. CASE Deliver \/ DeliveryFails BY <1>11 DEF Deliver, DeliveryFails
<1>12. CASE Leave \/ Flush
  BY <1>12 DEF Leave, PollLoop!Leave, PollLoop!MayLeave, Flush
<1> QED
  BY <1>1, <1>2, <1>3, <1>4, <1>5, <1>6, <1>7, <1>8, <1>9, <1>10, <1>11, <1>12
     DEF Next, Work, Mirror, Shutdown, Deaths

\* The two mirror tables agree, and no row waits in an open transaction while the
\* service polls or handles the next frame.
THEOREM TablesPaired == Spec => []MirrorPaired
<1>1. MirrorInv => MirrorPaired BY DEF MirrorInv, MirrorPaired
<1> QED
  BY <1>1, MirrorInit, MirrorStep, ClassifierInvariant, PTL DEF Spec

\* How far the shutdown has got: until the flush has returned nothing has been
\* committed since the loop was left, and from then on the producer holds nothing.
ExitInv ==
  loop = "ending" => \/ exit = "flush" /\ committed = leftAt
                     \/ exit = "close" /\ buffer = << >>

LEMMA ExitStep == OffsetInv /\ ExitInv /\ [Next]_vars => ExitInv'
<1> SUFFICES ASSUME OffsetInv, ExitInv, [Next]_vars PROVE ExitInv' OBVIOUS
<1> USE DEF ExitInv, loopVars, Scoring, PollLoop!Handling
<1>1. CASE Leave BY <1>1 DEF Leave, PollLoop!Leave, AfterLoop
<1>2. CASE Flush BY <1>2 DEF Flush, kafkaVars
<1>3. CASE Close \/ Deaths
  BY <1>3 DEF Close, PollLoop!Close, Deaths, FlushTimesOut, SendTimesOut, Crash, PollLoop!Crash,
              PollLoop!Die
<1>4. CASE Deliver \/ DeliveryFails
  BY <1>4 DEF Deliver, DeliveryFails, exitVars
<1>5. CASE Publish \/ UNCHANGED vars
  BY <1>5 DEF Publish, PollLoop!Publish, vars, exitVars, kafkaVars
<1>6. CASE Loop
  BY <1>6 DEF Loop, PollLoop!Poll, PollLoop!LoseMembership, PollLoop!Rejoin, PollLoop!BatchDone,
              PollLoop!Signal, exitVars, kafkaVars
<1>7. CASE Start \/ Work
  <2>1. loop' # "ending"
    BY <1>7 DEF Start, PollLoop!Start, Work, SkipMalformed, Score, Mirror, InsertFeature,
                InsertScore, Commit, MirrorFails, NextRecord, PollLoop!FinishRecord
  <2> QED BY <2>1
<1> QED BY <1>1, <1>2, <1>3, <1>4, <1>5, <1>6, <1>7 DEF Next, Shutdown, Deaths

\* However a process that has left its loop ends, the frame of each score that goes
\* down with it is read again, unless a poll had committed it before that.
THEOREM ClosingLosesNothing == Spec => NoLossByClosing
<1>1. Init => ExitInv BY DEF Init, PollLoop!Init, ExitInv
<1>2. ASSUME OffsetInv, ExitInv, [Next]_vars, loop = "ending", loop' = "down",
             NEW r \in Elements(buffer)
      PROVE  r < leftAt \/ r >= committed'
  <2> USE <1>2 DEF loopVars, Scoring, PollLoop!Handling
  <2>1. r \in Nat BY DEF OffsetInv, Elements
  <2>2. exit = "flush" /\ committed = leftAt
    <3>1. Elements(<< >>) = {} BY DEF Elements
    <3> QED BY <3>1 DEF ExitInv
  <2>3. CASE Deaths
    BY <2>1, <2>2, <2>3 DEF Deaths, FlushTimesOut, SendTimesOut, Crash, PollLoop!Crash,
                            PollLoop!Die, OffsetInv
  <2>4. ~Close BY <2>2 DEF Close
  <2>5. ~Start /\ ~Work
    BY DEF Start, PollLoop!Start, Work, SkipMalformed, Score, Mirror, InsertFeature, InsertScore,
           Commit, MirrorFails
  <2>6. ~Loop /\ ~Leave /\ ~Publish
    BY DEF Loop, PollLoop!Poll, PollLoop!LoseMembership, PollLoop!Rejoin, PollLoop!BatchDone,
           PollLoop!Signal, Leave, PollLoop!Leave, Publish, PollLoop!Publish
  <2>7. ~Flush /\ ~Deliver /\ ~DeliveryFails /\ ~UNCHANGED vars
    BY DEF Flush, Deliver, DeliveryFails, vars
  <2> QED BY <2>3, <2>4, <2>5, <2>6, <2>7 DEF Next, Shutdown, Deaths
<1>3. OffsetInv /\ ExitInv /\ [Next]_vars =>
        (loop = "ending" /\ loop' = "down" =>
           \A r \in Elements(buffer) : r < leftAt \/ r >= committed')
  BY <1>2
<1> QED BY <1>1, <1>3, ExitStep, ClassifierInvariant, PTL DEF Spec, NoLossByClosing

-----------------------------------------------------------------------------
(* Types *)

\* What OffsetInv says nothing about.
GroupTypes ==
  /\ end <= MaxRecords
  /\ stop \in BOOLEAN /\ member \in BOOLEAN
  /\ deaths \in 0 .. MaxDeaths
  /\ handled \in SUBSET Nat

LEMMA LoopTypes == OffsetInv /\ GroupTypes => PollLoop!TypeOK
BY ClassifierAssumption DEF OffsetInv, GroupTypes, PollLoop!TypeOK

LEMMA GroupStep == OffsetInv /\ GroupTypes /\ [Next]_vars => GroupTypes'
<1> SUFFICES ASSUME OffsetInv, GroupTypes, [Next]_vars PROVE GroupTypes'
  OBVIOUS
<1> USE ClassifierAssumption DEF OffsetInv, GroupTypes, loopVars
<1>1. CASE UNCHANGED loopVars BY <1>1
<1>2. CASE Publish BY <1>2 DEF Publish, PollLoop!Publish
<1>d. deaths < MaxDeaths /\ deaths' = deaths + 1 => deaths' \in 0 .. MaxDeaths OBVIOUS
<1>3. CASE Loop
  <2>1. /\ UNCHANGED <<end, handled>> /\ stop' \in {stop, TRUE} /\ member' \in BOOLEAN
        /\ deaths' = deaths \/ (deaths < MaxDeaths /\ deaths' = deaths + 1)
    BY <1>3 DEF Loop, PollLoop!Poll, PollLoop!LoseMembership, PollLoop!Rejoin,
                PollLoop!BatchDone, PollLoop!Signal
  <2> QED BY <1>d, <2>1
<1>4. CASE Start BY <1>4 DEF Start, PollLoop!Start
<1>5. CASE NextRecord BY <1>5 DEF NextRecord, PollLoop!FinishRecord
<1>6. CASE Close BY <1>6 DEF Close, PollLoop!Close
<1>7. CASE Deaths
  <2>1. /\ UNCHANGED <<end, stop, member, handled>>
        /\ deaths' = deaths \/ (deaths < MaxDeaths /\ deaths' = deaths + 1)
    BY <1>7 DEF Deaths, FlushTimesOut, SendTimesOut, Crash, PollLoop!Crash, PollLoop!Die
  <2> QED BY <1>d, <2>1
<1>8. CASE SkipMalformed \/ Score \/ Mirror \/ Flush \/ Deliver \/ DeliveryFails
           \/ UNCHANGED vars
  BY <1>1, <1>5, <1>8 DEF SkipMalformed, Score, Mirror, InsertFeature, InsertScore, Commit,
                          MirrorFails, Flush, Deliver, DeliveryFails, vars
<1>9. CASE Leave BY <1>9 DEF Leave, PollLoop!Leave
<1> QED BY <1>2, <1>3, <1>4, <1>6, <1>7, <1>8, <1>9 DEF Next, Work, Shutdown, Deaths

\* The variables of the classifier itself.
ServiceTypes ==
  /\ exit \in {"none", "flush", "close"} /\ leftAt \in 0 .. MaxRecords
  /\ buffer \in Seq(Records) /\ Len(buffer) <= BufferMax
  /\ scores \in Seq(Records)
  /\ undelivered \subseteq Records
  /\ pg \in {"none", "up", "broken"}
  /\ open \subseteq {"feature_log", "anomaly_score_log"}
  /\ featureLog \in [Records -> Nat] /\ scoreLog \in [Records -> Nat]

LEMMA ServiceStep == OffsetInv /\ GroupTypes /\ ServiceTypes /\ [Next]_vars => ServiceTypes'
<1> SUFFICES ASSUME OffsetInv, GroupTypes, ServiceTypes, [Next]_vars PROVE ServiceTypes'
  OBVIOUS
<1>c. PollLoop!Handling => cursor \in Records
  BY ClassifierAssumption DEF PollLoop!Handling, OffsetInv, GroupTypes, Records
<1> USE DEF ServiceTypes, exitVars, kafkaVars, dbVars
<1>1. CASE Loop \/ Publish \/ UNCHANGED vars BY <1>1, LoopSteps
<1>2. CASE Start \/ SkipMalformed BY <1>2 DEF Start, SkipMalformed, NextRecord
<1>3. CASE Score
  <2>1. /\ cursor \in Records /\ Len(buffer) < BufferMax /\ buffer' = Append(buffer, cursor)
        /\ UNCHANGED <<exitVars, scores, undelivered, pg, dbVars>>
    BY <1>c, <1>3 DEF Score, Scoring, HasRoom, NextRecord
  <2>2. buffer' \in Seq(Records) /\ Len(buffer') = Len(buffer) + 1 BY <2>1
  <2>3. Len(buffer') <= BufferMax BY <2>1, <2>2, ClassifierAssumption
  <2> QED BY <2>1, <2>2, <2>3
<1>4. CASE InsertFeature BY <1>4 DEF InsertFeature, AfterInsert
<1>5. CASE InsertScore BY <1>5 DEF InsertScore
<1>6. CASE Commit
  <2>1. /\ cursor \in Records /\ UNCHANGED <<exitVars, kafkaVars>>
        /\ open' = {} /\ pg' \in {"up", "broken"}
    BY <1>c, <1>6 DEF Commit, Scoring, NextRecord
  <2>2. featureLog' \in [Records -> Nat] /\ scoreLog' \in [Records -> Nat]
    BY <1>6, <2>1 DEF Commit, Committed
  <2> QED BY <2>1, <2>2
<1>7. CASE MirrorFails BY <1>7 DEF MirrorFails, RolledBack, NextRecord
<1>8. CASE Close \/ Deaths
  <2>1. Gone BY <1>8 DEF Close, Deaths, FlushTimesOut, SendTimesOut, Crash
  <2>2. Elements(buffer) \subseteq Records BY DEF Elements
  <2>3. << >> \in Seq(Records) /\ Len(<< >>) = 0 OBVIOUS
  <2> QED BY <2>1, <2>2, <2>3, ClassifierAssumption DEF Gone
<1>9. CASE Deliver \/ DeliveryFails
  <2>1. buffer # << >> /\ buffer' = Tail(buffer) BY <1>9 DEF Deliver, DeliveryFails
  <2>2. Head(buffer) \in Records /\ buffer' \in Seq(Records) /\ Len(buffer') = Len(buffer) - 1
    BY <2>1
  <2>3. Len(buffer') <= BufferMax BY <2>2, ClassifierAssumption
  <2>4. /\ scores' \in {scores, Append(scores, Head(buffer))}
        /\ undelivered' \subseteq undelivered \cup {Head(buffer)}
        /\ UNCHANGED <<exitVars, pg, dbVars>>
    BY <1>9 DEF Deliver, DeliveryFails
  <2>5. scores' \in Seq(Records)
    <3>1. Append(scores, Head(buffer)) \in Seq(Records) BY <2>2
    <3> QED BY <2>4, <3>1
  <2> QED BY <2>2, <2>3, <2>4, <2>5
<1>10. CASE Leave
  <2>1. committed \in 0 .. MaxRecords
    BY ClassifierAssumption DEF OffsetInv, GroupTypes
  <2> QED BY <1>10, <2>1 DEF Leave, AfterLoop
<1>11. CASE Flush BY <1>11 DEF Flush
<1> QED
  BY <1>1, <1>2, <1>3, <1>4, <1>5, <1>6, <1>7, <1>8, <1>9, <1>10, <1>11
     DEF Next, Work, Mirror, Shutdown, Deaths

\* The variables have their types: offsets within the topic, no more scores in
\* the producer than it buffers, and rows and scores only of records there are.
THEOREM TypesHold == Spec => []TypeOK
<1>1. Init => GroupTypes /\ ServiceTypes
  <2>1. << >> \in Seq(Records) /\ Len(<< >>) = 0 OBVIOUS
  <2> SUFFICES ASSUME Init PROVE GroupTypes /\ ServiceTypes OBVIOUS
  <2>2. GroupTypes
    <3>1. end = 0 /\ stop = FALSE /\ member = FALSE /\ deaths = 0 /\ handled = {}
      BY DEF Init, PollLoop!Init
    <3>2. 0 <= MaxRecords /\ 0 \in 0 .. MaxDeaths BY ClassifierAssumption
    <3> QED BY <3>1, <3>2 DEF GroupTypes
  <2>3. /\ buffer \in Seq(Records) /\ Len(buffer) <= BufferMax /\ scores \in Seq(Records)
        /\ leftAt \in 0 .. MaxRecords
    BY <2>1, ClassifierAssumption DEF Init
  <2> QED BY <2>2, <2>3 DEF Init, ServiceTypes
<1>2. OffsetInv /\ GroupTypes /\ ServiceTypes => TypeOK
  BY LoopTypes DEF OffsetInv, ServiceTypes, TypeOK
<1> QED BY <1>1, <1>2, OffsetInit, OffsetStep, GroupStep, ServiceStep, PTL DEF Spec

-----------------------------------------------------------------------------
(* The classifier as a reader *)

\* The frames dealt with: scored, or found malformed.
Dealt == Elements(scores) \cup Elements(buffer) \cup undelivered \cup (Malformed \cap handled)

\* The frame the classifier deals with next.  A frame is dealt with when its
\* score is sent; the mirror comes after.
Upcoming == IF loop # "down" /\ step # "record" THEN cursor + 1 ELSE PollLoop!Resume

Reader == INSTANCE AtLeastOnce WITH next <- Upcoming, handled <- Dealt

\* What is being mirrored is no malformed record.
HandInv == loop # "down" /\ step # "record" => cursor \notin Malformed

LEMMA HandStep == OffsetInv /\ HandInv /\ [Next]_vars => HandInv'
<1> SUFFICES ASSUME OffsetInv, HandInv, [Next]_vars PROVE HandInv' OBVIOUS
<1> USE DEF HandInv, loopVars, Scoring
<1>1. CASE Loop \/ Publish \/ UNCHANGED vars BY <1>1, LoopSteps
<1>2. CASE Start BY <1>2 DEF Start
<1>3. CASE NextRecord BY <1>3 DEF NextRecord
<1>4. CASE SkipMalformed \/ Commit \/ MirrorFails
  BY <1>3, <1>4 DEF SkipMalformed, Commit, MirrorFails
<1>5. CASE Score BY <1>3, <1>5 DEF Score
<1>6. CASE InsertFeature \/ InsertScore
  BY <1>6 DEF InsertFeature, InsertScore, PollLoop!Handling
<1>7. CASE Close \/ Deaths
  BY <1>7 DEF Close, PollLoop!Close, Deaths, FlushTimesOut, SendTimesOut, Crash, PollLoop!Crash,
              PollLoop!Die
<1>8. CASE Deliver \/ DeliveryFails \/ Flush BY <1>8 DEF Deliver, DeliveryFails, Flush
<1>9. CASE Leave BY <1>9 DEF Leave, PollLoop!Leave, PollLoop!MayLeave
<1> QED
  BY <1>1, <1>2, <1>4, <1>5, <1>6, <1>7, <1>8, <1>9 DEF Next, Work, Mirror, Shutdown, Deaths

\* The group and the topic rewind the reader, commit, or publish.
LEMMA ReadingSteps ==
  ASSUME OffsetInv, Loop \/ Publish \/ UNCHANGED vars
  PROVE  [Reader!Next]_(Reader!vars)
<1>1. UNCHANGED <<step, buffer, scores, undelivered>> BY LoopSteps
<1>2. CASE handled' = handled
  <2>1. Dealt' = Dealt BY <1>1, <1>2 DEF Dealt
  <2> USE DEF OffsetInv, Reader!Next, Reader!vars, Upcoming, PollLoop!Resume
  <2>2. CASE UNCHANGED vars BY <2>1, <2>2 DEF vars, loopVars
  <2>3. CASE Publish BY <1>1, <2>1, <2>3 DEF Publish, PollLoop!Publish, Reader!Publish
  <2>4. CASE Loop
    <3>1. CASE PollLoop!Poll
      <4>1. /\ committed' \in {committed, cursor} /\ step = "record"
            /\ loop = "poll" /\ loop' = "handle" /\ UNCHANGED <<end, cursor>>
        BY <3>1 DEF PollLoop!Poll, PollLoop!AutoCommitted
      <4>2. Upcoming = cursor /\ Upcoming' = cursor BY <1>1, <4>1
      <4> QED BY <2>1, <4>1, <4>2 DEF Reader!Commit
    <3>2. CASE PollLoop!Rejoin
      <4>1. /\ step = "record" /\ loop = "poll" /\ loop' = loop /\ cursor' = committed
            /\ UNCHANGED <<end, committed>>
        BY <3>2 DEF PollLoop!Rejoin, PollLoop!Resumed
      <4>2. Upcoming' = committed BY <1>1, <4>1
      <4> QED BY <2>1, <4>1, <4>2 DEF Reader!Rewind
    <3>3. CASE PollLoop!LoseMembership \/ PollLoop!BatchDone \/ PollLoop!Signal
      <4>1. UNCHANGED <<end, committed, cursor>> /\ loop # "down" /\ loop' # "down"
        BY <3>3 DEF PollLoop!LoseMembership, PollLoop!BatchDone, PollLoop!Signal
      <4> QED BY <1>1, <2>1, <4>1
    <3> QED BY <2>4, <3>1, <3>2, <3>3 DEF Loop
  <2> QED BY <2>2, <2>3, <2>4
<1>3. handled' = handled
  BY DEF Loop, Publish, vars, loopVars, PollLoop!Publish, PollLoop!Poll, PollLoop!LoseMembership,
         PollLoop!Rejoin, PollLoop!BatchDone, PollLoop!Signal
<1> QED BY <1>2, <1>3

LEMMA ReaderStep ==
  ASSUME OffsetInv, HandInv, [Next]_vars
  PROVE  [Reader!Next]_(Reader!vars)
<1>1. CASE Loop \/ Publish \/ UNCHANGED vars BY <1>1, ReadingSteps
<1> USE DEF OffsetInv, HandInv, Reader!Next, Reader!vars, Upcoming, PollLoop!Resume, Scoring,
            PollLoop!Handling
<1>2. CASE Start
  <2>1. /\ loop = "down" /\ loop' = "poll" /\ step' = "record" /\ cursor' = committed
        /\ UNCHANGED <<end, committed, handled, buffer, scores, undelivered>>
    BY <1>2 DEF Start, PollLoop!Start, PollLoop!Resumed, kafkaVars
  <2>2. Dealt' = Dealt BY <2>1 DEF Dealt
  <2> QED BY <2>1, <2>2
<1>3. CASE SkipMalformed
  <2>1. /\ step = "record" /\ step' = "record" /\ loop = "handle" /\ cursor < end
        /\ cursor' = cursor + 1 /\ handled' = handled \cup {cursor} /\ cursor \in Malformed
        /\ UNCHANGED <<end, committed, loop, buffer, scores, undelivered>>
    BY <1>3 DEF SkipMalformed, NextRecord, PollLoop!FinishRecord, kafkaVars
  <2>2. Dealt' = Dealt \cup {cursor} BY <2>1 DEF Dealt
  <2> QED BY <2>1, <2>2 DEF Reader!Handle
<1>4. CASE Score
  <2>1. /\ step = "record" /\ loop = "handle" /\ cursor < end /\ cursor \notin Malformed
        /\ buffer' = Append(buffer, cursor) /\ UNCHANGED <<scores, undelivered>>
    BY <1>4 DEF Score
  <2>2. /\ UNCHANGED <<end, committed, loop>>
        /\ \/ step' = "record" /\ cursor' = cursor + 1 /\ handled' = handled \cup {cursor}
           \/ step' = "feature" /\ cursor' = cursor /\ handled' = handled
    BY <1>4 DEF Score, NextRecord, PollLoop!FinishRecord, loopVars
  <2>3. Elements(buffer') = Elements(buffer) \cup {cursor} BY <2>1, ElementsOfAppend
  <2>4. Dealt' = Dealt \cup {cursor} BY <2>1, <2>2, <2>3 DEF Dealt
  <2>5. Upcoming = cursor /\ Upcoming' = cursor + 1 BY <2>1, <2>2
  <2> QED BY <2>1, <2>2, <2>4, <2>5 DEF Reader!Handle
<1>5. CASE InsertFeature \/ InsertScore
  <2>1. /\ step # "record" /\ step' # "record" /\ loop = "handle"
        /\ UNCHANGED <<end, committed, cursor, loop, handled, buffer, scores, undelivered>>
    BY <1>5 DEF InsertFeature, InsertScore, loopVars, kafkaVars
  <2>2. Dealt' = Dealt BY <2>1 DEF Dealt
  <2> QED BY <2>1, <2>2
<1>6. CASE Commit \/ MirrorFails
  <2>1. /\ step # "record" /\ step' = "record" /\ loop = "handle"
        /\ cursor' = cursor + 1 /\ handled' = handled \cup {cursor}
        /\ UNCHANGED <<end, committed, loop, buffer, scores, undelivered>>
    BY <1>6 DEF Commit, MirrorFails, NextRecord, PollLoop!FinishRecord, kafkaVars
  <2>2. Dealt' = Dealt BY <2>1 DEF Dealt
  <2> QED BY <2>1, <2>2
<1>7. CASE Close
  <2>1. /\ loop = "ending" /\ loop' = "down" /\ step = "record"
        /\ committed' \in {committed, cursor}
        /\ UNCHANGED <<end, cursor, handled, scores>>
        /\ buffer' = << >> /\ undelivered' = undelivered \cup Elements(buffer)
    BY <1>7 DEF Close, PollLoop!Close, Gone
  <2>e. Elements(<< >>) = {} BY DEF Elements
  <2>2. Dealt' = Dealt /\ Upcoming = cursor /\ Upcoming' = committed'
    BY <2>1, <2>e DEF Dealt
  <2>3. CASE committed' = committed BY <2>1, <2>2, <2>3 DEF Reader!Rewind
  <2>4. CASE committed' = cursor BY <2>1, <2>2, <2>4 DEF Reader!Commit
  <2> QED BY <2>1, <2>3, <2>4
<1>8. CASE Deaths
  <2>1. PollLoop!Die /\ Gone
    BY <1>8 DEF Deaths, FlushTimesOut, SendTimesOut, Crash, PollLoop!Crash
  <2>2. /\ loop' = "down" /\ UNCHANGED <<end, committed, handled>>
        /\ buffer' = << >> /\ scores' = scores /\ undelivered' = undelivered \cup Elements(buffer)
    BY <2>1 DEF PollLoop!Die, Gone
  <2>3. Elements(<< >>) = {} BY DEF Elements
  <2>4. Dealt' = Dealt BY <2>2, <2>3 DEF Dealt
  <2> QED BY <2>2, <2>4 DEF Reader!Rewind
<1>9. CASE Deliver \/ DeliveryFails
  <2>1. /\ buffer # << >> /\ buffer' = Tail(buffer)
        /\ UNCHANGED <<end, committed, cursor, loop, handled, step>>
    BY <1>9 DEF Deliver, DeliveryFails, loopVars
  <2>2. Elements(buffer) = Elements(buffer') \cup {Head(buffer)} BY <2>1, ElementsOfRest
  <2>3. Elements(scores') \cup undelivered' = Elements(scores) \cup undelivered \cup {Head(buffer)}
    <3>1. CASE Deliver
      <4>1. Head(buffer) \in Nat BY <2>1
      <4>2. Elements(Append(scores, Head(buffer))) = Elements(scores) \cup {Head(buffer)}
        BY <4>1, ElementsOfAppend
      <4> QED BY <3>1, <4>2 DEF Deliver
    <3>2. CASE DeliveryFails BY <3>2 DEF DeliveryFails
    <3> QED BY <1>9, <3>1, <3>2
  <2>4. Dealt' = Dealt BY <2>1, <2>2, <2>3 DEF Dealt
  <2> QED BY <2>1, <2>4
<1>10. CASE Leave \/ Flush
  <2>1. /\ loop # "down" /\ loop' # "down"
        /\ UNCHANGED <<end, committed, cursor, handled, step, buffer, scores, undelivered>>
    BY <1>10 DEF Leave, PollLoop!Leave, PollLoop!MayLeave, Flush, loopVars, kafkaVars
  <2>2. Dealt' = Dealt BY <2>1 DEF Dealt
  <2> QED BY <2>1, <2>2
<1> QED
  BY <1>1, <1>2, <1>3, <1>4, <1>5, <1>6, <1>7, <1>8, <1>9, <1>10
     DEF Next, Work, Mirror, Shutdown, Deaths

(***************************************************************************)
(* With its producer, its transactions and all its ways to die, the        *)
(* classifier is an at-least-once reader of the frames: a frame is dealt   *)
(* with when its score is sent or its payload rejected, what the producer  *)
(* and the mirror do next changes nothing about that, and every commit,    *)
(* the last one included, is where the reader is.                          *)
(***************************************************************************)
THEOREM ClassifierImplementsReader == Spec => Reader!Spec
<1>1. Init => HandInv BY DEF Init, HandInv
<1>2. Init => Reader!Init
  <2>1. Elements(<< >>) = {} BY DEF Elements
  <2> QED BY <2>1 DEF Init, PollLoop!Init, Reader!Init, Upcoming, PollLoop!Resume, Dealt
<1> QED
  BY <1>1, <1>2, HandStep, ReaderStep, ClassifierInvariant, PTL DEF Spec, Reader!Spec
=============================================================================
