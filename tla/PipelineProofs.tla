---------------------------- MODULE PipelineProofs ----------------------------
(***************************************************************************)
(* The poll loop is an at-least-once reader of its topic, for any length   *)
(* of topic, any batch size and any number of crashes; and the pipeline of *)
(* classifier and agent service neither forgets an alert nor multiplies    *)
(* it, for any number of frames and of restarts of either.                 *)
(***************************************************************************)
EXTENDS Pipeline, FiniteSetTheorems, TLAPS

-----------------------------------------------------------------------------
(* The poll loop *)

\* Everything below the record in hand, or below the committed offset while
\* the consumer is down, has been handled in this life or an earlier one.
HandledBelow ==
  /\ 0 .. committed - 1 \subseteq handled
  /\ loop # "down" => 0 .. cursor - 1 \subseteq handled

LoopInv == TypeOK /\ (loop # "down" => OffsetsInOrder) /\ committed <= end /\ HandledBelow

LEMMA LoopInit == Init => LoopInv
<1> SUFFICES ASSUME Init PROVE LoopInv
  OBVIOUS
<1>1. stop \in BOOLEAN /\ member \in BOOLEAN BY Zenon DEF Init
<1>2. loop = "down" /\ end = 0 /\ committed = 0 /\ position = 0 /\ cursor = 0 /\ deaths = 0
      /\ handled = {}
  BY DEF Init
<1> QED BY <1>1, <1>2, PollLoopAssumption DEF LoopInv, TypeOK, HandledBelow

LEMMA LoopStep == LoopInv /\ [Next]_vars => LoopInv'
<1> SUFFICES ASSUME LoopInv, [Next]_vars PROVE LoopInv'
  OBVIOUS
<1> USE PollLoopAssumption DEF LoopInv, TypeOK, OffsetsInOrder, HandledBelow
<1>1. CASE UNCHANGED vars BY <1>1 DEF vars
<1>2. CASE Publish BY <1>2 DEF Publish
<1>3. CASE Start
  <2>1. stop' \in BOOLEAN /\ member' \in BOOLEAN BY <1>3, Zenon DEF Start
  <2>2. /\ loop' = "poll" /\ position' = committed /\ cursor' = committed
        /\ UNCHANGED <<end, committed, deaths, handled>>
    BY <1>3 DEF Start, Resumed
  <2> QED BY <2>1, <2>2
<1>4. CASE Poll
  <2>1. /\ loop = "poll" /\ loop' = "handle" /\ cursor = position
        /\ position' \in position .. position + BatchMax /\ position' <= end
        /\ committed' \in {committed, position}
        /\ UNCHANGED <<end, cursor, stop, member, deaths, handled>>
    BY <1>4 DEF Poll, BatchEnds, AutoCommitted
  <2>2. TypeOK' BY <2>1
  <2>3. OffsetsInOrder' /\ committed' <= end' BY <2>1
  <2>4. HandledBelow' BY <2>1
  <2> QED BY <2>2, <2>3, <2>4
<1>5. CASE LoseMembership
  <2>1. stop' \in BOOLEAN /\ member' \in BOOLEAN BY <1>5, Zenon DEF LoseMembership
  <2>2. /\ deaths < MaxDeaths /\ deaths' = deaths + 1
        /\ UNCHANGED <<end, committed, position, cursor, loop, handled>>
    BY <1>5 DEF LoseMembership
  <2> QED BY <2>1, <2>2
<1>6. CASE Rejoin
  <2>1. stop' \in BOOLEAN /\ member' \in BOOLEAN BY <1>6, Zenon DEF Rejoin
  <2>2. /\ loop = "poll" /\ position' = committed /\ cursor' = committed
        /\ UNCHANGED <<end, committed, loop, deaths, handled>>
    BY <1>6 DEF Rejoin, Resumed
  <2> QED BY <2>1, <2>2
<1>7. CASE FinishRecord BY <1>7 DEF FinishRecord, Handling
<1>8. CASE BatchDone BY <1>8 DEF BatchDone
<1>9. CASE Signal
  <2>1. stop' \in BOOLEAN /\ member' \in BOOLEAN BY <1>9, Zenon DEF Signal
  <2>2. /\ deaths < MaxDeaths /\ deaths' = deaths + 1
        /\ UNCHANGED <<end, committed, position, cursor, loop, handled>>
    BY <1>9 DEF Signal
  <2> QED BY <2>1, <2>2
<1>10. CASE Leave BY <1>10 DEF Leave, MayLeave
<1>11. CASE Close BY <1>11 DEF Close
<1>12. CASE Crash BY <1>12 DEF Crash, Die
<1>13. CASE Die /\ UNCHANGED deaths BY <1>13 DEF Die
<1> QED
  BY <1>1, <1>2, <1>3, <1>4, <1>5, <1>6, <1>7, <1>8, <1>9, <1>10, <1>11, <1>12, <1>13 DEF Next

LEMMA LoopInvariant == Spec => []LoopInv
BY LoopInit, LoopStep, PTL DEF Spec

\* The committed offset never passes a record that was not handled.
THEOREM CommittedWereHandled == Spec => []NothingSkipped
<1>1. LoopInv => NothingSkipped BY DEF LoopInv, HandledBelow, NothingSkipped, Reader!NothingSkipped
<1> QED BY <1>1, LoopInvariant, PTL

LEMMA ReaderStep ==
  ASSUME LoopInv, [Next]_vars
  PROVE  [Reader!Next]_(Reader!vars)
<1> USE PollLoopAssumption
    DEF LoopInv, TypeOK, OffsetsInOrder, Reader!Next, Reader!vars, Resume
<1>1. CASE UNCHANGED vars BY <1>1 DEF vars
<1>2. CASE Publish BY <1>2 DEF Publish, Reader!Publish
<1>3. CASE Start BY <1>3 DEF Start, Resumed
<1>4. CASE Poll
  <2>1. committed' = committed \/ committed' = cursor BY <1>4 DEF Poll, AutoCommitted
  <2> QED BY <1>4, <2>1 DEF Poll, Reader!Commit
<1>5. CASE LoseMembership BY <1>5 DEF LoseMembership
<1>6. CASE Rejoin BY <1>6 DEF Rejoin, Resumed, Reader!Rewind
<1>7. CASE FinishRecord BY <1>7 DEF FinishRecord, Handling, Reader!Handle
<1>8. CASE BatchDone BY <1>8 DEF BatchDone
<1>9. CASE Signal BY <1>9 DEF Signal
<1>10. CASE Leave BY <1>10 DEF Leave, MayLeave
<1>11. CASE Close
  <2>1. committed' = committed \/ committed' = cursor BY <1>11 DEF Close
  <2>2. CASE committed' = committed BY <1>11, <2>2 DEF Close, Reader!Rewind
  <2>3. CASE committed' = cursor BY <1>11, <2>3 DEF Close, Reader!Commit
  <2> QED BY <2>1, <2>2, <2>3
<1>12. CASE Crash BY <1>12 DEF Crash, Die, Reader!Rewind
<1>13. CASE Die /\ UNCHANGED deaths BY <1>13 DEF Die, Reader!Rewind
<1> QED
  BY <1>1, <1>2, <1>3, <1>4, <1>5, <1>6, <1>7, <1>8, <1>9, <1>10, <1>11, <1>12, <1>13 DEF Next

\* Every step of the poll loop is a step of an at-least-once reader.
THEOREM LoopImplementsReader == Spec => ImplementsReader
<1>1. Init => Reader!Init BY DEF Init, Reader!Init, Resume
<1>2. LoopInv /\ [Next]_vars => [Reader!Next]_(Reader!vars) BY ReaderStep
<1> QED BY <1>1, <1>2, LoopInvariant, PTL DEF Spec, ImplementsReader, Reader!Spec

\* The offsets stay within the topic, and the lost memberships and signals within
\* their bound.
THEOREM LoopTypesHold == Spec => []TypeOK
<1>1. LoopInv => TypeOK BY DEF LoopInv
<1> QED BY <1>1, LoopInvariant, PTL

-----------------------------------------------------------------------------
(* Sequences and counts *)

LEMMA ElementsOfAppend ==
  ASSUME NEW S, NEW s \in Seq(S), NEW e \in S
  PROVE  Elements(Append(s, e)) = Elements(s) \cup {e}
<1> DEFINE t == Append(s, e)
<1>1. /\ DOMAIN s = 1 .. Len(s) /\ DOMAIN t = 1 .. Len(s) + 1 /\ Len(s) \in Nat
      /\ t[Len(s) + 1] = e /\ \A i \in 1 .. Len(s) : t[i] = s[i]
  OBVIOUS
<1>2. \A i \in DOMAIN t : i \in DOMAIN s \/ i = Len(s) + 1 BY <1>1
<1>3. DOMAIN s \subseteq DOMAIN t /\ Len(s) + 1 \in DOMAIN t BY <1>1
<1> HIDE DEF t
<1> QED BY <1>1, <1>2, <1>3 DEF Elements, t

LEMMA ElementsOfRest ==
  ASSUME NEW S, NEW s \in Seq(S), s # << >>
  PROVE  Elements(s) \subseteq Elements(Tail(s)) \cup {Head(s)}
<1> SUFFICES ASSUME NEW i \in 1 .. Len(s) PROVE s[i] \in Elements(Tail(s)) \cup {Head(s)}
  BY DEF Elements
<1>1. CASE i = 1 BY <1>1
<1>2. CASE i # 1
  <2>1. i - 1 \in DOMAIN Tail(s) /\ Tail(s)[i - 1] = s[i] BY <1>2
  <2>2. s[i] \in Elements(Tail(s)) BY <2>1 DEF Elements
  <2> QED BY <2>2
<1> QED BY <1>1, <1>2

\* Where a frame stands in a sequence of scores.
Copies(s, f) == {i \in DOMAIN s : s[i] = f}

LEMMA CopiesFinite ==
  ASSUME NEW S, NEW s \in Seq(S), NEW f
  PROVE  IsFiniteSet(Copies(s, f)) /\ Cardinality(Copies(s, f)) \in Nat
<1>1. IsFiniteSet(1 .. Len(s)) BY FS_Interval
<1>2. Copies(s, f) \in SUBSET (1 .. Len(s)) BY DEF Copies
<1> QED BY <1>1, <1>2, FS_Subset, FS_CardinalityType

LEMMA CopiesOfAppend ==
  ASSUME NEW S, NEW s \in Seq(S), NEW e \in S, NEW f
  PROVE  /\ e = f => Cardinality(Copies(Append(s, e), f)) = Cardinality(Copies(s, f)) + 1
         /\ e # f => Cardinality(Copies(Append(s, e), f)) = Cardinality(Copies(s, f))
<1>1. IsFiniteSet(Copies(s, f)) /\ Cardinality(Copies(s, f)) \in Nat BY CopiesFinite
<1>2. Len(s) + 1 \notin Copies(s, f) BY DEF Copies
<1>3. CASE e = f
  <2>1. Copies(Append(s, e), f) = Copies(s, f) \cup {Len(s) + 1} BY <1>3 DEF Copies
  <2> QED BY <1>1, <1>2, <1>3, <2>1, FS_AddElement
<1>4. CASE e # f
  <2>1. Copies(Append(s, e), f) = Copies(s, f) BY <1>4 DEF Copies
  <2> QED BY <1>1, <1>4, <2>1
<1> QED BY <1>3, <1>4

LEMMA CopiesOfRest ==
  ASSUME NEW S, NEW s \in Seq(S), s # << >>, NEW f
  PROVE  /\ Head(s) = f => Cardinality(Copies(s, f)) = Cardinality(Copies(Tail(s), f)) + 1
         /\ Head(s) # f => Cardinality(Copies(s, f)) = Cardinality(Copies(Tail(s), f))
<1> DEFINE A == Copies(Tail(s), f)
           B == Copies(s, f) \ {1}
           g == [i \in A |-> i + 1]
<1>1. /\ Tail(s) \in Seq(S) /\ Len(Tail(s)) = Len(s) - 1 /\ Len(s) \in Nat \ {0}
      /\ \A i \in 1 .. Len(s) - 1 : Tail(s)[i] = s[i + 1]
  OBVIOUS
<1>2. A = {i \in 1 .. Len(s) - 1 : s[i + 1] = f} BY <1>1 DEF Copies
<1>3. B = {i \in 2 .. Len(s) : s[i] = f} BY <1>1 DEF Copies
<1>4. g \in Bijection(A, B)
  <2>1. \A i \in A : i + 1 \in B BY <1>1, <1>2, <1>3
  <2>2. \A j \in B : j - 1 \in A /\ j = (j - 1) + 1 BY <1>1, <1>2, <1>3
  <2>3. \A i, j \in A : i + 1 = j + 1 => i = j BY <1>2
  <2> HIDE DEF A, B
  <2>4. g \in [A -> B] BY <2>1
  <2>5. \A i, j \in A : g[i] = g[j] => i = j BY <2>3
  <2>6. \A j \in B : \E i \in A : g[i] = j BY <2>2
  <2> QED BY <2>4, <2>5, <2>6 DEF Bijection, Injection, Surjection, IsInjective
<1>5. IsFiniteSet(A) /\ Cardinality(A) \in Nat BY <1>1, CopiesFinite
<1>6. IsFiniteSet(B) /\ Cardinality(B) = Cardinality(A)
  <2> HIDE DEF A, B
  <2>1. ExistsBijection(A, B) BY <1>4 DEF ExistsBijection
  <2> QED BY <1>5, <2>1, FS_Bijection
<1>7. CASE Head(s) = f
  <2>1. 1 \in Copies(s, f) BY <1>1, <1>7 DEF Copies
  <2>2. Copies(s, f) = B \cup {1} /\ 1 \notin B BY <2>1
  <2> HIDE DEF A, B
  <2>3. Cardinality(Copies(s, f)) = Cardinality(B) + 1 BY <1>6, <2>2, FS_AddElement
  <2> QED BY <1>5, <1>6, <1>7, <2>3 DEF A
<1>8. CASE Head(s) # f
  <2>1. 1 \notin Copies(s, f) BY <1>1, <1>8 DEF Copies
  <2>2. Copies(s, f) = B BY <2>1
  <2> QED BY <1>5, <1>6, <1>8, <2>2
<1> QED BY <1>7, <1>8

LEMMA Product ==
  ASSUME NEW a \in Nat, NEW b \in Nat
  PROVE  a * b \in Nat /\ (a + 1) * b = a * b + b /\ b * a = a * b
OBVIOUS

LEMMA ProductGrows ==
  ASSUME NEW a \in Nat, NEW b \in Nat, NEW c \in Nat, b <= c
  PROVE  a * b <= a * c
<1>1. c - b \in Nat /\ a * c = a * b + a * (c - b) OBVIOUS
<1>2. a * (c - b) \in Nat /\ a * b \in Nat BY <1>1
<1> QED BY <1>1, <1>2

-----------------------------------------------------------------------------
(* The pipeline *)

PipeType ==
  /\ frames \in Nat /\ next \in Nat /\ frameCommit \in Nat /\ frameCommit <= next
  /\ rewinds \in Nat
  /\ buffer \in Seq(Nat) /\ scores \in Seq(Nat) /\ Len(scores) = end
  /\ reports \in [Alerts -> Nat]
  /\ handled \subseteq 0 .. end - 1 /\ cursor <= end

\* Every frame before the classifier's position was scored; the score of an
\* alert is lost, in the producer or on the topic.
Scored ==
  /\ 0 .. next - 1 \subseteq scored
  /\ scored \cap Alerts \subseteq lost \cup Elements(buffer) \cup Elements(scores)

\* The score of an alert that was handled left a report or a loss.
Resolved ==
  \A i \in 1 .. end :
    i - 1 \in handled /\ scores[i] \in Alerts => reports[scores[i]] > 0 \/ scores[i] \in lost

PipeInv == LoopInv /\ PipeType /\ Scored /\ Resolved

LEMMA LoopSteps == [PipelineNext]_pipelineVars => [Next]_vars
BY DEF PipelineNext, pipelineVars, Emit, Score, CommitFrames, Rewind, Deliver, DeliveryFails,
       Case, PassOver, Report, LoseCase, AgentsLoop, Next, vars

LEMMA PipeInit == PipelineInit => PipeInv
<1> SUFFICES ASSUME PipelineInit PROVE PipeInv
  OBVIOUS
<1>1. LoopInv BY LoopInit DEF PipelineInit
<1>2. PipeType /\ Scored /\ Resolved
  BY DEF PipelineInit, Init, Classifier!Init, PipeType, Scored, Resolved, Elements
<1> QED BY <1>1, <1>2 DEF PipeInv

LEMMA LoopTypes ==
  ASSUME LoopInv
  PROVE  /\ end \in Nat /\ cursor \in Nat /\ position \in Nat /\ committed \in Nat
         /\ deaths \in Nat /\ handled \subseteq Nat /\ committed <= end
         /\ loop # "down" => committed <= cursor /\ cursor <= position /\ position <= end
BY PollLoopAssumption DEF LoopInv, TypeOK, OffsetsInOrder

LEMMA PipeStep == PipeInv /\ [PipelineNext]_pipelineVars => PipeInv'
<1> SUFFICES ASSUME PipeInv, [PipelineNext]_pipelineVars PROVE PipeInv'
  OBVIOUS
<1>1. LoopInv' BY LoopSteps, LoopStep DEF PipeInv
<1>2. /\ end \in Nat /\ cursor \in Nat /\ position \in Nat /\ committed \in Nat
      /\ handled \subseteq Nat /\ committed <= end
      /\ loop # "down" => committed <= cursor /\ cursor <= position /\ position <= end
  BY LoopTypes DEF PipeInv
<1>3. PipeType /\ Scored /\ Resolved BY DEF PipeInv
<1> SUFFICES PipeType' /\ Scored' /\ Resolved'
  BY <1>1 DEF PipeInv
<1> USE <1>2, <1>3
<1>4. CASE UNCHANGED pipelineVars
  BY <1>4 DEF pipelineVars, vars, readerVars, scoreVars, PipeType, Scored, Resolved, Elements
<1>5. CASE Emit \/ CommitFrames
  <2>1. /\ UNCHANGED <<end, cursor, next, scored, rewinds, buffer, scores, reports, lost, handled>>
        /\ frames' \in {frames, frames + 1} /\ frameCommit' \in {frameCommit, next}
    BY <1>5
    DEF Emit, CommitFrames, Classifier!Publish, Classifier!Commit, vars, scoreVars
  <2>2. PipeType' BY <2>1 DEF PipeType
  <2>3. Elements(scores') = Elements(scores) /\ Elements(buffer') = Elements(buffer) BY <2>1
  <2> QED BY <2>1, <2>2, <2>3 DEF Scored, Resolved
<1>6. CASE Score
  <2>1. /\ scored' = scored \cup {next} /\ next' = next + 1
        /\ buffer' = Append(buffer, next)
        /\ UNCHANGED <<frames, frameCommit, rewinds, scores, reports, lost, end, handled,
                       cursor>>
    BY <1>6 DEF Score, Classifier!Handle, vars
  <2>2. Elements(buffer') = Elements(buffer) \cup {next}
    BY <2>1, ElementsOfAppend DEF PipeType
  <2>3. PipeType' /\ Resolved' BY <2>1 DEF PipeType, Resolved
  <2>4. Elements(scores') = Elements(scores) BY <2>1
  <2>5. Scored' BY <2>1, <2>2, <2>4 DEF PipeType, Scored
  <2> QED BY <2>3, <2>5
<1>7. CASE Rewind
  <2>1. /\ next' = frameCommit /\ rewinds' = rewinds + 1
        /\ \/ buffer' = << >> /\ lost' = lost \cup (Elements(buffer) \cap Alerts)
           \/ UNCHANGED <<buffer, lost>>
        /\ UNCHANGED <<frames, frameCommit, scored, scores, reports, end, handled, cursor>>
    BY <1>7 DEF Rewind, Classifier!Rewind, vars
  <2>2. lost \subseteq lost' /\ Elements(buffer) \cap Alerts \subseteq lost' \cup Elements(buffer')
    BY <2>1
  <2>3. PipeType'
    <3>1. buffer' \in Seq(Nat)
      <4>1. << >> \in Seq(Nat) OBVIOUS
      <4> QED BY <2>1, <4>1 DEF PipeType
    <3> QED BY <2>1, <3>1 DEF PipeType
  <2>4. Elements(scores') = Elements(scores) BY <2>1
  <2>5. Scored' BY <2>1, <2>2, <2>4 DEF PipeType, Scored
  <2>6. Resolved' BY <2>1, <2>2 DEF Resolved
  <2> QED BY <2>3, <2>5, <2>6
<1>8. CASE Deliver
  <2>1. /\ buffer # << >> /\ end' = end + 1
        /\ scores' = Append(scores, Head(buffer)) /\ buffer' = Tail(buffer)
        /\ UNCHANGED <<frames, next, frameCommit, scored, rewinds, reports, lost, handled,
                       cursor>>
    BY <1>8 DEF Deliver, Publish, readerVars
  <2>2. Head(buffer) \in Nat /\ Tail(buffer) \in Seq(Nat) BY <2>1 DEF PipeType
  <2>3. /\ scores' \in Seq(Nat) /\ Len(scores') = end + 1
        /\ \A i \in 1 .. end : scores'[i] = scores[i]
    BY <2>1, <2>2 DEF PipeType
  <2>4. PipeType' BY <2>1, <2>2, <2>3 DEF PipeType
  <2>5. Elements(scores') = Elements(scores) \cup {Head(buffer)}
        /\ Elements(buffer) \subseteq Elements(buffer') \cup {Head(buffer)}
    BY <2>1, <2>2, ElementsOfAppend, ElementsOfRest DEF PipeType
  <2>6. Scored' BY <2>1, <2>5 DEF Scored
  <2>7. Resolved'
    <3> SUFFICES ASSUME NEW i \in 1 .. end', i - 1 \in handled, scores'[i] \in Alerts
                 PROVE  reports[scores'[i]] > 0 \/ scores'[i] \in lost
      BY <2>1 DEF Resolved
    <3>1. i \in 1 .. end BY <2>1 DEF PipeType
    <3> QED BY <3>1, <2>3 DEF Resolved
  <2> QED BY <2>4, <2>6, <2>7
<1>9. CASE DeliveryFails
  <2>1. /\ buffer # << >> /\ buffer' = Tail(buffer)
        /\ lost' = lost \cup ({Head(buffer)} \cap Alerts)
        /\ UNCHANGED <<frames, next, frameCommit, scored, rewinds, scores, reports, end,
                       handled, cursor>>
    BY <1>9 DEF DeliveryFails, vars, readerVars
  <2>2. Elements(buffer) \subseteq Elements(buffer') \cup {Head(buffer)}
    BY <2>1, ElementsOfRest DEF PipeType
  <2>3. PipeType' BY <2>1 DEF PipeType
  <2>4. Elements(scores') = Elements(scores) BY <2>1
  <2>5. Scored' BY <2>1, <2>2, <2>4 DEF Scored
  <2>6. Resolved' BY <2>1 DEF Resolved
  <2> QED BY <2>3, <2>5, <2>6
<1>10. CASE Case
  <2>1. /\ loop = "handle" /\ cursor < position /\ cursor' = cursor + 1
        /\ handled' = handled \cup {cursor}
        /\ UNCHANGED <<end, frames, next, frameCommit, scored, rewinds, buffer, scores>>
    BY <1>10
    DEF Case, PassOver, Report, LoseCase, FinishRecord, Handling, readerVars, scoreVars
  <2>2. /\ reports' \in [Alerts -> Nat] /\ lost \subseteq lost'
        /\ \A f \in Alerts : reports[f] > 0 => reports'[f] > 0
        /\ Frame \in Alerts => reports'[Frame] > 0 \/ Frame \in lost'
    <3>1. CASE PassOver BY <3>1 DEF PassOver, PipeType
    <3>2. CASE Report BY <3>2 DEF Report, PipeType
    <3>3. CASE LoseCase BY <3>3 DEF LoseCase, PipeType
    <3> QED BY <3>1, <3>2, <3>3, <1>10 DEF Case
  <2>3. PipeType' BY <2>1, <2>2 DEF PipeType
  <2>4. Elements(scores') = Elements(scores) /\ Elements(buffer') = Elements(buffer) BY <2>1
  <2>5. Scored' BY <2>1, <2>2, <2>4 DEF Scored
  <2>6. Resolved'
    <3> SUFFICES ASSUME NEW i \in 1 .. end, i - 1 \in handled', scores[i] \in Alerts
                 PROVE  reports'[scores[i]] > 0 \/ scores[i] \in lost'
      BY <2>1 DEF Resolved
    <3>1. CASE i - 1 \in handled BY <3>1, <2>2 DEF Resolved
    <3>2. CASE i - 1 = cursor
      <4>1. i = cursor + 1 BY <3>2
      <4> QED BY <4>1, <2>2 DEF Frame
    <3> QED BY <3>1, <3>2, <2>1
  <2> QED BY <2>3, <2>5, <2>6
<1>11. CASE AgentsLoop
  <2>1. /\ UNCHANGED <<end, frames, next, frameCommit, scored, rewinds, buffer, scores, reports,
                       lost, handled>>
        /\ cursor' \in {cursor, committed}
    BY <1>11
    DEF AgentsLoop, readerVars, scoreVars, Start, Poll, LoseMembership, Rejoin, BatchDone,
        Signal, Leave, Close, Crash, Die, Resumed
  <2>2. Elements(scores') = Elements(scores) /\ Elements(buffer') = Elements(buffer) BY <2>1
  <2> QED BY <2>1, <2>2 DEF PipeType, Scored, Resolved
<1> QED
  BY <1>4, <1>5, <1>6, <1>7, <1>8, <1>9, <1>10, <1>11 DEF PipelineNext

-----------------------------------------------------------------------------
(* How often *)

\* Where the agents' position has passed a score of f.
Passed(f) == {i \in 1 .. cursor : scores[i] = f}

\* A crash, a signal or a lost membership after which nothing was read again yet.
Pending == deaths > 0 /\ (loop = "down" \/ stop \/ ~member)

\* How often the agents may have gone back to the committed offset.
Readings == IF Pending THEN deaths - 1 ELSE deaths

RestartInv ==
  /\ stop => deaths > 0
  /\ loop = "ending" => stop
  /\ deaths = 0 /\ loop # "down" => member
  /\ deaths = 0 /\ loop = "down" => cursor = 0 /\ committed = 0

\* Each pass of the classifier makes at most one score of a frame, and each pass
\* of the agents at most one report of a score.
CountInv ==
  \A f \in Alerts :
    /\ Cardinality(Copies(scores, f)) + Cardinality(Copies(buffer, f)) <= rewinds + 1
    /\ next <= f => Cardinality(Copies(scores, f)) + Cardinality(Copies(buffer, f)) <= rewinds
    /\ reports[f] <= Readings * Cardinality(Copies(scores, f)) + Cardinality(Passed(f))

LEMMA RestartStep == LoopInv /\ RestartInv /\ [PipelineNext]_pipelineVars => RestartInv'
<1> SUFFICES ASSUME LoopInv, RestartInv, [PipelineNext]_pipelineVars PROVE RestartInv'
  OBVIOUS
<1>1. deaths \in Nat /\ cursor \in Nat /\ committed \in Nat BY LoopTypes
<1>2. ASSUME UNCHANGED <<stop, deaths, loop, member>>, loop = "down" => UNCHANGED <<cursor, committed>>
      PROVE  RestartInv'
  BY <1>2 DEF RestartInv
<1>3. CASE UNCHANGED vars BY <1>2, <1>3 DEF vars
<1>4. CASE Publish \/ FinishRecord
  BY <1>2, <1>4 DEF Publish, FinishRecord, Handling
<1>5. CASE AgentsLoop
  <2>1. CASE Start
    <3>1. loop' = "poll" /\ stop' = FALSE /\ member' = TRUE /\ deaths' = deaths
      BY <2>1 DEF Start
    <3> QED BY <3>1 DEF RestartInv
  <2>2. CASE Poll
    <3>1. loop = "poll" /\ loop' = "handle" /\ UNCHANGED <<stop, member, deaths>>
      BY <2>2 DEF Poll
    <3> QED BY <3>1 DEF RestartInv
  <2>3. CASE LoseMembership \/ Signal \/ Crash
    <3>1. deaths' = deaths + 1 /\ (loop' = loop \/ loop' = "down") /\ (stop' = stop \/ stop')
      BY <2>3 DEF LoseMembership, Signal, Crash, Die
    <3>2. deaths' > 0 /\ deaths' # 0 BY <1>1, <3>1
    <3> QED BY <3>1, <3>2 DEF RestartInv
  <2>4. CASE Rejoin
    <3>1. loop = "poll" /\ member' = TRUE /\ UNCHANGED <<loop, stop, deaths>>
      BY <2>4 DEF Rejoin
    <3> QED BY <3>1 DEF RestartInv
  <2>5. CASE BatchDone
    <3>1. loop = "handle" /\ loop' = "poll" /\ UNCHANGED <<stop, member, deaths>>
      BY <2>5 DEF BatchDone
    <3> QED BY <3>1 DEF RestartInv
  <2>6. CASE Leave
    <3>1. loop = "poll" /\ stop /\ loop' = "ending" /\ UNCHANGED <<stop, member, deaths>>
      BY <2>6 DEF Leave, MayLeave
    <3> QED BY <3>1 DEF RestartInv
  <2>7. CASE Close
    <3>1. loop = "ending" /\ loop' = "down" /\ UNCHANGED <<stop, member, deaths>>
      BY <2>7 DEF Close
    <3>2. deaths' > 0 /\ deaths' # 0 BY <1>1, <3>1 DEF RestartInv
    <3> QED BY <3>1, <3>2 DEF RestartInv
  <2> QED BY <1>5, <2>1, <2>2, <2>3, <2>4, <2>5, <2>6, <2>7 DEF AgentsLoop
<1> QED
  BY <1>3, <1>4, <1>5
  DEF PipelineNext, pipelineVars, Emit, Score, CommitFrames, Rewind, Deliver, DeliveryFails,
      Case, PassOver, Report, LoseCase

LEMMA CountFacts ==
  ASSUME LoopInv, PipeType, NEW f
  PROVE  /\ Cardinality(Copies(scores, f)) \in Nat /\ Cardinality(Copies(buffer, f)) \in Nat
         /\ IsFiniteSet(Passed(f)) /\ Cardinality(Passed(f)) \in Nat
         /\ Cardinality(Passed(f)) <= Cardinality(Copies(scores, f))
         /\ Readings \in Nat
<1>1. IsFiniteSet(Copies(scores, f)) /\ Cardinality(Copies(scores, f)) \in Nat
      /\ Cardinality(Copies(buffer, f)) \in Nat
  BY CopiesFinite DEF PipeType
<1>2. cursor \in Nat /\ end \in Nat /\ deaths \in Nat BY LoopTypes
<1>3. Passed(f) \in SUBSET Copies(scores, f) BY <1>2 DEF Passed, Copies, PipeType
<1>4. Readings \in Nat BY <1>2 DEF Readings, Pending
<1> QED BY <1>1, <1>3, <1>4, FS_Subset, FS_CardinalityType

\* Going back to the committed offset uses up what was pending.
LEMMA Reread ==
  ASSUME LoopInv, RestartInv, AgentsLoop
  PROVE  \/ cursor' = cursor /\ Readings <= Readings'
         \/ Readings' = Readings + 1
<1>1. deaths \in Nat /\ cursor \in Nat BY LoopTypes
<1> USE <1>1 DEF Readings, Pending
<1>2. CASE Start
  <2>1. /\ loop = "down" /\ loop' = "poll" /\ cursor' = committed /\ stop' = FALSE
        /\ member' = TRUE /\ deaths' = deaths
    BY <1>2 DEF Start, Resumed
  <2>2. Readings' = deaths BY <2>1
  <2>3. CASE deaths > 0 BY <2>1, <2>2, <2>3
  <2>4. CASE deaths = 0 BY <2>1, <2>2, <2>4 DEF RestartInv
  <2> QED BY <2>3, <2>4
<1>3. CASE Rejoin
  <2>1. /\ loop = "poll" /\ ~stop /\ ~member /\ cursor' = committed /\ loop' = loop
        /\ member' = TRUE /\ stop' = stop /\ deaths' = deaths
    BY <1>3 DEF Rejoin, Resumed
  <2>2. deaths > 0 BY <2>1 DEF RestartInv
  <2>3. Readings' = deaths /\ Readings = deaths - 1 BY <2>1, <2>2
  <2> QED BY <2>3
<1>4. CASE LoseMembership \/ Signal \/ Crash
  <2>1. deaths' = deaths + 1 /\ cursor' = cursor
    BY <1>4 DEF LoseMembership, Signal, Crash, Die
  <2>2. Readings' >= deaths /\ Readings <= deaths BY <2>1
  <2>3. Readings \in Nat /\ Readings' \in Nat BY <2>1
  <2> HIDE DEF Readings
  <2> QED BY <2>1, <2>2, <2>3
<1>5. CASE Poll \/ BatchDone
  <2>1. loop # "down" /\ loop' # "down" /\ UNCHANGED <<stop, member, deaths, cursor>>
    BY <1>5 DEF Poll, BatchDone
  <2> QED BY <2>1
<1>6. CASE Leave \/ Close
  <2>1. stop /\ UNCHANGED <<stop, member, deaths, cursor>>
    BY <1>6 DEF Leave, Close, RestartInv
  <2> QED BY <2>1
<1> QED BY <1>2, <1>3, <1>4, <1>5, <1>6 DEF AgentsLoop

LEMMA CountStep ==
  ASSUME PipeInv, PipeInv', RestartInv, CountInv, [PipelineNext]_pipelineVars
  PROVE  CountInv'
<1> SUFFICES ASSUME NEW f \in Alerts
             PROVE  /\ (Cardinality(Copies(scores, f)) + Cardinality(Copies(buffer, f))
                         <= rewinds + 1)'
                    /\ (next <= f => Cardinality(Copies(scores, f))
                                       + Cardinality(Copies(buffer, f)) <= rewinds)'
                    /\ (reports[f] <= Readings * Cardinality(Copies(scores, f))
                                      + Cardinality(Passed(f)))'
  BY DEF CountInv
<1> DEFINE T == Cardinality(Copies(scores, f))
           B == Cardinality(Copies(buffer, f))
           P == Cardinality(Passed(f))
           R == reports[f]
           N == Readings
           T2 == Cardinality(Copies(scores', f))
           B2 == Cardinality(Copies(buffer', f))
           P2 == Cardinality(Passed(f)')
           R2 == reports'[f]
           N2 == Readings'
<1>1. /\ T \in Nat /\ B \in Nat /\ IsFiniteSet(Passed(f)) /\ P \in Nat /\ P <= T
      /\ N \in Nat /\ R \in Nat /\ rewinds \in Nat /\ next \in Nat /\ f \in Nat
      /\ frameCommit \in Nat /\ frameCommit <= next /\ cursor \in Nat /\ end \in Nat
      /\ buffer \in Seq(Nat) /\ scores \in Seq(Nat) /\ Len(scores) = end /\ cursor <= end
  <2>1. LoopInv /\ PipeType BY DEF PipeInv
  <2>2. /\ T \in Nat /\ B \in Nat /\ IsFiniteSet(Passed(f)) /\ P \in Nat /\ P <= T
        /\ N \in Nat
    BY <2>1, CountFacts
  <2>3. cursor \in Nat /\ end \in Nat /\ f \in Nat BY <2>1, LoopTypes, PipelineAssumption
  <2>4. /\ R \in Nat /\ rewinds \in Nat /\ next \in Nat /\ frameCommit \in Nat
        /\ frameCommit <= next /\ buffer \in Seq(Nat) /\ scores \in Seq(Nat)
        /\ Len(scores) = end /\ cursor <= end
    BY <2>1 DEF PipeType
  <2> HIDE DEF T, B, P, R, N, T2, B2, P2, R2, N2
  <2> QED BY <2>2, <2>3, <2>4
<1>2. /\ T2 \in Nat /\ B2 \in Nat /\ P2 \in Nat /\ P2 <= T2 /\ N2 \in Nat
      /\ R2 \in Nat
  <2>1. LoopInv' /\ PipeType' BY DEF PipeInv
  <2>2. T2 \in Nat /\ B2 \in Nat /\ P2 \in Nat /\ P2 <= T2 /\ N2 \in Nat
    <3>1. /\ IsFiniteSet(Copies(scores', f)) /\ Cardinality(Copies(scores', f)) \in Nat
          /\ Cardinality(Copies(buffer', f)) \in Nat
      BY <2>1, CopiesFinite DEF PipeType
    <3>2. cursor' \in Nat /\ end' \in Nat /\ deaths' \in Nat
      BY <2>1, PollLoopAssumption DEF LoopInv, TypeOK
    <3>3. Passed(f)' \in SUBSET Copies(scores', f)
      BY <2>1, <3>2 DEF Passed, Copies, PipeType
    <3>4. N2 \in Nat
      <4>1. N2 = deaths' \/ (N2 = deaths' - 1 /\ Pending') BY DEF Readings
      <4>2. Pending' => deaths' > 0 BY DEF Pending
      <4> QED BY <3>2, <4>1, <4>2
    <3> QED BY <3>1, <3>3, <3>4, FS_Subset, FS_CardinalityType DEF Copies
  <2>3. R2 \in Nat BY <2>1 DEF PipeType
  <2> QED BY <2>2, <2>3
<1>3. /\ T + B <= rewinds + 1 /\ (next <= f => T + B <= rewinds)
      /\ R <= N * T + P
  BY DEF CountInv
<1>4. ASSUME UNCHANGED <<scores, reports, cursor>>, N2 = N
      PROVE  R2 <= N2 * T2 + P2
  BY <1>3, <1>4 DEF Passed, Copies
<1>5. ASSUME UNCHANGED vars PROVE N2 = N
  BY <1>5 DEF vars, Readings, Pending
<1> HIDE DEF T, B, P, R, N, T2, B2, P2, R2, N2
<1> SUFFICES /\ T2 + B2 <= rewinds' + 1 /\ (next' <= f => T2 + B2 <= rewinds')
             /\ R2 <= N2 * T2 + P2
  BY DEF T, B, P, R, N, T2, B2, P2, R2, N2, Copies
<1>6. ASSUME UNCHANGED <<scores, buffer>> PROVE T2 = T /\ B2 = B
  BY <1>6 DEF T, B, T2, B2, Copies
<1>7. CASE UNCHANGED pipelineVars \/ Emit \/ CommitFrames
  <2>1. UNCHANGED <<vars, scores, buffer, reports, rewinds, next>>
    BY <1>7
    DEF pipelineVars, readerVars, scoreVars, Emit, CommitFrames, Classifier!Publish,
        Classifier!Commit
  <2>2. cursor' = cursor BY <2>1 DEF vars
  <2> QED BY <2>1, <2>2, <1>3, <1>4, <1>5, <1>6
<1>8. CASE Score
  <2>1. /\ next' = next + 1 /\ buffer' = Append(buffer, next)
        /\ UNCHANGED <<vars, rewinds, scores, reports>>
    BY <1>8 DEF Score, Classifier!Handle
  <2>2. (next = f => B2 = B + 1) /\ (next # f => B2 = B) BY <1>1, <2>1, CopiesOfAppend DEF B, B2
  <2>3. T2 = T BY <2>1 DEF T, T2, Copies
  <2>4. cursor' = cursor BY <2>1 DEF vars
  <2>5. T2 + B2 <= rewinds' + 1 /\ (next' <= f => T2 + B2 <= rewinds')
    <3>1. CASE next = f BY <1>1, <1>3, <2>1, <2>2, <2>3, <3>1
    <3>2. CASE next # f BY <1>1, <1>3, <2>1, <2>2, <2>3, <3>2
    <3> QED BY <3>1, <3>2
  <2> QED BY <2>1, <2>4, <2>5, <1>4, <1>5
<1>9. CASE Rewind
  <2>1. /\ next' = frameCommit /\ rewinds' = rewinds + 1
        /\ buffer' = << >> \/ buffer' = buffer
        /\ UNCHANGED <<vars, scores, reports>>
    BY <1>9 DEF Rewind, Classifier!Rewind
  <2>2. T2 = T BY <2>1 DEF T, T2, Copies
  <2>3. B2 <= B
    <3>1. CASE buffer' = buffer BY <1>1, <3>1 DEF B, B2, Copies
    <3>2. CASE buffer' = << >>
      <4>1. Copies(buffer', f) = {} BY <3>2 DEF Copies
      <4>2. B2 = 0 BY <4>1, FS_EmptySet DEF B, B2
      <4> QED BY <4>2, <1>1
    <3> QED BY <2>1, <3>1, <3>2
  <2>4. cursor' = cursor BY <2>1 DEF vars
  <2>5. T2 + B2 <= rewinds' + 1 /\ (next' <= f => T2 + B2 <= rewinds')
    BY <1>1, <1>2, <1>3, <2>1, <2>2, <2>3
  <2> QED BY <2>1, <2>4, <2>5, <1>4, <1>5
<1>10. CASE Deliver
  <2>1. /\ buffer # << >> /\ scores' = Append(scores, Head(buffer)) /\ buffer' = Tail(buffer)
        /\ UNCHANGED <<cursor, loop, stop, member, deaths, next, rewinds, reports>>
    BY <1>10 DEF Deliver, Publish, readerVars
  <2>2. Head(buffer) \in Nat BY <1>1, <2>1
  <2>3. \/ T2 = T + 1 /\ B = B2 + 1
        \/ T2 = T /\ B = B2
    BY <1>1, <2>1, <2>2, CopiesOfAppend, CopiesOfRest DEF T, B, T2, B2
  <2>4. N2 = N BY <2>1 DEF N, N2, Readings, Pending
  <2>5. P2 = P
    <3>1. \A i \in 1 .. cursor : scores'[i] = scores[i] BY <1>1, <2>1, <2>2
    <3>2. Passed(f)' = Passed(f) BY <2>1, <3>1 DEF Passed
    <3> QED BY <3>2 DEF P, P2
  <2>6. T <= T2 BY <1>1, <2>3
  <2>7. R2 <= N2 * T2 + P2
    <3>1. N * T <= N * T2 /\ N * T \in Nat
      BY <1>1, <1>2, <2>6, Product, ProductGrows
    <3>2. N * T2 \in Nat BY <1>1, <1>2, Product
    <3>3. R2 = R BY <2>1 DEF R, R2
    <3> QED BY <3>1, <3>2, <3>3, <2>4, <2>5, <1>1, <1>3
  <2>8. T2 + B2 = T + B BY <1>1, <1>2, <2>3
  <2> QED BY <2>1, <2>7, <2>8, <1>3
<1>11. CASE DeliveryFails
  <2>1. /\ buffer # << >> /\ buffer' = Tail(buffer)
        /\ UNCHANGED <<vars, next, rewinds, scores, reports>>
    BY <1>11 DEF DeliveryFails, readerVars
  <2>2. B2 <= B
    <3>1. B = B2 + 1 \/ B = B2 BY <1>1, <2>1, CopiesOfRest DEF B, B2
    <3>2. B \in Nat /\ B2 \in Nat BY <1>1, <1>2
    <3> QED BY <3>1, <3>2
  <2>3. T2 = T BY <2>1 DEF T, T2, Copies
  <2>4. cursor' = cursor BY <2>1 DEF vars
  <2>5. T2 + B2 <= rewinds' + 1 /\ (next' <= f => T2 + B2 <= rewinds')
    BY <1>1, <1>2, <1>3, <2>1, <2>2, <2>3
  <2> QED BY <2>1, <2>4, <2>5, <1>4, <1>5
<1>12. CASE Case
  <2>1. /\ cursor' = cursor + 1
        /\ UNCHANGED <<end, loop, stop, member, deaths, next, rewinds, buffer, scores>>
        /\ R2 = R \/ (R2 = R + 1 /\ Frame = f)
    <3>1. /\ cursor' = cursor + 1
          /\ UNCHANGED <<end, loop, stop, member, deaths, next, rewinds, buffer, scores>>
      BY <1>12
      DEF Case, PassOver, Report, LoseCase, FinishRecord, readerVars, scoreVars
    <3>2. CASE PassOver \/ LoseCase BY <3>1, <3>2 DEF PassOver, LoseCase, R, R2
    <3>3. CASE Report
      <4>1. reports' = [reports EXCEPT ![Frame] = @ + 1] BY <3>3 DEF Report
      <4>2. reports \in [Alerts -> Nat] BY DEF PipeInv, PipeType
      <4> QED BY <3>1, <4>1, <4>2 DEF R, R2
    <3> QED BY <1>12, <3>2, <3>3 DEF Case
  <2>2. N2 = N /\ T2 = T /\ B2 = B BY <2>1, <1>6 DEF N, N2, Readings, Pending
  <2>3. cursor + 1 \notin Passed(f) BY <1>1 DEF Passed
  <2>4. Passed(f)' = IF Frame = f THEN Passed(f) \cup {cursor + 1} ELSE Passed(f)
    BY <1>1, <2>1 DEF Passed, Frame
  <2>5. (Frame = f => P2 = P + 1) /\ (Frame # f => P2 = P)
    <3>1. CASE Frame = f BY <1>1, <2>3, <2>4, <3>1, FS_AddElement DEF P, P2
    <3>2. CASE Frame # f BY <1>1, <2>4, <3>2 DEF P, P2
    <3> QED BY <3>1, <3>2
  <2>6. N * T \in Nat BY <1>1, Product
  <2> QED BY <2>1, <2>2, <2>5, <2>6, <1>1, <1>2, <1>3
<1>13. CASE AgentsLoop
  <2>1. UNCHANGED <<next, rewinds, scores, buffer, reports>>
    BY <1>13 DEF AgentsLoop, readerVars, scoreVars
  <2>2. T2 = T /\ B2 = B /\ R2 = R BY <2>1, <1>6 DEF R, R2
  <2>3. N * T \in Nat /\ N2 * T \in Nat BY <1>1, <1>2, Product
  <2>4. CASE cursor' = cursor /\ N <= N2
    <3>1. P2 = P BY <2>1, <2>4 DEF P, P2, Passed
    <3>2. N * T <= N2 * T
      <4>1. T * N <= T * N2 BY <1>1, <1>2, <2>4, ProductGrows
      <4>2. T * N = N * T /\ T * N2 = N2 * T
        BY <1>1, <1>2, Product
      <4> QED BY <4>1, <4>2
    <3> QED BY <3>1, <3>2, <2>1, <2>2, <2>3, <1>1, <1>3
  <2>5. CASE N2 = N + 1
    <3>1. N2 * T = N * T + T BY <1>1, <2>5, Product
    <3> QED BY <3>1, <2>1, <2>2, <2>3, <1>1, <1>2, <1>3
  <2>6. LoopInv BY DEF PipeInv
  <2> QED BY <2>4, <2>5, <2>6, <1>13, Reread DEF N, N2
<1> QED
  BY <1>7, <1>8, <1>9, <1>10, <1>11, <1>12, <1>13 DEF PipelineNext

\* No alert is forgotten between the frame and the report, and none multiplies by
\* itself.
THEOREM AlertsAreConserved == PipelineSpec => []AlertsConserved
<1>1. PipelineInit => PipeInv /\ RestartInv /\ CountInv
  <2> SUFFICES ASSUME PipelineInit PROVE RestartInv /\ CountInv
    BY PipeInit
  <2>1. RestartInv
    BY DEF PipelineInit, Init, RestartInv
  <2>2. ASSUME NEW f \in Alerts PROVE Copies(<< >>, f) = {} /\ Passed(f) = {}
    BY DEF PipelineInit, Init, Copies, Passed
  <2>3. /\ scores = << >> /\ buffer = << >> /\ rewinds = 0 /\ next = 0 /\ deaths = 0
        /\ reports = [f \in Alerts |-> 0]
    BY DEF PipelineInit, Init, Classifier!Init
  <2>4. Readings = 0 BY <2>3 DEF Readings, Pending
  <2>5. CountInv
    <3> SUFFICES ASSUME NEW f \in Alerts
                 PROVE  /\ Cardinality(Copies(scores, f)) + Cardinality(Copies(buffer, f)) = 0
                        /\ reports[f] <= Readings * Cardinality(Copies(scores, f))
                                          + Cardinality(Passed(f))
      BY <2>3 DEF CountInv
    <3>1. /\ Cardinality(Copies(scores, f)) = 0 /\ Cardinality(Copies(buffer, f)) = 0
          /\ Cardinality(Passed(f)) = 0
      <4>1. Copies(scores, f) = {} /\ Copies(buffer, f) = {} /\ Passed(f) = {}
        BY <2>2, <2>3
      <4>2. Cardinality({}) = 0 BY FS_EmptySet
      <4> QED BY <4>1, <4>2
    <3> QED BY <3>1, <2>3, <2>4
  <2> QED BY <2>1, <2>5
<1>2. ASSUME PipeInv, RestartInv, CountInv, [PipelineNext]_pipelineVars
      PROVE  PipeInv' /\ RestartInv' /\ CountInv'
  <2>1. PipeInv' /\ RestartInv' BY <1>2, PipeStep, RestartStep DEF PipeInv
  <2> QED BY <1>2, <2>1, CountStep
<1>3. ASSUME PipeInv, RestartInv, CountInv PROVE AlertsConserved
  <2> SUFFICES ASSUME NEW f \in Alerts
               PROVE  /\ f < frameCommit =>
                           \/ reports[f] > 0
                           \/ f \in lost \cup Elements(buffer)
                           \/ \E i \in committed + 1 .. end : scores[i] = f
                      /\ reports[f] <= (1 + rewinds) * (1 + deaths)
    BY DEF AlertsConserved
  <2>0. LoopInv /\ PipeType /\ Scored /\ Resolved /\ f \in Nat
    BY <1>3, PipelineAssumption DEF PipeInv
  <2>1. ASSUME f < frameCommit, f \notin lost \cup Elements(buffer), ~(reports[f] > 0)
        PROVE  \E i \in committed + 1 .. end : scores[i] = f
    <3>1. f \in Elements(scores) BY <2>0, <2>1 DEF Scored, PipeType
    <3>2. PICK i \in 1 .. end : scores[i] = f BY <3>1, <2>0 DEF Elements, PipeType
    <3>3. i - 1 \notin handled BY <3>2, <2>0, <2>1 DEF Resolved
    <3>4. 0 .. committed - 1 \subseteq handled /\ committed \in Nat /\ end \in Nat
      BY <2>0, LoopTypes DEF LoopInv, HandledBelow
    <3>5. i \in committed + 1 .. end BY <3>3, <3>4
    <3> QED BY <3>2, <3>5
  <2>2. reports[f] <= (1 + rewinds) * (1 + deaths)
    <3> DEFINE T == Cardinality(Copies(scores, f))
               P == Cardinality(Passed(f))
    <3>1. /\ T \in Nat /\ Cardinality(Copies(buffer, f)) \in Nat /\ P \in Nat /\ P <= T
          /\ Readings \in Nat /\ reports[f] \in Nat /\ rewinds \in Nat /\ deaths \in Nat
      BY <2>0, CountFacts, LoopTypes DEF PipeType
    <3>2. /\ T + Cardinality(Copies(buffer, f)) <= rewinds + 1
          /\ reports[f] <= Readings * T + P
      BY <1>3 DEF CountInv
    <3> HIDE DEF T, P
    <3>3. T <= 1 + rewinds /\ Readings <= deaths BY <3>1, <3>2 DEF Readings, Pending
    <3>4. reports[f] <= (Readings + 1) * T
      BY <3>1, <3>2, Product
    <3>5. (Readings + 1) * T <= (Readings + 1) * (1 + rewinds)
          /\ (Readings + 1) * T \in Nat /\ (Readings + 1) * (1 + rewinds) \in Nat
      <4>1. Readings + 1 \in Nat /\ 1 + rewinds \in Nat BY <3>1
      <4> QED BY <4>1, <3>1, <3>3, Product, ProductGrows
    <3>6. (1 + rewinds) * (Readings + 1) <= (1 + rewinds) * (1 + deaths)
          /\ (Readings + 1) * (1 + rewinds) = (1 + rewinds) * (Readings + 1)
          /\ (1 + rewinds) * (1 + deaths) \in Nat
      <4>1. Readings + 1 \in Nat /\ 1 + rewinds \in Nat /\ 1 + deaths \in Nat
            /\ Readings + 1 <= 1 + deaths
        BY <3>1, <3>3
      <4> QED BY <4>1, Product, ProductGrows
    <3> QED BY <3>1, <3>4, <3>5, <3>6
  <2> QED BY <2>1, <2>2
<1> QED BY <1>1, <1>2, <1>3, PTL DEF PipelineSpec

-----------------------------------------------------------------------------
(* The two readers of the pipeline *)

LEMMA ScoringSteps == [PipelineNext]_pipelineVars => [Classifier!Next]_(Classifier!vars)
BY DEF PipelineNext, pipelineVars, readerVars, Emit, Score, CommitFrames, Rewind, Deliver,
       DeliveryFails, Case, PassOver, Report, LoseCase, AgentsLoop, Classifier!Next,
       Classifier!vars

\* With the two services in a row each is still an at-least-once reader of its
\* topic, whatever the other one does.
THEOREM PipelineImplementsReaders == PipelineSpec => ImplementsReader /\ Classifier!Spec
<1>1. PipelineInit => Init /\ Classifier!Init BY DEF PipelineInit
<1>2. PipelineSpec => Spec
  BY <1>1, LoopSteps, PTL DEF PipelineSpec, Spec
<1>3. PipelineSpec => Classifier!Spec
  BY <1>1, ScoringSteps, PTL DEF PipelineSpec, Classifier!Spec
<1> QED BY <1>2, <1>3, LoopImplementsReader, PTL

\* What has been read of financial-features, and who is in the buffer or on the
\* topic.
LineTypes ==
  /\ frames \in 0 .. MaxFrames /\ next \in 0 .. frames /\ frameCommit \in 0 .. frames
  /\ rewinds \in 0 .. MaxRewinds
  /\ Elements(buffer) \cup Elements(scores) \subseteq scored
  /\ lost \subseteq Alerts

LEMMA ElementsOfTail ==
  ASSUME NEW S, NEW s \in Seq(S), s # << >>
  PROVE  Elements(Tail(s)) \cup {Head(s)} \subseteq Elements(s)
<1>1. /\ Tail(s) \in Seq(S) /\ Len(Tail(s)) = Len(s) - 1 /\ Len(s) \in Nat \ {0}
      /\ \A i \in 1 .. Len(s) - 1 : Tail(s)[i] = s[i + 1]
      /\ Head(s) = s[1]
  OBVIOUS
<1>2. ASSUME NEW i \in DOMAIN Tail(s) PROVE Tail(s)[i] \in Elements(s)
  <2>1. i + 1 \in DOMAIN s /\ Tail(s)[i] = s[i + 1] BY <1>1
  <2> QED BY <2>1 DEF Elements
<1>3. Head(s) \in Elements(s) BY <1>1 DEF Elements
<1> QED BY <1>2, <1>3 DEF Elements

LEMMA LineStep ==
  ASSUME PipeInv, LineTypes, [PipelineNext]_pipelineVars
  PROVE  LineTypes'
<1>1. /\ frames \in Nat /\ next \in Nat /\ frameCommit \in Nat /\ rewinds \in Nat
      /\ buffer \in Seq(Nat) /\ scores \in Seq(Nat)
      /\ MaxFrames \in Nat /\ MaxRewinds \in Nat
  BY PipelineAssumption DEF PipeInv, PipeType
<1>2. LineTypes OBVIOUS
<1>3. CASE UNCHANGED pipelineVars \/ PassOver \/ Report \/ LoseCase \/ AgentsLoop
  <2>1. /\ UNCHANGED <<frames, next, frameCommit, scored, rewinds, buffer, scores>>
        /\ lost' = lost \/ (Frame \in Alerts /\ lost' = lost \cup {Frame})
    BY <1>3
    DEF pipelineVars, PassOver, Report, LoseCase, AgentsLoop, readerVars, scoreVars
  <2> QED BY <1>2, <2>1 DEF LineTypes, Elements
<1>4. CASE Emit \/ CommitFrames
  <2>1. /\ UNCHANGED <<next, scored, rewinds, buffer, scores, lost>>
        /\ \/ frames < MaxFrames /\ frames' = frames + 1 /\ frameCommit' = frameCommit
           \/ frames' = frames /\ frameCommit' = next
    BY <1>4
    DEF Emit, CommitFrames, Classifier!Publish, Classifier!Commit, scoreVars
  <2>2. Elements(buffer') = Elements(buffer) /\ Elements(scores') = Elements(scores)
    BY <2>1
  <2> QED BY <1>1, <1>2, <2>1, <2>2 DEF LineTypes
<1>5. CASE Score
  <2>1. /\ next < frames /\ next' = next + 1 /\ scored' = scored \cup {next}
        /\ buffer' = Append(buffer, next)
        /\ UNCHANGED <<frames, frameCommit, rewinds, scores, lost>>
    BY <1>5 DEF Score, Classifier!Handle
  <2>2. Elements(buffer') = Elements(buffer) \cup {next} BY <1>1, <2>1, ElementsOfAppend
  <2>3. Elements(scores') = Elements(scores) BY <2>1
  <2> QED BY <1>1, <1>2, <2>1, <2>2, <2>3 DEF LineTypes
<1>6. CASE Rewind
  <2>1. /\ rewinds < MaxRewinds /\ rewinds' = rewinds + 1 /\ next' = frameCommit
        /\ \/ buffer' = << >> /\ lost' = lost \cup (Elements(buffer) \cap Alerts)
           \/ UNCHANGED <<buffer, lost>>
        /\ UNCHANGED <<frames, frameCommit, scored, scores>>
    BY <1>6 DEF Rewind, Classifier!Rewind
  <2>2. Elements(scores') = Elements(scores) BY <2>1
  <2>3. Elements(<< >>) = {} BY DEF Elements
  <2>4. Elements(buffer') \subseteq Elements(buffer) /\ lost' \subseteq Alerts
    BY <1>2, <2>1, <2>3 DEF LineTypes
  <2> QED BY <1>1, <1>2, <2>1, <2>2, <2>4 DEF LineTypes
<1>7. CASE Deliver
  <2>1. /\ buffer # << >> /\ scores' = Append(scores, Head(buffer))
        /\ buffer' = Tail(buffer)
        /\ UNCHANGED <<frames, next, frameCommit, scored, rewinds, lost>>
    BY <1>7 DEF Deliver, readerVars
  <2>2. Head(buffer) \in Nat BY <1>1, <2>1
  <2>3. /\ Elements(scores') = Elements(scores) \cup {Head(buffer)}
        /\ Elements(buffer') \cup {Head(buffer)} \subseteq Elements(buffer)
    BY <1>1, <2>1, <2>2, ElementsOfAppend, ElementsOfTail
  <2> QED BY <1>2, <2>1, <2>3 DEF LineTypes
<1>8. CASE DeliveryFails
  <2>1. /\ buffer # << >> /\ buffer' = Tail(buffer)
        /\ lost' = lost \cup ({Head(buffer)} \cap Alerts)
        /\ UNCHANGED <<frames, next, frameCommit, scored, rewinds, scores>>
    BY <1>8 DEF DeliveryFails, readerVars
  <2>2. Elements(buffer') \subseteq Elements(buffer) BY <1>1, <2>1, ElementsOfTail
  <2>3. Elements(scores') = Elements(scores) BY <2>1
  <2> QED BY <1>2, <2>1, <2>2, <2>3 DEF LineTypes
<1> QED BY <1>3, <1>4, <1>5, <1>6, <1>7, <1>8 DEF PipelineNext, Case

\* Every score on the way, in the producer or on the topic, is of a frame that was
\* scored; no offset passes the end of its topic; and only alerts count as lost.
THEOREM PipelineTypesHold == PipelineSpec => []PipelineTypeOK
<1>1. PipelineInit => PipeInv /\ LineTypes
  <2> SUFFICES ASSUME PipelineInit PROVE LineTypes
    BY PipeInit
  <2>1. Elements(<< >>) = {} BY DEF Elements
  <2> QED BY <2>1, PipelineAssumption DEF PipelineInit, Classifier!Init, LineTypes
<1>2. PipeInv /\ LineTypes /\ [PipelineNext]_pipelineVars => PipeInv' /\ LineTypes'
  BY PipeStep, LineStep
<1>3. PipeInv /\ LineTypes => PipelineTypeOK
  BY DEF PipeInv, LoopInv, PipeType, LineTypes, PipelineTypeOK
<1> QED BY <1>1, <1>2, <1>3, PTL DEF PipelineSpec
=============================================================================
