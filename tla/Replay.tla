------------------------------- MODULE Replay -------------------------------
(***************************************************************************)
(* The replay of a case in the dashboard: the events buildReplay makes of  *)
(* a row of agent_report (web/lib/replay.ts), the timeline of its receipt  *)
(* (web/lib/timeline.ts), and the modal that plays the events              *)
(* (web/components/replay-modal.tsx).                                      *)
(*                                                                         *)
(* A row is its five stamps, each None where the column is NULL, and the   *)
(* agent nodes that left a rationale in the evidence.  The stamps are read *)
(* on the clocks of different machines and need not be in order.           *)
(*                                                                         *)
(* An operator placed directly above a definition, with the same           *)
(* parameters and no comment, is a way to get that definition wrong.       *)
(***************************************************************************)
EXTENDS Integers, Sequences, SequencesExt

CONSTANTS
  Rows,  \* rows of agent_report
  None

Stages == {"wire", "compute", "score", "verdict", "enforced"}
AgentNodes == {"forensic", "auditor", "enforcer"}

\* What is assumed of the constants.
ReplayAssumption ==
  \A r \in Rows : r.nodes \subseteq AgentNodes /\ \A stage \in Stages : r[stage] \in Int \cup {None}

VARIABLES
  row,     \* the case in the modal; None: closed
  idx,     \* position of the current event, from 1
  playing  \* isPlaying

vars == <<row, idx, playing>>

-----------------------------------------------------------------------------
(* The receipt *)

ClampPos(n) == IF n < 0 THEN 0 ELSE n

Present(r, stage) == IF r[stage] # None THEN <<stage>> ELSE <<>>

\* The stages whose stamp is not NULL, in the order of STAGE_DEFS.
Captured(r) ==
  Present(r, "wire") \o Present(r, "compute") \o Present(r, "score")
    \o Present(r, "verdict") \o Present(r, "enforced")

\* total_ns of computeTimeline: from the wire to the last stage captured.
Total(r) == IF r.wire = None THEN None ELSE ClampPos(r[Last(Captured(r))] - r.wire)

-----------------------------------------------------------------------------
(* The events *)

\* a ?? b
Or(a, b) == IF a # None THEN a ELSE b

SpanStart(r) == Or(r.score, r.wire)
SpanEnd(r) == Or(r.enforced, Or(r.verdict, SpanStart(r)))

\* Division of a BigInt truncates toward zero.
Quotient(a, b) == IF a >= 0 THEN a \div b ELSE -((-a) \div b)

FromZero(r, i, n) == SpanStart(r) + Quotient((SpanEnd(r) - SpanStart(r)) * (i - 1), n)
\* The time given to the i-th of n agent nodes, whose own times are not known.
NodeTime(r, i, n) ==
  IF n = 1 THEN SpanEnd(r)
  ELSE SpanStart(r) + Quotient((SpanEnd(r) - SpanStart(r)) * i, n)

Event(key, ts) == [key |-> key, ts |-> ts]

Stamped(r, stage) == IF r[stage] # None THEN <<Event(stage, r[stage])>> ELSE <<>>

StampEvents(r) == Stamped(r, "wire") \o Stamped(r, "compute") \o Stamped(r, "score")

Spoke(r, node) == IF node \in r.nodes THEN <<node>> ELSE <<>>

Speakers(r) == Spoke(r, "forensic") \o Spoke(r, "auditor") \o Spoke(r, "enforcer")

NodeEvents(r) ==
  LET nodes == Speakers(r)
  IN  [i \in DOMAIN nodes |->
         Event(nodes[i], LET t == NodeTime(r, i, Len(nodes))
                         IN  IF nodes[i] = "enforcer" THEN Or(r.enforced, t) ELSE t)]

BuildReplay(r) == IF r.wire = None THEN <<>> ELSE StampEvents(r) \o NodeEvents(r)

Offset(r, event) == ClampPos(event.ts - r.wire)

-----------------------------------------------------------------------------
(* The modal *)

Events == IF row = None THEN <<>> ELSE BuildReplay(row)

Init == row = None /\ idx = 1 /\ playing = FALSE

\* A click on "Replay this case".
Open ==
  /\ row = None
  /\ row' \in Rows
  /\ idx' = 1 /\ playing' = FALSE

\* The button, the backdrop or the escape key.
Close ==
  /\ row # None
  /\ row' = None
  /\ idx' = 1 /\ playing' = FALSE

\* The timer of the current event fires.
Advance ==
  /\ playing /\ Events # <<>>
  /\ IF idx + 1 > Len(Events)
     THEN playing' = FALSE /\ idx' = Len(Events)
     ELSE idx' = idx + 1 /\ UNCHANGED playing
  /\ UNCHANGED row

PlayPause ==
  /\ Events # <<>>
  /\ playing' = ~playing
  /\ UNCHANGED <<row, idx>>

Restart ==
  /\ Events # <<>>
  /\ idx' = 1 /\ playing' = TRUE
  /\ UNCHANGED row

\* Prev, Next, or a click on an event of the progress bar or of the rail.
Jump(i) ==
  /\ idx' = i
  /\ UNCHANGED <<row, playing>>

Click == Open \/ Close \/ PlayPause \/ Restart \/ \E i \in DOMAIN Events : Jump(i)

Next == Click \/ Advance

-----------------------------------------------------------------------------
(* Properties *)

TypeOK ==
  /\ row \in Rows \cup {None}
  /\ idx \in 1 .. (IF Events = <<>> THEN 1 ELSE Len(Events))
  /\ playing \in BOOLEAN

InOrder(s) == \A i, j \in DOMAIN s : i < j => s[i] <= s[j]

(***************************************************************************)
(* "the last node lands on agentSpanEnd so the total still matches the     *)
(* real wire->enforced delta" (replay.ts:155-156): where an agent node     *)
(* spoke after the score, the last event's offset is the total that the    *)
(* receipt of the same case shows, also where clocks disagree; and where   *)
(* the case was scored and its stamps are in order the interpolated events *)
(* are in order too, so that no delta is clamped.                          *)
(***************************************************************************)
ReplayMatchesReceipt ==
  Events # <<>> =>
    /\ (row.nodes # {} /\ \E s \in {"score", "verdict", "enforced"} : row[s] # None) =>
         Offset(row, Last(Events)) = Total(row)
    /\ (row.score # None /\ InOrder([i \in DOMAIN Captured(row) |-> row[Captured(row)[i]]])) =>
         InOrder([i \in DOMAIN Events |-> Events[i].ts])
=============================================================================
