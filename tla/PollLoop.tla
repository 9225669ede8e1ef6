------------------------------ MODULE PollLoop ------------------------------
(***************************************************************************)
(* The loop that the classifier (services/classifier/consumer.py:128-170)  *)
(* and the agent service (services/agents/consumer.py:114-165) share:      *)
(* poll a batch with kafka-python, handle its records one after the other, *)
(* look at the stop flag only between batches, close the consumer at the   *)
(* end.  The group's offsets are committed by the library                  *)
(* (enable_auto_commit), inside poll and close.                            *)
(*                                                                         *)
(* What handling a record means is up to the modules that instantiate      *)
(* this one: Classifier and Agents.                                        *)
(*                                                                         *)
(* An operator placed directly above a definition, with the same           *)
(* parameters and no comment, is a way to get that definition wrong.       *)
(***************************************************************************)
EXTENDS Naturals

CONSTANTS
  MaxRecords,  \* bound on the length of the input topic
  BatchMax,    \* max_records
  MaxDeaths    \* bound on crashes, signals and lost memberships

ASSUME PollLoopAssumption ==
  /\ MaxRecords \in Nat
  /\ BatchMax \in Nat \ {0}
  /\ MaxDeaths \in Nat

VARIABLES
  end,        \* length of the input topic
  committed,  \* the group's offset for its partition
  position,   \* the consumer's position: the end of the last batch
  cursor,     \* the record being handled, or handled next
  loop,       \* where the service is
  stop,       \* _stop
  member,     \* the group coordinator still counts this consumer in
  deaths,     \* crashes, signals and lost memberships so far
  handled     \* history: records handled to the end at least once

vars == <<end, committed, position, cursor, loop, stop, member, deaths, handled>>

Init ==
  /\ end = 0 /\ committed = 0 /\ position = 0 /\ cursor = 0
  /\ loop = "down"
  /\ stop = FALSE /\ member = FALSE
  /\ deaths = 0
  /\ handled = {}

\* Someone appends a record to the input topic.
Publish ==
  /\ end < MaxRecords
  /\ end' = end + 1
  /\ UNCHANGED <<committed, position, cursor, loop, stop, member, deaths, handled>>

ResumeAtPosition == position
\* Where an assigned partition is read from: the group's offset, or, with
\* auto_offset_reset="earliest", the beginning where there is none.
Resumed == committed

\* The container starts (again).
Start ==
  /\ loop = "down"
  /\ loop' = "poll"
  /\ position' = Resumed /\ cursor' = Resumed
  /\ stop' = FALSE /\ member' = TRUE
  /\ UNCHANGED <<end, committed, deaths, handled>>

CommitFetched(before, after) == after
\* What an auto-commit inside the poll that moves the position from before to
\* after commits: the library commits first and fetches then.
AutoCommitted(before, after) == before

\* Where a batch may end.
BatchEnds == {p \in position .. position + BatchMax : p <= end}

\* consumer.poll.  The auto-commit interval may or may not be over, and the
\* commit may fail.
Poll ==
  /\ loop = "poll" /\ ~stop /\ member
  /\ position' \in BatchEnds
  /\ committed' \in {committed, AutoCommitted(position, position')}
  /\ loop' = "handle"
  /\ UNCHANGED <<end, cursor, stop, member, deaths, handled>>

\* A batch took longer than max_poll_interval_ms, or heartbeats were lost.
LoseMembership ==
  /\ loop \in {"poll", "handle"} /\ member
  /\ deaths < MaxDeaths
  /\ member' = FALSE
  /\ deaths' = deaths + 1
  /\ UNCHANGED <<end, committed, position, cursor, loop, stop, handled>>

\* The next poll joins again; the commit it tries first fails, and the
\* position goes back to the committed offset.
Rejoin ==
  /\ loop = "poll" /\ ~stop /\ ~member
  /\ member' = TRUE
  /\ position' = Resumed /\ cursor' = Resumed
  /\ UNCHANGED <<end, committed, loop, stop, deaths, handled>>

\* There is a record of the batch to handle.
Handling == loop = "handle" /\ cursor < position

\* The record has been handled, or given up.
FinishRecord ==
  /\ Handling
  /\ cursor' = cursor + 1
  /\ handled' = handled \cup {cursor}
  /\ UNCHANGED <<end, committed, position, loop, stop, member, deaths>>

BatchDone ==
  /\ loop = "handle" /\ cursor = position
  /\ loop' = "poll"
  /\ UNCHANGED <<end, committed, position, cursor, stop, member, deaths, handled>>

\* SIGINT or SIGTERM.
Signal ==
  /\ loop # "down" /\ ~stop
  /\ deaths < MaxDeaths
  /\ stop' = TRUE
  /\ deaths' = deaths + 1
  /\ UNCHANGED <<end, committed, position, cursor, loop, member, handled>>

LeaveAtOnce == loop \in {"poll", "handle"}
\* The while tests the flag only between batches.
MayLeave == loop = "poll"

Leave ==
  /\ MayLeave /\ stop
  /\ loop' = "ending"
  /\ UNCHANGED <<end, committed, position, cursor, stop, member, deaths, handled>>

\* consumer.close commits the position once more, which only a member can and
\* which may fail.
Close ==
  /\ loop = "ending"
  /\ committed' \in {committed, IF member THEN position ELSE committed}
  /\ loop' = "down"
  /\ UNCHANGED <<end, position, cursor, stop, member, deaths, handled>>

\* The process dies without closing anything.
Die ==
  /\ loop # "down"
  /\ loop' = "down"
  /\ UNCHANGED <<end, committed, position, cursor, stop, member, handled>>

\* It is killed, or an exception nobody catches ends it.
Crash ==
  /\ deaths < MaxDeaths
  /\ deaths' = deaths + 1
  /\ Die

Next ==
  \/ Publish \/ Start \/ Poll \/ LoseMembership \/ Rejoin \/ FinishRecord
  \/ BatchDone \/ Signal \/ Leave \/ Close \/ Crash
  \/ Die /\ UNCHANGED deaths

Spec == Init /\ [][Next]_vars

-----------------------------------------------------------------------------
(* Properties *)

TypeOK ==
  /\ end \in 0 .. MaxRecords
  /\ committed \in 0 .. MaxRecords /\ position \in 0 .. MaxRecords
  /\ cursor \in 0 .. MaxRecords
  /\ loop \in {"down", "poll", "handle", "ending"}
  /\ stop \in BOOLEAN /\ member \in BOOLEAN
  /\ deaths \in 0 .. MaxDeaths
  /\ handled \in SUBSET Nat

\* The committed offset, the record in hand and the position stay in order:
\* a restart never skips a record and never reads one that does not exist.
OffsetsInOrder ==
  /\ committed <= cursor
  /\ cursor <= position
  /\ position <= end
  /\ loop \in {"poll", "ending"} => cursor = position

\* What a consumer that is down would handle next is what was committed.
Resume == IF loop = "down" THEN committed ELSE cursor

Reader == INSTANCE AtLeastOnce WITH next <- Resume

\* Whatever crashes, signals and lost memberships do, a poll loop is an
\* at-least-once reader of its topic.
ImplementsReader == Reader!Spec

\* The committed offset never passes a record that was not handled.
NothingSkipped == Reader!NothingSkipped
=============================================================================
