----------------------------- MODULE AtLeastOnce -----------------------------
(***************************************************************************)
(* What the poll loops of the classifier and of the agent service promise  *)
(* (services/classifier/consumer.py and services/agents/consumer.py with   *)
(* enable_auto_commit): the records of a topic are handled in order, some  *)
(* of them more than once, and the group's committed offset never moves    *)
(* past a record that was not handled.  PollLoop.tla implements it.        *)
(*                                                                         *)
(* Records are numbered from 0, as Kafka offsets are.                      *)
(***************************************************************************)
EXTENDS Naturals

CONSTANT MaxRecords   \* bound on the length of the topic

VARIABLES
  end,        \* records published so far
  next,       \* the record handled next
  committed,  \* where a restarted consumer would resume
  handled     \* history: records handled at least once

vars == <<end, next, committed, handled>>

Init ==
  /\ end = 0 /\ next = 0 /\ committed = 0
  /\ handled = {}

Publish ==
  /\ end < MaxRecords
  /\ end' = end + 1
  /\ UNCHANGED <<next, committed, handled>>

Handle ==
  /\ next < end
  /\ handled' = handled \cup {next}
  /\ next' = next + 1
  /\ UNCHANGED <<end, committed>>

Commit ==
  /\ committed' = next
  /\ UNCHANGED <<end, next, handled>>

\* The consumer restarts, or its partition is taken away and given back.
Rewind ==
  /\ next' = committed
  /\ UNCHANGED <<end, committed, handled>>

Next == Publish \/ Handle \/ Commit \/ Rewind

Spec == Init /\ [][Next]_vars

-----------------------------------------------------------------------------

\* No record is skipped: what lies below the committed offset, which nobody
\* will read again, was handled.
NothingSkipped == 0 .. committed - 1 \subseteq handled
=============================================================================
