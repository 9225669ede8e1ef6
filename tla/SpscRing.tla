------------------------------ MODULE SpscRing ------------------------------
(***************************************************************************)
(* The single-producer single-consumer ring of src/src/ring_buffer.hpp,    *)
(* one action per access to memory the two threads share.                  *)
(*                                                                         *)
(* An atomic index is modelled by its modification order, the sequence of  *)
(* the values stored in it.  A load may return any value that is not older *)
(* than the last one this thread's view includes (coherence), so a thread  *)
(* may work from a stale index, as the C++ memory model allows.  headView  *)
(* and tailView say which stores of the other thread, with everything      *)
(* sequenced before them, happen before what the thread does now: an       *)
(* acquire load of a release store moves the view, a relaxed load would    *)
(* not.                                                                    *)
(*                                                                         *)
(* The slots are plain memory.  Copying an element in takes two steps,     *)
(* between which the slot holds Torn.                                      *)
(*                                                                         *)
(* An operator placed directly above a definition, with the same           *)
(* parameters and no comment, is a way to get that definition wrong: the   *)
(* runs are repeated with it in the definition's place, to show that the   *)
(* properties notice.                                                      *)
(***************************************************************************)
EXTENDS Integers, Sequences

CONSTANTS
  Capacity,    \* number of slots
  Values,      \* elements (TickData)
  Torn,        \* contents of a slot that holds no completely written element
  MaxPushes    \* bound on the number of successful pushes

\* ring_buffer.hpp:22-23 also demands a power of two, which makes "& mask" the
\* same as "% Capacity"; nothing else depends on it.
ASSUME CapacityAssumption == Capacity \in Nat /\ Capacity >= 2
ASSUME TornAssumption == Torn \notin Values
ASSUME MaxPushesAssumption == MaxPushes \in Nat

VARIABLES
  buf,        \* buf_
  headMO,     \* modification order of head_ (written by the consumer)
  tailMO,     \* modification order of tail_ (written by the producer)
  headView,   \* position in headMO up to which the producer is synchronized
  tailView,   \* position in tailMO up to which the consumer is synchronized
  ppc,        \* where the producer is in try_push
  pushing,    \* its argument
  pushResult, \* what the last try_push that decided told its caller
  cpc,        \* where the consumer is in try_pop
  out,        \* its out parameter
  popResult,  \* what the last try_pop that decided told its caller
  sent,       \* history: elements whose push has taken effect
  received    \* history: elements whose pop has taken effect

producerVars == <<tailMO, headView, ppc, pushing, pushResult, sent>>
consumerVars == <<headMO, tailView, cpc, out, popResult, received>>
vars == <<buf, producerVars, consumerVars>>

Slots == 0 .. Capacity - 1

Latest(modificationOrder) == modificationOrder[Len(modificationOrder)]

\* (i + 1) & mask
Succ(i) == (i + 1) % Capacity

FullNever(tail, head) == FALSE
FullOneEarly(tail, head) == Succ(Succ(tail)) = head
\* try_push's test: one slot stays empty.
Full(tail, head) == Succ(tail) = head

EmptyBelowTwo(tail, head) == head = tail \/ Succ(head) = tail
\* try_pop's test.
Empty(tail, head) == head = tail

\* size_approx, exact whenever neither index moves between its two loads.
Occupancy(tail, head) == (tail - head) % Capacity

\* The entries of a modification order an atomic load may return.
Readable(view, modificationOrder) == view .. Len(modificationOrder)

RelaxedView(view, version) == view
\* The view of a thread after an acquire load that returned entry version.
AcquireView(view, version) == version

Init ==
  /\ buf = [s \in Slots |-> Torn]
  /\ headMO = <<0>> /\ tailMO = <<0>>
  /\ headView = 1 /\ tailView = 1
  /\ ppc = "idle" /\ cpc = "idle"
  /\ pushing \in Values /\ out = Torn
  /\ pushResult = "none" /\ popResult = "none"
  /\ sent = << >> /\ received = << >>

-----------------------------------------------------------------------------
(* try_push *)

\* Entry, the relaxed load of tail_ (only this thread writes it), the acquire
\* load of head_ and the test for a full ring.
PushLoad(v, version) ==
  /\ ppc = "idle"
  /\ Len(sent) < MaxPushes
  /\ version \in Readable(headView, headMO)
  /\ headView' = AcquireView(headView, version)
  /\ pushing' = v
  /\ IF Full(Latest(tailMO), headMO[version])
       THEN pushResult' = "full" /\ UNCHANGED ppc
       ELSE ppc' = "write" /\ UNCHANGED pushResult
  /\ UNCHANGED <<buf, tailMO, sent, consumerVars>>

\* The copy into the slot has begun.
PushCopy ==
  /\ ppc = "write"
  /\ buf' = [buf EXCEPT ![Latest(tailMO)] = Torn]
  /\ ppc' = "copying"
  /\ UNCHANGED <<tailMO, headView, pushing, pushResult, sent, consumerVars>>

\* The copy into the slot is complete.
PushCopied ==
  /\ ppc = "copying"
  /\ buf' = [buf EXCEPT ![Latest(tailMO)] = pushing]
  /\ ppc' = "publish"
  /\ UNCHANGED <<tailMO, headView, pushing, pushResult, sent, consumerVars>>

\* The release store of tail_.
PushStore ==
  /\ ppc = "publish"
  /\ tailMO' = Append(tailMO, Succ(Latest(tailMO)))
  /\ sent' = Append(sent, pushing)
  /\ pushResult' = "ok"
  /\ ppc' = "idle"
  /\ UNCHANGED <<buf, headView, pushing, consumerVars>>

-----------------------------------------------------------------------------
(* try_pop *)

\* Entry, the relaxed load of head_, the acquire load of tail_ and the test
\* for an empty ring.
PopLoad(version) ==
  /\ cpc = "idle"
  /\ version \in Readable(tailView, tailMO)
  /\ tailView' = AcquireView(tailView, version)
  /\ IF Empty(tailMO[version], Latest(headMO))
       THEN popResult' = "empty" /\ UNCHANGED cpc
       ELSE cpc' = "read" /\ UNCHANGED popResult
  /\ UNCHANGED <<buf, headMO, out, received, producerVars>>

\* The copy out of the slot.
PopCopy ==
  /\ cpc = "read"
  /\ out' = buf[Latest(headMO)]
  /\ cpc' = "release"
  /\ UNCHANGED <<buf, headMO, tailView, popResult, received, producerVars>>

\* What try_pop stores in head_.
NextHead(head) == Succ(head)

\* The release store of head_.
PopStore ==
  /\ cpc = "release"
  /\ headMO' = Append(headMO, NextHead(Latest(headMO)))
  /\ received' = Append(received, out)
  /\ popResult' = "ok"
  /\ cpc' = "idle"
  /\ UNCHANGED <<buf, tailView, out, producerVars>>

-----------------------------------------------------------------------------

Producer ==
  \/ \E v \in Values, version \in 1 .. Len(headMO) : PushLoad(v, version)
  \/ PushCopy
  \/ PushCopied
  \/ PushStore

Consumer ==
  \/ \E version \in 1 .. Len(tailMO) : PopLoad(version)
  \/ PopCopy
  \/ PopStore

Next == Producer \/ Consumer

Spec == Init /\ [][Next]_vars

\* The threads keep running, the consumer keeps polling (engine.cpp:197-204),
\* and a store becomes visible in finite time ([atomics.order] of the C++
\* standard): a consumer that keeps loading tail_ eventually gets its last
\* value.  Nothing says that anyone keeps pushing.
Fairness ==
  /\ WF_vars(PushCopy \/ PushCopied \/ PushStore)
  /\ WF_vars(PopCopy \/ PopStore)
  /\ WF_vars(PopLoad(Len(tailMO)))

FairSpec == Spec /\ Fairness

-----------------------------------------------------------------------------
(* Properties *)

TypeOK ==
  /\ buf \in [Slots -> Values \cup {Torn}]
  /\ headMO \in Seq(Slots) /\ headMO # << >>
  /\ tailMO \in Seq(Slots) /\ tailMO # << >>
  /\ headView \in 1 .. Len(headMO)
  /\ tailView \in 1 .. Len(tailMO)
  /\ ppc \in {"idle", "write", "copying", "publish"}
  /\ cpc \in {"idle", "read", "release"}
  /\ pushing \in Values
  /\ out \in Values \cup {Torn}
  /\ pushResult \in {"none", "ok", "full"}
  /\ popResult \in {"none", "ok", "empty"}
  /\ sent \in Seq(Values)
  /\ received \in Seq(Values \cup {Torn})

(***************************************************************************)
(* Data-race freedom in the C++ sense (the header's claim that no mutex is *)
(* needed): when the producer writes a slot, the pop that last read that   *)
(* slot happens before the write, and when the consumer reads a slot, the  *)
(* push that filled it happens before the read.  Position k of headMO is   *)
(* the store of pop k - 1, position k of tailMO that of push k - 1.        *)
(***************************************************************************)
HappensBefore ==
  /\ ppc \in {"write", "copying", "publish"} => Len(sent) + 1 - Capacity <= headView - 1
  /\ cpc \in {"read", "release"} => Len(received) + 1 <= tailView - 1

\* The two threads are never inside the same slot at the same time: no
\* element is read while try_push is overwriting it.
NoSlotShared ==
  ppc \in {"write", "copying"} /\ cpc = "read" => Latest(tailMO) # Latest(headMO)

\* What try_pop hands out is what try_push was given, in the order of the
\* pushes, with nothing lost, repeated, torn or invented.
Fifo ==
  /\ Len(received) <= Len(sent)
  /\ \A k \in 1 .. Len(received) : received[k] = sent[k]

\* try_push refuses exactly when, as far as this thread can know, Capacity - 1
\* elements are in the ring, and try_pop reports empty exactly when it has
\* popped every push it can see: neither gives up early.
JustifiedRefusal ==
  /\ pushResult = "full" /\ ppc = "idle" => Len(sent) - (headView - 1) = Capacity - 1
  /\ popResult = "empty" /\ cpc = "idle" => Len(received) = tailView - 1

\* Every element pushed is popped, without any further push to wake the
\* consumer up.
EveryPushIsPopped ==
  \A k \in 1 .. MaxPushes : Len(sent) >= k ~> Len(received) >= k

-----------------------------------------------------------------------------
(* The ring implements the queue.  The queue held is what the slots from   *)
(* head_ to tail_ contain; a push takes effect when tail_ is stored and a  *)
(* pop when head_ is.                                                      *)

HeldQueue ==
  [i \in 1 .. Occupancy(Latest(tailMO), Latest(headMO)) |->
     buf[(Latest(headMO) + i - 1) % Capacity]]

Queue == INSTANCE BoundedQueue
           WITH Bound <- Capacity - 1, queue <- HeldQueue, delivered <- received

\* Every step of the ring is a Put, a Take or a stuttering step of a queue
\* of Capacity - 1 elements.
ImplementsQueue == Queue!Spec
=============================================================================
