---------------------------- MODULE BoundedQueue ----------------------------
(***************************************************************************)
(* What SpscRing (src/src/ring_buffer.hpp) promises its two threads: a     *)
(* first-in first-out queue that never holds more than Bound elements.     *)
(* One cell of a ring of C slots stays empty, so a ring implements this    *)
(* queue with Bound = C - 1.  A refused push and an empty pop leave the    *)
(* queue alone and are stuttering steps here.                              *)
(*                                                                         *)
(* SpscRing.tla implements this module; Engine.tla is built on its two     *)
(* actions.                                                                *)
(*                                                                         *)
(* An operator placed directly above a definition, with the same           *)
(* parameters and no comment, is a way to get that definition wrong.       *)
(***************************************************************************)
EXTENDS Naturals, Sequences

CONSTANTS
  Values,   \* the elements (TickData in the engine)
  Bound     \* how many elements fit

VARIABLES
  queue,      \* the elements held, oldest first
  delivered   \* every element handed to the consumer, in order

vars == <<queue, delivered>>

Init ==
  /\ queue = << >>
  /\ delivered = << >>

IsFull == Len(queue) = Bound

\* A successful try_push.
Put(v) ==
  /\ ~IsFull
  /\ queue' = Append(queue, v)
  /\ UNCHANGED delivered

\* What is left when the oldest element is taken.
Rest == Tail(queue)

\* A successful try_pop.
Take ==
  /\ queue # << >>
  /\ queue' = Rest
  /\ delivered' = Append(delivered, Head(queue))

Next == (\E v \in Values : Put(v)) \/ Take

Spec == Init /\ [][Next]_vars
=============================================================================
