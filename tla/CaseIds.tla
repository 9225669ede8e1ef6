------------------------------- MODULE CaseIds -------------------------------
(***************************************************************************)
(* The case ids of src/src/engine.cpp:77-87, the join key of the whole     *)
(* pipeline, over the life of several engine processes: each starts a      *)
(* counter at its start time with the low 32 bits cleared and takes the    *)
(* next number for each frame it builds.                                   *)
(*                                                                         *)
(* Span stands for 2^32 ns (4.3 s), the span of start times that share a *)
(* base; the counter wraps at WordSize (2^64).                             *)
(*                                                                         *)
(* An operator placed directly above a definition, with the same           *)
(* parameters and no comment, is a way to get that definition wrong.       *)
(***************************************************************************)
EXTENDS Integers, FiniteSets

CONSTANTS
  Engines,     \* engine processes
  Span,      \* 2^32
  WordSize,    \* 2^64
  MaxTime,     \* bound on the clock
  MaxFrames    \* bound on the frames of one process

ASSUME CaseIdsAssumption ==
  /\ Span \in Nat \ {0}
  /\ WordSize \in Nat
  /\ MaxTime \in Nat /\ MaxTime + Span < WordSize
  /\ MaxFrames \in Nat /\ MaxFrames <= Span

VARIABLES
  clock,    \* system_clock::now(), in ns
  launched, \* history: when each engine started, NotYet before
  counter,  \* g_case_id_counter of each engine, NotYet before it starts
  issued    \* history: the ids each engine has given to its frames

idVars == <<clock, launched, counter, issued>>

NotYet == -1

IdsInit ==
  /\ clock \in 0 .. MaxTime
  /\ launched = [e \in Engines |-> NotYet]
  /\ counter = [e \in Engines |-> NotYet]
  /\ issued = [e \in Engines |-> {}]

\* Time passes, or the clock is set back.
ClockMoves ==
  /\ clock' \in 0 .. MaxTime
  /\ clock' # clock
  /\ UNCHANGED <<launched, counter, issued>>

StartTime(now) == now
\* now & 0xFFFFFFFF00000000
BaseAt(now) == now - (now % Span)

Started == {e \in Engines : launched[e] # NotYet}

\* The static initializer runs.
Launch(e) ==
  /\ e \notin Started
  /\ launched' = [launched EXCEPT ![e] = clock]
  /\ counter' = [counter EXCEPT ![e] = BaseAt(clock)]
  /\ UNCHANGED <<clock, issued>>

\* fetch_add(1) on 64 bits.
NextCounter(n) == (n + 1) % WordSize

\* next_case_id, called by build_frame for every frame.
NextCaseId(e) ==
  /\ e \in Started
  /\ Cardinality(issued[e]) < MaxFrames
  /\ counter' = [counter EXCEPT ![e] = NextCounter(counter[e])]
  /\ issued' = [issued EXCEPT ![e] = @ \cup {counter[e]}]
  /\ UNCHANGED <<clock, launched>>

IdsNext == ClockMoves \/ \E e \in Engines : Launch(e) \/ NextCaseId(e)

IdsSpec == IdsInit /\ [][IdsNext]_idVars

-----------------------------------------------------------------------------
(* Properties *)

IdsTypeOK ==
  /\ clock \in 0 .. MaxTime
  /\ launched \in [Engines -> NotYet .. MaxTime]
  /\ counter \in [Engines -> NotYet .. MaxTime + MaxFrames]
  /\ issued \in [Engines -> SUBSET (0 .. WordSize - 1)]

\* Within one engine every frame gets an id of its own: the next one has not
\* been issued.
FreshWithinEngine == \A e \in Started : counter[e] \notin issued[e]

\* Engines whose start times lie in different windows never issue the same id,
\* although neither knows of the other, even if the clock was set back between
\* them.
DistinctAcrossWindows ==
  \A d, e \in Started :
    launched[d] \div Span # launched[e] \div Span => issued[d] \cap issued[e] = {}
=============================================================================
