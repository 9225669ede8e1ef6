------------------------------ MODULE MCKernels ------------------------------
(***************************************************************************)
(* What goes into a feature frame, for TLC: the two kernels, the case ids  *)
(* and the formats around them.  None looks at the others, so a behaviour  *)
(* here is about one of them:                                              *)
(*   - OFI: three buckets, ticks spread over six epochs, so every slot is  *)
(*     recycled; two ticks share an epoch at both ends of a bucket;        *)
(*   - volatility: a window of three returns in an array of four, and more *)
(*     returns than it holds;                                              *)
(*   - case ids: engines that emit as many frames as a span of start times *)
(*     has ids, and three spans;                                           *)
(*   - formats: symbols below, at and above the width of the field, sizes  *)
(*     that round, that are almost nothing and that do not fit.            *)
(***************************************************************************)
EXTENDS TickPath, TLC

VARIABLE about  \* "ofi", "volatility", "ids" or "wire"

KernelsInit ==
  /\ about \in {"ofi", "volatility", "ids", "wire"}
  /\ Init /\ Vol!Init /\ Wire!Init
  \* Where the clock starts matters to the ids only.
  /\ IF about = "ids" THEN IdsInit ELSE IdsInit /\ clock = 0

KernelsNext ==
  \/ about = "ofi" /\ Next /\ UNCHANGED <<about, volVars, idVars, wireVars>>
  \/ about = "volatility" /\ Vol!Next /\ UNCHANGED <<about, vars, idVars, wireVars>>
  \/ about = "ids" /\ IdsNext /\ UNCHANGED <<about, vars, volVars, wireVars>>
  \/ about = "wire" /\ Wire!Next /\ UNCHANGED <<about, vars, volVars, idVars>>

KernelsSpec == KernelsInit /\ [][KernelsNext]_<<about, vars, volVars, idVars, wireVars>>

EngineSymmetry == Permutations(Engines)
MCTimes == {0, 1, 2, 5, 7, 8, 11}
MCLogPrices == {0, 1, 3}
MCSymbols == {<<"B">>, <<"B", "T", "C">>, <<"A", "A", "P", "L", "A", "A", "P", "L">>,
              <<"A", "A", "P", "L", "A", "A", "P", "L", "X">>}
MCAmounts == {0, 4, 10, 29, 30, 70, 75, 80, 161}
=============================================================================
