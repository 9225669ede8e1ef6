------------------------------ MODULE TickPath ------------------------------
(***************************************************************************)
(* What the way from a trade to a feature frame consists of besides the    *)
(* engine's threads: the two kernels, the case ids and the formats.  They  *)
(* share no state.                                                         *)
(***************************************************************************)
EXTENDS OfiWindow, CaseIds

CONSTANTS Samples, MaxSamples, LogPrices, NoPrice, MaxReturns

VARIABLES returns, head, count, last, past

volVars == <<returns, head, count, last, past>>

Vol == INSTANCE RealizedVol

ASSUME KernelAssumption == Vol!RvAssumption

CONSTANTS
  Symbols, SymbolMax, Amounts, SizeRange, Nul, Nothing, Malformed, Truncated, WrongType,
  Rejected

VARIABLES stage, trade, message, tick, bytes, record

wireVars == <<stage, trade, message, tick, bytes, record>>

Wire == INSTANCE Wire

ASSUME FormatsAssumption == Wire!WireAssumption

(***************************************************************************)
(* What a frame says is true of the past: OFI and volume of the window     *)
(* that ends at the newest tick (OfiWindow!ValueIsImbalance), volatility   *)
(* of the last returns, with Bessel's correction                           *)
(* (RealizedVol!ValueIsVariance).                                          *)
(***************************************************************************)
ValuesMatchWindows == ValueIsImbalance /\ Vol!ValueIsVariance

\* Wire!TradeArrives: a tick in the engine is a trade that some feed saw.
TradeArrives == Wire!TradeArrives

\* Wire!FrameIsUnderstood: the classifier reads what the engine wrote.
FrameIsUnderstood == Wire!FrameIsUnderstood
=============================================================================
