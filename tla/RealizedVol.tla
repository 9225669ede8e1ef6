----------------------------- MODULE RealizedVol -----------------------------
(***************************************************************************)
(* The realized-volatility kernel, class RealizedVolWindow of              *)
(* src/src/features.*: a circular array of the last log returns.           *)
(*                                                                         *)
(* A positive price is modelled by its logarithm, an integer, so that a    *)
(* log return is a difference; NoPrice stands for the prices <= 0 that the *)
(* kernel rejects.  The variance is the pair numerator / denominator, the  *)
(* square root is left out.                                                *)
(*                                                                         *)
(* An operator placed directly above a definition, with the same           *)
(* parameters and no comment, is a way to get that definition wrong.       *)
(***************************************************************************)
EXTENDS Integers, Sequences, Functions

CONSTANTS
  Samples,      \* the constructor's argument
  MaxSamples,   \* kMaxSamples
  LogPrices,    \* logarithms of the prices that occur
  NoPrice,      \* a price <= 0
  MaxReturns    \* bound on the number of returns

\* What is assumed of the constants.
RvAssumption ==
  /\ Samples \in Nat
  /\ MaxSamples \in Nat \ {0}
  /\ LogPrices \subseteq Int
  /\ NoPrice \notin Int
  /\ MaxReturns \in Nat

\* The constructor: 0 asks for the default, and kMaxSamples is the most.
CapacityFor(samples) ==
  IF samples = 0 \/ samples > MaxSamples THEN MaxSamples ELSE samples

Capacity == CapacityFor(Samples)

VARIABLES
  returns,   \* returns_
  head,      \* head_
  count,     \* count_
  last,      \* last_price_, NoPrice before the first trade
  past       \* history: every log return

vars == <<returns, head, count, last, past>>

Init ==
  /\ returns = [i \in 0 .. MaxSamples - 1 |-> 0]
  /\ head = 0
  /\ count = 0
  /\ last = NoPrice
  /\ past = << >>

\* update() rejects prices <= 0.
Reject(price) == price = NoPrice /\ UNCHANGED vars

\* The first price only primes last_price_.
Prime(price) ==
  /\ price # NoPrice
  /\ last = NoPrice
  /\ last' = price
  /\ UNCHANGED <<returns, head, count, past>>

\* (head_ + 1) % capacity_
NextHead(i) == (i + 1) % Capacity

\* count_ after one more return.
CountAfter(n) == IF n < Capacity THEN n + 1 ELSE n

\* Every later price adds a return.
Record(price) ==
  /\ price # NoPrice
  /\ last # NoPrice
  /\ Len(past) < MaxReturns
  /\ returns' = [returns EXCEPT ![head] = price - last]
  /\ last' = price
  /\ head' = NextHead(head)
  /\ count' = CountAfter(count)
  /\ past' = Append(past, price - last)

Next == \E price \in LogPrices \cup {NoPrice} : Reject(price) \/ Prime(price) \/ Record(price)

Spec == Init /\ [][Next]_vars

PopulationVariance(n, numerator) == <<numerator, n * n * n>>
\* With sum the sum of n returns r, the sum over them of (n * r - sum)^2 is
\* n * n times the sum of squared deviations; Bessel's correction divides by
\* n - 1.
SampleVariance(n, numerator) == <<numerator, n * n * (n - 1)>>

\* RealizedVolWindow::value, squared.
Value ==
  IF count < 2 THEN <<0, 1>>
  ELSE LET stored == 0 .. count - 1
           sum == SumFunctionOnSet(returns, stored)
           deviation == [i \in stored |-> count * returns[i] - sum]
       IN  SampleVariance(count,
             SumFunctionOnSet([i \in stored |-> deviation[i] * deviation[i]], stored))

-----------------------------------------------------------------------------
(* Properties *)

TypeOK ==
  /\ returns \in [0 .. MaxSamples - 1 -> Int]
  /\ head \in 0 .. Capacity - 1
  /\ count \in 0 .. Capacity
  /\ last \in LogPrices \cup {NoPrice}
  /\ past \in Seq(Int)

\* value() is the sample variance of the last Capacity returns, defined from
\* the whole past as (n * sum of squares - square of sum) / (n * (n - 1)), the
\* textbook form; 0 below two returns.
ValueIsVariance ==
  LET n == IF Len(past) < Capacity THEN Len(past) ELSE Capacity
      recent == Len(past) - n + 1 .. Len(past)
      sum == SumFunctionOnSet(past, recent)
      squares == SumFunctionOnSet([i \in recent |-> past[i] * past[i]], recent)
  IN  IF n < 2 THEN Value[1] = 0
      ELSE Value[1] * (n * (n - 1)) = (n * squares - sum * sum) * Value[2]
=============================================================================
