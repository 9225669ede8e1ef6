------------------------------ MODULE PyNumbers ------------------------------
(***************************************************************************)
(* Arithmetic of Python that the trainer and the evaluation rely on.       *)
(***************************************************************************)
EXTENDS Integers

\* round(a / b), for a non-negative a: halves go to the even side.
Rounded(a, b) ==
  LET q == a \div b
      r == a % b
  IN  IF 2 * r > b \/ (2 * r = b /\ q % 2 = 1) THEN q + 1 ELSE q
=============================================================================
