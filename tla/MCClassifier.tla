---------------------------- MODULE MCClassifier ----------------------------
(***************************************************************************)
(* Classifier for TLC: three records, the middle one malformed, batches of *)
(* up to two, a buffer of one score, and one or two deaths.                *)
(***************************************************************************)
EXTENDS Classifier

MCMalformed == {1}
=============================================================================
