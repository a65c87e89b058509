---------------------------- MODULE MCNumerator -----------------------------
(* Model-checking instance of Numerator.                                   *)
EXTENDS Numerator
=============================================================================
