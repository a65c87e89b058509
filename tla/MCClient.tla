------------------------------ MODULE MCClient ------------------------------
(* Model-checking instance of Client.                                      *)
EXTENDS Client
=============================================================================
