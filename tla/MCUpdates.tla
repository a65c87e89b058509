----------------------------- MODULE MCUpdates ------------------------------
(* Model-checking instance of Updates.                                     *)
EXTENDS Updates
=============================================================================
