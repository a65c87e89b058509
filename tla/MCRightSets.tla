----------------------------- MODULE MCRightSets -----------------------------
(* Model-checking instance of RightSets.  Statements are interchangeable:  *)
(* every property quantifies over all of them.                             *)
EXTENDS RightSets, TLC

PermsAlike == Permutations(Perms)
=============================================================================
