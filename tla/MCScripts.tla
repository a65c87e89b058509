----------------------------- MODULE MCScripts -----------------------------
(* Model-checking instance of Scripts: s1 runs on main and writes d2 and   *)
(* d1; s2 runs on lp, is triggered by d2 and writes d1.                    *)
EXTENDS Scripts

MCOrder == <<"s1", "s2">>
MCRunAt == [s1 |-> "main", s2 |-> "lp"]
MCTriggers == [s1 |-> {"d1"}, s2 |-> {"d2"}]
MCWrites == [s1 |-> <<"d2", "d1">>, s2 |-> <<"d1">>]
=============================================================================
