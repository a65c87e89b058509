----------------------------- MODULE MCDocflow -----------------------------
(* Model-checking instance of Docflow.  Net "main": t1 asks u1, who may    *)
(* send the work back to t1; then t2 asks u1 and u2 while t3 runs net      *)
(* "sub"; t4, without executor, joins them.  In "sub" a codelet decides    *)
(* whether s2, which asks u2, is needed.                                   *)
EXTENDS Docflow

Flow(into, test, value) == [into |-> into, test |-> test, value |-> value]
Plain(into) == Flow(into, "none", NoResult)

MCConsistsOf == [main |-> {"ic", "t1", "fork", "t2", "t3", "t4", "oc"},
                 sub |-> {"sic", "s1", "s2", "soc"}]
MCElementType == [ic |-> "input", t1 |-> "task", fork |-> "condition", t2 |-> "task",
                  t3 |-> "task", t4 |-> "task", oc |-> "output",
                  sic |-> "input", s1 |-> "task", s2 |-> "task", soc |-> "output"]
MCHasFlow ==
    [ic |-> <<Plain("t1")>>,
     t1 |-> <<Flow("t1", "some", "no"), Flow("fork", "all", "yes")>>,
     fork |-> <<Plain("t2"), Plain("t3")>>,
     t2 |-> <<Plain("t4")>>, t3 |-> <<Plain("t4")>>, t4 |-> <<Plain("oc")>>, oc |-> <<>>,
     sic |-> <<Plain("s1")>>,
     s1 |-> <<Flow("s2", "some", "no"), Flow("soc", "some", "yes")>>,
     s2 |-> <<Plain("soc")>>, soc |-> <<>>]
MCSplit == [x \in DOMAIN MCElementType |-> IF x \in {"t1", "s1"} THEN "XOR" ELSE "None"]
MCExecutor == [x \in DOMAIN MCElementType |->
    CASE x = "t1" -> <<"u1">> [] x = "t2" -> <<"u1", "u2">>
      [] x = "s1" -> <<"code">> [] x = "s2" -> <<"u2">> [] OTHER -> <<>>]
MCSubNet == [x \in DOMAIN MCElementType |-> IF x = "t3" THEN "sub" ELSE NoNet]
MCCodeletResult == [code |-> {"yes", "no"}]
MCForNet == <<"main">>
=============================================================================
