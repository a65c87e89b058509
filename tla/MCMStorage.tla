----------------------------- MODULE MCMStorage -----------------------------
(* Model-checking instance of MStorage.                                    *)
EXTENDS MStorage

One(cmd, id, v) == [cmd |-> cmd, id |-> id, vals |-> v]
Singles == {One(c, id, {v}) : c \in Updates \cup {"put"}, id \in Ids, v \in Values}
           \cup {One("remove", id, {}) : id \in Ids}
\* One individual, or two of which the first is put.
MCRequests == {<<i>> : i \in Singles}
    \cup {<<i, j>> : i \in {s \in Singles : s.cmd = "put"}, j \in {s \in Singles : s.cmd = "put"}}
=============================================================================
