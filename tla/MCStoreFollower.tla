--------------------------- MODULE MCStoreFollower ---------------------------
(* Model-checking instance of StoreFollower.                               *)
EXTENDS StoreFollower

One(cmd, id, v) == [cmd |-> cmd, id |-> id, vals |-> v]
MCRequests ==
    {<<One(c, id, {v})>> : c \in {"put", "add_to"}, id \in Ids, v \in Values}
    \cup {<<One("remove", id, {})>> : id \in Ids}
=============================================================================
