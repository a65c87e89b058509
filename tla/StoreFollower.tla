---------------------------- MODULE StoreFollower ----------------------------
(***************************************************************************)
(* A module that follows veda-mstorage through the queue and tells clients *)
(* how far it is: az-indexer, as an example.  It is given the log as in    *)
(* EventFlow (in order, each element at least once, again from the durable *)
(* cursor after a death), writes the operation id of each element to its   *)
(* info file, and clients wait on that file (Backend.wait_module) before   *)
(* they rely on what the module did.                                       *)
(***************************************************************************)
EXTENDS MStorage

CONSTANT MaxRestart    \* bound: deaths of the follower

ASSUME RestartBound == MaxRestart \in Nat

VARIABLES
    next,       \* elements popped by the current run
    committed,  \* elements popped according to the cursor file
    f_info,     \* operation id in the follower's info file
    view,       \* [Ids -> individual], what the module keeps of each
    restarts,
    done        \* history: positions handled in any run

followerVars == <<next, committed, f_info, view, restarts, done>>
allVars == <<mstorageVars, followerVars>>

FollowerInit ==
    /\ next = 0 /\ committed = 0
    /\ f_info = 0
    /\ view = [i \in Ids |-> NoIndv]
    /\ restarts = 0
    /\ done = {}

\* Mutant: the element that ends an individual is not looked at.
HandlePutsOnly ==
    /\ next < Len(log)
    /\ LET e == log[next + 1]
       IN  /\ view' = IF e.cmd = "put" THEN [view EXCEPT ![e.id] = e.new] ELSE view
           /\ f_info' = e.op_id
    /\ done' = done \cup {next + 1}
    /\ next' = next + 1
    /\ committed' \in {committed, next + 1}
    /\ UNCHANGED restarts

(* prepare: the module's own work, then put_info; listen_queue commits     *)
(* afterwards, which a death may prevent.                                  *)
Handle ==
    /\ next < Len(log)
    /\ LET e == log[next + 1]
       IN  /\ view' = [view EXCEPT ![e.id] = e.new]
           /\ f_info' = e.op_id
    /\ done' = done \cup {next + 1}
    /\ next' = next + 1
    /\ committed' \in {committed, next + 1}
    /\ UNCHANGED restarts

(* The follower dies and starts at its cursor, or at the beginning when it *)
(* died while the cursor file was empty.                                   *)
Restart ==
    /\ restarts < MaxRestart
    /\ restarts' = restarts + 1
    /\ committed' \in {committed, 0}
    /\ next' = committed'
    /\ UNCHANGED <<f_info, view, done>>

FollowInit == Init /\ FollowerInit

FollowNext ==
    \/ Next /\ UNCHANGED followerVars
    \/ Handle /\ UNCHANGED mstorageVars
    \/ Restart /\ UNCHANGED mstorageVars

FollowSpec == FollowInit /\ [][FollowNext]_allVars

(* The follower's thread keeps running; nothing is assumed of mstorage.    *)
FairFollowSpec == FollowSpec /\ WF_allVars(Handle /\ UNCHANGED mstorageVars)

-----------------------------------------------------------------------------
(* A client that was answered with an operation id and finds this id, or a *)
(* larger one, in the info file of a module may rely on the module having  *)
(* treated its change (public/js/browser/backend.js:323-334).              *)
OpIdWait == \A a \in acks : a.pos > 0 /\ f_info >= a.op_id => a.pos \in done

(* Such a wait ends, unless the client gives up: it asks a hundred times   *)
(* (public/js/browser/backend.js:326-334, veda-az-indexer main.rs:107).    *)
WaitEnds ==
    \A op \in 1 .. 2 * MaxItems : (\E a \in acks : a.op_id = op) ~> f_info >= op

(* A follower that is at the end of the queue has the state of every       *)
(* individual that has no stored change outside the queue, although a      *)
(* restart may have taken it through old states again.                     *)
FollowerConverges ==
    pc = "recv" /\ next = Len(log) => \A id \in Ids \ gaps : view[id] = db[id]
=============================================================================
