------------------------------ MODULE MStorage ------------------------------
(***************************************************************************)
(* veda-mstorage: the one process that changes individuals.  It serves one *)
(* request at a time; a request carries one command and several            *)
(* individuals.  Each change goes, in this order, to the primary database, *)
(* the backup database, the queue individuals-flow and the info file with  *)
(* the last operation id; each of the four may fail, and the process may   *)
(* die between any two.                                                    *)
(*                                                                         *)
(* An individual is reduced to the values of one predicate, its deleted    *)
(* flag and v-s:updateCounter.  The queue is the log readers see: what     *)
(* push does to files is module VQueue, and of its failures two are told   *)
(* apart here: "push" (nothing is written, push answers an error) and      *)
(* "publish" (the record is not published, push answers Ok, and the queue  *)
(* takes no more pushes until the process restarts).                       *)
(***************************************************************************)
EXTENDS Integers, Sequences, FiniteSets

CONSTANTS
    Ids, Values,  \* individuals, and the values of their predicate
    Requests,     \* the requests clients may send, a set of sequences of Item
    MaxItems,     \* bound: the items received
    MaxCrash,     \* bound: deaths of the process
    UseBackup,    \* property use_backup_db
    Faults        \* what may fail, a subset of StoreFaultKinds

StoreFaultKinds == {"db", "backup", "push", "publish", "info"}

Updates == {"add_to", "set_in", "remove_from"}
Cmds == Updates \cup {"put", "remove"}
Item == [cmd : Cmds, id : Ids, vals : SUBSET Values]

ASSUME RequestsAssumption == Requests \subseteq Seq(Item)
ASSUME StoreBounds == MaxItems \in Nat /\ MaxCrash \in Nat
ASSUME StoreFlags == UseBackup \in BOOLEAN /\ Faults \subseteq StoreFaultKinds

VARIABLES
    db, backup,     \* [Ids -> individual]
    log,            \* elements of the queue, oldest first
    info,           \* operation id in the file subject_manager_info
    pc,             \* where the server is
    op_id,          \* last operation id, in memory
    q_ready, info_ready,  \* is_ready of the queue and of the info file
    request, responses,   \* the request in work and the answers so far
    cur,            \* the change in work
    received, crashes,
    acks,           \* history: the positive answers sent to clients
    gaps            \* history: individuals with a stored change readers never see

storeVars  == <<db, backup, log, info>>
memoryVars == <<pc, op_id, q_ready, info_ready, request, responses, cur>>
countVars  == <<received, crashes>>
historyVars == <<acks, gaps>>
mstorageVars == <<storeVars, memoryVars, countVars, historyVars>>

-----------------------------------------------------------------------------
Indv == [vals : SUBSET Values, deleted : BOOLEAN, n : Nat]

\* No individual: get_raw_value answers an empty state, its counter reads as 0.
NoIndv == [vals |-> {}, deleted |-> FALSE, n |-> 0]

Exists(id) == db[id] # NoIndv

(* The state a command makes of the stored one.                            *)
Applied(item, prev) ==
    [vals |-> CASE item.cmd = "add_to"      -> prev.vals \cup item.vals
                [] item.cmd = "remove_from" -> prev.vals \ item.vals
                [] OTHER                    -> item.vals,
     deleted |-> item.cmd = "remove" \/ (item.cmd \in Updates /\ prev.deleted),
     n |-> prev.n + 1]

(* A change on its way through to_storage_and_queue; pos is its place in   *)
(* the log once it is there.                                               *)
Change(cmd, new, prev, n) == [cmd |-> cmd, new |-> new, prev |-> prev, n |-> n, pos |-> 0]
NoChange == Change("put", NoIndv, NoIndv, 0)

Element(id, c, op) ==
    [id |-> id, cmd |-> c.cmd, new |-> c.new, prev |-> c.prev, n |-> c.n, op_id |-> op]

Response(id, res, op, n, pos) == [id |-> id, res |-> res, op_id |-> op, n |-> n, pos |-> pos]

current == request[Len(responses) + 1]

-----------------------------------------------------------------------------
Init ==
    /\ db = [i \in Ids |-> NoIndv] /\ backup = db
    /\ log = <<>>
    /\ info = 0
    /\ pc = "down"
    /\ op_id = 0 /\ q_ready = FALSE /\ info_ready = FALSE
    /\ request = <<>> /\ responses = <<>> /\ cur = NoChange
    /\ received = 0 /\ crashes = 0
    /\ acks = {} /\ gaps = {}

(* main: open the queue and the databases, read the info file.             *)
Start ==
    /\ pc = "down"
    /\ op_id' = info
    /\ q_ready' = TRUE /\ info_ready' = TRUE
    /\ pc' = "recv"
    /\ UNCHANGED <<storeVars, request, responses, cur, countVars, historyVars>>

(* The loop of main and request_prepare, for a request that is well formed *)
(* and has a valid ticket.                                                 *)
Receive ==
    /\ pc = "recv"
    /\ \E r \in Requests :
        /\ received + Len(r) <= MaxItems
        /\ received' = received + Len(r)
        /\ request' = r
    /\ responses' = <<>>
    /\ pc' = "item"
    /\ UNCHANGED <<storeVars, op_id, q_ready, info_ready, cur, crashes, historyVars>>

\* The answer for the item in work; its position is history.
Answer(res, op, n, pos) ==
    /\ responses' = Append(responses, Response(current.id, res, op, n, pos))
    /\ pc' = "item"
    /\ cur' = NoChange

Fail == Answer("fail", -1, -1, 0)

Working == pc = "item" /\ Len(responses) < Len(request)

(* operation_prepare refuses: no rights (a remove is only logged), or      *)
(* nothing to update.                                                      *)
RefuseItem ==
    /\ Working
    /\ current.cmd # "remove"
    /\ Fail
    /\ UNCHANGED <<storeVars, op_id, q_ready, info_ready, request, countVars, historyVars>>

\* Mutant: the previous state is taken after the command was applied to it.
StoreOwnPrev ==
    /\ Working
    /\ current.cmd \in Updates => Exists(current.id)
    /\ LET new == Applied(current, db[current.id])
       IN  /\ db' = [db EXCEPT ![current.id] = new]
           /\ cur' = Change("put", new, new, new.n)
    /\ pc' = "backup"
    /\ UNCHANGED <<backup, log, info, op_id, q_ready, info_ready, request, responses,
                   countVars, historyVars>>

(* operation_prepare reads the stored state, and to_storage_and_queue      *)
(* writes the new one to the primary database.                             *)
Store ==
    /\ Working
    /\ current.cmd \in Updates => Exists(current.id)
    /\ LET new == Applied(current, db[current.id])
       IN  /\ db' = [db EXCEPT ![current.id] = new]
           /\ cur' = Change("put", new, db[current.id], new.n)
    /\ pc' = "backup"
    /\ UNCHANGED <<backup, log, info, op_id, q_ready, info_ready, request, responses,
                   countVars, historyVars>>

\* Mutant: the answer to a remove is given without telling the queue.
RemoveUnlogged ==
    /\ pc = "remove"
    /\ db' = [db EXCEPT ![current.id] = NoIndv]
    /\ Answer("ok", op_id, cur.n, cur.pos)
    /\ UNCHANGED <<backup, log, info, op_id, q_ready, info_ready, request, countVars,
                   historyVars>>

(* The second to_storage_and_queue of a remove: the individual, which the  *)
(* first has marked as deleted, leaves the primary database.               *)
Remove ==
    /\ pc = "remove"
    /\ db' = [db EXCEPT ![current.id] = NoIndv]
    /\ cur' = Change("remove", NoIndv, NoIndv, cur.n)
    /\ pc' = "backup"
    /\ UNCHANGED <<backup, log, info, op_id, q_ready, info_ready, request, responses,
                   countVars, historyVars>>

(* The primary database fails; nothing was changed.                        *)
StoreFails ==
    /\ "db" \in Faults
    /\ \/ Working /\ (current.cmd \in Updates => Exists(current.id))
       \/ pc = "remove"
    /\ Fail
    /\ UNCHANGED <<storeVars, op_id, q_ready, info_ready, request, countVars, historyVars>>

(* The backup database, if it is used; its failure is only logged.         *)
BackUp ==
    /\ pc = "backup"
    /\ \/ UseBackup /\ backup' = [backup EXCEPT ![current.id] = cur.new]
       \/ (~UseBackup \/ "backup" \in Faults) /\ UNCHANGED backup
    /\ pc' = "push"
    /\ UNCHANGED <<db, log, info, op_id, q_ready, info_ready, request, responses, cur,
                   countVars, historyVars>>

\* Mutant: the element carries the operation id of the change before.
PushOldOpId ==
    /\ pc = "push"
    /\ q_ready
    /\ log' = Append(log, Element(current.id, cur, op_id))
    /\ cur' = [cur EXCEPT !.pos = Len(log')]
    /\ op_id' = op_id + 1
    /\ pc' = "put_info"
    /\ UNCHANGED <<db, backup, info, q_ready, info_ready, request, responses, countVars,
                   historyVars>>

\* Mutant: the operation id is counted up before the element is built.
PushCountedUp ==
    /\ pc = "push"
    /\ q_ready
    /\ log' = Append(log, Element(current.id, cur, op_id + 2))
    /\ cur' = [cur EXCEPT !.pos = Len(log')]
    /\ op_id' = op_id + 1
    /\ pc' = "put_info"
    /\ UNCHANGED <<db, backup, info, q_ready, info_ready, request, responses, countVars,
                   historyVars>>

(* The element goes to the queue under the next operation id.              *)
Push ==
    /\ pc = "push"
    /\ q_ready
    /\ \/ /\ log' = Append(log, Element(current.id, cur, op_id + 1))
          /\ cur' = [cur EXCEPT !.pos = Len(log')]
          /\ UNCHANGED <<q_ready, gaps>>
       \/ /\ "publish" \in Faults
          /\ q_ready' = FALSE
          /\ gaps' = gaps \cup {current.id}
          /\ UNCHANGED <<log, cur>>
    /\ op_id' = op_id + 1
    /\ pc' = "put_info"
    /\ UNCHANGED <<db, backup, info, info_ready, request, responses, countVars, acks>>

\* Mutant: a refused push is answered as a success.
PushFailsOk ==
    /\ pc = "push"
    /\ ~q_ready \/ "push" \in Faults
    /\ gaps' = gaps \cup {current.id}
    /\ Answer("ok", op_id, cur.n, 0)
    /\ UNCHANGED <<storeVars, op_id, q_ready, info_ready, request, countVars, acks>>

(* push answers FailWrite, or NotReady: the change stays in the databases  *)
(* and the answer is FailStore.                                            *)
PushFails ==
    /\ pc = "push"
    /\ ~q_ready \/ "push" \in Faults
    /\ gaps' = gaps \cup {current.id}
    /\ Fail
    /\ UNCHANGED <<storeVars, op_id, q_ready, info_ready, request, countVars, acks>>

(* put_info; a remove goes on with its second half, anything else is done. *)
PutInfo ==
    /\ pc = "put_info"
    /\ info_ready
    /\ info' = op_id
    /\ \/ /\ current.cmd = "remove" /\ cur.cmd = "put"
          /\ pc' = "remove"
          /\ UNCHANGED <<responses, cur>>
       \/ /\ ~(current.cmd = "remove" /\ cur.cmd = "put")
          /\ Answer("ok", op_id, cur.n, cur.pos)
    /\ UNCHANGED <<db, backup, log, op_id, q_ready, info_ready, request, countVars,
                   historyVars>>

\* Mutant: the answer does not depend on the info file.
PutInfoFailsOk ==
    /\ pc = "put_info"
    /\ ~info_ready \/ "info" \in Faults
    /\ info_ready' = FALSE
    /\ Answer("ok", op_id, cur.n, cur.pos)
    /\ UNCHANGED <<storeVars, op_id, q_ready, request, countVars, historyVars>>

(* put_info fails, and from then on always: the change is stored and       *)
(* queued, the answer is FailStore.                                        *)
PutInfoFails ==
    /\ pc = "put_info"
    /\ ~info_ready \/ "info" \in Faults
    /\ info_ready' = FALSE
    /\ Fail
    /\ UNCHANGED <<storeVars, op_id, q_ready, request, countVars, historyVars>>

(* The loop of main: the answers to all items are sent.                    *)
Respond ==
    /\ pc = "item"
    /\ Len(responses) = Len(request)
    /\ acks' = acks \cup {responses[i] : i \in {j \in DOMAIN responses : responses[j].res = "ok"}}
    /\ request' = <<>> /\ responses' = <<>>
    /\ pc' = "recv"
    /\ UNCHANGED <<storeVars, op_id, q_ready, info_ready, cur, countVars, gaps>>

(* The process dies: files and databases stay.                             *)
Crash ==
    /\ pc # "down"
    /\ crashes < MaxCrash
    /\ crashes' = crashes + 1
    /\ gaps' = IF pc \in {"backup", "push"} THEN gaps \cup {current.id} ELSE gaps
    /\ pc' = "down"
    /\ op_id' = 0 /\ q_ready' = FALSE /\ info_ready' = FALSE
    /\ request' = <<>> /\ responses' = <<>> /\ cur' = NoChange
    /\ UNCHANGED <<storeVars, received, acks>>

Next ==
    \/ Start \/ Receive \/ RefuseItem \/ Store \/ Remove \/ StoreFails
    \/ BackUp \/ Push \/ PushFails \/ PutInfo \/ PutInfoFails \/ Respond
    \/ Crash

Spec == Init /\ [][Next]_mstorageVars

-----------------------------------------------------------------------------
(* Types of the stores, the server and the history.                        *)
Ops == Nat \cup {-1}
ResponseType == [id : Ids, res : {"ok", "fail"}, op_id : Ops, n : Ops, pos : Nat]

TypeOK ==
    /\ db \in [Ids -> Indv] /\ backup \in [Ids -> Indv]
    /\ log \in Seq([id : Ids, cmd : {"put", "remove"}, new : Indv, prev : Indv, n : Nat,
                    op_id : Nat])
    /\ info \in Nat /\ op_id \in Nat
    /\ pc \in {"down", "recv", "item", "backup", "push", "put_info", "remove"}
    /\ q_ready \in BOOLEAN /\ info_ready \in BOOLEAN
    /\ request \in Seq(Item)
    /\ responses \in Seq(ResponseType)
    /\ cur \in [cmd : {"put", "remove"}, new : Indv, prev : Indv, n : Nat, pos : Nat]
    /\ received \in Nat /\ crashes \in 0 .. MaxCrash
    /\ acks \subseteq ResponseType
    /\ gaps \subseteq Ids

(* A change that was answered with success is in the queue, under the      *)
(* operation id and the counter the client was told; the only exception is *)
(* the one push per run of the process that lost its record on publishing  *)
(* (veda-mstorage main.rs:576-585, queue.rs:158-163).                      *)
AckedQueued ==
    /\ \A a \in acks : a.pos > 0 =>
           log[a.pos].id = a.id /\ log[a.pos].op_id = a.op_id /\ log[a.pos].n = a.n
    /\ Cardinality({a \in acks : a.pos = 0}) <= (IF "publish" \in Faults THEN crashes + 1 ELSE 0)

(* No two successful answers carry the same operation id, although a death *)
(* between push and put_info, or a failed put_info, makes the server give  *)
(* an id twice (main.rs:112-115, 581-585).                                 *)
AckedOpIdUnique == \A a, b \in acks : a.op_id = b.op_id => a = b

\* What the queue says of an individual after its first k elements.
Positions(id, k) == {j \in 1 .. k : log[j].id = id}
LastTold(id, k) ==
    IF Positions(id, k) = {} THEN NoIndv
    ELSE log[CHOOSE j \in Positions(id, k) : \A i \in Positions(id, k) : i <= j].new

(* Between two requests the queue tells the state of every individual, but *)
(* for those of which a change was stored and not queued (main.rs:494-579).*)
LogTellsStore ==
    pc = "recv" => \A id \in Ids \ gaps : LastTold(id, Len(log)) = db[id]

(* The previous state in an element is the new state of the element before *)
(* it of the same individual: az-indexer and others work on the difference *)
(* of the two (main.rs:309-319, 541-543).                                  *)
ChainUnbroken ==
    \A k \in DOMAIN log :
        log[k].id \notin gaps /\ log[k].cmd = "put" =>
            log[k].prev = LastTold(log[k].id, k - 1)

(* Between two requests the backup database has what the primary one has,  *)
(* if it does not fail, but for individuals of which a change was cut      *)
(* short (main.rs:494-524).                                                *)
BackupFollows ==
    UseBackup /\ "backup" \notin Faults /\ pc = "recv" =>
        \A id \in Ids \ gaps : backup[id] = db[id]
=============================================================================
