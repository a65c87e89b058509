------------------------------- MODULE Client -------------------------------
(***************************************************************************)
(* A browser page with one individual: the cached model (load, edit, save, *)
(* reset), the calls of the backend, the local database and its queue of   *)
(* calls made without connection.  The store behind them is one record     *)
(* with a counter, changed by this page and by others.                     *)
(*                                                                         *)
(* Page code is not interrupted, but any request, timer, event or access   *)
(* to the local database may be served before another.  Hurry names the    *)
(* coincidences that are let happen, each of which loses an edit.          *)
(***************************************************************************)
EXTENDS Integers, Sequences, SequencesExt

CONSTANTS
    Props,      \* properties that are edited
    SameSum,    \* sets of values that reset takes for equal: equal sums of char codes
    Hurry,      \* of "save", "enqueue", "flush"
    MaxEdit, MaxOther, MaxFault, MaxAll     \* bounds: of each kind, and of all

ASSUME ClientBounds == {MaxEdit, MaxOther, MaxFault, MaxAll} \subseteq Nat
ASSUME ClientHurry == Hurry \subseteq {"save", "enqueue", "flush"}

Own == 1 .. MaxEdit                 \* values: each edit of the page gives a new one,
Base == MaxEdit + 1                 \* one is there from the beginning,
Others == Base + 1 .. Base + MaxOther   \* and the others write new ones too
Values == Own \cup {Base} \cup Others
Nothing == [p \in Props |-> {}]
Rec(count, val) == [count |-> count, val |-> val]
NoRec == Rec(-1, Nothing)

VARIABLES
    db,         \* the stored individual; count 0 when there is none
    line,       \* is the server reachable
    item,       \* the model in the page's cache
    get,        \* [load, reset |-> [stage, rec]], requests for the individual
    saves,      \* saves in progress: what was saved, and the calls by command
    flushes,    \* flushes in progress: [queue, k, executed]
    local, offline,     \* local database: the individual, and "offline-queue"
    status,     \* backend: [line, ccus, checking, once]
    bounds,     \* edits, changes of others, losses of the line and of the page
    acked, executed,    \* history: <<property, value>> of the page's edits
    behind      \* history: was the model ever taken from a copy without an edit on its way

serverVars == <<db, executed, behind>>
modelVars == <<item, get>>
callVars == <<saves, flushes, local, offline>>
vars == <<serverVars, line, modelVars, callVars, status, bounds, acked>>

-----------------------------------------------------------------------------
(* Records and calls.                                                      *)
NoItem == [here |-> FALSE, val |-> Nothing, count |-> 0, orig |-> Nothing,
           isNew |-> FALSE, isSync |-> FALSE, isLoaded |-> FALSE]
Model == [NoItem EXCEPT !.here = TRUE]
Idle == [stage |-> "none", rec |-> NoRec]
Sent == [stage |-> "sent", rec |-> NoRec]

Call(val, props) == [vals |-> [p \in props |-> val[p]], stage |-> "sent", seen |-> <<>>]

\* Mutant: only what is changed is sent, not what is new.
CallsOfChanges(m) ==
    LET differ == {p \in Props : m.orig[p] # {} /\ m.val[p] # {} /\ m.val[p] # m.orig[p]}
    IN  [c \in (IF m.isNew THEN {"put"} ELSE IF differ # {} THEN {"set"} ELSE {}) |->
            IF c = "put" THEN Call(m.val, Props) ELSE Call(m.val, differ)]

(* diff and the calls of save: what was added, changed and is missing, or  *)
(* a new individual as a whole.                                            *)
Calls(m) ==
    LET of == [add |-> {p \in Props : m.orig[p] = {} /\ m.val[p] # {}},
               set |-> {p \in Props : m.orig[p] # {} /\ m.val[p] # {} /\ m.val[p] # m.orig[p]},
               remove |-> {p \in Props : m.orig[p] # {} /\ m.val[p] = {}}]
    IN  IF m.isNew THEN [c \in {"put"} |-> Call(m.val, Props)]
        ELSE [c \in {x \in DOMAIN of : of[x] # {}} |->
                 Call(IF c = "remove" THEN m.orig ELSE m.val, of[c])]

Applied(rec, c, vals) ==
    Rec(rec.count + 1,
        [p \in Props |-> IF p \notin DOMAIN vals THEN rec.val[p]
                         ELSE IF c = "add" THEN rec.val[p] \cup vals[p]
                         ELSE IF c = "remove" THEN rec.val[p] \ vals[p]
                         ELSE vals[p]])

Happens(kind, max) ==
    /\ bounds[kind] < max
    /\ bounds.edits + bounds.others + bounds.faults < MaxAll
    /\ bounds' = [bounds EXCEPT ![kind] = @ + 1]

OwnIn(val) == UNION {{p} \X (val[p] \cap Own) : p \in DOMAIN val}

(* The server executes a call.                                             *)
Execute(c, vals) ==
    /\ line
    /\ db' = Applied(db, c, vals)
    /\ executed' = executed \cup (IF c = "remove" THEN {} ELSE OwnIn(vals))

OwnQueued == UNION {OwnIn(offline[k].vals) : k \in {k \in DOMAIN offline : offline[k].cmd # "remove"}}

\* The model takes over the record, which should have what is stored, queued and being saved.
Taken(rec) ==
    LET due == OwnIn(db.val) \cup OwnQueued \cup UNION {OwnIn(saves[i].val) : i \in DOMAIN saves}
    IN  behind' = (behind \/ ~due \subseteq OwnIn(rec.val))

-----------------------------------------------------------------------------
(* Status of the backend.                                                  *)
BackendStatus ==
    IF status.line /\ status.ccus THEN "online" ELSE IF status.line THEN "limited" ELSE "offline"

\* A request fails for want of a connection.
GoOffline == status' = [status EXCEPT !.line = FALSE, !.checking = TRUE]

(* reset: once at a time, and not for a new individual.                    *)
Resetting(m, g) == IF g.reset.stage # "none" \/ m.isNew THEN g ELSE [g EXCEPT !.reset = Sent]

(* check: a ping tells whether the server is there; when it is, the event  *)
(* "online" flushes the queue and resets a model that could not be loaded. *)
Ping ==
    /\ status.checking
    /\ IF line
       THEN /\ status' = [status EXCEPT !.line = TRUE, !.checking = FALSE, !.once = FALSE]
            /\ get' = IF status.once THEN Resetting(item, get) ELSE get
            /\ flushes' = IF offline = <<>> \/ (flushes # <<>> /\ "flush" \notin Hurry) THEN flushes
                          ELSE Append(flushes, [queue |-> offline, k |-> 1, executed |-> FALSE])
       ELSE /\ status.line
            /\ status' = [status EXCEPT !.line = FALSE]
            /\ UNCHANGED <<get, flushes>>
    /\ UNCHANGED <<serverVars, line, item, saves, local, offline, bounds, acked>>

-----------------------------------------------------------------------------
(* The update service, which Updates models: its socket comes and goes,    *)
(* and the individual is reset when a counter it does not have is told.    *)
SocketOpened ==
    /\ line /\ ~status.ccus
    /\ status' = [status EXCEPT !.ccus = TRUE, !.checking = TRUE]
    /\ UNCHANGED <<serverVars, line, modelVars, callVars, bounds, acked>>

SocketClosed ==
    /\ status.ccus
    /\ status' = [status EXCEPT !.ccus = FALSE, !.checking = TRUE]
    /\ UNCHANGED <<serverVars, line, modelVars, callVars, bounds, acked>>

Notified ==
    /\ line /\ status.ccus /\ item.here /\ item.count # db.count
    /\ get' = Resetting(item, get)
    /\ UNCHANGED <<serverVars, line, item, callVars, status, bounds, acked>>

-----------------------------------------------------------------------------
(* Load and reset.                                                         *)

(* get_individual: the local database is asked first when notifications    *)
(* come, and when nothing can be asked; in between the server is.          *)
Load ==
    IF BackendStatus # "limited" /\ local # NoRec THEN [stage |-> "local", rec |-> local] ELSE Sent

(* new IndividualModel(uri), and load.                                     *)
Open ==
    /\ ~item.here /\ db.count > 0
    /\ item' = Model
    /\ get' = [get EXCEPT !.load = Load]
    /\ UNCHANGED <<serverVars, line, callVars, status, bounds, acked>>

(* new IndividualModel() for an individual that is to be.                  *)
Create ==
    /\ ~item.here /\ db.count = 0 /\ offline = <<>>
    /\ item' = [Model EXCEPT !.isNew = TRUE]
    /\ UNCHANGED <<serverVars, line, get, callVars, status, bounds, acked>>

(* load of a model that is there: loaded again if it was not, reset while  *)
(* no notifications come.                                                  *)
View ==
    /\ item.here /\ ~item.isNew /\ get = [load |-> Idle, reset |-> Idle] /\ saves = <<>>
    /\ IF item.isLoaded THEN BackendStatus = "limited" /\ get' = Resetting(item, get)
       ELSE get' = [get EXCEPT !.load = Load]
    /\ UNCHANGED <<serverVars, line, item, callVars, status, bounds, acked>>

(* The server reads the individual.                                        *)
Answer(r) ==
    /\ line /\ get[r].stage = "sent"
    /\ get' = [get EXCEPT ![r] = [stage |-> "answered", rec |-> db]]
    /\ UNCHANGED <<serverVars, line, item, callVars, status, bounds, acked>>

Loaded(rec) ==
    [item EXCEPT !.val = rec.val, !.count = rec.count, !.orig = rec.val,
                 !.isNew = FALSE, !.isSync = TRUE, !.isLoaded = TRUE]

LoadDone ==
    /\ get.load.stage \in {"local", "answered"} /\ (get.load.stage = "answered" => line)
    /\ item' = Loaded(get.load.rec)
    /\ local' = get.load.rec
    /\ Taken(get.load.rec)
    /\ get' = [get EXCEPT !.load = Idle]
    /\ UNCHANGED <<db, executed, line, saves, flushes, offline, status, bounds, acked>>

(* The model says that it is not available, and is reset once the server   *)
(* is there again; reset_individual falls back to the local database.      *)
LoadFails ==
    /\ ~line /\ get.load.stage \in {"sent", "answered"}
    /\ IF local # NoRec
       THEN /\ item' = Loaded(local)
            /\ Taken(local)
            /\ GoOffline
       ELSE /\ item' = [Model EXCEPT !.val = Nothing]
            /\ status' = [status EXCEPT !.line = FALSE, !.checking = TRUE, !.once = TRUE]
            /\ UNCHANGED behind
    /\ get' = [get EXCEPT !.load = Idle]
    /\ UNCHANGED <<db, executed, line, callVars, bounds, acked>>

(* processOriginal: a property whose text has the same sum stays.          *)
Merged(old, new) ==
    [p \in Props |-> IF old[p] # {} /\ new[p] # {} /\ \E same \in SameSum : old[p] \cup new[p] \subseteq same
                     THEN old[p] ELSE new[p]]

ResetTo(rec) ==
    [item EXCEPT !.val = Merged(@, rec.val), !.count = rec.count, !.orig = rec.val,
                 !.isNew = FALSE, !.isSync = TRUE, !.isLoaded = TRUE]

ResetDone ==
    /\ line /\ get.reset.stage = "answered"
    /\ item' = ResetTo(get.reset.rec)
    /\ local' = get.reset.rec
    /\ Taken(get.reset.rec)
    /\ get' = [get EXCEPT !.reset = Idle]
    /\ UNCHANGED <<db, executed, line, saves, flushes, offline, status, bounds, acked>>

ResetFails ==
    /\ ~line /\ get.reset.stage # "none"
    /\ IF local # NoRec THEN item' = ResetTo(local) /\ Taken(local) ELSE UNCHANGED <<item, behind>>
    /\ GoOffline
    /\ get' = [get EXCEPT !.reset = Idle]
    /\ UNCHANGED <<db, executed, line, callVars, bounds, acked>>

-----------------------------------------------------------------------------
(* Edit and save.                                                          *)

(* set: a new value, or none.                                              *)
Edit(p) ==
    /\ item.here /\ (item.isLoaded \/ item.isNew)
    /\ "save" \in Hurry \/ saves = <<>>
    /\ \E v \in {{bounds.edits + 1}, {}} \ {item.val[p]} :
           item' = [item EXCEPT !.val[p] = v, !.isSync = FALSE]
    /\ Happens("edits", MaxEdit)
    /\ UNCHANGED <<serverVars, line, get, callVars, status, acked>>

Save ==
    /\ item.here /\ ~item.isSync /\ (item.isLoaded \/ item.isNew)
    /\ "save" \in Hurry \/ saves = <<>>
    /\ "flush" \in Hurry \/ (flushes = <<>> /\ (line => offline = <<>>))
    /\ Len(saves) < 2
    /\ saves' = Append(saves, [val |-> item.val, calls |-> Calls(item)])
    /\ UNCHANGED <<serverVars, line, modelVars, flushes, local, offline, status, bounds, acked>>

(* save of a model that is marked as saved: nothing to do.                 *)
SaveNothing ==
    /\ item.here /\ item.isSync
    /\ ~OwnIn(item.val) \subseteq acked
    /\ acked' = acked \cup OwnIn(item.val)
    /\ UNCHANGED <<serverVars, line, modelVars, callVars, status, bounds>>

CallAt(i, c, stage) == saves[i].calls[c].stage = stage
To(i, c, stage) == saves' = [saves EXCEPT ![i].calls[c].stage = stage]

CallExecuted(i, c) ==
    /\ CallAt(i, c, "sent")
    /\ c # "put" => db.count > 0
    /\ Execute(c, saves[i].calls[c].vals)
    /\ To(i, c, "executed")
    /\ UNCHANGED <<behind, line, modelVars, flushes, local, offline, status, bounds, acked>>

CallReturned(i, c) ==
    /\ line /\ CallAt(i, c, "executed")
    /\ To(i, c, "done")
    /\ UNCHANGED <<serverVars, line, modelVars, flushes, local, offline, status, bounds, acked>>

(* call_server_put: no connection, although the server may have executed   *)
(* the call; it is added to the queue.                                     *)
CallFails(i, c) ==
    /\ ~line /\ saves[i].calls[c].stage \in {"sent", "executed"}
    /\ To(i, c, "failed")
    /\ GoOffline
    /\ UNCHANGED <<serverVars, line, modelVars, flushes, local, offline, bounds, acked>>

(* enqueueCall: the queue is read, and written with the call.              *)
EnqueueGets(i, c) ==
    /\ CallAt(i, c, "failed")
    /\ \/ "enqueue" \in Hurry
       \/ \A j \in DOMAIN saves : \A d \in DOMAIN saves[j].calls : ~CallAt(j, d, "got")
    /\ saves' = [saves EXCEPT ![i].calls[c].stage = "got", ![i].calls[c].seen = offline]
    /\ UNCHANGED <<serverVars, line, modelVars, flushes, local, offline, status, bounds, acked>>

\* Mutant: the call is put before the ones that wait.
EnqueueFirst(i, c) ==
    /\ CallAt(i, c, "got")
    /\ offline' = <<[cmd |-> c, vals |-> saves[i].calls[c].vals]>> \o saves[i].calls[c].seen
    /\ To(i, c, "done")
    /\ UNCHANGED <<serverVars, line, modelVars, flushes, local, status, bounds, acked>>

EnqueuePuts(i, c) ==
    /\ CallAt(i, c, "got")
    /\ offline' = Append(saves[i].calls[c].seen, [cmd |-> c, vals |-> saves[i].calls[c].vals])
    /\ To(i, c, "done")
    /\ UNCHANGED <<serverVars, line, modelVars, flushes, local, status, bounds, acked>>

(* The calls of a save have ended: the model as it is now is the saved     *)
(* one.  put_individual also keeps it in the local database.               *)
SaveDone(i) ==
    /\ \A c \in DOMAIN saves[i].calls : CallAt(i, c, "done")
    /\ item' = [item EXCEPT !.orig = item.val, !.isNew = FALSE, !.isSync = TRUE, !.isLoaded = TRUE]
    /\ local' = IF "put" \in DOMAIN saves[i].calls THEN Rec(item.count, item.val) ELSE local
    /\ acked' = acked \cup OwnIn(saves[i].val)
    /\ saves' = RemoveAt(saves, i)
    /\ UNCHANGED <<serverVars, line, get, flushes, offline, status, bounds>>

-----------------------------------------------------------------------------
(* flushQueue: the calls are sent one after the other, and the queue is    *)
(* removed when all have been answered.                                    *)
FlushSends(f) ==
    /\ flushes[f].k <= Len(flushes[f].queue) /\ ~flushes[f].executed
    /\ LET call == flushes[f].queue[flushes[f].k] IN Execute(call.cmd, call.vals)
    /\ flushes' = [flushes EXCEPT ![f].executed = TRUE]
    /\ UNCHANGED <<behind, line, modelVars, saves, local, offline, status, bounds, acked>>

FlushReturned(f) ==
    /\ line /\ flushes[f].executed
    /\ flushes' = [flushes EXCEPT ![f].executed = FALSE, ![f].k = @ + 1]
    /\ UNCHANGED <<serverVars, line, modelVars, saves, local, offline, status, bounds, acked>>

\* Mutant: the queue is removed whatever became of the calls.
FlushFailsRemoves(f) ==
    /\ ~line /\ flushes[f].k <= Len(flushes[f].queue)
    /\ flushes' = RemoveAt(flushes, f)
    /\ offline' = <<>>
    /\ GoOffline
    /\ UNCHANGED <<serverVars, line, modelVars, saves, local, bounds, acked>>

FlushFails(f) ==
    /\ ~line /\ flushes[f].k <= Len(flushes[f].queue)
    /\ flushes' = RemoveAt(flushes, f)
    /\ GoOffline
    /\ UNCHANGED <<serverVars, line, modelVars, saves, local, offline, bounds, acked>>

FlushDone(f) ==
    /\ flushes[f].k > Len(flushes[f].queue)
    /\ offline' = <<>>
    /\ flushes' = RemoveAt(flushes, f)
    /\ UNCHANGED <<serverVars, line, modelVars, saves, local, status, bounds, acked>>

-----------------------------------------------------------------------------
(* The others, the line, and the page.                                     *)
OtherWrite ==
    /\ db.count > 0
    /\ \E p \in Props : db' = Applied(db, "set", [q \in {p} |-> {Base + bounds.others + 1}])
    /\ Happens("others", MaxOther)
    /\ UNCHANGED <<executed, behind, line, modelVars, callVars, status, acked>>

LineLost ==
    /\ line
    /\ line' = FALSE
    /\ Happens("faults", MaxFault)
    /\ UNCHANGED <<serverVars, modelVars, callVars, status, acked>>

LineBack ==
    /\ ~line
    /\ "flush" \in Hurry \/ saves = <<>>
    /\ line' = TRUE
    /\ UNCHANGED <<serverVars, modelVars, callVars, status, bounds, acked>>

(* The page is opened anew: only the local database stays.                 *)
Reload ==
    /\ item.here
    /\ item' = NoItem /\ get' = [load |-> Idle, reset |-> Idle]
    /\ saves' = <<>> /\ flushes' = <<>>
    /\ status' = [line |-> FALSE, ccus |-> FALSE, checking |-> FALSE, once |-> FALSE]
    /\ Happens("faults", MaxFault)
    /\ UNCHANGED <<serverVars, line, local, offline, acked>>

Init ==
    /\ db \in {Rec(0, Nothing), Rec(1, [p \in Props |-> IF p = CHOOSE q \in Props : TRUE THEN {Base} ELSE {}])}
    /\ line = TRUE /\ item = NoItem /\ get = [load |-> Idle, reset |-> Idle]
    /\ saves = <<>> /\ flushes = <<>> /\ offline = <<>>
    /\ local \in {NoRec, IF db.count = 0 THEN NoRec ELSE db}
    /\ status = [line |-> FALSE, ccus |-> FALSE, checking |-> FALSE, once |-> FALSE]
    /\ bounds = [edits |-> 0, others |-> 0, faults |-> 0]
    /\ acked = {} /\ executed = {} /\ behind = FALSE

Requests ==
    (\E r \in {"load", "reset"} : Answer(r)) \/ LoadDone \/ LoadFails \/ ResetDone \/ ResetFails

CallStep(i, c) ==
    \/ CallExecuted(i, c) \/ CallReturned(i, c) \/ CallFails(i, c)
    \/ EnqueueGets(i, c) \/ EnqueuePuts(i, c)

Saving == \E i \in DOMAIN saves : SaveDone(i) \/ \E c \in DOMAIN saves[i].calls : CallStep(i, c)

Flushing == \E f \in DOMAIN flushes : FlushSends(f) \/ FlushReturned(f) \/ FlushFails(f) \/ FlushDone(f)

User == Open \/ Create \/ View \/ Save \/ SaveNothing \/ \E p \in Props : Edit(p)

Next ==
    \/ Requests \/ Saving \/ Flushing \/ Ping \/ LineBack
    \/ User \/ SocketOpened \/ SocketClosed \/ Notified \/ OtherWrite \/ LineLost \/ Reload

Spec == Init /\ [][Next]_vars

(* Requests are answered or fail, pings are sent, the server comes back,   *)
(* and the socket of the page is opened.                                   *)
FairSpec ==
    /\ Spec
    /\ WF_vars(Requests) /\ WF_vars(Saving) /\ WF_vars(Flushing) /\ WF_vars(Ping)
    /\ WF_vars(LineBack) /\ WF_vars(SocketOpened)

-----------------------------------------------------------------------------
RecOK(rec) == rec.count \in -1 .. db.count /\ rec.val \in [Props -> SUBSET Values]

(* Types of the records, requests, saves and queues.                       *)
TypeOK ==
    /\ RecOK(db) /\ RecOK(local) /\ item.val \in [Props -> SUBSET Values] /\ item.count \in 0 .. db.count
    /\ \A r \in DOMAIN get : get[r].stage \in {"none", "local", "sent", "answered"} /\ RecOK(get[r].rec)
    /\ \A i \in DOMAIN saves : \A c \in DOMAIN saves[i].calls :
           saves[i].calls[c].stage \in {"sent", "executed", "failed", "got", "done"}

(* What the user was told is saved has been executed by the server, or     *)
(* waits in the queue (individual_model.js:450, "Save current individual   *)
(* to database"; backend.js:754, "Offline PUT queue").                     *)
AckedSafe == acked \subseteq executed \cup OwnQueued

(* Once every call is answered, the newest edit of a property that the     *)
(* server has executed is in place, if any edit of the page is: calls made *)
(* late, or once more, leave no older edit behind (backend.js:755-792).    *)
(* It rests on the model never having been taken from a copy without an    *)
(* edit that was executed, queued or being saved: the local database,      *)
(* which only put_individual and loads refresh, may hold such a copy, and  *)
(* so may a reset that is served during a save.                            *)
NotUndone ==
    saves = <<>> /\ flushes = <<>> /\ offline = <<>> /\ ~behind =>
        \A p \in Props : \A v \in db.val[p] \cap Own : \A w \in Own :
            <<p, w>> \in executed /\ v < w => w \in db.val[p]

(* Saved edits get to the server, although the line was lost and the page  *)
(* opened anew (backend.js:767-792).                                       *)
EditsArrive == []<>(acked \subseteq executed)
=============================================================================
