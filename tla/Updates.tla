------------------------------ MODULE Updates -------------------------------
(***************************************************************************)
(* How a browser page is told of changes: the update service of the page   *)
(* with its list and socket, the requests for one individual with the      *)
(* local database behind them, and veda-ccus, which reads the queue and    *)
(* answers subscriptions.  The individual is its counter of updates: the   *)
(* page shows what it read under that counter.                             *)
(*                                                                         *)
(* Page code is not interrupted, but a request, timer, event or access to  *)
(* the local database may be served before another.  Hurry names the       *)
(* coincidences that are let happen, each of which leaves the page stale.  *)
(***************************************************************************)
EXTENDS Integers, Sequences, SequencesExt

CONSTANTS
    Hurry,      \* of "notify", "lose", "buffer", "load"
    MaxChange, MaxLoss, MaxReload   \* bounds: changes, losses of line or socket, reloads

ASSUME UpdatesBounds == {MaxChange, MaxLoss, MaxReload} \subseteq Nat
ASSUME UpdatesHurry == Hurry \subseteq {"notify", "lose", "buffer", "load"}

VARIABLES
    db,         \* counter of the stored individual
    ccus,       \* [popped, here, counter, sessions], a subscription element or none
    conn,       \* socket of the page: [id, state, ready]
    toServer, toClient, \* messages on the socket
    line,       \* is the server reachable
    item,       \* the model in the page's cache: [here, loaded, count]
    get,        \* [load, reset |-> [stage, count]], requests for the individual
    local,      \* local database: the counter it has, or None
    list, buffer,       \* [here, count]; [cmds, sock]
    status,     \* backend: [line, ccus, checking, once]
    bounds      \* changes, losses, reloads so far

socketVars == <<conn, toServer, toClient>>
pageVars == <<item, get, local>>
serviceVars == <<list, buffer, status>>
vars == <<db, ccus, socketVars, line, pageVars, serviceVars, bounds>>

None == -1
Idle == [stage |-> "none", count |-> None]
Sent == [stage |-> "sent", count |-> None]
NoItem == [here |-> FALSE, loaded |-> FALSE, count |-> 0]
Model == [NoItem EXCEPT !.here = TRUE]

Happens(kind, max) ==
    /\ bounds[kind] < max
    /\ bounds' = [bounds EXCEPT ![kind] = @ + 1]

-----------------------------------------------------------------------------
(* Status of the backend.                                                  *)
BackendStatus ==
    IF status.line /\ status.ccus THEN "online" ELSE IF status.line THEN "limited" ELSE "offline"

\* A request fails for want of a connection.
GoOffline == status' = [status EXCEPT !.line = FALSE, !.checking = TRUE]

(* reset: once at a time.                                                  *)
Resetting == IF get.reset.stage = "none" THEN [get EXCEPT !.reset = Sent] ELSE get

(* check: a ping tells whether the server is there; when it is, the event  *)
(* "online" resets a model that could not be loaded.                       *)
Ping ==
    /\ status.checking
    /\ IF line
       THEN /\ status' = [status EXCEPT !.line = TRUE, !.checking = FALSE, !.once = FALSE]
            /\ get' = IF status.once THEN Resetting ELSE get
       ELSE /\ status.line
            /\ status' = [status EXCEPT !.line = FALSE]
            /\ UNCHANGED get
    /\ UNCHANGED <<db, ccus, socketVars, line, item, local, list, buffer, bounds>>

-----------------------------------------------------------------------------
(* The update service.                                                     *)
Forget == <<>>      \* the message "-*"; any other is a sequence of counters, "+uri=M[,...]"

(* sendMessage: a subscription is sent with the others of a second, over   *)
(* the socket that was there for the first of them.                        *)
Buffered(b, count) ==
    IF b.cmds = <<>> THEN [cmds |-> <<count>>, sock |-> conn.id]
    ELSE [b EXCEPT !.cmds = Append(@, count)]

BufferTimer ==
    /\ buffer.cmds # <<>>
    /\ toServer' = IF conn.state = "open" /\ buffer.sock = conn.id
                   THEN Append(toServer, buffer.cmds) ELSE toServer
    /\ buffer' = [buffer EXCEPT !.cmds = <<>>]
    /\ UNCHANGED <<db, ccus, conn, toClient, line, pageVars, list, status, bounds>>

(* subscribe: when the individual is loaded, or could not be.              *)
Subscribe ==
    /\ item.here /\ ~list.here /\ conn.ready /\ get.load.stage = "none"
    /\ list' = [here |-> TRUE, count |-> item.count]
    /\ buffer' = Buffered(buffer, item.count)
    /\ UNCHANGED <<db, ccus, socketVars, line, pageVars, status, bounds>>

(* initSocket.                                                             *)
InitSocket ==
    /\ line /\ conn.state = "closed"
    /\ conn' = [id |-> conn.id + 1, state |-> "connecting", ready |-> TRUE]
    /\ UNCHANGED <<db, ccus, toServer, toClient, line, pageVars, serviceVars, bounds>>

\* Mutant: what was subscribed before is not subscribed again.
OpenedHandlerForgets ==
    /\ line /\ conn.state = "connecting"
    /\ conn' = [conn EXCEPT !.state = "open"]
    /\ toServer' = <<Forget>> /\ toClient' = <<>>
    /\ status' = [status EXCEPT !.ccus = TRUE, !.checking = TRUE]
    /\ UNCHANGED <<db, ccus, line, pageVars, list, buffer, bounds>>

(* openedHandler, restore: the server is told to forget, and told again of *)
(* what the list has.                                                      *)
OpenedHandler ==
    /\ line /\ conn.state = "connecting"
    /\ "buffer" \in Hurry \/ buffer.cmds = <<>> \/ buffer.sock = conn.id
    /\ conn' = [conn EXCEPT !.state = "open"]
    /\ toServer' = <<Forget>> /\ toClient' = <<>>
    /\ buffer' = IF list.here THEN Buffered(buffer, list.count) ELSE buffer
    /\ status' = [status EXCEPT !.ccus = TRUE, !.checking = TRUE]
    /\ UNCHANGED <<db, ccus, line, pageVars, list, bounds>>

(* closedHandler: the line is lost, or the server closes the socket.       *)
ClosedHandler ==
    /\ conn.state # "closed"
    /\ IF line THEN Happens("losses", MaxLoss) ELSE UNCHANGED bounds
    /\ conn' = [conn EXCEPT !.state = "closed"]
    /\ toServer' = <<>> /\ toClient' = <<>>
    /\ status' = [status EXCEPT !.ccus = FALSE, !.checking = TRUE]
    /\ UNCHANGED <<db, ccus, line, pageVars, list, buffer>>

(* receiveMessage: a counter the model does not have makes it reset.       *)
ReceiveMessage ==
    /\ line /\ toClient # <<>>
    /\ "notify" \in Hurry \/ get.reset.stage = "none"
    /\ LET n == Head(toClient)
       IN  IF n = item.count /\ n # 0 THEN UNCHANGED <<list, get>>
           ELSE /\ list' = [list EXCEPT !.count = n]
                /\ get' = IF n = 0 THEN get ELSE Resetting
    /\ toClient' = Tail(toClient)
    /\ UNCHANGED <<db, ccus, conn, toServer, line, item, local, buffer, status, bounds>>

-----------------------------------------------------------------------------
(* veda-ccus.                                                              *)
ToSession(n) == toClient' = IF conn.state = "open" THEN Append(toClient, n) ELSE toClient

Unsubscribed == [ccus EXCEPT !.sessions = @ \ {conn.id}]
Subscribed(count) == [ccus EXCEPT !.here = TRUE, !.counter = count, !.sessions = @ \cup {conn.id}]

\* Mutant: a subscription to an individual nobody watches is not answered.
CommandTrusting ==
    /\ line /\ toServer # <<>>
    /\ LET cmds == Head(toServer)
       IN  IF cmds = Forget THEN ccus' = Unsubscribed /\ UNCHANGED toClient
           ELSE ccus' = Subscribed(Last(cmds)) /\ UNCHANGED toClient
    /\ toServer' = Tail(toServer)
    /\ UNCHANGED <<db, conn, line, pageVars, serviceVars, bounds>>

(* prepare_command: a subscription to an individual nobody has subscribed  *)
(* to reads its counter from the storage, ahead of the queue; the session  *)
(* is told of a counter above its own.                                     *)
PrepareCommand ==
    /\ line /\ toServer # <<>>
    /\ LET cmds == Head(toServer)
           registered == IF ~ccus.here THEN db ELSE ccus.counter
       IN  IF cmds = Forget THEN ccus' = Unsubscribed /\ UNCHANGED toClient
           ELSE /\ ccus' = Subscribed(registered)
                /\ IF registered = 0 \/ \E k \in DOMAIN cmds : registered > cmds[k]
                   THEN ToSession(registered) ELSE UNCHANGED toClient
    /\ toServer' = Tail(toServer)
    /\ UNCHANGED <<db, conn, line, pageVars, serviceVars, bounds>>

(* The queue is read every 300 ms: the last counter of the batch is told.  *)
ReadQueue ==
    /\ \E n \in ccus.popped + 1 .. db :
           IF ccus.here
           THEN /\ ccus' = [ccus EXCEPT !.popped = n, !.counter = n]
                /\ IF conn.id \in ccus.sessions THEN ToSession(n) ELSE UNCHANGED toClient
           ELSE ccus' = [ccus EXCEPT !.popped = n] /\ UNCHANGED toClient
    /\ UNCHANGED <<db, conn, toServer, line, pageVars, serviceVars, bounds>>

(* Disconnect of a session: elements without sessions go.                  *)
Disconnect ==
    /\ \E s \in ccus.sessions :
           /\ s # conn.id \/ conn.state = "closed"
           /\ ccus' = [ccus EXCEPT !.sessions = @ \ {s}, !.here = @ /\ ccus.sessions # {s}]
    /\ UNCHANGED <<db, socketVars, line, pageVars, serviceVars, bounds>>

-----------------------------------------------------------------------------
(* Requests for the individual.                                            *)

(* get_individual: the local database is asked first, except when there    *)
(* are no notifications.                                                   *)
Load ==
    IF BackendStatus # "limited" /\ local # None THEN [stage |-> "local", count |-> local] ELSE Sent

(* new IndividualModel(uri), and load.                                     *)
Open ==
    /\ ~item.here
    /\ item' = Model
    /\ get' = [get EXCEPT !.load = Load]
    /\ UNCHANGED <<db, ccus, socketVars, line, local, serviceVars, bounds>>

(* load of a model that is there: loaded again if it was not, reset while  *)
(* no notifications come.                                                  *)
View ==
    /\ item.here /\ get = [load |-> Idle, reset |-> Idle]
    /\ "load" \in Hurry \/ ~status.once
    /\ IF item.loaded THEN BackendStatus = "limited" /\ get' = Resetting
       ELSE get' = [get EXCEPT !.load = Load]
    /\ UNCHANGED <<db, ccus, socketVars, line, item, local, serviceVars, bounds>>

(* The server reads the individual.                                        *)
Answer(r) ==
    /\ line /\ get[r].stage = "sent"
    /\ get' = [get EXCEPT ![r] = [stage |-> "answered", count |-> db]]
    /\ UNCHANGED <<db, ccus, socketVars, line, item, local, serviceVars, bounds>>

Shows(count) == item' = [item EXCEPT !.loaded = TRUE, !.count = count]

\* Mutant: what was read replaces the stored individual only when it was not there.
DoneKeepsLocal(r) ==
    /\ get[r].stage \in {"local", "answered"} /\ (get[r].stage = "answered" => line)
    /\ Shows(IF local # None THEN local ELSE get[r].count)
    /\ local' = IF local # None THEN local ELSE get[r].count
    /\ get' = [get EXCEPT ![r] = Idle]
    /\ UNCHANGED <<db, ccus, socketVars, line, serviceVars, bounds>>

(* The answer is shown, and kept in the local database.                    *)
Done(r) ==
    /\ get[r].stage \in {"local", "answered"} /\ (get[r].stage = "answered" => line)
    /\ Shows(get[r].count)
    /\ local' = get[r].count
    /\ get' = [get EXCEPT ![r] = Idle]
    /\ UNCHANGED <<db, ccus, socketVars, line, serviceVars, bounds>>

(* No connection: the local database is asked.  A model that it does not   *)
(* have is not available, and is reset once the server is there again.     *)
LoadFails ==
    /\ ~line /\ get.load.stage \in {"sent", "answered"}
    /\ IF local # None THEN Shows(local) /\ GoOffline
       ELSE /\ item' = Model
            /\ status' = [status EXCEPT !.line = FALSE, !.checking = TRUE, !.once = TRUE]
    /\ get' = [get EXCEPT !.load = Idle]
    /\ UNCHANGED <<db, ccus, socketVars, line, local, list, buffer, bounds>>

ResetFails ==
    /\ ~line /\ get.reset.stage # "none"
    /\ IF local # None THEN Shows(local) ELSE UNCHANGED item
    /\ GoOffline
    /\ get' = [get EXCEPT !.reset = Idle]
    /\ UNCHANGED <<db, ccus, socketVars, line, local, list, buffer, bounds>>

-----------------------------------------------------------------------------
(* The individual is changed, the line is lost, the page is opened anew.   *)
Change ==
    /\ Happens("changes", MaxChange)
    /\ db' = db + 1
    /\ UNCHANGED <<ccus, socketVars, line, pageVars, serviceVars>>

LineLost ==
    /\ line /\ Happens("losses", MaxLoss)
    /\ "lose" \in Hurry \/ get.reset = Idle
    /\ line' = FALSE
    /\ UNCHANGED <<db, ccus, socketVars, pageVars, serviceVars>>

LineBack ==
    /\ ~line
    /\ line' = TRUE
    /\ UNCHANGED <<db, ccus, socketVars, pageVars, serviceVars, bounds>>

\* The local database stays.
Reload ==
    /\ item.here /\ Happens("reloads", MaxReload)
    /\ item' = NoItem /\ get' = [load |-> Idle, reset |-> Idle]
    /\ list' = [here |-> FALSE, count |-> 0] /\ buffer' = [cmds |-> <<>>, sock |-> 0]
    /\ status' = [line |-> FALSE, ccus |-> FALSE, checking |-> FALSE, once |-> FALSE]
    /\ conn' = [conn EXCEPT !.state = "closed", !.ready = FALSE]
    /\ toServer' = <<>> /\ toClient' = <<>>
    /\ UNCHANGED <<db, ccus, line, local>>

Init ==
    /\ db = 1
    /\ ccus = [popped |-> 1, here |-> FALSE, counter |-> 0, sessions |-> {}]
    /\ conn = [id |-> 0, state |-> "closed", ready |-> FALSE] /\ toServer = <<>> /\ toClient = <<>>
    /\ line = TRUE /\ item = NoItem /\ get = [load |-> Idle, reset |-> Idle]
    /\ local \in {None, 1}
    /\ list = [here |-> FALSE, count |-> 0] /\ buffer = [cmds |-> <<>>, sock |-> 0]
    /\ status = [line |-> FALSE, ccus |-> FALSE, checking |-> FALSE, once |-> FALSE]
    /\ bounds = [changes |-> 0, losses |-> 0, reloads |-> 0]

Requests == (\E r \in {"load", "reset"} : Answer(r) \/ Done(r)) \/ LoadFails \/ ResetFails

Connection == InitSocket \/ OpenedHandler \/ BufferTimer \/ ReceiveMessage

Server == PrepareCommand \/ ReadQueue \/ Disconnect

Next ==
    \/ Requests \/ Connection \/ Server
    \/ Ping \/ Subscribe \/ LineBack
    \/ Open \/ View \/ ClosedHandler \/ Change \/ LineLost \/ Reload

Spec == Init /\ [][Next]_vars

(* Requests are answered or fail, the socket is opened again and its       *)
(* messages are served, timers fire, ccus reads its queue, the server      *)
(* comes back.                                                             *)
FairSpec ==
    /\ Spec
    /\ WF_vars(Requests) /\ WF_vars(Connection) /\ WF_vars(Server)
    /\ WF_vars(Ping) /\ WF_vars(Subscribe) /\ WF_vars(LineBack)

-----------------------------------------------------------------------------
(* Types of the counters, requests and messages.                           *)
TypeOK ==
    /\ db \in 1 .. 1 + MaxChange /\ local \in {None} \cup 1 .. db /\ item.count \in 0 .. db
    /\ ccus.popped \in 1 .. db /\ ccus.counter \in 0 .. db /\ ccus.sessions \subseteq 1 .. conn.id
    /\ \A k \in DOMAIN toClient : toClient[k] \in 1 .. db
    /\ \A r \in DOMAIN get : get[r].stage \in {"none", "local", "sent", "answered"} /\ get[r].count <= db
    /\ list.count \in 0 .. db

(* The page is connected, and nothing is under way.                        *)
Quiet ==
    /\ line /\ conn.state = "open" /\ toServer = <<>> /\ toClient = <<>> /\ buffer.cmds = <<>>
    /\ get = [load |-> Idle, reset |-> Idle] /\ ~status.checking
    /\ ccus.popped = db /\ list.here

(* When all is said the page shows what is stored: a stale local database, *)
(* missed notifications and lost connections are made up for               *)
(* (update_service.js:2, "Update service for individuals that were changed *)
(* on server").                                                            *)
Fresh == Quiet /\ item.here => item.count = db

(* A page whose server stays reachable comes to show the last change       *)
(* (update_service.js:72-141).                                             *)
GetsFresh == []<>(item.here => item.count = db)
=============================================================================
