---------------------------- MODULE UpdatesProofs ----------------------------
(***************************************************************************)
(* Theorems about how a page is told of changes, for every number of       *)
(* changes, lost connections and reloads, when none of the coincidences    *)
(* that leave the page stale is let happen.                                *)
(***************************************************************************)
EXTENDS Updates, SequenceTheorems, TLAPS

Stages == {"none", "local", "sent", "answered"}

-----------------------------------------------------------------------------
(* The inductive invariant, part by part.                                  *)

PageTypes ==
    /\ DOMAIN item = {"here", "loaded", "count"} /\ item.count \in Nat
    /\ DOMAIN get = {"load", "reset"}
    /\ \A r \in DOMAIN get : DOMAIN get[r] = {"stage", "count"} /\ get[r].stage \in Stages
    /\ local \in Nat \cup {None}
    /\ DOMAIN status = {"line", "ccus", "checking", "once"}

WireTypes ==
    /\ db \in Nat \ {0} /\ line \in BOOLEAN
    /\ DOMAIN ccus = {"popped", "here", "counter", "sessions"}
    /\ ccus.popped \in Nat /\ ccus.counter \in Nat /\ ccus.here \in BOOLEAN
    /\ DOMAIN conn = {"id", "state", "ready"}
    /\ conn.id \in Nat /\ conn.state \in {"closed", "connecting", "open"}
    /\ toServer \in Seq(Seq(Nat)) /\ toClient \in Seq(Nat)
    /\ DOMAIN list = {"here", "count"} /\ list.count \in Nat
    /\ DOMAIN buffer = {"cmds", "sock"} /\ buffer.cmds \in Seq(Nat)

Types == PageTypes /\ WireTypes

(* No counter is ahead of the store, and ccus is not behind the queue for  *)
(* an individual it watches.  The local database has what the page shows,  *)
(* and a reset brings nothing older.                                       *)
Counters ==
    /\ ccus.popped <= db /\ ccus.counter <= db
    /\ ccus.here => ccus.popped <= ccus.counter
    /\ item.count <= db /\ list.count <= db /\ local <= db
    /\ \A r \in DOMAIN get :
           get[r].stage \in {"local", "answered"} => get[r].count \in Nat /\ get[r].count <= db
    /\ get.reset.stage # "local"
    /\ get.reset.stage = "answered" => item.count <= get.reset.count
    /\ IF item.loaded THEN local = item.count ELSE item.count = 0

(* A socket has messages while it is open.  The first one makes ccus       *)
(* forget the session, which is a new one; the others subscribe.           *)
Sessions ==
    /\ ccus.sessions \subseteq 1 .. conn.id
    /\ ccus.sessions # {} => ccus.here
    /\ conn.state # "closed" => conn.id >= 1
    /\ conn.state = "connecting" => conn.id \notin ccus.sessions
    /\ toServer # <<>> \/ toClient # <<>> => conn.state = "open"
    /\ conn.id \notin ccus.sessions => toClient = <<>>
    /\ \A k \in DOMAIN toServer : toServer[k] = Forget => k = 1 /\ conn.id \notin ccus.sessions
    /\ conn.state = "open" /\ buffer.cmds # <<>> => buffer.sock = conn.id

(* An individual is subscribed to when its load has ended; it is not       *)
(* loaded once more then, but reset; so is one that is not available.      *)
Loads ==
    /\ ~item.here => ~list.here /\ ~status.once /\ get.reset.stage = "none"
    /\ get.load.stage # "none" =>
           item.here /\ ~list.here /\ ~status.once /\ get.reset.stage = "none"
    /\ ~list.here =>
           /\ toClient = <<>> /\ buffer.cmds = <<>>
           /\ \A k \in DOMAIN toServer : toServer[k] = Forget
           /\ conn.state = "open" => conn.id \notin ccus.sessions
    /\ item.here /\ ~item.loaded /\ get.load.stage = "none" =>
           status.once \/ (line /\ get.reset.stage # "none")

(* The page shows counter n or a newer one, or a reset will bring it.      *)
Reaches(n) ==
    /\ n <= db
    /\ \/ n <= item.count
       \/ line /\ get.reset.stage = "sent"
       \/ line /\ get.reset.stage = "answered" /\ n <= get.reset.count

(* The page reaches every counter that it tells ccus it has.               *)
PageTells ==
    /\ list.here => Reaches(list.count)
    /\ \A k \in DOMAIN buffer.cmds : Reaches(buffer.cmds[k])
    /\ \A k \in DOMAIN toServer : \A j \in DOMAIN toServer[k] : Reaches(toServer[k][j])

(* While the socket is open ccus knows the session, or will be told.       *)
Subscribes ==
    list.here /\ conn.state = "open" =>
        \/ conn.id \in ccus.sessions \/ buffer.cmds # <<>>
        \/ \E k \in DOMAIN toServer : toServer[k] # Forget

(* The page reaches the counter of ccus, or it is the last one told.       *)
CcusTells ==
    conn.state = "open" /\ conn.id \in ccus.sessions =>
        \/ toClient = <<>> /\ Reaches(ccus.counter)
        \/ toClient # <<>> /\ toClient[Len(toClient)] = ccus.counter

(* What is told was stored.                                                *)
StoredTold == \A k \in DOMAIN toClient : toClient[k] <= db

IInv ==
    /\ Types /\ Counters /\ Sessions /\ Loads
    /\ PageTells /\ Subscribes /\ CcusTells /\ StoredTold

-----------------------------------------------------------------------------
(* What steps have in common.                                              *)

\* What the page reaches it goes on to reach.
Keeps == \A n \in Nat : Reaches(n) => Reaches(n)'

LEMMA CountsTold ==
    ASSUME IInv
    PROVE  /\ \A k \in DOMAIN buffer.cmds : buffer.cmds[k] \in Nat
           /\ \A k \in DOMAIN toServer : \A j \in DOMAIN toServer[k] : toServer[k][j] \in Nat
           /\ list.count \in Nat
<1>1. buffer.cmds \in Seq(Nat) /\ toServer \in Seq(Seq(Nat)) /\ list.count \in Nat
  BY DEF IInv, Types, PageTypes, WireTypes
<1>2. \A k \in DOMAIN toServer : toServer[k] \in Seq(Nat)
  BY <1>1
<1>3. \A s \in Seq(Nat) : \A k \in DOMAIN s : s[k] \in Nat
  OBVIOUS
<1>4. QED
  BY <1>1, <1>2, <1>3

(* A step of the page that leaves the messages alone.                      *)
LEMMA PageStep ==
    ASSUME IInv, Keeps, Types', Counters', Loads',
           UNCHANGED <<ccus, conn, toServer, toClient, list, buffer>>, db' = db \/ db <= db'
    PROVE  IInv'
<1>1. Sessions' /\ Subscribes'
  BY DEF IInv, Sessions, Subscribes
<1>2. PageTells'
  <2>1. /\ \A k \in DOMAIN buffer.cmds : buffer.cmds[k] \in Nat
        /\ \A k \in DOMAIN toServer : \A j \in DOMAIN toServer[k] : toServer[k][j] \in Nat
        /\ list.count \in Nat
    BY CountsTold
  <2>2. QED
    BY <2>1 DEF IInv, PageTells, Keeps
<1>3. CcusTells'
  BY DEF IInv, Types, PageTypes, WireTypes, CcusTells, Keeps
<1>4. StoredTold'
  BY DEF IInv, Types, PageTypes, WireTypes, StoredTold
<1>5. QED
  BY <1>1, <1>2, <1>3, <1>4 DEF IInv

(* A step that leaves the page alone.                                      *)
LEMMA SamePage ==
    ASSUME UNCHANGED <<db, line, item, get>>
    PROVE  Keeps /\ \A n : Reaches(n)' <=> Reaches(n)
BY DEF Keeps, Reaches

-----------------------------------------------------------------------------
(* Requests.                                                               *)

LEMMA ChangeStep == ASSUME IInv, Change PROVE IInv'
<1>1. /\ db' = db + 1
      /\ UNCHANGED <<ccus, conn, toServer, toClient, line, item, get, local, list, buffer, status>>
  BY DEF Change, socketVars, pageVars, serviceVars
<1>2. db' \in Nat \ {0}
  BY <1>1 DEF IInv, Types, PageTypes, WireTypes
<1>3. Types' /\ Loads' /\ Counters'
  <2>1. Types'
    BY <1>1, <1>2 DEF IInv, Types, PageTypes, WireTypes
  <2>2. Loads'
    BY <1>1 DEF IInv, Loads
  <2>3. Counters'
    BY <1>1 DEF IInv, Types, PageTypes, WireTypes, Counters, None
  <2>4. QED
    BY <2>1, <2>2, <2>3
<1>4. Keeps
  BY <1>1 DEF IInv, Types, PageTypes, WireTypes, Keeps, Reaches
<1>5. db <= db'
  BY <1>1 DEF IInv, Types, PageTypes, WireTypes
<1>6. QED
  BY <1>1, <1>3, <1>4, <1>5, PageStep

LEMMA LineSteps == ASSUME IInv, Hurry = {}, LineLost \/ LineBack PROVE IInv'
<1>1. UNCHANGED <<db, ccus, conn, toServer, toClient, item, get, local, list, buffer, status>>
  BY DEF LineLost, LineBack, socketVars, pageVars, serviceVars
<1>2. line' \in BOOLEAN /\ (line => line' \/ get.reset.stage = "none")
  <2>1. CASE LineLost
    <3>1. get.reset = Idle /\ line' = FALSE
      BY <2>1 DEF LineLost
    <3>2. QED
      <4>1. get.reset.stage = "none"
        BY <3>1 DEF Idle
      <4>2. line' \in BOOLEAN
        BY <3>1
      <4>3. QED
        BY <4>1, <4>2
  <2>2. CASE LineBack
    BY <2>2 DEF LineBack
  <2>3. QED  BY <2>1, <2>2
<1>3. Types' /\ Counters'
  BY <1>1, <1>2 DEF IInv, Types, PageTypes, WireTypes, Counters
<1>4. Loads'
  BY <1>1, <1>2 DEF IInv, Loads
<1>5. Keeps
  BY <1>1, <1>2 DEF Keeps, Reaches
<1>6. QED
  BY <1>1, <1>3, <1>4, <1>5, PageStep DEF IInv, Types, PageTypes, WireTypes

(* A reset begins, when there is none and nothing is loaded.               *)
LEMMA ResetBegins ==
    ASSUME IInv, get.load.stage = "none", item.here,
           get' = Resetting,
           UNCHANGED <<db, ccus, conn, toServer, toClient, line, item, local, list, buffer>>,
           DOMAIN status' = DOMAIN status,
           status' = status \/ (line /\ ~status'.once)
    PROVE  IInv'
<1>1. /\ DOMAIN get' = {"load", "reset"} /\ get'.load = get.load
      /\ get'.reset = get.reset \/ (get.reset.stage = "none" /\ get'.reset = Sent)
      /\ get'.reset.stage # "none"
  BY DEF Resetting, Sent, IInv, Types, PageTypes, WireTypes
<1>2. Sent.stage = "sent" /\ DOMAIN Sent = {"stage", "count"}
  BY DEF Sent
<1>3. Types'
  BY <1>1, <1>2 DEF IInv, Types, PageTypes, WireTypes, Stages
<1>4. Counters'
  BY <1>1, <1>2 DEF IInv, Types, PageTypes, WireTypes, Counters
<1>5. Loads'
  BY <1>1, <1>2 DEF IInv, Types, PageTypes, WireTypes, Loads
<1>6. Keeps
  BY <1>1, <1>2 DEF Keeps, Reaches
<1>7. QED
  BY <1>3, <1>4, <1>5, <1>6, PageStep DEF IInv, Types, PageTypes, WireTypes

LEMMA PingStep == ASSUME IInv, Ping PROVE IInv'
<1>1. UNCHANGED <<db, ccus, conn, toServer, toClient, line, item, local, list, buffer>>
  BY DEF Ping, socketVars
<1>2. CASE ~(line /\ status.once)
  <2>1. get' = get /\ DOMAIN status' = DOMAIN status /\ status'.once = (IF line THEN FALSE ELSE status.once)
    BY <1>2 DEF Ping, IInv, Types, PageTypes, WireTypes
  <2>2. Types'
    BY <1>1, <2>1 DEF IInv, Types, PageTypes, WireTypes
  <2>3. Counters'
    BY <1>1, <2>1 DEF IInv, Counters
  <2>4. Loads'
    BY <1>1, <1>2, <2>1 DEF IInv, Loads
  <2>5. Keeps
    BY <1>1, <2>1, SamePage
  <2>6. QED
    BY <1>1, <2>1, <2>2, <2>3, <2>4, <2>5, PageStep DEF IInv, Types, PageTypes, WireTypes
<1>3. CASE line /\ status.once
  <2>1. get' = Resetting /\ DOMAIN status' = DOMAIN status /\ ~status'.once
    BY <1>3 DEF Ping, IInv, Types, PageTypes, WireTypes
  <2>2. get.load.stage = "none" /\ item.here
    BY <1>3 DEF IInv, Loads
  <2>3. QED
    BY <1>1, <1>3, <2>1, <2>2, ResetBegins
<1>4. QED  BY <1>2, <1>3

(* A step of the page when it has not told ccus anything.                  *)
LEMMA NotTold ==
    ASSUME IInv, ~list.here, Types', Counters', Loads',
           UNCHANGED <<ccus, conn, toServer, toClient, list, buffer>>, db' = db \/ db <= db'
    PROVE  IInv'
<1>1. Sessions' /\ Subscribes'
  BY DEF IInv, Sessions, Subscribes
<1>2. PageTells'
  BY DEF IInv, Loads, PageTells, Forget
<1>3. CcusTells'
  BY DEF IInv, Loads, CcusTells
<1>4. StoredTold'
  BY DEF IInv, Types, PageTypes, WireTypes, StoredTold
<1>5. QED
  BY <1>1, <1>2, <1>3, <1>4 DEF IInv

(* The model is there, and is loaded or reset.                             *)
LEMMA OpenStep == ASSUME IInv, Open PROVE IInv'
<1>1. /\ UNCHANGED <<db, ccus, conn, toServer, toClient, line, local, list, buffer, status>>
      /\ ~item.here /\ item' = Model /\ get' = [get EXCEPT !.load = Load]
  BY DEF Open, socketVars, serviceVars
<1>2. ~list.here /\ ~status.once /\ get.reset.stage = "none"
  BY <1>1 DEF IInv, Loads
<1>3. DOMAIN item' = {"here", "loaded", "count"} /\ item'.here /\ ~item'.loaded /\ item'.count = 0
  BY <1>1 DEF Model, NoItem
<1>4. /\ DOMAIN Load = {"stage", "count"} /\ Load.stage \in {"local", "sent"}
      /\ Load.stage = "local" => Load.count = local /\ local # None
  BY DEF Load, Sent
<1>5. DOMAIN get' = {"load", "reset"} /\ get'.load = Load /\ get'.reset = get.reset
  BY <1>1 DEF IInv, Types, PageTypes, WireTypes
<1>6. Types'
  <2>1. \A r \in DOMAIN get' : DOMAIN get'[r] = {"stage", "count"} /\ get'[r].stage \in Stages
    BY <1>4, <1>5 DEF IInv, Types, PageTypes, WireTypes, Stages
  <2>2. QED
    <3>1. WireTypes'
      BY <1>1 DEF IInv, Types, WireTypes
    <3>2. PageTypes'
      BY <1>1, <1>3, <1>5, <2>1 DEF IInv, Types, PageTypes
    <3>3. QED
      BY <3>1, <3>2 DEF Types
<1>7. Counters'
  BY <1>1, <1>2, <1>3, <1>4, <1>5 DEF IInv, Types, PageTypes, WireTypes, Counters, None
<1>8. Loads'
  BY <1>1, <1>2, <1>3, <1>4, <1>5 DEF IInv, Loads
<1>9. QED
  BY <1>1, <1>2, <1>6, <1>7, <1>8, NotTold DEF IInv, Types, PageTypes, WireTypes

LEMMA ViewStep == ASSUME IInv, Hurry = {}, View PROVE IInv'
<1>1. /\ UNCHANGED <<db, ccus, conn, toServer, toClient, line, item, local, list, buffer, status>>
      /\ item.here /\ get = [load |-> Idle, reset |-> Idle] /\ ~status.once
      /\ get' = Resetting \/ (~item.loaded /\ get' = [get EXCEPT !.load = Load])
  BY DEF View, socketVars, serviceVars
<1>2. get.load.stage = "none" /\ get.reset.stage = "none"
  BY <1>1 DEF Idle
<1>3. CASE get' = Resetting
  BY <1>1, <1>2, <1>3, ResetBegins
<1>4. CASE ~item.loaded /\ get' = [get EXCEPT !.load = Load]
  <2>1. ~list.here
    BY <1>1, <1>2, <1>4 DEF IInv, Loads
  <2>2. /\ DOMAIN Load = {"stage", "count"} /\ Load.stage \in {"local", "sent"}
        /\ Load.stage = "local" => Load.count = local /\ local # None
    BY DEF Load, Sent
  <2>3. DOMAIN get' = {"load", "reset"} /\ get'.load = Load /\ get'.reset = get.reset
    BY <1>4 DEF IInv, Types, PageTypes, WireTypes
  <2>4. Types'
    BY <1>1, <2>2, <2>3 DEF IInv, Types, PageTypes, WireTypes, Stages
  <2>5. Counters'
    BY <1>1, <1>2, <2>2, <2>3 DEF IInv, Types, PageTypes, WireTypes, Counters, None
  <2>6. Loads'
    BY <1>1, <1>2, <2>1, <2>3 DEF IInv, Loads
  <2>7. Keeps
    BY <1>1, <2>3 DEF Keeps, Reaches
  <2>8. QED
    BY <1>1, <2>4, <2>5, <2>6, <2>7, PageStep DEF IInv, Types, PageTypes, WireTypes
<1>5. QED  BY <1>1, <1>3, <1>4

LEMMA AnswerStep == ASSUME IInv, NEW r \in {"load", "reset"}, Answer(r) PROVE IInv'
<1>1. /\ UNCHANGED <<db, ccus, conn, toServer, toClient, line, item, local, list, buffer, status>>
      /\ line /\ get[r].stage = "sent"
      /\ get' = [get EXCEPT ![r] = [stage |-> "answered", count |-> db]]
  BY DEF Answer, socketVars, serviceVars
<1>2. PICK answer : answer = [stage |-> "answered", count |-> db]
  OBVIOUS
<1>3. DOMAIN answer = {"stage", "count"} /\ answer.stage = "answered" /\ answer.count = db
  BY <1>2
<1>4. /\ DOMAIN get' = {"load", "reset"} /\ get'[r] = answer
      /\ \A q \in {"load", "reset"} : q # r => get'[q] = get[q]
  BY <1>1, <1>2 DEF IInv, Types, PageTypes, WireTypes
<1>5. Types'
  BY <1>1, <1>3, <1>4 DEF IInv, Types, PageTypes, WireTypes, Stages
<1>6. Counters'
  BY <1>1, <1>3, <1>4 DEF IInv, Types, PageTypes, WireTypes, Counters
<1>7. Loads'
  BY <1>1, <1>3, <1>4 DEF IInv, Loads
<1>8. Keeps
  BY <1>1, <1>3, <1>4 DEF Keeps, Reaches
<1>9. QED
  BY <1>1, <1>5, <1>6, <1>7, <1>8, PageStep DEF IInv, Types, PageTypes, WireTypes

(* A request ends, and the model shows a counter that the local database   *)
(* has then, or nothing.                                                   *)
LEMMA DoneStep == ASSUME IInv, NEW r \in {"load", "reset"}, Done(r) PROVE IInv'
<1>1. /\ UNCHANGED <<db, ccus, conn, toServer, toClient, line, list, buffer, status>>
      /\ get[r].stage \in {"local", "answered"}
      /\ item' = [item EXCEPT !.loaded = TRUE, !.count = get[r].count]
      /\ local' = get[r].count
      /\ get' = [get EXCEPT ![r] = Idle]
  BY DEF Done, Shows, socketVars, serviceVars
<1>2. /\ DOMAIN item' = {"here", "loaded", "count"} /\ item'.loaded /\ item'.count = get[r].count
      /\ item'.here = item.here
  BY <1>1 DEF IInv, Types, PageTypes, WireTypes
<1>3. DOMAIN Idle = {"stage", "count"} /\ Idle.stage = "none"
  BY DEF Idle
<1>4. /\ DOMAIN get' = {"load", "reset"} /\ get'[r] = Idle
      /\ \A q \in {"load", "reset"} : q # r => get'[q] = get[q]
  BY <1>1 DEF IInv, Types, PageTypes, WireTypes
<1>5. get[r].count \in Nat /\ get[r].count <= db
  BY <1>1 DEF IInv, Types, PageTypes, WireTypes, Counters
<1>6. Types'
  BY <1>1, <1>2, <1>3, <1>4, <1>5 DEF IInv, Types, PageTypes, WireTypes, Stages
<1>7. r = "load" => get.reset.stage = "none" /\ ~list.here
  BY <1>1 DEF IInv, Loads
<1>8. r = "reset" => item.count <= get[r].count /\ get.load.stage = "none"
  BY <1>1 DEF IInv, Counters, Loads
<1>9. Counters'
  BY <1>1, <1>2, <1>3, <1>4, <1>5, <1>7 DEF IInv, Types, PageTypes, WireTypes, Counters
<1>10. Loads'
  BY <1>1, <1>2, <1>3, <1>4, <1>7, <1>8 DEF IInv, Loads
<1>11. CASE r = "reset"
  <2>1. Keeps
    BY <1>1, <1>2, <1>5, <1>8, <1>11 DEF Keeps, Reaches, IInv, Types, PageTypes, WireTypes
  <2>2. QED
    BY <1>1, <1>6, <1>9, <1>10, <2>1, PageStep DEF IInv, Types, PageTypes, WireTypes
<1>12. CASE r = "load"
  BY <1>1, <1>6, <1>7, <1>9, <1>10, <1>12, NotTold DEF IInv, Types, PageTypes, WireTypes
<1>13. QED  BY <1>11, <1>12

LEMMA LoadFailsStep == ASSUME IInv, LoadFails PROVE IInv'
<1>1. /\ UNCHANGED <<db, ccus, conn, toServer, toClient, line, local, list, buffer>>
      /\ get.load.stage # "none" /\ get' = [get EXCEPT !.load = Idle]
      /\ \/ local # None /\ item' = [item EXCEPT !.loaded = TRUE, !.count = local] /\ status'.once = status.once
         \/ item' = Model /\ status'.once
      /\ DOMAIN status' = DOMAIN status
  BY DEF LoadFails, Shows, GoOffline, socketVars, IInv, Types, PageTypes, WireTypes
<1>2. ~list.here /\ get.reset.stage = "none" /\ ~status.once /\ item.here
  BY <1>1 DEF IInv, Loads
<1>3. /\ DOMAIN item' = {"here", "loaded", "count"} /\ item'.here
      /\ item'.count = (IF item'.loaded THEN local ELSE 0) /\ (item'.loaded => local # None)
      /\ status'.once \/ item'.loaded
  BY <1>1, <1>2 DEF Model, NoItem, IInv, Types, PageTypes, WireTypes
<1>4. DOMAIN Idle = {"stage", "count"} /\ Idle.stage = "none"
  BY DEF Idle
<1>5. DOMAIN get' = {"load", "reset"} /\ get'.load = Idle /\ get'.reset = get.reset
  BY <1>1 DEF IInv, Types, PageTypes, WireTypes
<1>6. Types'
  <2>1. \A r \in DOMAIN get' : DOMAIN get'[r] = {"stage", "count"} /\ get'[r].stage \in Stages
    BY <1>4, <1>5 DEF IInv, Types, PageTypes, Stages
  <2>2. item'.count \in Nat
    BY <1>1, <1>3 DEF IInv, Types, PageTypes
  <2>3. WireTypes'
    BY <1>1 DEF IInv, Types, WireTypes
  <2>4. PageTypes'
    BY <1>1, <1>3, <1>5, <2>1, <2>2 DEF IInv, Types, PageTypes
  <2>5. QED
    BY <2>3, <2>4 DEF Types
<1>7. Counters'
  BY <1>1, <1>2, <1>3, <1>4, <1>5 DEF IInv, Types, PageTypes, WireTypes, Counters, None
<1>8. Loads'
  BY <1>1, <1>2, <1>3, <1>4, <1>5 DEF IInv, Loads
<1>9. QED
  BY <1>1, <1>2, <1>6, <1>7, <1>8, NotTold DEF IInv, Types, PageTypes, WireTypes

(* A reset that fails shows what the model shows already.                  *)
LEMMA ResetFailsStep == ASSUME IInv, ResetFails PROVE IInv'
<1>1. /\ UNCHANGED <<db, ccus, conn, toServer, toClient, line, local, list, buffer>>
      /\ ~line /\ get.reset.stage # "none" /\ get' = [get EXCEPT !.reset = Idle]
      /\ \/ local # None /\ item' = [item EXCEPT !.loaded = TRUE, !.count = local]
         \/ item' = item
      /\ DOMAIN status' = DOMAIN status /\ status'.once = status.once
  BY DEF ResetFails, Shows, GoOffline, socketVars, IInv, Types, PageTypes, WireTypes
<1>2. get.load.stage = "none" /\ item.here
  BY <1>1 DEF IInv, Loads
<1>3. /\ DOMAIN item' = {"here", "loaded", "count"} /\ item'.here = item.here
      /\ IF item'.loaded THEN item'.count = local ELSE item' = item
      /\ item'.loaded => local # None
      /\ item.loaded => item'.loaded
      /\ item.count <= item'.count
  <2>1. DOMAIN item = {"here", "loaded", "count"} /\ item.count \in Nat /\ local \in Nat \cup {None}
    BY DEF IInv, Types, PageTypes
  <2>2. IF item.loaded THEN local = item.count ELSE item.count = 0
    BY DEF IInv, Counters
  <2>3. CASE item' = item
    BY <2>1, <2>2, <2>3 DEF None
  <2>4. CASE local # None /\ item' = [item EXCEPT !.loaded = TRUE, !.count = local]
    <3>1. /\ DOMAIN item' = {"here", "loaded", "count"} /\ item'.here = item.here
          /\ item'.loaded = TRUE /\ item'.count = local
      BY <2>1, <2>4
    <3>2. item.count <= local
      BY <2>1, <2>2, <2>4
    <3>3. QED
      BY <2>4, <3>1, <3>2
  <2>5. QED  BY <1>1, <2>3, <2>4
<1>4. DOMAIN Idle = {"stage", "count"} /\ Idle.stage = "none"
  BY DEF Idle
<1>5. DOMAIN get' = {"load", "reset"} /\ get'.reset = Idle /\ get'.load = get.load
  BY <1>1 DEF IInv, Types, PageTypes, WireTypes
<1>6. Types'
  BY <1>1, <1>3, <1>4, <1>5, ZenonT(60) DEF IInv, Types, PageTypes, WireTypes, Stages, None
<1>7. Counters'
  BY <1>1, <1>3, <1>4, <1>5 DEF IInv, Types, PageTypes, WireTypes, Counters
<1>8. Loads'
  BY <1>1, <1>2, <1>3, <1>4, <1>5 DEF IInv, Loads
<1>9. Keeps
  BY <1>1, <1>3, <1>6 DEF Keeps, Reaches, IInv, Types, PageTypes, WireTypes
<1>10. QED
  BY <1>1, <1>6, <1>7, <1>8, <1>9, PageStep DEF IInv, Types, PageTypes, WireTypes

-----------------------------------------------------------------------------
(* The socket.                                                             *)

(* A counter more in the buffer.                                           *)
LEMMA BufferedOne ==
    ASSUME IInv, NEW count \in Nat, Reaches(count)
    PROVE  LET b == Buffered(buffer, count)
           IN  /\ DOMAIN b = {"cmds", "sock"} /\ b.cmds \in Seq(Nat) /\ b.cmds # <<>>
               /\ \A k \in DOMAIN b.cmds : Reaches(b.cmds[k])
               /\ b.sock = (IF buffer.cmds = <<>> THEN conn.id ELSE buffer.sock)
<1>1. buffer.cmds \in Seq(Nat) /\ DOMAIN buffer = {"cmds", "sock"}
  BY DEF IInv, Types, PageTypes, WireTypes
<1>2. CASE buffer.cmds = <<>>
  <2>1. PICK b : b = [cmds |-> <<count>>, sock |-> conn.id]
    OBVIOUS
  <2>2. Buffered(buffer, count) = b /\ DOMAIN b = {"cmds", "sock"} /\ b.cmds = <<count>> /\ b.sock = conn.id
    BY <1>2, <2>1 DEF Buffered
  <2>3. <<count>> \in Seq(Nat) /\ <<count>> # <<>> /\ \A k \in DOMAIN <<count>> : <<count>>[k] = count
    OBVIOUS
  <2>4. QED
    BY <1>2, <2>2, <2>3
<1>3. CASE buffer.cmds # <<>>
  <2>1. PICK b : b = [buffer EXCEPT !.cmds = Append(@, count)]
    OBVIOUS
  <2>2. /\ Buffered(buffer, count) = b /\ DOMAIN b = {"cmds", "sock"}
        /\ b.cmds = Append(buffer.cmds, count) /\ b.sock = buffer.sock
    BY <1>1, <1>3, <2>1 DEF Buffered
  <2>3. /\ Append(buffer.cmds, count) \in Seq(Nat) /\ Append(buffer.cmds, count) # <<>>
        /\ \A k \in DOMAIN Append(buffer.cmds, count) :
              \/ Append(buffer.cmds, count)[k] = count
              \/ k \in DOMAIN buffer.cmds /\ Append(buffer.cmds, count)[k] = buffer.cmds[k]
    <3>1. PICK cmds \in Seq(Nat) : cmds = buffer.cmds
      BY <1>1
    <3>2. Append(cmds, count) \in Seq(Nat) /\ Append(cmds, count) # <<>>
      OBVIOUS
    <3>3. DOMAIN Append(cmds, count) = 1 .. Len(cmds) + 1 /\ DOMAIN cmds = 1 .. Len(cmds) /\ Len(cmds) \in Nat
      OBVIOUS
    <3>4. \A k \in 1 .. Len(cmds) + 1 :
              Append(cmds, count)[k] = count \/ (k \in 1 .. Len(cmds) /\ Append(cmds, count)[k] = cmds[k])
      OBVIOUS
    <3>5. QED
      BY <3>1, <3>2, <3>3, <3>4
  <2>4. \A k \in DOMAIN buffer.cmds : Reaches(buffer.cmds[k])
    BY DEF IInv, PageTells
  <2>5. QED
    BY <1>3, <2>2, <2>3, <2>4
<1>4. QED  BY <1>2, <1>3

LEMMA SubscribeStep == ASSUME IInv, Subscribe PROVE IInv'
<1>1. /\ UNCHANGED <<db, ccus, conn, toServer, toClient, line, item, get, local, status>>
      /\ item.here /\ ~list.here /\ get.load.stage = "none"
      /\ list' = [here |-> TRUE, count |-> item.count]
      /\ buffer' = Buffered(buffer, item.count)
  BY DEF Subscribe, socketVars, pageVars
<1>2. item.count \in Nat /\ Reaches(item.count)
  BY DEF IInv, Types, PageTypes, WireTypes, Counters, Reaches
<1>3. list'.here /\ list'.count = item.count /\ DOMAIN list' = {"here", "count"}
  BY <1>1
<1>4. /\ DOMAIN buffer' = {"cmds", "sock"} /\ buffer'.cmds \in Seq(Nat) /\ buffer'.cmds # <<>>
      /\ \A k \in DOMAIN buffer'.cmds : Reaches(buffer'.cmds[k])
      /\ buffer'.sock = (IF buffer.cmds = <<>> THEN conn.id ELSE buffer.sock)
  BY <1>1, <1>2, BufferedOne
<1>5. Types'
  BY <1>1, <1>2, <1>3, <1>4 DEF IInv, Types, PageTypes, WireTypes
<1>6. Counters'
  BY <1>1, <1>3 DEF IInv, Counters
<1>7. Sessions'
  BY <1>1, <1>4 DEF IInv, Sessions
<1>8. Loads'
  BY <1>1, <1>3, <1>4 DEF IInv, Loads
<1>9. \A n : Reaches(n)' <=> Reaches(n)
  BY <1>1, SamePage
<1>10. PageTells'
  BY <1>1, <1>2, <1>3, <1>4, <1>9 DEF IInv, PageTells
<1>11. Subscribes' /\ CcusTells' /\ StoredTold'
  BY <1>1, <1>4, <1>9 DEF IInv, Subscribes, CcusTells, StoredTold
<1>12. QED
  BY <1>5, <1>6, <1>7, <1>8, <1>10, <1>11 DEF IInv

(* The buffer is sent over the socket it was meant for; the first of the   *)
(* socket's messages stays the only one that makes ccus forget.            *)
LEMMA BufferTimerStep == ASSUME IInv, BufferTimer PROVE IInv'
<1>1. /\ UNCHANGED <<db, ccus, conn, toClient, line, item, get, local, list, status>>
      /\ buffer.cmds # <<>> /\ buffer' = [buffer EXCEPT !.cmds = <<>>]
      /\ toServer' = IF conn.state = "open" /\ buffer.sock = conn.id
                     THEN Append(toServer, buffer.cmds) ELSE toServer
  BY DEF BufferTimer, pageVars
<1>2. DOMAIN buffer' = {"cmds", "sock"} /\ buffer'.cmds = <<>> /\ <<>> \in Seq(Nat)
  BY <1>1 DEF IInv, Types, WireTypes
<1>3. list.here
  BY <1>1 DEF IInv, Loads
<1>4. PICK cmds \in Seq(Nat) : cmds = buffer.cmds /\ cmds # <<>>
  BY <1>1 DEF IInv, Types, WireTypes
<1>5. PICK ts \in Seq(Seq(Nat)) : ts = toServer
  BY DEF IInv, Types, WireTypes
<1>6. /\ Append(ts, cmds) \in Seq(Seq(Nat))
      /\ DOMAIN Append(ts, cmds) = 1 .. Len(ts) + 1 /\ DOMAIN ts = 1 .. Len(ts) /\ Len(ts) \in Nat
      /\ \A k \in 1 .. Len(ts) : Append(ts, cmds)[k] = ts[k]
      /\ Append(ts, cmds)[Len(ts) + 1] = cmds
  OBVIOUS
<1>7. \/ toServer' = ts /\ conn.state # "open"
      \/ toServer' = Append(ts, cmds) /\ conn.state = "open"
  BY <1>1, <1>4, <1>5 DEF IInv, Sessions
<1>8. /\ toServer' \in Seq(Seq(Nat))
      /\ \A k \in DOMAIN toServer' : toServer'[k] = cmds \/ (k \in DOMAIN toServer /\ toServer'[k] = toServer[k])
      /\ conn.state = "open" => \E k \in DOMAIN toServer' : toServer'[k] = cmds
      /\ toServer' # <<>> => toServer # <<>> \/ conn.state = "open"
  <2>1. CASE toServer' = ts /\ conn.state # "open"
    BY <1>5, <2>1
  <2>2. CASE toServer' = Append(ts, cmds) /\ conn.state = "open"
    <3>1. toServer' \in Seq(Seq(Nat)) /\ DOMAIN toServer' = 1 .. Len(ts) + 1
      BY <1>6, <2>2
    <3>2. \A k \in 1 .. Len(ts) + 1 : toServer'[k] = cmds \/ (k \in 1 .. Len(ts) /\ toServer'[k] = ts[k])
      BY <1>6, <2>2
    <3>3. Len(ts) + 1 \in DOMAIN toServer' /\ toServer'[Len(ts) + 1] = cmds
      BY <1>6, <2>2, <3>1
    <3>4. QED
      BY <1>5, <1>6, <2>2, <3>1, <3>2, <3>3
  <2>3. QED  BY <1>7, <2>1, <2>2
<1>9. Types'
  BY <1>1, <1>2, <1>8 DEF IInv, Types, PageTypes, WireTypes
<1>10. Counters'
  BY <1>1 DEF IInv, Counters
<1>11. Sessions'
  BY <1>1, <1>2, <1>4, <1>8 DEF IInv, Sessions, Forget
<1>12. Loads'
  BY <1>1, <1>3 DEF IInv, Loads
<1>13. \A n : Reaches(n)' <=> Reaches(n)
  BY <1>1, SamePage
<1>14. PageTells'
  <2>1. \A j \in DOMAIN cmds : Reaches(cmds[j])
    BY <1>4 DEF IInv, PageTells
  <2>2. QED
    BY <1>1, <1>2, <1>8, <1>13, <2>1 DEF IInv, PageTells
<1>15. Subscribes'
  BY <1>1, <1>4, <1>8 DEF Subscribes, Forget
<1>16. CcusTells' /\ StoredTold'
  BY <1>1, <1>13 DEF IInv, CcusTells, StoredTold
<1>17. QED
  BY <1>9, <1>10, <1>11, <1>12, <1>14, <1>15, <1>16 DEF IInv

LEMMA InitSocketStep == ASSUME IInv, InitSocket PROVE IInv'
<1>1. /\ UNCHANGED <<db, ccus, toServer, toClient, line, item, get, local, list, buffer, status>>
      /\ conn.state = "closed" /\ conn' = [id |-> conn.id + 1, state |-> "connecting", ready |-> TRUE]
  BY DEF InitSocket, pageVars, serviceVars
<1>2. /\ DOMAIN conn' = {"id", "state", "ready"} /\ conn'.id = conn.id + 1 /\ conn'.state = "connecting"
      /\ conn.id \in Nat /\ conn'.id \in Nat
  BY <1>1 DEF IInv, Types, WireTypes
<1>3. ccus.sessions \subseteq 1 .. conn'.id /\ conn'.id \notin ccus.sessions
  BY <1>2 DEF IInv, Sessions
<1>4. toServer = <<>> /\ toClient = <<>>
  BY <1>1 DEF IInv, Sessions
<1>5. Types'
  BY <1>1, <1>2 DEF IInv, Types, PageTypes, WireTypes
<1>6. Counters'
  BY <1>1 DEF IInv, Counters
<1>7. Sessions'
  BY <1>1, <1>2, <1>3, <1>4 DEF IInv, Sessions
<1>8. Loads'
  BY <1>1, <1>2 DEF IInv, Loads
<1>9. \A n : Reaches(n)' <=> Reaches(n)
  BY <1>1, SamePage
<1>10. PageTells' /\ Subscribes' /\ CcusTells' /\ StoredTold'
  BY <1>1, <1>2, <1>9 DEF IInv, PageTells, Subscribes, CcusTells, StoredTold
<1>11. QED
  BY <1>5, <1>6, <1>7, <1>8, <1>10 DEF IInv

LEMMA OpenedHandlerStep == ASSUME IInv, Hurry = {}, OpenedHandler PROVE IInv'
<1>1. /\ UNCHANGED <<db, ccus, line, item, get, local, list>>
      /\ conn.state = "connecting" /\ conn' = [conn EXCEPT !.state = "open"]
      /\ buffer.cmds = <<>> \/ buffer.sock = conn.id
      /\ toServer' = <<Forget>> /\ toClient' = <<>>
      /\ buffer' = IF list.here THEN Buffered(buffer, list.count) ELSE buffer
      /\ DOMAIN status' = DOMAIN status /\ status'.once = status.once
  BY DEF OpenedHandler, pageVars, IInv, Types, PageTypes
<1>2. DOMAIN conn' = {"id", "state", "ready"} /\ conn'.id = conn.id /\ conn'.state = "open"
  BY <1>1 DEF IInv, Types, WireTypes
<1>3. conn.id \notin ccus.sessions
  BY <1>1 DEF IInv, Sessions
<1>4. /\ toServer' \in Seq(Seq(Nat)) /\ toClient' \in Seq(Nat)
      /\ DOMAIN toServer' = {1} /\ toServer'[1] = Forget /\ DOMAIN Forget = {}
  BY <1>1 DEF Forget
<1>5. /\ DOMAIN buffer' = {"cmds", "sock"} /\ buffer'.cmds \in Seq(Nat)
      /\ list.here => buffer'.cmds # <<>>
      /\ ~list.here => buffer'.cmds = <<>>
      /\ \A k \in DOMAIN buffer'.cmds : Reaches(buffer'.cmds[k])
      /\ buffer'.cmds # <<>> => buffer'.sock = conn.id
  <2>1. CASE list.here
    <3>1. list.count \in Nat /\ Reaches(list.count)
      BY <2>1 DEF IInv, Types, WireTypes, PageTells
    <3>2. QED
      BY <1>1, <2>1, <3>1, BufferedOne
  <2>2. CASE ~list.here
    BY <1>1, <2>2 DEF IInv, Types, WireTypes, Loads, PageTells
  <2>3. QED  BY <2>1, <2>2
<1>6. Types'
  BY <1>1, <1>2, <1>4, <1>5 DEF IInv, Types, PageTypes, WireTypes
<1>7. Counters'
  BY <1>1 DEF IInv, Counters
<1>8. Sessions'
  BY <1>1, <1>2, <1>3, <1>4, <1>5 DEF IInv, Sessions
<1>9. Loads'
  BY <1>1, <1>2, <1>3, <1>4, <1>5 DEF IInv, Loads
<1>10. \A n : Reaches(n)' <=> Reaches(n)
  BY <1>1, SamePage
<1>11. PageTells'
  BY <1>1, <1>4, <1>5, <1>10 DEF IInv, PageTells
<1>12. Subscribes' /\ CcusTells' /\ StoredTold'
  BY <1>1, <1>2, <1>3, <1>5 DEF Subscribes, CcusTells, StoredTold
<1>13. QED
  BY <1>6, <1>7, <1>8, <1>9, <1>11, <1>12 DEF IInv

(* The socket is closed, or the page opened anew.                          *)
LEMMA ClosedStep == ASSUME IInv, ClosedHandler PROVE IInv'
<1>1. /\ UNCHANGED <<db, ccus, line, item, get, local, list, buffer>>
      /\ conn' = [conn EXCEPT !.state = "closed"] /\ toServer' = <<>> /\ toClient' = <<>>
      /\ DOMAIN status' = DOMAIN status /\ status'.once = status.once
  BY DEF ClosedHandler, pageVars, IInv, Types, PageTypes
<1>2. DOMAIN conn' = {"id", "state", "ready"} /\ conn'.id = conn.id /\ conn'.state = "closed"
  BY <1>1 DEF IInv, Types, WireTypes
<1>3. Types'
  <2>1. PageTypes'
    BY <1>1 DEF IInv, Types, PageTypes
  <2>2. WireTypes'
    BY <1>1, <1>2 DEF IInv, Types, WireTypes
  <2>3. QED
    BY <2>1, <2>2 DEF Types
<1>4. Counters'
  BY <1>1 DEF IInv, Counters
<1>5. Sessions'
  BY <1>1, <1>2 DEF IInv, Sessions
<1>6. Loads'
  BY <1>1, <1>2 DEF IInv, Loads
<1>7. \A n : Reaches(n)' <=> Reaches(n)
  BY <1>1, SamePage
<1>8. PageTells' /\ Subscribes' /\ CcusTells' /\ StoredTold'
  BY <1>1, <1>2, <1>7 DEF IInv, PageTells, Subscribes, CcusTells, StoredTold
<1>9. QED
  BY <1>3, <1>4, <1>5, <1>6, <1>8 DEF IInv

LEMMA ReloadStep == ASSUME IInv, Reload PROVE IInv'
<1>1. /\ UNCHANGED <<db, ccus, line, local>>
      /\ item' = NoItem /\ get' = [load |-> Idle, reset |-> Idle]
      /\ list' = [here |-> FALSE, count |-> 0] /\ buffer' = [cmds |-> <<>>, sock |-> 0]
      /\ status' = [line |-> FALSE, ccus |-> FALSE, checking |-> FALSE, once |-> FALSE]
      /\ conn' = [conn EXCEPT !.state = "closed", !.ready = FALSE]
      /\ toServer' = <<>> /\ toClient' = <<>>
  BY DEF Reload
<1>2. DOMAIN conn' = {"id", "state", "ready"} /\ conn'.id = conn.id /\ conn'.state = "closed"
  BY <1>1 DEF IInv, Types, WireTypes
<1>3. DOMAIN item' = {"here", "loaded", "count"} /\ ~item'.here /\ ~item'.loaded /\ item'.count = 0
  BY <1>1 DEF NoItem
<1>4. DOMAIN Idle = {"stage", "count"} /\ Idle.stage = "none"
  BY DEF Idle
<1>5. DOMAIN get' = {"load", "reset"} /\ \A r \in DOMAIN get' : get'[r] = Idle
  BY <1>1
<1>6. /\ DOMAIN list' = {"here", "count"} /\ ~list'.here /\ list'.count = 0
      /\ DOMAIN buffer' = {"cmds", "sock"} /\ buffer'.cmds = <<>>
      /\ DOMAIN status' = {"line", "ccus", "checking", "once"} /\ ~status'.once
  BY <1>1
<1>7. Types'
  <2>1. PageTypes'
    BY <1>1, <1>3, <1>4, <1>5, <1>6 DEF IInv, Types, PageTypes, Stages
  <2>2. WireTypes'
    BY <1>1, <1>2, <1>6 DEF IInv, Types, WireTypes
  <2>3. QED
    BY <2>1, <2>2 DEF Types
<1>8. Counters'
  BY <1>1, <1>3, <1>4, <1>5, <1>6 DEF IInv, Types, WireTypes, Counters
<1>9. Sessions'
  BY <1>1, <1>2, <1>6 DEF IInv, Sessions
<1>10. Loads'
  BY <1>1, <1>2, <1>3, <1>4, <1>5, <1>6 DEF Loads
<1>11. PageTells' /\ Subscribes' /\ CcusTells' /\ StoredTold'
  BY <1>1, <1>2, <1>6 DEF PageTells, Subscribes, CcusTells, StoredTold
<1>12. QED
  BY <1>7, <1>8, <1>9, <1>10, <1>11 DEF IInv

(* A counter arrives: the page has it, or a reset begins.                  *)
LEMMA ReceiveMessageStep == ASSUME IInv, Hurry = {}, ReceiveMessage PROVE IInv'
<1>1. /\ UNCHANGED <<db, ccus, conn, toServer, line, item, local, buffer, status>>
      /\ line /\ toClient # <<>> /\ get.reset.stage = "none" /\ toClient' = Tail(toClient)
      /\ IF Head(toClient) = item.count /\ Head(toClient) # 0 THEN UNCHANGED <<list, get>>
         ELSE /\ list' = [list EXCEPT !.count = Head(toClient)]
              /\ get' = IF Head(toClient) = 0 THEN get ELSE Resetting
  BY DEF ReceiveMessage
<1>2. PICK msgs \in Seq(Nat) : msgs = toClient /\ msgs # <<>>
  BY <1>1 DEF IInv, Types, WireTypes
<1>3. PICK n \in Nat : n = Head(msgs) /\ n = msgs[1]
  BY <1>2
<1>4. /\ Tail(msgs) \in Seq(Nat) /\ DOMAIN Tail(msgs) = 1 .. Len(msgs) - 1 /\ Len(msgs) \in Nat \ {0}
      /\ \A k \in 1 .. Len(msgs) - 1 : Tail(msgs)[k] = msgs[k + 1] /\ k + 1 \in DOMAIN msgs
      /\ Len(Tail(msgs)) = Len(msgs) - 1
  BY <1>2
<1>5. n <= db /\ item.here /\ list.here /\ get.load.stage = "none"
  <2>1. 1 \in DOMAIN msgs
    BY <1>2, <1>4
  <2>2. n <= db
    BY <1>2, <1>3, <2>1 DEF IInv, StoredTold
  <2>3. list.here
    BY <1>1 DEF IInv, Loads
  <2>4. QED
    BY <2>2, <2>3 DEF IInv, Loads
<1>6. /\ DOMAIN list' = {"here", "count"} /\ list'.here = list.here /\ list'.count \in {list.count, n}
      /\ \/ get' = get /\ n <= item.count
         \/ get' = [get EXCEPT !.reset = Sent]
  <2>1. DOMAIN list = {"here", "count"} /\ item.count \in Nat
    BY DEF IInv, Types, WireTypes, PageTypes
  <2>2. n = Head(toClient)
    BY <1>2, <1>3
  <2>3. CASE n = item.count /\ n # 0
    BY <1>1, <2>1, <2>2, <2>3
  <2>4. CASE ~(n = item.count /\ n # 0)
    <3>1. list' = [list EXCEPT !.count = n] /\ get' = IF n = 0 THEN get ELSE Resetting
      BY <1>1, <2>2, <2>4
    <3>2. Resetting = [get EXCEPT !.reset = Sent]
      BY <1>1 DEF Resetting
    <3>3. QED
      BY <2>1, <3>1, <3>2
  <2>5. QED  BY <2>3, <2>4
<1>7. DOMAIN Sent = {"stage", "count"} /\ Sent.stage = "sent"
  BY DEF Sent
<1>8. /\ DOMAIN get' = {"load", "reset"} /\ get'.load = get.load
      /\ get'.reset = Sent \/ (get'.reset = get.reset /\ n <= item.count)
  BY <1>6, <1>7 DEF IInv, Types, PageTypes
<1>9. Keeps /\ Reaches(n)'
  <2>1. n <= db /\ item' = item /\ db' = db /\ line' = line /\ line
    BY <1>1, <1>5
  <2>2. get'.reset.stage = "sent" \/ n <= item.count
    BY <1>7, <1>8
  <2>3. Reaches(n)'
    BY <2>1, <2>2 DEF Reaches
  <2>4. Keeps
    BY <1>7, <1>8, <2>1 DEF Keeps, Reaches
  <2>5. QED  BY <2>3, <2>4
<1>10. Types'
  <2>1. \A r \in DOMAIN get' : DOMAIN get'[r] = {"stage", "count"} /\ get'[r].stage \in Stages
    BY <1>7, <1>8 DEF IInv, Types, PageTypes, Stages
  <2>2. PageTypes'
    BY <1>1, <1>8, <2>1 DEF IInv, Types, PageTypes
  <2>3. toClient' \in Seq(Nat) /\ list'.count \in Nat
    BY <1>1, <1>2, <1>4, <1>6 DEF IInv, Types, WireTypes
  <2>4. WireTypes'
    BY <1>1, <1>6, <2>3 DEF IInv, Types, WireTypes
  <2>5. QED
    BY <2>2, <2>4 DEF Types
<1>11. Counters'
  BY <1>1, <1>5, <1>6, <1>7, <1>8 DEF IInv, Types, WireTypes, Counters
<1>12. Sessions'
  <2>1. conn.state = "open" /\ conn.id \in ccus.sessions
    BY <1>1 DEF IInv, Sessions
  <2>2. QED
    BY <1>1, <2>1 DEF IInv, Sessions
<1>13. Loads'
  BY <1>1, <1>5, <1>6, <1>7, <1>8 DEF IInv, Loads
<1>14. PageTells'
  <2>1. /\ \A k \in DOMAIN buffer.cmds : buffer.cmds[k] \in Nat
        /\ \A k \in DOMAIN toServer : \A j \in DOMAIN toServer[k] : toServer[k][j] \in Nat
        /\ list.count \in Nat
    BY CountsTold
  <2>2. Reaches(list.count)'
    <3>1. CASE list'.count = n
      BY <1>9, <3>1 DEF Reaches
    <3>2. CASE list'.count = list.count
      <4>1. PICK m \in Nat : m = list.count
        BY <2>1
      <4>2. Reaches(m)'
        BY <1>5, <1>9, <4>1 DEF IInv, PageTells, Keeps
      <4>3. QED
        BY <3>2, <4>1, <4>2 DEF Reaches
    <3>3. QED  BY <1>6, <3>1, <3>2
  <2>3. QED
    BY <1>1, <1>9, <2>1, <2>2 DEF IInv, PageTells, Keeps
<1>15. Subscribes'
  BY <1>1, <1>6 DEF IInv, Subscribes
<1>16. CcusTells'
  <2>1. CASE Len(msgs) = 1
    <3>1. toClient' = <<>>
      BY <1>1, <1>2, <1>4, <2>1
    <3>2. conn.state = "open" /\ conn.id \in ccus.sessions => n = ccus.counter
      BY <1>2, <1>3, <2>1 DEF IInv, CcusTells
    <3>3. QED
      BY <1>1, <1>9, <3>1, <3>2 DEF CcusTells
  <2>2. CASE Len(msgs) # 1
    <3>0. PICK m \in Nat \ {0} : Len(msgs) = m + 1 /\ Len(msgs) - 1 = m
      <4>1. PICK len \in Nat \ {0} : len = Len(msgs)
        BY <1>4
      <4>2. len - 1 \in Nat \ {0} /\ len = (len - 1) + 1
        BY <2>2, <4>1
      <4>3. QED
        BY <4>1, <4>2
    <3>1. /\ toClient' # <<>> /\ Len(toClient') = Len(msgs) - 1
          /\ toClient'[Len(msgs) - 1] = msgs[Len(msgs)]
      <4>1. m \in 1 .. Len(msgs) - 1 /\ toClient' = Tail(msgs)
        BY <1>1, <1>2, <3>0
      <4>2. Tail(msgs)[m] = msgs[m + 1] /\ Len(Tail(msgs)) = m
        BY <1>4, <3>0, <4>1
      <4>3. Tail(msgs) # <<>>
        BY <4>2
      <4>4. QED
        BY <3>0, <4>1, <4>2, <4>3
    <3>2. conn.state = "open" /\ conn.id \in ccus.sessions => msgs[Len(msgs)] = ccus.counter
      BY <1>2 DEF IInv, CcusTells
    <3>3. QED
      BY <1>1, <3>1, <3>2 DEF CcusTells
  <2>3. QED  BY <2>1, <2>2
<1>17. StoredTold'
  BY <1>1, <1>2, <1>4 DEF IInv, StoredTold
<1>18. QED
  BY <1>10, <1>11, <1>12, <1>13, <1>14, <1>15, <1>16, <1>17 DEF IInv

-----------------------------------------------------------------------------
(* veda-ccus.                                                              *)

-----------------------------------------------------------------------------
(* veda-ccus.                                                              *)

(* What is left of the messages when the first one has been taken.         *)
LEMMA RestOf ==
    ASSUME NEW S, NEW s \in Seq(S), s # <<>>
    PROVE  /\ Head(s) = s[1] /\ 1 \in DOMAIN s /\ Tail(s) \in Seq(S)
           /\ \A k \in DOMAIN Tail(s) : k >= 1 /\ k + 1 \in DOMAIN s /\ Tail(s)[k] = s[k + 1]
           /\ \A k \in DOMAIN s : k = 1 \/ (k - 1 \in DOMAIN Tail(s) /\ Tail(s)[k - 1] = s[k])
<1>1. Len(s) \in Nat \ {0} /\ DOMAIN s = 1 .. Len(s)
  OBVIOUS
<1>2. Tail(s) \in Seq(S) /\ DOMAIN Tail(s) = 1 .. Len(s) - 1 /\ Head(s) = s[1]
  OBVIOUS
<1>3. \A k \in 1 .. Len(s) - 1 : Tail(s)[k] = s[k + 1]
  OBVIOUS
<1>4. PICK len \in Nat \ {0} : len = Len(s)
  BY <1>1
<1>5. \A k \in 1 .. len - 1 : k >= 1 /\ k + 1 \in 1 .. len
  OBVIOUS
<1>6. ASSUME NEW k \in 1 .. len, k # 1
      PROVE  k - 1 \in 1 .. len - 1 /\ (k - 1) + 1 = k
  BY <1>6
<1>7. QED
  BY <1>1, <1>2, <1>3, <1>4, <1>5, <1>6

(* A page that reaches a counter reaches the ones before it.               *)
LEMMA ReachesLess ==
    ASSUME IInv, NEW n \in Nat, NEW c \in Nat, n <= c, Reaches(c)
    PROVE  Reaches(n)
<1>1. item.count \in Nat /\ db \in Nat
  BY DEF IInv, Types, PageTypes, WireTypes
<1>2. get.reset.stage = "answered" => get.reset.count \in Nat
  BY DEF IInv, Types, PageTypes, Counters
<1>3. QED
  BY <1>1, <1>2 DEF Reaches

(* ccus forgets a session that it does not have yet.                       *)
LEMMA ForgetStep ==
    ASSUME IInv, PrepareCommand, Head(toServer) = Forget
    PROVE  IInv'
<1>1. /\ UNCHANGED <<db, conn, toClient, line, item, get, local, list, buffer, status>>
      /\ toServer # <<>> /\ toServer' = Tail(toServer)
      /\ ccus' = [ccus EXCEPT !.sessions = @ \ {conn.id}]
  BY DEF PrepareCommand, Unsubscribed, pageVars, serviceVars
<1>2. toServer \in Seq(Seq(Nat))
  BY DEF IInv, Types, WireTypes
<1>3. /\ toServer[1] = Forget /\ 1 \in DOMAIN toServer /\ toServer' \in Seq(Seq(Nat))
      /\ \A k \in DOMAIN toServer' : k >= 1 /\ k + 1 \in DOMAIN toServer /\ toServer'[k] = toServer[k + 1]
      /\ \A k \in DOMAIN toServer : k = 1 \/ (k - 1 \in DOMAIN toServer' /\ toServer'[k - 1] = toServer[k])
  BY <1>1, <1>2, RestOf
<1>4. conn.id \notin ccus.sessions /\ conn.state = "open"
  BY <1>1, <1>3 DEF IInv, Sessions
<1>5. /\ DOMAIN ccus' = {"popped", "here", "counter", "sessions"} /\ ccus'.popped = ccus.popped
      /\ ccus'.here = ccus.here /\ ccus'.counter = ccus.counter /\ ccus'.sessions = ccus.sessions
  BY <1>1, <1>4 DEF IInv, Types, WireTypes
<1>6. \A k \in DOMAIN toServer' : toServer'[k] # Forget
  <2>1. ASSUME NEW k \in DOMAIN toServer', toServer'[k] = Forget
        PROVE  FALSE
    <3>1. k + 1 = 1 /\ k >= 1
      BY <1>3, <2>1 DEF IInv, Sessions
    <3>2. k \in Nat
      BY <1>3
    <3>3. QED
      BY <3>1, <3>2
  <2>2. QED  BY <2>1
<1>7. \A k \in DOMAIN toServer : toServer[k] # Forget => \E j \in DOMAIN toServer' : toServer'[j] # Forget
  BY <1>3
<1>8. Types'
  BY <1>1, <1>3, <1>5 DEF IInv, Types, PageTypes, WireTypes
<1>9. Counters'
  BY <1>1, <1>5 DEF IInv, Counters
<1>10. Sessions'
  BY <1>1, <1>4, <1>5, <1>6 DEF IInv, Sessions
<1>11. Loads'
  BY <1>1, <1>3, <1>5 DEF IInv, Loads
<1>12. \A n : Reaches(n)' <=> Reaches(n)
  BY <1>1, SamePage
<1>13. PageTells'
  BY <1>1, <1>3, <1>12 DEF IInv, PageTells
<1>14. Subscribes'
  BY <1>1, <1>5, <1>7 DEF IInv, Subscribes
<1>15. CcusTells' /\ StoredTold'
  BY <1>1, <1>5, <1>12 DEF IInv, CcusTells, StoredTold
<1>16. QED
  BY <1>8, <1>9, <1>10, <1>11, <1>13, <1>14, <1>15 DEF IInv

(* Messages of ccus, with one more or not: the page reaches the counter,   *)
(* or it is the last one.                                                  *)
LEMMA Appended ==
    ASSUME IInv, NEW n \in Nat, n <= db
    PROVE  LET msgs == Append(toClient, n)
           IN  /\ msgs \in Seq(Nat) /\ msgs # <<>> /\ msgs[Len(msgs)] = n
               /\ \A k \in DOMAIN msgs : msgs[k] <= db
<1>1. PICK cs \in Seq(Nat) : cs = toClient
  BY DEF IInv, Types, WireTypes
<1>2. /\ Append(cs, n) \in Seq(Nat) /\ Append(cs, n) # <<>> /\ Append(cs, n)[Len(Append(cs, n))] = n
      /\ DOMAIN Append(cs, n) = 1 .. Len(cs) + 1
      /\ \A k \in 1 .. Len(cs) + 1 : Append(cs, n)[k] = n \/ (k \in DOMAIN cs /\ Append(cs, n)[k] = cs[k])
  <2>1. Append(cs, n) \in Seq(Nat) /\ Append(cs, n) # <<>> /\ Append(cs, n)[Len(Append(cs, n))] = n
    OBVIOUS
  <2>2. DOMAIN Append(cs, n) = 1 .. Len(cs) + 1 /\ DOMAIN cs = 1 .. Len(cs) /\ Len(cs) \in Nat
    OBVIOUS
  <2>3. \A k \in 1 .. Len(cs) + 1 :
            Append(cs, n)[k] = n \/ (k \in 1 .. Len(cs) /\ Append(cs, n)[k] = cs[k])
    OBVIOUS
  <2>4. QED
    BY <2>1, <2>2, <2>3
<1>3. \A k \in DOMAIN cs : cs[k] <= db
  BY <1>1 DEF IInv, StoredTold
<1>4. QED
  BY <1>1, <1>2, <1>3

(* ccus subscribes the session.                                            *)
LEMMA SubscribedStep ==
    ASSUME IInv, PrepareCommand, Head(toServer) # Forget
    PROVE  IInv'
<1> DEFINE cmds == Head(toServer)
           registered == IF ~ccus.here THEN db ELSE ccus.counter
<1>1. /\ UNCHANGED <<db, conn, line, item, get, local, list, buffer, status>>
      /\ toServer # <<>> /\ toServer' = Tail(toServer)
      /\ ccus' = [ccus EXCEPT !.here = TRUE, !.counter = registered, !.sessions = @ \cup {conn.id}]
      /\ IF registered = 0 \/ \E k \in DOMAIN cmds : registered > cmds[k]
         THEN toClient' = IF conn.state = "open" THEN Append(toClient, registered) ELSE toClient
         ELSE toClient' = toClient
  BY DEF PrepareCommand, Subscribed, ToSession, pageVars, serviceVars
<1>2. toServer \in Seq(Seq(Nat))
  BY DEF IInv, Types, WireTypes
<1>3. /\ cmds = toServer[1] /\ 1 \in DOMAIN toServer /\ toServer' \in Seq(Seq(Nat))
      /\ \A k \in DOMAIN toServer' : k >= 1 /\ k + 1 \in DOMAIN toServer /\ toServer'[k] = toServer[k + 1]
  BY <1>1, <1>2, RestOf
<1>4. conn.state = "open" /\ list.here
  BY <1>1, <1>3 DEF IInv, Sessions, Loads
<1>5. registered \in Nat /\ registered <= db /\ ccus.popped <= registered
  BY DEF IInv, Types, WireTypes, Counters
<1> HIDE DEF registered
<1>6. /\ DOMAIN ccus' = {"popped", "here", "counter", "sessions"} /\ ccus'.popped = ccus.popped
      /\ ccus'.here = TRUE /\ ccus'.counter = registered /\ ccus'.sessions = ccus.sessions \cup {conn.id}
  BY <1>1 DEF IInv, Types, WireTypes
<1>7. conn.id \in ccus.sessions => registered = ccus.counter
  BY DEF registered, IInv, Sessions
<1>8. \A k \in DOMAIN toServer' : toServer'[k] # Forget
  <2>1. ASSUME NEW k \in DOMAIN toServer', toServer'[k] = Forget
        PROVE  FALSE
    <3>1. k + 1 = 1 /\ k >= 1
      BY <1>3, <2>1 DEF IInv, Sessions
    <3>2. k \in Nat
      BY <1>3
    <3>3. QED
      BY <3>1, <3>2
  <2>2. QED  BY <2>1
<1>9. \/ /\ toClient' = Append(toClient, registered)
         /\ toClient' \in Seq(Nat) /\ toClient' # <<>> /\ toClient'[Len(toClient')] = registered
         /\ \A k \in DOMAIN toClient' : toClient'[k] <= db
      \/ toClient' = toClient /\ \A k \in DOMAIN cmds : ~(registered > cmds[k])
  <2>1. CASE registered = 0 \/ \E k \in DOMAIN cmds : registered > cmds[k]
    <3>1. toClient' = Append(toClient, registered)
      BY <1>1, <1>4, <2>1
    <3>2. QED
      BY <1>5, <3>1, Appended
  <2>2. CASE ~(registered = 0 \/ \E k \in DOMAIN cmds : registered > cmds[k])
    BY <1>1, <2>2
  <2>3. QED  BY <2>1, <2>2
<1>10. \A n : Reaches(n)' <=> Reaches(n)
  BY <1>1, SamePage
<1>11. Types'
  <2>1. toClient' \in Seq(Nat)
    BY <1>9 DEF IInv, Types, WireTypes
  <2>2. PageTypes'
    BY <1>1 DEF IInv, Types, PageTypes
  <2>3. WireTypes'
    BY <1>1, <1>3, <1>5, <1>6, <2>1 DEF IInv, Types, WireTypes
  <2>4. QED
    BY <2>2, <2>3 DEF Types
<1>12. Counters'
  BY <1>1, <1>5, <1>6 DEF IInv, Counters
<1>13. Sessions'
  <2>1. conn.id \in 1 .. conn.id
    BY <1>4 DEF IInv, Sessions, Types, WireTypes
  <2>2. QED
    BY <1>1, <1>4, <1>6, <1>8, <2>1 DEF IInv, Sessions
<1>14. Loads'
  BY <1>1, <1>4 DEF IInv, Loads
<1>15. PageTells'
  BY <1>1, <1>3, <1>10 DEF IInv, PageTells
<1>16. Subscribes' /\ StoredTold'
  BY <1>1, <1>6, <1>9 DEF IInv, Subscribes, StoredTold
<1>17. CcusTells'
  <2>1. CASE toClient' # toClient
    BY <1>6, <1>9, <2>1 DEF CcusTells
  <2>2. CASE toClient' = toClient /\ toClient # <<>>
    <3>1. conn.id \in ccus.sessions
      BY <2>2 DEF IInv, Sessions
    <3>2. QED
      BY <1>1, <1>4, <1>6, <1>7, <2>2, <3>1 DEF IInv, CcusTells
  <2>3. CASE toClient' = toClient /\ toClient = <<>>
    <3>1. \A k \in DOMAIN cmds : ~(registered > cmds[k])
      BY <1>9, <2>3
    <3>2. cmds \in Seq(Nat) /\ cmds # <<>>
      BY <1>2, <1>3 DEF Forget
    <3>3. PICK c \in Nat : c = cmds[1] /\ 1 \in DOMAIN cmds
      BY <3>2
    <3>4. registered <= c
      BY <1>5, <3>1, <3>3
    <3>5. Reaches(c)
      BY <1>3, <3>3 DEF IInv, PageTells
    <3>6. Reaches(registered)
      BY <1>5, <3>4, <3>5, ReachesLess
    <3>7. Reaches(ccus.counter)'
      BY <1>1, <1>6, <3>6 DEF Reaches
    <3>8. QED
      BY <2>3, <3>7 DEF CcusTells
  <2>4. QED  BY <2>1, <2>2, <2>3
<1>18. QED
  BY <1>11, <1>12, <1>13, <1>14, <1>15, <1>16, <1>17 DEF IInv

(* The queue is read: a session that is there is told of the counter.      *)
LEMMA ReadQueueStep == ASSUME IInv, ReadQueue PROVE IInv'
<1>1. UNCHANGED <<db, conn, toServer, line, item, get, local, list, buffer, status>>
  BY DEF ReadQueue, pageVars, serviceVars
<1>2. PICK n \in ccus.popped + 1 .. db :
           IF ccus.here
           THEN /\ ccus' = [ccus EXCEPT !.popped = n, !.counter = n]
                /\ IF conn.id \in ccus.sessions THEN ToSession(n) ELSE UNCHANGED toClient
           ELSE ccus' = [ccus EXCEPT !.popped = n] /\ UNCHANGED toClient
  BY DEF ReadQueue
<1>3. n \in Nat /\ n <= db /\ DOMAIN ccus = {"popped", "here", "counter", "sessions"}
  BY <1>2 DEF IInv, Types, WireTypes
<1>4. /\ DOMAIN ccus' = {"popped", "here", "counter", "sessions"} /\ ccus'.popped = n
      /\ ccus'.here = ccus.here /\ ccus'.sessions = ccus.sessions
      /\ ccus'.counter = (IF ccus.here THEN n ELSE ccus.counter)
  BY <1>2, <1>3
<1>5. IF conn.state = "open" /\ conn.id \in ccus.sessions
      THEN ccus.here /\ toClient' = Append(toClient, n)
      ELSE toClient' = toClient
  <2>1. conn.id \in ccus.sessions => ccus.here
    BY DEF IInv, Sessions
  <2>2. QED
    BY <1>2, <2>1 DEF ToSession
<1>6. /\ toClient' \in Seq(Nat)
      /\ \A k \in DOMAIN toClient' : toClient'[k] <= db
      /\ conn.state = "open" /\ conn.id \in ccus.sessions
             => toClient' # <<>> /\ toClient'[Len(toClient')] = n
  <2>1. CASE conn.state = "open" /\ conn.id \in ccus.sessions
    BY <1>3, <1>5, <2>1, Appended
  <2>2. CASE ~(conn.state = "open" /\ conn.id \in ccus.sessions)
    BY <1>5, <2>2 DEF IInv, Types, WireTypes, StoredTold
  <2>3. QED  BY <2>1, <2>2
<1>7. Types'
  <2>1. PageTypes'
    BY <1>1 DEF IInv, Types, PageTypes
  <2>2. WireTypes'
    BY <1>1, <1>3, <1>4, <1>6 DEF IInv, Types, WireTypes
  <2>3. QED
    BY <2>1, <2>2 DEF Types
<1>8. Counters'
  BY <1>1, <1>3, <1>4 DEF IInv, Types, WireTypes, Counters
<1>9. Sessions' /\ Loads'
  <2>1. toClient' # <<>> => conn.state = "open" /\ conn.id \in ccus.sessions
    BY <1>5 DEF IInv, Sessions
  <2>2. Sessions'
    BY <1>1, <1>4, <2>1 DEF IInv, Sessions
  <2>3. Loads'
    BY <1>1, <1>4, <2>1 DEF IInv, Loads
  <2>4. QED  BY <2>2, <2>3
<1>10. \A c : Reaches(c)' <=> Reaches(c)
  BY <1>1, SamePage
<1>11. PageTells' /\ Subscribes' /\ StoredTold'
  BY <1>1, <1>4, <1>6, <1>10 DEF IInv, PageTells, Subscribes, StoredTold
<1>12. CcusTells'
  BY <1>1, <1>4, <1>5, <1>6 DEF CcusTells
<1>13. QED
  BY <1>7, <1>8, <1>9, <1>11, <1>12 DEF IInv

LEMMA DisconnectStep == ASSUME IInv, Disconnect PROVE IInv'
<1>1. UNCHANGED <<db, conn, toServer, toClient, line, item, get, local, list, buffer, status>>
  BY DEF Disconnect, socketVars, pageVars, serviceVars
<1>2. PICK s \in ccus.sessions :
           /\ s # conn.id \/ conn.state = "closed"
           /\ ccus' = [ccus EXCEPT !.sessions = @ \ {s}, !.here = @ /\ ccus.sessions # {s}]
  BY DEF Disconnect
<1>3. /\ DOMAIN ccus' = {"popped", "here", "counter", "sessions"} /\ ccus'.popped = ccus.popped
      /\ ccus'.counter = ccus.counter /\ ccus'.sessions = ccus.sessions \ {s}
      /\ ccus'.here = (ccus.here /\ ccus.sessions # {s})
  BY <1>2 DEF IInv, Types, WireTypes
<1>4. ccus'.here \in BOOLEAN /\ (ccus'.here => ccus.here) /\ (ccus'.sessions # {} => ccus'.here)
  <2>1. ccus.sessions # {} => ccus.here
    BY DEF IInv, Sessions
  <2>2. ccus'.sessions # {} => ccus.sessions # {s} /\ ccus.sessions # {}
    BY <1>3
  <2>3. QED
    BY <1>3, <2>1, <2>2
<1>5. Types'
  <2>1. PageTypes'
    BY <1>1 DEF IInv, Types, PageTypes
  <2>2. WireTypes'
    BY <1>1, <1>3, <1>4 DEF IInv, Types, WireTypes
  <2>3. QED
    BY <2>1, <2>2 DEF Types
<1>6. Counters'
  BY <1>1, <1>3, <1>4 DEF IInv, Counters
<1>7. Sessions' /\ Loads'
  BY <1>1, <1>2, <1>3, <1>4 DEF IInv, Sessions, Loads
<1>8. \A c : Reaches(c)' <=> Reaches(c)
  BY <1>1, SamePage
<1>9. PageTells' /\ StoredTold'
  BY <1>1, <1>8 DEF IInv, PageTells, StoredTold
<1>10. Subscribes' /\ CcusTells'
  <2>1. conn.state = "open" => (conn.id \in ccus'.sessions <=> conn.id \in ccus.sessions)
    BY <1>2, <1>3
  <2>2. Subscribes'
    BY <1>1, <2>1 DEF IInv, Subscribes
  <2>3. CcusTells'
    BY <1>1, <1>3, <1>8, <2>1 DEF IInv, CcusTells, Reaches
  <2>4. QED  BY <2>2, <2>3
<1>11. QED
  BY <1>5, <1>6, <1>7, <1>9, <1>10 DEF IInv

-----------------------------------------------------------------------------
(* Together.                                                               *)

LEMMA InitInv == Init => IInv
<1> SUFFICES ASSUME Init PROVE IInv
  OBVIOUS
<1>1. /\ db = 1 /\ ccus = [popped |-> 1, here |-> FALSE, counter |-> 0, sessions |-> {}]
      /\ conn = [id |-> 0, state |-> "closed", ready |-> FALSE] /\ toServer = <<>> /\ toClient = <<>>
      /\ line = TRUE /\ item = NoItem /\ get = [load |-> Idle, reset |-> Idle] /\ local \in {None, 1}
      /\ list = [here |-> FALSE, count |-> 0] /\ buffer = [cmds |-> <<>>, sock |-> 0]
      /\ status = [line |-> FALSE, ccus |-> FALSE, checking |-> FALSE, once |-> FALSE]
  BY DEF Init
<1>2. DOMAIN item = {"here", "loaded", "count"} /\ ~item.here /\ ~item.loaded /\ item.count = 0
  BY <1>1 DEF NoItem
<1>3. DOMAIN get = {"load", "reset"} /\ \A r \in DOMAIN get : get[r] = Idle
  BY <1>1
<1>4. DOMAIN Idle = {"stage", "count"} /\ Idle.stage = "none"
  BY DEF Idle
<1>5. PageTypes
  BY <1>1, <1>2, <1>3, <1>4 DEF PageTypes, Stages
<1>6. WireTypes
  BY <1>1 DEF WireTypes
<1>7. Counters
  BY <1>1, <1>2, <1>3, <1>4 DEF Counters, None
<1>8. Sessions /\ Loads
  BY <1>1, <1>2, <1>3, <1>4 DEF Sessions, Loads
<1>9. PageTells /\ Subscribes /\ CcusTells /\ StoredTold
  BY <1>1 DEF PageTells, Subscribes, CcusTells, StoredTold
<1>10. QED
  BY <1>5, <1>6, <1>7, <1>8, <1>9 DEF IInv, Types

LEMMA StepInv == Hurry = {} /\ IInv /\ [Next]_vars => IInv'
<1> SUFFICES ASSUME Hurry = {}, IInv, [Next]_vars PROVE IInv'
  OBVIOUS
<1>1. CASE Requests
  BY <1>1, AnswerStep, DoneStep, LoadFailsStep, ResetFailsStep DEF Requests
<1>2. CASE Connection
  BY <1>2, InitSocketStep, OpenedHandlerStep, BufferTimerStep, ReceiveMessageStep DEF Connection
<1>3. CASE Server
  BY <1>3, ForgetStep, SubscribedStep, ReadQueueStep, DisconnectStep DEF Server
<1>4. CASE Ping \/ Subscribe \/ LineBack \/ LineLost \/ Change
  BY <1>4, PingStep, SubscribeStep, LineSteps, ChangeStep
<1>5. CASE Open \/ View \/ ClosedHandler \/ Reload
  BY <1>5, OpenStep, ViewStep, ClosedStep, ReloadStep
<1>6. CASE UNCHANGED vars
  <2>1. UNCHANGED <<db, ccus, conn, toServer, toClient, line, item, get, local, list, buffer, status>>
    BY <1>6 DEF vars, socketVars, pageVars, serviceVars
  <2>2. Types' /\ Counters'
    BY <2>1 DEF IInv, Types, PageTypes, WireTypes, Counters
  <2>3. Loads' /\ Keeps
    BY <2>1, SamePage DEF IInv, Loads
  <2>4. QED
    BY <2>1, <2>2, <2>3, PageStep
<1>7. QED
  BY <1>1, <1>2, <1>3, <1>4, <1>5, <1>6 DEF Next

(* When all is said the page shows what is stored: a stale local database, *)
(* missed notifications and lost connections are made up for, however many *)
(* there are (update_service.js:2, "Update service for individuals that    *)
(* were changed on server").                                               *)
THEOREM FreshHolds == ASSUME Hurry = {} PROVE Spec => []Fresh
<1>1. IInv => Fresh
  <2> SUFFICES ASSUME IInv, Quiet, item.here PROVE item.count = db
    BY DEF Fresh
  <2>1. conn.state = "open" /\ conn.id \in ccus.sessions
    BY DEF IInv, Subscribes, Quiet
  <2>2. Reaches(ccus.counter)
    BY <2>1 DEF IInv, CcusTells, Quiet
  <2>3. ccus.here /\ ccus.popped = db
    BY <2>1 DEF IInv, Sessions, Quiet
  <2>4. ccus.counter = db
    BY <2>3 DEF IInv, Counters, Types, WireTypes
  <2>5. get.reset.stage = "none"
    BY DEF Quiet, Idle
  <2>6. db <= item.count
    BY <2>2, <2>4, <2>5 DEF Reaches
  <2>7. QED
    BY <2>6 DEF IInv, Counters, Types, WireTypes, PageTypes
<1>2. QED
  BY <1>1, InitInv, StepInv, PTL DEF Spec
=============================================================================
