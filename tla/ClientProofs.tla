---------------------------- MODULE ClientProofs ----------------------------
(***************************************************************************)
(* Theorems about the page and its individual, for every set of properties *)
(* and all bounds, when none of the coincidences that lose an edit is let  *)
(* happen and no two values count as equal.                                *)
(***************************************************************************)
EXTENDS Client, SequenceTheorems, TLAPS

Careful == Hurry = {} /\ \A same \in SameSum : \A x, y \in same : x = y

-----------------------------------------------------------------------------
(* The inductive invariant, part by part.                                  *)

\* Edits of the page that are stored, or will be.
Safe == executed \cup OwnQueued

\* A sequence of one element.
One(s) == Len(s) = 1 /\ \E S : s \in Seq(S)

Fields == {"here", "val", "count", "orig", "isNew", "isSync", "isLoaded"}
Commands == {"put", "add", "set", "remove"}

(* Forms of the records, as far as the edits in them go.                   *)
Shape ==
    /\ bounds \in [{"edits", "others", "faults"} -> Nat]
    /\ DOMAIN item = Fields /\ DOMAIN get = {"load", "reset"}
    /\ DOMAIN item.val = Props /\ DOMAIN item.orig = Props
    /\ DOMAIN db.val = Props /\ DOMAIN local.val = Props
    /\ \A r \in DOMAIN get : DOMAIN get[r].rec.val = Props
    /\ \A i \in DOMAIN saves :
        /\ DOMAIN saves[i] = {"val", "calls"} /\ DOMAIN saves[i].val = Props
        /\ \A c \in DOMAIN saves[i].calls : DOMAIN saves[i].calls[c] = {"vals", "stage", "seen"}
    /\ \A f \in DOMAIN flushes : DOMAIN flushes[f] = {"queue", "k", "executed"}

Lists ==
    /\ saves = <<>> \/ One(saves)
    /\ flushes = <<>> \/ One(flushes)
    /\ \E S : offline \in Seq(S)

(* A save and a flush are never in progress together; while one is saving  *)
(* with the server there nothing was queued.                               *)
Separate ==
    /\ flushes # <<>> => saves = <<>>
    /\ saves # <<>> /\ line =>
        /\ offline = <<>>
        /\ \A i \in DOMAIN saves : \A c \in DOMAIN saves[i].calls :
               saves[i].calls[c].stage \notin {"failed", "got"}

(* A flush goes through the queue as it is, and what it has executed is    *)
(* not lost with the queue.                                                *)
FlushFollows ==
    \A f \in DOMAIN flushes :
        /\ flushes[f].queue = offline
        /\ flushes[f].k \in 1 .. Len(offline) + 1
        /\ flushes[f].executed => flushes[f].k <= Len(offline)
        /\ \A j \in 1 .. Len(offline) :
              offline[j].cmd # "remove" /\ (j < flushes[f].k \/ (j = flushes[f].k /\ flushes[f].executed))
                  => OwnIn(offline[j].vals) \subseteq executed

(* One call at a time is being added to the queue it has read.             *)
OneEnqueues ==
    \A i \in DOMAIN saves : \A c \in DOMAIN saves[i].calls :
        saves[i].calls[c].stage = "got" =>
            /\ saves[i].calls[c].seen = offline
            /\ \A d \in DOMAIN saves[i].calls : saves[i].calls[d].stage = "got" => d = c

(* A call that was executed or queued carries its edits.                   *)
CallsSafe ==
    \A i \in DOMAIN saves : \A c \in DOMAIN saves[i].calls :
        c # "remove" /\ saves[i].calls[c].stage \in {"executed", "done"}
            => OwnIn(saves[i].calls[c].vals) \subseteq Safe

\* Edits that the calls of save i carry.
Carried(i) == UNION {OwnIn(saves[i].calls[c].vals) : c \in DOMAIN saves[i].calls \ {"remove"}}

(* What is being saved is safe or in one of the calls, and the model shows *)
(* nothing else.                                                           *)
SavesSafe ==
    \A i \in DOMAIN saves :
        /\ OwnIn(saves[i].val) \subseteq Safe \cup Carried(i)
        /\ OwnIn(item.val) \subseteq Safe \cup OwnIn(saves[i].val)

(* Every copy that counts as saved holds safe edits only.                  *)
CopiesSafe ==
    /\ OwnIn(db.val) \subseteq executed
    /\ OwnIn(item.orig) \subseteq Safe
    /\ OwnIn(local.val) \subseteq Safe
    /\ \A r \in DOMAIN get : OwnIn(get[r].rec.val) \subseteq Safe
    /\ item.isSync => OwnIn(item.val) \subseteq Safe

IInv ==
    /\ Shape /\ Lists
    /\ Separate /\ FlushFollows /\ OneEnqueues
    /\ CallsSafe /\ SavesSafe /\ CopiesSafe /\ AckedSafe

-----------------------------------------------------------------------------
(* Edits in records and calls.                                             *)

LEMMA InOwn ==
    \A val, x : x \in OwnIn(val) <=> \E p \in DOMAIN val : \E v \in val[p] \cap Own : x = <<p, v>>
BY DEF OwnIn

LEMMA NothingOwn == OwnIn(Nothing) = {} /\ DOMAIN Nothing = Props
BY InOwn DEF Nothing

(* A call adds its own edits to the record, a remove none.                 *)
LEMMA AppliedOwn ==
    ASSUME NEW rec, DOMAIN rec.val = Props, NEW c, NEW vals
    PROVE  /\ DOMAIN Applied(rec, c, vals).val = Props
           /\ OwnIn(Applied(rec, c, vals).val)
                  \subseteq OwnIn(rec.val) \cup (IF c = "remove" THEN {} ELSE OwnIn(vals))
<1>1. PICK f : f = [p \in Props |-> IF p \notin DOMAIN vals THEN rec.val[p]
                                    ELSE IF c = "add" THEN rec.val[p] \cup vals[p]
                                    ELSE IF c = "remove" THEN rec.val[p] \ vals[p]
                                    ELSE vals[p]]
  OBVIOUS
<1>2. Applied(rec, c, vals).val = f /\ DOMAIN f = Props
  BY <1>1 DEF Applied, Rec
<1>3. ASSUME NEW p \in Props, NEW v \in f[p] \cap Own
      PROVE  <<p, v>> \in OwnIn(rec.val) \cup (IF c = "remove" THEN {} ELSE OwnIn(vals))
  <2>1. CASE v \in rec.val[p]
    BY <1>3, <2>1, InOwn
  <2>2. CASE v \notin rec.val[p]
    <3>1. p \in DOMAIN vals /\ c # "remove" /\ v \in vals[p]
      BY <1>1, <1>3, <2>2
    <3>2. QED
      BY <1>3, <3>1, InOwn
  <2>3. QED  BY <2>1, <2>2
<1>4. QED
  BY <1>2, <1>3, InOwn

(* A record of the others carries no edit of the page.                     *)
LEMMA OthersOwn ==
    ASSUME NEW p, NEW n \in Nat
    PROVE  OwnIn([q \in {p} |-> {Base + n + 1}]) = {}
<1>1. Base + n + 1 \notin Own
  BY ClientBounds DEF Base, Own
<1>2. QED
  BY <1>1, InOwn

(* Taking a record over when no two values count as equal.                 *)
LEMMA MergedIs ==
    ASSUME Careful, NEW old, NEW new, NEW p \in Props
    PROVE  Merged(old, new)[p] = new[p]
<1>1. Merged(old, new)[p] = IF old[p] # {} /\ new[p] # {} /\ \E same \in SameSum : old[p] \cup new[p] \subseteq same
                            THEN old[p] ELSE new[p]
  BY DEF Merged
<1>2. CASE old[p] # {} /\ new[p] # {} /\ \E same \in SameSum : old[p] \cup new[p] \subseteq same
  <2>1. PICK same \in SameSum : old[p] \cup new[p] \subseteq same
    BY <1>2
  <2>2. \A x, y \in same : x = y
    BY DEF Careful
  <2>3. old[p] = new[p]
    BY <1>2, <2>1, <2>2
  <2>4. QED
    BY <1>1, <2>3
<1>3. QED  BY <1>1, <1>2

LEMMA MergedOwn ==
    ASSUME Careful, NEW old, NEW new, DOMAIN new = Props
    PROVE  DOMAIN Merged(old, new) = Props /\ OwnIn(Merged(old, new)) = OwnIn(new)
<1>1. PICK f : f = Merged(old, new)
  OBVIOUS
<1>2. DOMAIN f = Props
  BY <1>1 DEF Merged
<1>3. \A p \in Props : f[p] = new[p]
  BY <1>1, MergedIs
<1>4. QED
  BY <1>1, <1>2, <1>3, InOwn

(* The calls of a save carry every edit that differs from the original.    *)
LEMMA CallsCarry ==
    ASSUME NEW m, DOMAIN m.val = Props, DOMAIN m.orig = Props
    PROVE  /\ \A c \in DOMAIN Calls(m) :
                /\ DOMAIN Calls(m)[c] = {"vals", "stage", "seen"} /\ Calls(m)[c].stage = "sent"
           /\ OwnIn(m.val) \subseteq OwnIn(m.orig)
                  \cup UNION {OwnIn(Calls(m)[c].vals) : c \in DOMAIN Calls(m) \ {"remove"}}
<1>1. CASE m.isNew
  <2>1. Calls(m) = [c \in {"put"} |-> Call(m.val, Props)]
    BY <1>1 DEF Calls
  <2>2. DOMAIN Calls(m) = {"put"} /\ Calls(m)["put"] = Call(m.val, Props)
    BY <2>1
  <2>3. /\ DOMAIN Call(m.val, Props) = {"vals", "stage", "seen"} /\ Call(m.val, Props).stage = "sent"
        /\ OwnIn(m.val) \subseteq OwnIn(Call(m.val, Props).vals)
    BY InOwn DEF Call
  <2>4. QED
    BY <2>2, <2>3
<1>2. CASE ~m.isNew
  <2>1. PICK of : of = [add |-> {p \in Props : m.orig[p] = {} /\ m.val[p] # {}},
                        set |-> {p \in Props : m.orig[p] # {} /\ m.val[p] # {} /\ m.val[p] # m.orig[p]},
                        remove |-> {p \in Props : m.orig[p] # {} /\ m.val[p] = {}}]
    OBVIOUS
  <2>2. PICK cs : cs = {x \in DOMAIN of : of[x] # {}}
    OBVIOUS
  <2>3. Calls(m) = [c \in cs |-> Call(IF c = "remove" THEN m.orig ELSE m.val, of[c])]
    BY <1>2, <2>1, <2>2 DEF Calls
  <2>4. \A c \in cs : /\ DOMAIN Calls(m)[c] = {"vals", "stage", "seen"} /\ Calls(m)[c].stage = "sent"
                      /\ c # "remove" => Calls(m)[c].vals = [p \in of[c] |-> m.val[p]]
    BY <2>3 DEF Call
  <2>5. ASSUME NEW p \in Props, NEW v \in m.val[p] \cap Own, m.val[p] # m.orig[p]
        PROVE  \E c \in cs \ {"remove"} : <<p, v>> \in OwnIn(Calls(m)[c].vals)
    <3>1. PICK c \in {"add", "set"} : p \in of[c] /\ c \in DOMAIN of
      BY <2>1, <2>5
    <3>2. c \in cs \ {"remove"}
      BY <2>2, <3>1
    <3>3. <<p, v>> \in OwnIn([q \in of[c] |-> m.val[q]])
      BY <2>5, <3>1, InOwn
    <3>4. QED
      BY <2>4, <3>2, <3>3
  <2>6. DOMAIN Calls(m) = cs
    BY <2>3
  <2>7. ASSUME NEW x \in OwnIn(m.val)
        PROVE  x \in OwnIn(m.orig) \cup UNION {OwnIn(Calls(m)[c].vals) : c \in cs \ {"remove"}}
    <3>0. PICK p \in Props : \E v \in m.val[p] \cap Own : x = <<p, v>>
      BY <2>7, InOwn
    <3>1. PICK v \in m.val[p] \cap Own : x = <<p, v>>
      BY <3>0
    <3>2. CASE m.val[p] = m.orig[p]
      BY <3>1, <3>2, InOwn
    <3>3. CASE m.val[p] # m.orig[p]
      BY <2>5, <3>1, <3>3
    <3>4. QED  BY <3>2, <3>3
  <2>8. QED
    BY <2>4, <2>6, <2>7
<1>3. QED  BY <1>1, <1>2

-----------------------------------------------------------------------------
(* Lists of one element.                                                   *)
LEMMA AppendOne ==
    ASSUME NEW s, s = <<>>, NEW x
    PROVE  One(Append(s, x)) /\ DOMAIN Append(s, x) = {1} /\ Append(s, x)[1] = x
<1>1. s \in Seq({x}) /\ Len(s) = 0
  OBVIOUS
<1>2. Append(s, x) \in Seq({x}) /\ Len(Append(s, x)) = 1 /\ Append(s, x)[1] = x
  BY <1>1
<1>3. DOMAIN Append(s, x) = 1 .. Len(Append(s, x))
  BY <1>2
<1>4. DOMAIN Append(s, x) = {1}
  BY <1>2, <1>3
<1>5. One(Append(s, x))
  BY <1>2 DEF One
<1>6. QED
  BY <1>2, <1>4, <1>5

LEMMA OneDomain == \A s : One(s) => DOMAIN s = {1}
BY DEF One

LEMMA ReplaceOne ==
    ASSUME NEW s, One(s), NEW i \in DOMAIN s, NEW x
    PROVE  /\ One([s EXCEPT ![i] = x]) /\ DOMAIN [s EXCEPT ![i] = x] = {1}
           /\ i = 1 /\ [s EXCEPT ![i] = x][1] = x
<1>1. PICK S : s \in Seq(S)
  BY DEF One
<1>2. i = 1 /\ Len(s) = 1 /\ DOMAIN s = {1}
  BY OneDomain DEF One
<1>3. [s EXCEPT ![i] = x] \in Seq(S \cup {x}) /\ Len([s EXCEPT ![i] = x]) = 1
  BY <1>1, <1>2
<1>4. QED
  BY <1>2, <1>3 DEF One

LEMMA RemoveOne ==
    ASSUME NEW s, One(s), NEW i \in DOMAIN s
    PROVE  RemoveAt(s, i) = <<>>
<1>1. PICK S : s \in Seq(S)
  BY DEF One
<1>2. i = 1 /\ Len(s) = 1
  BY OneDomain DEF One
<1>3. SubSeq(s, 1, 0) = <<>> /\ SubSeq(s, 2, 1) = <<>>
  BY <1>1, <1>2
<1>4. RemoveAt(s, i) = SubSeq(s, 1, 0) \o SubSeq(s, 2, 1)
  BY <1>2 DEF RemoveAt
<1>5. QED
  BY <1>3, <1>4

-----------------------------------------------------------------------------
(* What steps have in common.                                              *)

\* The parts about the calls, their lists and the edits they carry.
CallParts == Lists /\ Separate /\ FlushFollows /\ OneEnqueues /\ CallsSafe

\* What is safe stays safe.
Grows == executed \subseteq executed' /\ Safe \subseteq Safe'

(* Steps that leave the calls alone.                                       *)
LEMMA SameCalls ==
    ASSUME CallParts, UNCHANGED <<executed, callVars>>, line' => line
    PROVE  CallParts' /\ Grows /\ Safe' = Safe
<1> USE DEF callVars
<1>1. UNCHANGED <<saves, flushes, offline, executed>>
  OBVIOUS
<1>2. OwnQueued' = OwnQueued
  BY <1>1 DEF OwnQueued
<1>3. Safe' = Safe /\ Grows
  BY <1>1, <1>2 DEF Safe, Grows
<1>4. Lists' /\ OneEnqueues' /\ FlushFollows'
  BY <1>1 DEF CallParts, Lists, OneEnqueues, FlushFollows
<1>5. Separate'
  BY <1>1 DEF CallParts, Separate
<1>6. CallsSafe'
  BY <1>1, <1>3 DEF CallParts, CallsSafe
<1>7. QED
  BY <1>3, <1>4, <1>5, <1>6 DEF CallParts

(* Steps that leave the model and its copies alone.                        *)
LEMMA SameCopies ==
    ASSUME CopiesSafe, Grows, UNCHANGED <<item, get>>,
           local' = local, OwnIn(db'.val) \subseteq executed'
    PROVE  CopiesSafe'
BY DEF CopiesSafe, Grows

LEMMA SameAcked ==
    ASSUME AckedSafe, Grows, acked' = acked
    PROVE  AckedSafe'
BY DEF AckedSafe, Grows, Safe

(* Steps that leave the saves alone, and the model shows what it did or    *)
(* something safe.                                                         *)
LEMMA SameSaves ==
    ASSUME SavesSafe, Grows, saves' = saves,
           saves # <<>> => item'.val = item.val \/ OwnIn(item'.val) \subseteq Safe'
    PROVE  SavesSafe'
<1>1. CASE saves = <<>>
  BY <1>1 DEF SavesSafe
<1>2. ASSUME NEW i \in DOMAIN saves
      PROVE  /\ OwnIn(saves[i].val) \subseteq Safe' \cup Carried(i)'
             /\ OwnIn(item'.val) \subseteq Safe' \cup OwnIn(saves[i].val)
  <2>1. Carried(i)' = Carried(i)
    BY DEF Carried
  <2>2. saves # <<>>
    BY <1>2
  <2>3. QED
    BY <1>2, <2>1, <2>2 DEF SavesSafe, Grows
<1>3. QED
  BY <1>2 DEF SavesSafe

-----------------------------------------------------------------------------
(* The steps of the status, the line and the requests.                     *)

LEMMA Happened ==
    ASSUME Shape, bounds' = bounds \/ \E kind \in {"edits", "others", "faults"} : \E max : Happens(kind, max)
    PROVE  bounds' \in [{"edits", "others", "faults"} -> Nat]
BY DEF Shape, Happens

LEMMA StatusSteps ==
    ASSUME IInv, SocketOpened \/ SocketClosed \/ LineLost \/ UNCHANGED vars
    PROVE  IInv'
<1>1. UNCHANGED <<serverVars, modelVars, callVars, acked>> /\ (line' => line)
  BY DEF SocketOpened, SocketClosed, LineLost, vars, serverVars, modelVars, callVars
<1>2. UNCHANGED <<db, executed, item, get, saves, flushes, local, offline, acked>>
  BY <1>1 DEF serverVars, modelVars, callVars
<1>3. CallParts' /\ Grows
  BY <1>1, <1>2, SameCalls DEF IInv, CallParts
<1>4. bounds' = bounds \/ Happens("faults", MaxFault)
  BY DEF SocketOpened, SocketClosed, LineLost, vars
<1>5. Shape'
  BY <1>2, <1>4, Happened DEF IInv, Shape
<1>6. CopiesSafe'
  BY <1>2, <1>3, SameCopies DEF IInv, CopiesSafe
<1>7. SavesSafe' /\ AckedSafe'
  BY <1>2, <1>3, SameSaves, SameAcked DEF IInv
<1>8. QED
  BY <1>3, <1>5, <1>6, <1>7 DEF IInv, CallParts

LEMMA OtherWriteStep ==
    ASSUME IInv, OtherWrite
    PROVE  IInv'
<1>1. UNCHANGED <<executed, line, item, get, saves, flushes, local, offline, acked>>
  BY DEF OtherWrite, modelVars, callVars
<1>2. CallParts' /\ Grows
  BY <1>1, SameCalls DEF IInv, CallParts, callVars
<1>3. PICK p \in Props : db' = Applied(db, "set", [q \in {p} |-> {Base + bounds.others + 1}])
  BY DEF OtherWrite
<1>4. bounds.others \in Nat /\ DOMAIN db.val = Props
  BY DEF IInv, Shape
<1>5. DOMAIN db'.val = Props /\ OwnIn(db'.val) \subseteq OwnIn(db.val)
  <2>1. PICK vals : vals = [q \in {p} |-> {Base + bounds.others + 1}]
    OBVIOUS
  <2>2. OwnIn(vals) = {}
    BY <1>4, <2>1, OthersOwn
  <2>3. db' = Applied(db, "set", vals)
    BY <1>3, <2>1
  <2>4. DOMAIN db'.val = Props /\ OwnIn(db'.val) \subseteq OwnIn(db.val) \cup OwnIn(vals)
    BY <1>4, <2>3, AppliedOwn
  <2>5. QED
    BY <2>2, <2>4
<1>6. bounds' \in [{"edits", "others", "faults"} -> Nat]
  BY Happened DEF IInv, OtherWrite
<1>7. Shape'
  BY <1>1, <1>5, <1>6 DEF IInv, Shape
<1>8. CopiesSafe'
  BY <1>1, <1>2, <1>5, SameCopies DEF IInv, CopiesSafe
<1>9. SavesSafe' /\ AckedSafe'
  BY <1>1, <1>2, SameSaves, SameAcked DEF IInv
<1>10. QED
  BY <1>2, <1>7, <1>8, <1>9 DEF IInv, CallParts

(* The line comes back when no save is in progress.                        *)
LEMMA LineBackStep ==
    ASSUME IInv, Careful, LineBack
    PROVE  IInv'
<1>1. /\ UNCHANGED <<db, executed, item, get, saves, flushes, local, offline, acked, bounds>>
      /\ saves = <<>>
  BY DEF LineBack, serverVars, modelVars, callVars, Careful
<1>2. UNCHANGED <<Shape, Lists, FlushFollows, OneEnqueues, SavesSafe>>
  BY <1>1 DEF Shape, Lists, FlushFollows, OneEnqueues, SavesSafe, Safe, OwnQueued, Carried
<1>3. UNCHANGED <<CallsSafe, CopiesSafe, AckedSafe>>
  BY <1>1 DEF CallsSafe, CopiesSafe, AckedSafe, Safe, OwnQueued
<1>4. Separate'
  BY <1>1 DEF Separate
<1>5. QED
  BY <1>2, <1>3, <1>4 DEF IInv

(* Requests that begin or are answered: the model stays as it is, and they *)
(* bring what is stored or safe.                                           *)
LEMMA RequestSteps ==
    ASSUME IInv, Open \/ View \/ Notified \/ \E r \in {"load", "reset"} : Answer(r)
    PROVE  IInv'
<1> DEFINE Known(g) == /\ DOMAIN g = {"load", "reset"}
                       /\ \A r \in DOMAIN g : DOMAIN g[r].rec.val = Props /\ OwnIn(g[r].rec.val) \subseteq Safe
<1>1. /\ UNCHANGED <<db, executed, line, saves, flushes, local, offline, acked, bounds>>
      /\ item' = item \/ item' = Model
  BY DEF Open, View, Notified, Answer, serverVars, callVars
<1>2. CallParts' /\ Grows /\ Safe' = Safe
  BY <1>1, SameCalls DEF IInv, CallParts, callVars
<1>3. Known(get)
  BY DEF IInv, Shape, CopiesSafe
<1>4. Sent.rec.val = Nothing /\ Idle.rec.val = Nothing /\ NoRec.val = Nothing
  BY DEF Sent, Idle, NoRec, Rec
<1>5. Load.rec.val \in {Nothing, local.val}
  BY <1>4 DEF Load
<1>6. /\ DOMAIN Load.rec.val = Props /\ OwnIn(Load.rec.val) \subseteq Safe
      /\ DOMAIN Sent.rec.val = Props /\ OwnIn(Sent.rec.val) \subseteq Safe
      /\ DOMAIN db.val = Props /\ OwnIn(db.val) \subseteq Safe
  BY <1>4, <1>5, NothingOwn DEF IInv, Shape, CopiesSafe, Safe
<1>7. \/ get' = get
      \/ get' = [get EXCEPT !.load = Load]
      \/ get' = [get EXCEPT !.reset = Sent]
      \/ \E r \in {"load", "reset"} : get' = [get EXCEPT ![r] = [stage |-> "answered", rec |-> db]]
  BY DEF Open, View, Notified, Answer, Resetting
<1>8. \A r, rec : r \in {"load", "reset"} /\ DOMAIN rec.rec.val = Props /\ OwnIn(rec.rec.val) \subseteq Safe
          => Known([get EXCEPT ![r] = rec])
  BY <1>3
<1>9. Known(get')
  <2>1. CASE get' = get
    BY <2>1, <1>3
  <2>2. CASE get' = [get EXCEPT !.load = Load]
    BY <2>2, <1>6, <1>8
  <2>3. CASE get' = [get EXCEPT !.reset = Sent]
    BY <2>3, <1>6, <1>8
  <2>4. ASSUME NEW r \in {"load", "reset"}, get' = [get EXCEPT ![r] = [stage |-> "answered", rec |-> db]]
        PROVE  Known(get')
    <3>1. [stage |-> "answered", rec |-> db].rec = db
      OBVIOUS
    <3>2. QED
      BY <2>4, <3>1, <1>6, <1>8
  <2>5. QED  BY <1>7, <2>1, <2>2, <2>3, <2>4
<1>10. Model.val = Nothing /\ Model.orig = Nothing /\ DOMAIN Model = Fields
  BY DEF Model, NoItem, Fields
<1>11. Shape'
  BY <1>1, <1>9, <1>10, NothingOwn DEF IInv, Shape
<1>12. OwnIn(item'.orig) \subseteq Safe /\ (item'.isSync => OwnIn(item'.val) \subseteq Safe)
  BY <1>1, <1>10, NothingOwn DEF IInv, CopiesSafe
<1>13. CopiesSafe'
  BY <1>1, <1>2, <1>9, <1>12 DEF IInv, CopiesSafe
<1>14. item'.val = item.val \/ OwnIn(item'.val) \subseteq Safe'
  BY <1>1, <1>10, NothingOwn
<1>15. SavesSafe' /\ AckedSafe'
  BY <1>1, <1>2, <1>14, SameSaves, SameAcked DEF IInv
<1>16. QED
  BY <1>2, <1>11, <1>13, <1>15 DEF IInv, CallParts

\* A model, all of whose edits are safe.
Clean(m) ==
    /\ DOMAIN m = Fields /\ DOMAIN m.val = Props /\ DOMAIN m.orig = Props
    /\ OwnIn(m.val) \subseteq Safe /\ OwnIn(m.orig) \subseteq Safe

(* A model that takes over a record of safe edits, becomes empty or stays. *)
LEMMA TakesOver ==
    ASSUME IInv, UNCHANGED <<db, executed, line, saves, flushes, offline, bounds, acked>>,
           NEW rec, DOMAIN rec.val = Props, OwnIn(rec.val) \subseteq Safe,
           local' \in {local, rec},
           item' = item \/ \E m : item' = m /\ Clean(m),
           NEW r \in {"load", "reset"}, get' = [get EXCEPT ![r] = Idle]
    PROVE  IInv'
<1>1. CallParts' /\ Grows /\ Safe' = Safe
  <2>1. CallParts /\ executed' = executed /\ line' = line
    BY DEF IInv, CallParts
  <2>2. UNCHANGED <<saves, flushes, offline>>
    OBVIOUS
  <2>3. OwnQueued' = OwnQueued
    BY DEF OwnQueued
  <2>4. Safe' = Safe /\ Grows
    BY <2>1, <2>3 DEF Safe, Grows
  <2>5. Lists' /\ OneEnqueues' /\ FlushFollows' /\ Separate'
    BY <2>1 DEF CallParts, Lists, OneEnqueues, FlushFollows, Separate
  <2>6. CallsSafe'
    BY <2>1, <2>4 DEF CallParts, CallsSafe
  <2>7. QED
    BY <2>4, <2>5, <2>6 DEF CallParts
<1>2. Idle.rec.val = Nothing
  BY DEF Idle, NoRec, Rec
<1>3. DOMAIN get = {"load", "reset"}
  BY DEF IInv, Shape
<1>4. DOMAIN get' = {"load", "reset"} /\ \A s \in DOMAIN get' : get'[s] = get[s] \/ get'[s] = Idle
  BY <1>3
<1>5. Shape'
  BY <1>2, <1>4, NothingOwn DEF IInv, Shape, Clean
<1>6. CopiesSafe'
  BY <1>1, <1>2, <1>4, NothingOwn DEF IInv, CopiesSafe, Clean
<1>7. SavesSafe' /\ AckedSafe'
  BY <1>1, SameSaves, SameAcked DEF IInv, Clean
<1>8. QED
  BY <1>1, <1>5, <1>6, <1>7 DEF IInv, CallParts

LEMMA LoadSteps ==
    ASSUME IInv, LoadDone \/ LoadFails
    PROVE  IInv'
<1>1. DOMAIN get.load.rec.val = Props /\ OwnIn(get.load.rec.val) \subseteq Safe
  BY DEF IInv, Shape, CopiesSafe
<1>2. DOMAIN local.val = Props /\ OwnIn(local.val) \subseteq Safe
  BY DEF IInv, Shape, CopiesSafe
<1>3. DOMAIN item = Fields
  BY DEF IInv, Shape
<1>4. ASSUME NEW rec
      PROVE  DOMAIN rec.val = Props /\ OwnIn(rec.val) \subseteq Safe => Clean(Loaded(rec))
  <2>1. Loaded(rec).val = rec.val /\ Loaded(rec).orig = rec.val /\ DOMAIN Loaded(rec) = Fields
    BY <1>3 DEF Loaded, Fields
  <2>2. QED
    BY <2>1 DEF Clean
<1>5. /\ UNCHANGED <<db, executed, line, saves, flushes, offline, bounds, acked>>
      /\ get' = [get EXCEPT !["load"] = Idle]
  BY DEF LoadDone, LoadFails, callVars
<1>6. CASE LoadDone
  <2>1. item' = Loaded(get.load.rec) /\ local' = get.load.rec
    BY <1>6 DEF LoadDone
  <2>2. QED
    BY <1>1, <1>4, <1>5, <2>1, TakesOver
<1>7. CASE LoadFails
  <2>1. local' = local /\ (item' = Loaded(local) \/ item' = [Model EXCEPT !.val = Nothing])
    BY <1>7 DEF LoadFails, callVars
  <2>2. CASE item' = Loaded(local)
    BY <1>2, <1>4, <1>5, <2>1, <2>2, TakesOver
  <2>3. CASE item' = [Model EXCEPT !.val = Nothing]
    <3>1. item'.val = Nothing /\ item'.orig = Nothing /\ DOMAIN item' = Fields
      BY <2>3 DEF Model, NoItem, Fields
    <3>2. Clean(item')
      BY <3>1, NothingOwn DEF Clean
    <3>3. QED
      BY <1>2, <1>5, <2>1, <3>2, TakesOver
  <2>4. QED  BY <2>1, <2>2, <2>3
<1>8. QED  BY <1>6, <1>7

LEMMA ResetSteps ==
    ASSUME IInv, Careful, ResetDone \/ ResetFails
    PROVE  IInv'
<1>1. DOMAIN get.reset.rec.val = Props /\ OwnIn(get.reset.rec.val) \subseteq Safe
  BY DEF IInv, Shape, CopiesSafe
<1>2. DOMAIN local.val = Props /\ OwnIn(local.val) \subseteq Safe
  BY DEF IInv, Shape, CopiesSafe
<1>3. DOMAIN item = Fields
  BY DEF IInv, Shape
<1>4. ASSUME NEW rec, DOMAIN rec.val = Props, OwnIn(rec.val) \subseteq Safe
      PROVE  Clean(ResetTo(rec))
  <2>1. /\ ResetTo(rec).val = Merged(item.val, rec.val) /\ ResetTo(rec).orig = rec.val
        /\ DOMAIN ResetTo(rec) = Fields
    BY <1>3 DEF ResetTo, Fields
  <2>2. QED
    BY <1>4, <2>1, MergedOwn DEF Clean
<1>5. /\ UNCHANGED <<db, executed, line, saves, flushes, offline, bounds, acked>>
      /\ get' = [get EXCEPT !["reset"] = Idle]
  BY DEF ResetDone, ResetFails, callVars
<1>6. CASE ResetDone
  <2>1. item' = ResetTo(get.reset.rec) /\ local' = get.reset.rec
    BY <1>6 DEF ResetDone
  <2>2. QED
    BY <1>1, <1>4, <1>5, <2>1, TakesOver
<1>7. CASE ResetFails
  <2>1. local' = local /\ (item' = ResetTo(local) \/ item' = item)
    BY <1>7 DEF ResetFails, callVars
  <2>2. CASE item' = ResetTo(local)
    BY <1>2, <1>4, <1>5, <2>1, <2>2, TakesOver
  <2>3. CASE item' = item
    BY <1>2, <1>5, <2>1, <2>3, TakesOver
  <2>4. QED  BY <2>1, <2>2, <2>3
<1>8. QED  BY <1>6, <1>7

-----------------------------------------------------------------------------
(* The steps of the user.                                                  *)

LEMMA ModelSteps ==
    ASSUME IInv, Careful, Create \/ SaveNothing \/ \E p \in Props : Edit(p)
    PROVE  IInv'
<1>1. UNCHANGED <<db, executed, line, get, saves, flushes, local, offline>>
  BY DEF Create, SaveNothing, Edit, serverVars, modelVars, callVars
<1>2. CallParts' /\ Grows /\ Safe' = Safe
  BY <1>1, SameCalls DEF IInv, CallParts, callVars
<1>3. bounds' \in [{"edits", "others", "faults"} -> Nat]
  BY Happened DEF IInv, Create, SaveNothing, Edit
<1>4. CASE Create
  <2>1. item' = [Model EXCEPT !.isNew = TRUE] /\ acked' = acked
    BY <1>4 DEF Create
  <2>2. item'.val = Nothing /\ item'.orig = Nothing /\ DOMAIN item' = Fields
    BY <2>1 DEF Model, NoItem, Fields
  <2>3. OwnIn(item'.val) = {} /\ OwnIn(item'.orig) = {} /\ DOMAIN item'.val = Props /\ DOMAIN item'.orig = Props
    BY <2>2, NothingOwn
  <2>4. Shape' /\ CopiesSafe'
    BY <1>1, <1>2, <1>3, <2>2, <2>3 DEF IInv, Shape, CopiesSafe
  <2>5. SavesSafe' /\ AckedSafe'
    BY <1>1, <1>2, <2>1, <2>3, SameSaves, SameAcked DEF IInv
  <2>6. QED
    BY <1>2, <2>4, <2>5 DEF IInv, CallParts
<1>5. CASE SaveNothing
  <2>1. item' = item /\ acked' = acked \cup OwnIn(item.val) /\ item.isSync
    BY <1>5 DEF SaveNothing, modelVars
  <2>2. OwnIn(item.val) \subseteq Safe
    BY <2>1 DEF IInv, CopiesSafe
  <2>3. AckedSafe'
    BY <1>2, <2>1, <2>2 DEF IInv, AckedSafe, Safe
  <2>4. Shape' /\ CopiesSafe'
    BY <1>1, <1>2, <1>3, <2>1 DEF IInv, Shape, CopiesSafe
  <2>5. SavesSafe'
    BY <1>1, <1>2, <2>1, SameSaves DEF IInv
  <2>6. QED
    BY <1>2, <2>3, <2>4, <2>5 DEF IInv, CallParts
<1>6. ASSUME NEW p \in Props, Edit(p)
      PROVE  IInv'
  <2>1. saves = <<>> /\ acked' = acked
    BY <1>6 DEF Edit, Careful
  <2>2. PICK v : item' = [item EXCEPT !.val[p] = v, !.isSync = FALSE]
    BY <1>6 DEF Edit
  <2>3. /\ DOMAIN item' = Fields /\ item'.orig = item.orig /\ item'.isSync = FALSE
        /\ DOMAIN item'.val = Props
    BY <2>2 DEF IInv, Shape, Fields
  <2>4. Shape'
    BY <1>1, <1>3, <2>3 DEF IInv, Shape
  <2>5. CopiesSafe'
    BY <1>1, <1>2, <2>3 DEF IInv, CopiesSafe
  <2>6. SavesSafe' /\ AckedSafe'
    BY <1>1, <1>2, <2>1, SameSaves, SameAcked DEF IInv
  <2>7. QED
    BY <1>2, <2>4, <2>5, <2>6 DEF IInv, CallParts
<1>7. QED  BY <1>4, <1>5, <1>6

LEMMA SaveStep ==
    ASSUME IInv, Careful, Save
    PROVE  IInv'
<1>1. /\ UNCHANGED <<db, executed, line, item, get, flushes, local, offline, bounds, acked>>
      /\ saves = <<>> /\ flushes = <<>> /\ (line => offline = <<>>)
      /\ saves' = Append(saves, [val |-> item.val, calls |-> Calls(item)])
  BY DEF Save, serverVars, modelVars, Careful
<1>2. PICK save : save = [val |-> item.val, calls |-> Calls(item)]
  OBVIOUS
<1>3. One(saves') /\ DOMAIN saves' = {1} /\ saves'[1] = save
  BY <1>1, <1>2, AppendOne
<1>4. save.val = item.val /\ save.calls = Calls(item) /\ DOMAIN save = {"val", "calls"}
  BY <1>2
<1>5. DOMAIN item.val = Props /\ DOMAIN item.orig = Props
  BY DEF IInv, Shape
<1>6. /\ \A c \in DOMAIN save.calls :
           DOMAIN save.calls[c] = {"vals", "stage", "seen"} /\ save.calls[c].stage = "sent"
      /\ OwnIn(item.val) \subseteq OwnIn(item.orig)
             \cup UNION {OwnIn(save.calls[c].vals) : c \in DOMAIN save.calls \ {"remove"}}
  BY <1>4, <1>5, CallsCarry
<1>7. Safe' = Safe /\ Grows /\ executed' = executed
  <2>1. OwnQueued' = OwnQueued
    BY <1>1 DEF OwnQueued
  <2>2. QED
    BY <1>1, <2>1 DEF Safe, Grows
<1>8. Shape'
  BY <1>1, <1>3, <1>4, <1>5, <1>6 DEF IInv, Shape
<1>9. Lists'
  BY <1>1, <1>3 DEF IInv, Lists
<1>10. Separate' /\ OneEnqueues' /\ CallsSafe'
  BY <1>1, <1>3, <1>6 DEF Separate, OneEnqueues, CallsSafe
<1>11. FlushFollows'
  BY <1>1 DEF IInv, FlushFollows
<1>12. SavesSafe'
  <2>1. Carried(1)' = UNION {OwnIn(save.calls[c].vals) : c \in DOMAIN save.calls \ {"remove"}}
    BY <1>3 DEF Carried
  <2>2. OwnIn(item.orig) \subseteq Safe
    BY DEF IInv, CopiesSafe
  <2>3. OwnIn(save.val) \subseteq Safe' \cup Carried(1)'
    BY <1>4, <1>6, <1>7, <2>1, <2>2
  <2>4. OwnIn(item'.val) \subseteq Safe' \cup OwnIn(save.val)
    BY <1>1, <1>4
  <2>5. QED
    BY <1>3, <2>3, <2>4 DEF SavesSafe
<1>13. CopiesSafe'
  BY <1>1, <1>7, SameCopies DEF IInv, CopiesSafe
<1>14. AckedSafe'
  BY <1>1, <1>7, SameAcked DEF IInv
<1>15. QED
  BY <1>8, <1>9, <1>10, <1>11, <1>12, <1>13, <1>14 DEF IInv

(* The page is opened anew: what it said is saved is queued or executed.   *)
LEMMA ReloadStep ==
    ASSUME IInv, Reload
    PROVE  IInv'
<1>1. /\ UNCHANGED <<db, executed, line, local, offline, acked>>
      /\ item' = NoItem /\ get' = [load |-> Idle, reset |-> Idle] /\ saves' = <<>> /\ flushes' = <<>>
  BY DEF Reload, serverVars
<1>2. OwnQueued' = OwnQueued
  BY <1>1 DEF OwnQueued
<1>3. Safe' = Safe /\ Grows
  BY <1>1, <1>2 DEF Safe, Grows
<1>4. item'.val = Nothing /\ item'.orig = Nothing /\ DOMAIN item' = Fields
  BY <1>1 DEF NoItem, Fields
<1>5. DOMAIN get' = {"load", "reset"} /\ \A r \in DOMAIN get' : get'[r].rec.val = Nothing
  BY <1>1 DEF Idle, NoRec, Rec
<1>6. OwnIn(Nothing) = {} /\ DOMAIN Nothing = Props
  BY NothingOwn
<1>7. bounds' \in [{"edits", "others", "faults"} -> Nat]
  BY Happened DEF IInv, Reload
<1>8. Shape'
  BY <1>1, <1>4, <1>5, <1>6, <1>7 DEF IInv, Shape
<1>9. Lists'
  BY <1>1 DEF IInv, Lists
<1>10. Separate' /\ OneEnqueues' /\ CallsSafe' /\ FlushFollows' /\ SavesSafe'
  BY <1>1 DEF Separate, OneEnqueues, CallsSafe, FlushFollows, SavesSafe
<1>11. CopiesSafe'
  BY <1>1, <1>3, <1>4, <1>5, <1>6 DEF IInv, CopiesSafe
<1>12. AckedSafe'
  BY <1>1, <1>3, SameAcked DEF IInv
<1>13. QED
  BY <1>8, <1>9, <1>10, <1>11, <1>12 DEF IInv

-----------------------------------------------------------------------------
(* The steps of the calls.                                                 *)

(* Call c of the save is at the stage and has seen the queue; nothing else *)
(* of the save changes.                                                    *)
Moved(c, stage, seen) ==
    /\ One(saves') /\ DOMAIN saves' = {1} /\ DOMAIN saves = {1}
    /\ DOMAIN saves'[1] = {"val", "calls"} /\ saves'[1].val = saves[1].val
    /\ DOMAIN saves'[1].calls = DOMAIN saves[1].calls
    /\ \A d \in DOMAIN saves[1].calls :
         /\ DOMAIN saves'[1].calls[d] = {"vals", "stage", "seen"}
         /\ saves'[1].calls[d].vals = saves[1].calls[d].vals
         /\ d # c => saves'[1].calls[d] = saves[1].calls[d]
    /\ saves'[1].calls[c].stage = stage
    /\ saves'[1].calls[c].seen = seen

LEMMA CallMoves ==
    ASSUME Shape, Lists, NEW i \in DOMAIN saves, NEW c \in DOMAIN saves[i].calls, NEW stage
    PROVE  /\ i = 1 /\ DOMAIN saves = {1}
           /\ To(i, c, stage) => Moved(c, stage, saves[1].calls[c].seen)
           /\ saves' = [saves EXCEPT ![i].calls[c].stage = stage, ![i].calls[c].seen = offline]
                  => Moved(c, stage, offline)
<1>1. One(saves)
  BY DEF Lists
<1>2. DOMAIN saves = {1} /\ i = 1
  BY <1>1, OneDomain
<1>3. /\ DOMAIN saves[1] = {"val", "calls"}
      /\ \A d \in DOMAIN saves[1].calls : DOMAIN saves[1].calls[d] = {"vals", "stage", "seen"}
  BY <1>2 DEF Shape
<1>4. ASSUME To(i, c, stage)
      PROVE  Moved(c, stage, saves[1].calls[c].seen)
  <2>1. PICK save : save = [saves[1] EXCEPT !.calls[c].stage = stage]
    OBVIOUS
  <2>2. saves' = [saves EXCEPT ![1] = save]
    BY <1>2, <1>4, <2>1 DEF To
  <2>3. One(saves') /\ DOMAIN saves' = {1} /\ saves'[1] = save
    BY <1>1, <1>2, <2>2, ReplaceOne
  <2>4. DOMAIN save = {"val", "calls"} /\ save.val = saves[1].val
    BY <1>3, <2>1
  <2>5. save.calls = [saves[1].calls EXCEPT ![c].stage = stage]
    BY <1>3, <2>1
  <2>6. PICK call : call = [saves[1].calls[c] EXCEPT !.stage = stage]
    OBVIOUS
  <2>7. save.calls = [saves[1].calls EXCEPT ![c] = call]
    BY <2>5, <2>6
  <2>8. /\ DOMAIN call = {"vals", "stage", "seen"} /\ call.stage = stage
        /\ call.vals = saves[1].calls[c].vals /\ call.seen = saves[1].calls[c].seen
    BY <1>2, <1>3, <2>6
  <2>9. DOMAIN save.calls = DOMAIN saves[1].calls /\ save.calls[c] = call
    BY <1>2, <2>7
  <2>10. \A d \in DOMAIN saves[1].calls : d # c => save.calls[d] = saves[1].calls[d]
    BY <2>7
  <2>11. QED
    BY <1>2, <1>3, <2>3, <2>4, <2>8, <2>9, <2>10 DEF Moved
<1>5. ASSUME saves' = [saves EXCEPT ![i].calls[c].stage = stage, ![i].calls[c].seen = offline]
      PROVE  Moved(c, stage, offline)
  <2>1. PICK save : save = [saves[1] EXCEPT !.calls[c].stage = stage, !.calls[c].seen = offline]
    OBVIOUS
  <2>2. saves' = [saves EXCEPT ![1] = save]
    BY <1>2, <1>5, <2>1, ZenonT(60)
  <2>3. One(saves') /\ DOMAIN saves' = {1} /\ saves'[1] = save
    BY <1>1, <1>2, <2>2, ReplaceOne
  <2>4. DOMAIN save = {"val", "calls"} /\ save.val = saves[1].val
    BY <1>3, <2>1
  <2>5. save.calls = [saves[1].calls EXCEPT ![c].stage = stage, ![c].seen = offline]
    BY <1>3, <2>1
  <2>6. PICK call : call = [saves[1].calls[c] EXCEPT !.stage = stage, !.seen = offline]
    OBVIOUS
  <2>7. save.calls = [saves[1].calls EXCEPT ![c] = call]
    BY <2>5, <2>6
  <2>8. /\ DOMAIN call = {"vals", "stage", "seen"} /\ call.stage = stage
        /\ call.vals = saves[1].calls[c].vals /\ call.seen = offline
    BY <1>2, <1>3, <2>6
  <2>9. DOMAIN save.calls = DOMAIN saves[1].calls /\ save.calls[c] = call
    BY <1>2, <2>7
  <2>10. \A d \in DOMAIN saves[1].calls : d # c => save.calls[d] = saves[1].calls[d]
    BY <2>7
  <2>11. QED
    BY <1>2, <1>3, <2>3, <2>4, <2>8, <2>9, <2>10 DEF Moved
<1>6. QED  BY <1>2, <1>4, <1>5

(* The parts that such a step keeps: the edits that the calls carry are    *)
(* the same.                                                               *)
LEMMA MovedKeeps ==
    ASSUME IInv, Grows, NEW c \in DOMAIN saves[1].calls, NEW stage, NEW seen, Moved(c, stage, seen),
           DOMAIN db'.val = Props, OwnIn(db'.val) \subseteq executed',
           UNCHANGED <<item, get, flushes, local, bounds, acked>>, \E S : offline' \in Seq(S)
    PROVE  Shape' /\ Lists' /\ SavesSafe' /\ CopiesSafe' /\ AckedSafe'
<1>1. Shape'
  BY DEF IInv, Shape, Moved
<1>2. Lists'
  BY DEF IInv, Lists, Moved
<1>3. Carried(1)' = Carried(1)
  BY DEF Carried, Moved
<1>4. SavesSafe'
  BY <1>3 DEF IInv, SavesSafe, Moved, Grows
<1>5. CopiesSafe' /\ AckedSafe'
  BY SameCopies, SameAcked DEF IInv
<1>6. QED
  BY <1>1, <1>2, <1>4, <1>5

(* The server executes a call of a save.                                   *)
LEMMA CallExecutedStep ==
    ASSUME IInv, NEW i \in DOMAIN saves, NEW c \in DOMAIN saves[i].calls, CallExecuted(i, c)
    PROVE  IInv'
<1>1. /\ UNCHANGED <<line, item, get, flushes, local, offline, bounds, acked>> /\ line
      /\ To(i, c, "executed") /\ CallAt(i, c, "sent") /\ Execute(c, saves[i].calls[c].vals)
  BY DEF CallExecuted, Execute, modelVars
<1>2. i = 1 /\ DOMAIN saves = {1} /\ Moved(c, "executed", saves[1].calls[c].seen) /\ c \in DOMAIN saves[1].calls
  BY <1>1, CallMoves DEF IInv
<1>3. /\ db' = Applied(db, c, saves[1].calls[c].vals)
      /\ executed' = executed \cup (IF c = "remove" THEN {} ELSE OwnIn(saves[1].calls[c].vals))
  BY <1>1, <1>2 DEF Execute
<1>4. DOMAIN db.val = Props /\ OwnIn(db.val) \subseteq executed
  BY DEF IInv, Shape, CopiesSafe
<1>5. DOMAIN db'.val = Props /\ OwnIn(db'.val) \subseteq executed'
  BY <1>3, <1>4, AppliedOwn
<1>6. OwnQueued' = OwnQueued
  BY <1>1 DEF OwnQueued
<1>7. Grows
  BY <1>3, <1>6 DEF Grows, Safe
<1>8. saves # <<>> /\ flushes = <<>>
  BY <1>2 DEF IInv, Separate
<1>9. Shape' /\ Lists' /\ SavesSafe' /\ CopiesSafe' /\ AckedSafe'
  BY <1>1, <1>2, <1>5, <1>7, MovedKeeps DEF IInv, Lists
<1>10. Separate' /\ FlushFollows'
  BY <1>1, <1>2, <1>8 DEF IInv, Separate, FlushFollows, Moved
<1>11. OneEnqueues'
  BY <1>1, <1>2, <1>8 DEF IInv, Separate, OneEnqueues, Moved
<1>12. CallsSafe'
  BY <1>2, <1>3, <1>7 DEF IInv, CallsSafe, Moved, Grows, Safe
<1>13. QED
  BY <1>9, <1>10, <1>11, <1>12 DEF IInv

(* The answer comes, or there is no connection.                            *)
LEMMA CallEndsSteps ==
    ASSUME IInv, NEW i \in DOMAIN saves, NEW c \in DOMAIN saves[i].calls, CallReturned(i, c) \/ CallFails(i, c)
    PROVE  IInv'
<1>1. UNCHANGED <<db, executed, line, item, get, flushes, local, offline, bounds, acked>>
  BY DEF CallReturned, CallFails, serverVars, modelVars
<1>2. PICK stage : To(i, c, stage) /\ \/ stage = "done" /\ CallAt(i, c, "executed")
                                      \/ stage = "failed" /\ ~line
  BY DEF CallReturned, CallFails
<1>3. i = 1 /\ DOMAIN saves = {1} /\ Moved(c, stage, saves[1].calls[c].seen) /\ c \in DOMAIN saves[1].calls
  BY <1>2, CallMoves DEF IInv
<1>4. Safe' = Safe /\ Grows
  <2>1. OwnQueued' = OwnQueued
    BY <1>1 DEF OwnQueued
  <2>2. QED
    BY <1>1, <2>1 DEF Safe, Grows
<1>5. DOMAIN db'.val = Props /\ OwnIn(db'.val) \subseteq executed'
  BY <1>1 DEF IInv, Shape, CopiesSafe
<1>6. Shape' /\ Lists' /\ SavesSafe' /\ CopiesSafe' /\ AckedSafe'
  BY <1>1, <1>3, <1>4, <1>5, MovedKeeps DEF IInv, Lists
<1>7. flushes = <<>> /\ saves # <<>>
  <2>1. 1 \in DOMAIN saves
    BY <1>3
  <2>2. saves # <<>>
    BY <2>1, SMTT(60)
  <2>3. QED
    BY <2>2 DEF IInv, Separate
<1>8. Separate' /\ FlushFollows'
  BY <1>1, <1>2, <1>3, <1>7 DEF IInv, Separate, FlushFollows, Moved
<1>9. OneEnqueues'
  BY <1>1, <1>2, <1>3 DEF IInv, OneEnqueues, Moved
<1>10. CallsSafe'
  BY <1>2, <1>3, <1>4 DEF IInv, CallsSafe, Moved, CallAt
<1>11. QED
  BY <1>6, <1>8, <1>9, <1>10 DEF IInv

LEMMA EnqueueGetsStep ==
    ASSUME IInv, Careful, NEW i \in DOMAIN saves, NEW c \in DOMAIN saves[i].calls, EnqueueGets(i, c)
    PROVE  IInv'
<1>1. /\ UNCHANGED <<db, executed, line, item, get, flushes, local, offline, bounds, acked>>
      /\ CallAt(i, c, "failed")
      /\ \A j \in DOMAIN saves : \A d \in DOMAIN saves[j].calls : ~CallAt(j, d, "got")
      /\ saves' = [saves EXCEPT ![i].calls[c].stage = "got", ![i].calls[c].seen = offline]
  BY DEF EnqueueGets, serverVars, modelVars, Careful
<1>2. i = 1 /\ DOMAIN saves = {1} /\ Moved(c, "got", offline) /\ c \in DOMAIN saves[1].calls
  BY <1>1, CallMoves DEF IInv
<1>3. Safe' = Safe /\ Grows
  <2>1. OwnQueued' = OwnQueued
    BY <1>1 DEF OwnQueued
  <2>2. QED
    BY <1>1, <2>1 DEF Safe, Grows
<1>4. DOMAIN db'.val = Props /\ OwnIn(db'.val) \subseteq executed'
  BY <1>1 DEF IInv, Shape, CopiesSafe
<1>5. Shape' /\ Lists' /\ SavesSafe' /\ CopiesSafe' /\ AckedSafe'
  BY <1>1, <1>2, <1>3, <1>4, MovedKeeps DEF IInv, Lists
<1>6. flushes = <<>> /\ saves # <<>> /\ ~line
  BY <1>1, <1>2 DEF IInv, Separate, CallAt
<1>7. Separate' /\ FlushFollows'
  BY <1>1, <1>6 DEF IInv, Separate, FlushFollows
<1>8. OneEnqueues'
  <2>1. /\ DOMAIN saves' = {1} /\ DOMAIN saves'[1].calls = DOMAIN saves[1].calls
        /\ saves'[1].calls[c].seen = offline /\ offline' = offline
    BY <1>1, <1>2 DEF Moved
  <2>2. \A d \in DOMAIN saves[1].calls : saves[1].calls[d].stage # "got"
    BY <1>1, <1>2 DEF CallAt
  <2>3. \A d \in DOMAIN saves[1].calls : d # c => saves'[1].calls[d] = saves[1].calls[d]
    BY <1>2 DEF Moved
  <2>4. \A d \in DOMAIN saves'[1].calls : saves'[1].calls[d].stage = "got" => d = c
    BY <2>1, <2>2, <2>3
  <2>5. QED
    BY <2>1, <2>4 DEF OneEnqueues
<1>9. CallsSafe'
  BY <1>1, <1>2, <1>3, ZenonT(60) DEF IInv, CallsSafe, Moved
<1>10. QED
  BY <1>5, <1>7, <1>8, <1>9 DEF IInv

(* The queue is written as it was read, with the call: nothing else has    *)
(* been added meanwhile.                                                   *)
LEMMA EnqueuePutsStep ==
    ASSUME IInv, NEW i \in DOMAIN saves, NEW c \in DOMAIN saves[i].calls, EnqueuePuts(i, c)
    PROVE  IInv'
<1>1. /\ UNCHANGED <<db, executed, line, item, get, flushes, local, bounds, acked>>
      /\ CallAt(i, c, "got") /\ To(i, c, "done")
      /\ offline' = Append(saves[i].calls[c].seen, [cmd |-> c, vals |-> saves[i].calls[c].vals])
  BY DEF EnqueuePuts, serverVars, modelVars
<1>2. i = 1 /\ DOMAIN saves = {1} /\ Moved(c, "done", saves[1].calls[c].seen) /\ c \in DOMAIN saves[1].calls
  BY <1>1, CallMoves DEF IInv
<1>3. PICK call : call = [cmd |-> c, vals |-> saves[1].calls[c].vals]
  OBVIOUS
<1>4. /\ saves[1].calls[c].seen = offline
      /\ \A d \in DOMAIN saves[1].calls : saves[1].calls[d].stage = "got" => d = c
  BY <1>1, <1>2 DEF IInv, OneEnqueues, CallAt
<1>5. offline' = Append(offline, call)
  BY <1>1, <1>2, <1>3, <1>4
<1>6. PICK S : offline \in Seq(S)
  BY DEF IInv, Lists
<1>7. /\ offline' \in Seq(S \cup {call})
      /\ DOMAIN offline' = DOMAIN offline \cup {Len(offline) + 1} /\ offline'[Len(offline) + 1] = call
      /\ \A k \in DOMAIN offline : offline'[k] = offline[k]
  BY <1>5, <1>6
<1>8. OwnQueued \subseteq OwnQueued' /\ (c # "remove" => OwnIn(call.vals) \subseteq OwnQueued')
  BY <1>3, <1>7 DEF OwnQueued
<1>9. Grows /\ (c # "remove" => OwnIn(saves[1].calls[c].vals) \subseteq Safe')
  BY <1>1, <1>3, <1>8 DEF Grows, Safe
<1>10. DOMAIN db'.val = Props /\ OwnIn(db'.val) \subseteq executed'
  BY <1>1 DEF IInv, Shape, CopiesSafe
<1>11. Shape' /\ Lists' /\ SavesSafe' /\ CopiesSafe' /\ AckedSafe'
  BY <1>1, <1>2, <1>7, <1>9, <1>10, MovedKeeps
<1>12. flushes = <<>> /\ ~line
  <2>1. saves # <<>>
    BY <1>2
  <2>2. saves[1].calls[c].stage = "got"
    BY <1>1, <1>2 DEF CallAt
  <2>3. QED
    BY <1>2, <2>1, <2>2 DEF IInv, Separate
<1>13. Separate' /\ FlushFollows'
  BY <1>1, <1>12 DEF Separate, FlushFollows
<1>14. OneEnqueues'
  BY <1>2, <1>4 DEF OneEnqueues, Moved
<1>15. CallsSafe'
  BY <1>2, <1>9 DEF IInv, CallsSafe, Moved, Grows
<1>16. QED
  BY <1>11, <1>13, <1>14, <1>15 DEF IInv

(* The save ends: every call carried its edits to the server or the queue. *)
LEMMA SaveDoneStep ==
    ASSUME IInv, NEW i \in DOMAIN saves, SaveDone(i)
    PROVE  IInv'
<1>1. /\ UNCHANGED <<db, executed, line, get, flushes, offline, bounds>>
      /\ \A c \in DOMAIN saves[i].calls : CallAt(i, c, "done")
      /\ item' = [item EXCEPT !.orig = item.val, !.isNew = FALSE, !.isSync = TRUE, !.isLoaded = TRUE]
      /\ local' = IF "put" \in DOMAIN saves[i].calls THEN Rec(item.count, item.val) ELSE local
      /\ acked' = acked \cup OwnIn(saves[i].val)
      /\ saves' = RemoveAt(saves, i)
  BY DEF SaveDone, serverVars
<1>2. One(saves)
  BY DEF IInv, Lists
<1>3. saves' = <<>>
  BY <1>1, <1>2, RemoveOne
<1>4. Safe' = Safe /\ Grows
  <2>1. OwnQueued' = OwnQueued
    BY <1>1 DEF OwnQueued
  <2>2. QED
    BY <1>1, <2>1 DEF Safe, Grows
<1>5. Carried(i) \subseteq Safe
  BY <1>1 DEF IInv, CallsSafe, Carried, CallAt
<1>6. OwnIn(saves[i].val) \subseteq Safe /\ OwnIn(item.val) \subseteq Safe
  BY <1>5 DEF IInv, SavesSafe
<1>7. DOMAIN item = Fields /\ DOMAIN item.val = Props
  BY DEF IInv, Shape
<1>8. item'.val = item.val /\ item'.orig = item.val /\ DOMAIN item' = Fields
  BY <1>1, <1>7 DEF Fields
<1>9. local'.val \in {item.val, local.val}
  BY <1>1 DEF Rec
<1>10. Shape'
  BY <1>1, <1>3, <1>7, <1>8, <1>9 DEF IInv, Shape
<1>11. Lists' /\ Separate' /\ OneEnqueues' /\ CallsSafe' /\ SavesSafe'
  BY <1>1, <1>3 DEF IInv, Lists, Separate, OneEnqueues, CallsSafe, SavesSafe
<1>12. FlushFollows'
  BY <1>1 DEF IInv, FlushFollows
<1>13. CopiesSafe'
  BY <1>1, <1>4, <1>6, <1>8, <1>9 DEF IInv, CopiesSafe
<1>14. AckedSafe'
  BY <1>1, <1>4, <1>6 DEF IInv, AckedSafe, Safe
<1>15. QED
  BY <1>10, <1>11, <1>12, <1>13, <1>14 DEF IInv

-----------------------------------------------------------------------------
(* The steps of the queue.                                                 *)

(* A ping may begin a flush, with the queue as it is.                      *)
LEMMA PingStep ==
    ASSUME IInv, Careful, Ping
    PROVE  IInv'
<1>1. UNCHANGED <<db, executed, line, item, saves, local, offline, bounds, acked>>
  BY DEF Ping, serverVars
<1>2. \/ flushes' = flushes
      \/ /\ line /\ offline # <<>> /\ flushes = <<>>
         /\ flushes' = Append(flushes, [queue |-> offline, k |-> 1, executed |-> FALSE])
  BY DEF Ping, Careful
<1>3. get' = get \/ get' = [get EXCEPT !.reset = Sent]
  BY DEF Ping, Resetting
<1>4. Safe' = Safe /\ Grows
  <2>1. OwnQueued' = OwnQueued
    BY <1>1 DEF OwnQueued
  <2>2. QED
    BY <1>1, <2>1 DEF Safe, Grows
<1>5. Sent.rec.val = Nothing
  BY DEF Sent, NoRec, Rec
<1>6. DOMAIN get' = {"load", "reset"} /\ \A r \in DOMAIN get' : get'[r] = get[r] \/ get'[r] = Sent
  BY <1>3 DEF IInv, Shape
<1>7. CopiesSafe'
  <2>1. \A r \in DOMAIN get' : OwnIn(get'[r].rec.val) \subseteq Safe
    BY <1>5, <1>6, NothingOwn DEF IInv, CopiesSafe, Shape
  <2>2. QED
    BY <1>1, <1>4, <2>1 DEF IInv, CopiesSafe
<1>8. OneEnqueues' /\ CallsSafe'
  BY <1>1, <1>4 DEF IInv, OneEnqueues, CallsSafe
<1>9. SavesSafe' /\ AckedSafe'
  BY <1>1, <1>4, SameSaves, SameAcked DEF IInv
<1>10. Shape' /\ Lists' /\ Separate' /\ FlushFollows'
  <2>1. CASE flushes' = flushes
    BY <1>1, <1>5, <1>6, <2>1, NothingOwn DEF IInv, Shape, Lists, Separate, FlushFollows
  <2>2. CASE flushes' # flushes
    <3>1. PICK flush : flush = [queue |-> offline, k |-> 1, executed |-> FALSE]
      OBVIOUS
    <3>2. One(flushes') /\ DOMAIN flushes' = {1} /\ flushes'[1] = flush
      <4>1. flushes = <<>> /\ flushes' = Append(flushes, flush)
        BY <1>2, <2>2, <3>1
      <4>2. QED
        BY <4>1, AppendOne
    <3>3. saves = <<>> /\ line
      BY <1>2, <2>2 DEF IInv, Separate
    <3>4. Shape'
      BY <1>1, <1>5, <1>6, <3>1, <3>2, NothingOwn DEF IInv, Shape
    <3>5. Lists' /\ Separate'
      BY <1>1, <3>2, <3>3 DEF IInv, Lists, Separate
    <3>6. Len(offline) \in Nat
      BY DEF IInv, Lists
    <3>7. FlushFollows'
      BY <1>1, <3>1, <3>2, <3>6 DEF FlushFollows
    <3>8. QED
      BY <3>4, <3>5, <3>7
  <2>3. QED  BY <2>1, <2>2
<1>11. QED
  BY <1>7, <1>8, <1>9, <1>10 DEF IInv

(* What a step of the flush keeps.                                         *)
LEMMA FlushKeeps ==
    ASSUME IInv, Grows, flushes # <<>>, UNCHANGED <<item, get, saves, local, bounds, acked>>,
           DOMAIN db'.val = Props, OwnIn(db'.val) \subseteq executed',
           flushes' = <<>> \/ /\ One(flushes')
                              /\ \A f \in DOMAIN flushes' : DOMAIN flushes'[f] = {"queue", "k", "executed"},
           offline' \in {offline, <<>>}
    PROVE  /\ Shape' /\ Lists' /\ Separate' /\ OneEnqueues' /\ CallsSafe'
           /\ SavesSafe' /\ CopiesSafe' /\ AckedSafe'
<1>1. saves = <<>> /\ saves' = <<>>
  BY DEF IInv, Separate
<1>2. Shape'
  BY <1>1 DEF IInv, Shape
<1>3. Lists'
  <2>1. <<>> \in Seq({})
    OBVIOUS
  <2>2. QED
    BY <1>1, <2>1 DEF IInv, Lists
<1>4. Separate' /\ OneEnqueues' /\ CallsSafe' /\ SavesSafe'
  BY <1>1 DEF Separate, OneEnqueues, CallsSafe, SavesSafe
<1>5. CopiesSafe' /\ AckedSafe'
  BY SameCopies, SameAcked DEF IInv
<1>6. QED
  BY <1>2, <1>3, <1>4, <1>5

LEMMA FlushSendsStep ==
    ASSUME IInv, NEW f \in DOMAIN flushes, FlushSends(f)
    PROVE  IInv'
<1>1. /\ UNCHANGED <<line, item, get, saves, local, offline, bounds, acked>>
      /\ flushes[f].k <= Len(flushes[f].queue) /\ ~flushes[f].executed
      /\ flushes' = [flushes EXCEPT ![f].executed = TRUE]
  BY DEF FlushSends, modelVars
<1>2. PICK call : call = flushes[f].queue[flushes[f].k]
  OBVIOUS
<1>3. /\ db' = Applied(db, call.cmd, call.vals)
      /\ executed' = executed \cup (IF call.cmd = "remove" THEN {} ELSE OwnIn(call.vals))
  BY <1>2 DEF FlushSends, Execute
<1>4. flushes # <<>> /\ One(flushes)
  BY DEF IInv, Lists
<1>5. f = 1 /\ DOMAIN flushes = {1}
  BY <1>4, OneDomain
<1>6. PICK flush : flush = [flushes[1] EXCEPT !.executed = TRUE]
  OBVIOUS
<1>7. flushes' = [flushes EXCEPT ![1] = flush]
  BY <1>1, <1>5, <1>6
<1>8. One(flushes') /\ DOMAIN flushes' = {1} /\ flushes'[1] = flush
  BY <1>4, <1>5, <1>7, ReplaceOne
<1>9. DOMAIN flushes[1] = {"queue", "k", "executed"}
  BY <1>5 DEF IInv, Shape
<1>10. /\ DOMAIN flush = {"queue", "k", "executed"} /\ flush.queue = flushes[1].queue
       /\ flush.k = flushes[1].k /\ flush.executed = TRUE
  BY <1>6, <1>9
<1>11. DOMAIN db.val = Props /\ OwnIn(db.val) \subseteq executed
  BY DEF IInv, Shape, CopiesSafe
<1>12. DOMAIN db'.val = Props /\ OwnIn(db'.val) \subseteq executed'
  BY <1>3, <1>11, AppliedOwn
<1>13. OwnQueued' = OwnQueued
  BY <1>1 DEF OwnQueued
<1>14. Grows
  BY <1>3, <1>13 DEF Grows, Safe
<1>15. /\ Shape' /\ Lists' /\ Separate' /\ OneEnqueues' /\ CallsSafe'
       /\ SavesSafe' /\ CopiesSafe' /\ AckedSafe'
  BY <1>1, <1>4, <1>8, <1>10, <1>12, <1>14, FlushKeeps
<1>16. /\ flushes[1].queue = offline /\ flushes[1].k \in 1 .. Len(offline) + 1
       /\ \A j \in 1 .. Len(offline) :
              offline[j].cmd # "remove" /\ j < flushes[1].k => OwnIn(offline[j].vals) \subseteq executed
  BY <1>5 DEF IInv, FlushFollows
<1>17. call = offline[flushes[1].k]
  BY <1>2, <1>5, <1>16
<1>18. \A j \in 1 .. Len(offline) :
           offline[j].cmd # "remove" /\ (j < flush.k \/ j = flush.k) => OwnIn(offline[j].vals) \subseteq executed'
  BY <1>3, <1>10, <1>16, <1>17
<1>19. FlushFollows'
  BY <1>1, <1>5, <1>8, <1>10, <1>16, <1>18 DEF FlushFollows
<1>20. QED
  BY <1>15, <1>19 DEF IInv

LEMMA FlushReturnedStep ==
    ASSUME IInv, NEW f \in DOMAIN flushes, FlushReturned(f)
    PROVE  IInv'
<1>1. /\ UNCHANGED <<db, executed, line, item, get, saves, local, offline, bounds, acked>>
      /\ flushes[f].executed
      /\ flushes' = [flushes EXCEPT ![f].executed = FALSE, ![f].k = @ + 1]
  BY DEF FlushReturned, serverVars, modelVars
<1>2. flushes # <<>> /\ One(flushes)
  BY DEF IInv, Lists
<1>3. f = 1 /\ DOMAIN flushes = {1}
  BY <1>2, OneDomain
<1>4. PICK flush : flush = [flushes[1] EXCEPT !.executed = FALSE, !.k = @ + 1]
  OBVIOUS
<1>5. flushes' = [flushes EXCEPT ![1] = flush]
  BY <1>1, <1>3, <1>4
<1>6. One(flushes') /\ DOMAIN flushes' = {1} /\ flushes'[1] = flush
  BY <1>2, <1>3, <1>5, ReplaceOne
<1>7. DOMAIN flushes[1] = {"queue", "k", "executed"}
  BY <1>3 DEF IInv, Shape
<1>8. /\ DOMAIN flush = {"queue", "k", "executed"} /\ flush.queue = flushes[1].queue
      /\ flush.k = flushes[1].k + 1 /\ flush.executed = FALSE
  BY <1>4, <1>7
<1>9. OwnQueued' = OwnQueued /\ Grows
  BY <1>1 DEF OwnQueued, Grows, Safe
<1>10. DOMAIN db'.val = Props /\ OwnIn(db'.val) \subseteq executed'
  BY <1>1 DEF IInv, Shape, CopiesSafe
<1>11. /\ Shape' /\ Lists' /\ Separate' /\ OneEnqueues' /\ CallsSafe'
       /\ SavesSafe' /\ CopiesSafe' /\ AckedSafe'
  BY <1>1, <1>2, <1>6, <1>8, <1>9, <1>10, FlushKeeps
<1>12. /\ flushes[1].queue = offline /\ flushes[1].k \in 1 .. Len(offline) + 1 /\ flushes[1].k <= Len(offline)
       /\ Len(offline) \in Nat
       /\ \A j \in 1 .. Len(offline) :
              offline[j].cmd # "remove" /\ (j < flushes[1].k \/ j = flushes[1].k)
                  => OwnIn(offline[j].vals) \subseteq executed
  BY <1>1, <1>3 DEF IInv, FlushFollows, Lists
<1>13. \A j \in 1 .. Len(offline) : j < flush.k => j < flushes[1].k \/ j = flushes[1].k
  BY <1>8, <1>12
<1>14. flush.k \in 1 .. Len(offline) + 1
  BY <1>8, <1>12
<1>15. FlushFollows'
  BY <1>1, <1>6, <1>8, <1>12, <1>13, <1>14 DEF FlushFollows
<1>16. QED
  BY <1>11, <1>15 DEF IInv

(* A flush that fails leaves the queue; one that ends removes it, and all  *)
(* its calls have been executed.                                           *)
LEMMA FlushEndsSteps ==
    ASSUME IInv, NEW f \in DOMAIN flushes, FlushFails(f) \/ FlushDone(f)
    PROVE  IInv'
<1>1. /\ UNCHANGED <<db, executed, line, item, get, saves, local, bounds, acked>>
      /\ flushes' = RemoveAt(flushes, f)
      /\ offline' = offline \/ (offline' = <<>> /\ flushes[f].k > Len(flushes[f].queue))
  BY DEF FlushFails, FlushDone, serverVars, modelVars
<1>2. flushes # <<>> /\ One(flushes)
  BY DEF IInv, Lists
<1>3. flushes' = <<>>
  BY <1>1, <1>2, RemoveOne
<1>4. Grows
  <2>1. CASE offline' = offline
    BY <1>1, <2>1 DEF Grows, Safe, OwnQueued
  <2>2. CASE offline' = <<>> /\ flushes[f].k > Len(flushes[f].queue)
    <3>1. /\ flushes[f].queue = offline /\ flushes[f].k \in 1 .. Len(offline) + 1 /\ Len(offline) \in Nat
          /\ DOMAIN offline = 1 .. Len(offline)
          /\ \A j \in 1 .. Len(offline) : offline[j].cmd # "remove" /\ j < flushes[f].k
                 => OwnIn(offline[j].vals) \subseteq executed
      BY DEF IInv, FlushFollows, Lists
    <3>2. \A j \in DOMAIN offline : offline[j].cmd # "remove" => OwnIn(offline[j].vals) \subseteq executed
      BY <2>2, <3>1
    <3>3. OwnQueued \subseteq executed
      BY <3>2 DEF OwnQueued
    <3>4. QED
      BY <1>1, <3>3 DEF Grows, Safe
  <2>3. QED  BY <1>1, <2>1, <2>2
<1>5. DOMAIN db'.val = Props /\ OwnIn(db'.val) \subseteq executed'
  BY <1>1 DEF IInv, Shape, CopiesSafe
<1>6. /\ Shape' /\ Lists' /\ Separate' /\ OneEnqueues' /\ CallsSafe'
      /\ SavesSafe' /\ CopiesSafe' /\ AckedSafe'
  BY <1>1, <1>2, <1>3, <1>4, <1>5, FlushKeeps
<1>7. FlushFollows'
  BY <1>3 DEF FlushFollows
<1>8. QED
  BY <1>6, <1>7 DEF IInv

-----------------------------------------------------------------------------
(* Together.                                                               *)

LEMMA InitSafe == Init => IInv
<1> SUFFICES ASSUME Init PROVE IInv
  OBVIOUS
<1>1. /\ item = NoItem /\ get = [load |-> Idle, reset |-> Idle] /\ saves = <<>> /\ flushes = <<>>
      /\ offline = <<>> /\ acked = {} /\ executed = {}
      /\ bounds = [edits |-> 0, others |-> 0, faults |-> 0]
  BY DEF Init
<1>2. DOMAIN db.val = Props /\ OwnIn(db.val) = {}
  <2>1. CASE db = Rec(0, Nothing)
    BY <2>1, NothingOwn DEF Rec
  <2>2. CASE db # Rec(0, Nothing)
    <3>1. PICK val : val = [p \in Props |-> IF p = CHOOSE q \in Props : TRUE THEN {Base} ELSE {}]
      OBVIOUS
    <3>2. db = Rec(1, val)
      BY <2>2, <3>1 DEF Init
    <3>3. Base \notin Own
      BY ClientBounds DEF Base, Own
    <3>4. OwnIn(val) = {} /\ DOMAIN val = Props
      BY <3>1, <3>3, InOwn
    <3>5. QED
      BY <3>2, <3>4 DEF Rec
  <2>3. QED  BY <2>1, <2>2
<1>3. NoRec.val = Nothing
  BY DEF NoRec, Rec
<1>4. DOMAIN local.val = Props /\ OwnIn(local.val) = {}
  BY <1>2, <1>3, NothingOwn DEF Init
<1>5. item.val = Nothing /\ item.orig = Nothing /\ DOMAIN item = Fields
  BY <1>1 DEF NoItem, Fields
<1>6. DOMAIN get = {"load", "reset"} /\ \A r \in DOMAIN get : get[r].rec.val = Nothing
  BY <1>1, <1>3 DEF Idle
<1>7. OwnIn(Nothing) = {} /\ DOMAIN Nothing = Props
  BY NothingOwn
<1>8. Shape
  BY <1>1, <1>2, <1>4, <1>5, <1>6, <1>7 DEF Shape
<1>9. Lists
  <2>1. <<>> \in Seq({})
    OBVIOUS
  <2>2. QED
    BY <1>1, <2>1 DEF Lists
<1>10. Separate /\ FlushFollows /\ OneEnqueues /\ CallsSafe /\ SavesSafe /\ AckedSafe
  BY <1>1 DEF Separate, FlushFollows, OneEnqueues, CallsSafe, SavesSafe, AckedSafe
<1>11. CopiesSafe
  BY <1>2, <1>4, <1>5, <1>6, <1>7 DEF CopiesSafe
<1>12. QED
  BY <1>8, <1>9, <1>10, <1>11 DEF IInv

LEMMA StepSafe == Careful /\ IInv /\ [Next]_vars => IInv'
<1> SUFFICES ASSUME Careful, IInv, [Next]_vars PROVE IInv'
  OBVIOUS
<1>1. CASE Requests
  BY <1>1, RequestSteps, LoadSteps, ResetSteps DEF Requests
<1>2. ASSUME NEW i \in DOMAIN saves, SaveDone(i) PROVE IInv'
  BY <1>2, SaveDoneStep
<1>3. ASSUME NEW i \in DOMAIN saves, NEW c \in DOMAIN saves[i].calls, CallStep(i, c) PROVE IInv'
  BY <1>3, CallExecutedStep, CallEndsSteps, EnqueueGetsStep, EnqueuePutsStep DEF CallStep
<1>4. CASE Flushing
  BY <1>4, FlushSendsStep, FlushReturnedStep, FlushEndsSteps DEF Flushing
<1>5. CASE Ping \/ LineBack \/ Notified \/ OtherWrite \/ Reload
  BY <1>5, PingStep, LineBackStep, RequestSteps, OtherWriteStep, ReloadStep
<1>6. CASE User
  BY <1>6, RequestSteps, ModelSteps, SaveStep DEF User
<1>7. CASE SocketOpened \/ SocketClosed \/ LineLost \/ UNCHANGED vars
  BY <1>7, StatusSteps
<1>8. QED
  BY <1>1, <1>2, <1>3, <1>4, <1>5, <1>6, <1>7 DEF Next, Saving

(* What the user was told is saved has been executed by the server or      *)
(* waits in the queue, whatever fails and whenever the page is opened anew *)
(* (individual_model.js:450, "Save current individual to database";        *)
(* backend.js:754, "Offline PUT queue").                                   *)
THEOREM AckedSafeHolds == ASSUME Careful PROVE Spec => []AckedSafe
<1>1. IInv => AckedSafe
  BY DEF IInv
<1>2. QED
  BY <1>1, InitSafe, StepSafe, PTL DEF Spec

-----------------------------------------------------------------------------
(* The order of edits: which values of a property are gone for good once   *)
(* the queue has been executed, and which may be there.                    *)

\* A call takes value v of property p away, or brings it.
Clears(c, vals, p, v) ==
    p \in DOMAIN vals /\ IF c = "remove" THEN v \in vals[p] ELSE c # "add" /\ v \notin vals[p]
Brings(c, vals, p, v) == p \in DOMAIN vals /\ c # "remove" /\ v \in vals[p]

\* The first call of the queue that is still to be executed.
From ==
    IF flushes = <<>> THEN 1
    ELSE IF flushes[1].executed THEN flushes[1].k + 1 ELSE flushes[1].k

ClearedFrom(p, v, k) ==
    \E j \in DOMAIN offline : j >= k /\ Clears(offline[j].cmd, offline[j].vals, p, v)

(* Neither what is stored nor a call of the queue leaves the value, however*)
(* often the queue is executed from its beginning.                         *)
Gone(p, v) ==
    /\ v \in db.val[p] => ClearedFrom(p, v, From)
    /\ \A i \in DOMAIN offline :
           Brings(offline[i].cmd, offline[i].vals, p, v) => ClearedFrom(p, v, i + 1)

\* No edit of the property that is executed or queued is newer.
Newest(p, v) == v <= bounds.edits /\ \A w \in Own : <<p, w>> \in Safe => w <= v

\* No value, or one that is the newest.
NewestOf(p, vals) == vals = {} \/ \E v \in Own : vals = {v} /\ Newest(p, v)

Ready == item.isLoaded \/ item.isNew

(* A page has no requests for an individual it does not have, nor for a    *)
(* new one, and keeps a copy of each it has loaded.                        *)
PageOK ==
    /\ DOMAIN status = {"line", "ccus", "checking", "once"}
    /\ ~item.here \/ item.isNew => get.load.stage = "none" /\ get.reset.stage = "none" /\ ~status.once
    /\ ~item.here => saves = <<>> /\ ~Ready
    /\ item.isNew => \A p \in Props : item.orig[p] = {}
    /\ \A i \in DOMAIN saves : Ready /\ (item.isNew => "put" \in DOMAIN saves[i].calls)

(* Copies have counters, and a store without the individual has no value.  *)
CountsOK ==
    /\ db.count \in Nat /\ item.count \in Nat
    /\ db.count = 0 => OwnIn(db.val) = {}
    /\ local = NoRec \/ local.count \in Nat
    /\ item.isLoaded => local.count \in Nat
    /\ \A r \in {"load", "reset"} : get[r].stage \in {"local", "answered"} => get[r].rec.count \in Nat

(* What differs from the original is the newest edit.                      *)
ModelNew ==
    /\ \A p \in Props : \A w \in Own : <<p, w>> \in Safe => w <= bounds.edits
    /\ saves = <<>> => \A p \in Props :
           item.val[p] # item.orig[p] => NewestOf(p, item.val[p])

(* Each property is in one call of a save, which carries what is saved.    *)
CallsNew ==
    \A i \in DOMAIN saves : \A c \in DOMAIN saves[i].calls :
        /\ DOMAIN saves[i].calls[c].vals \subseteq Props
        /\ \A d \in DOMAIN saves[i].calls :
               DOMAIN saves[i].calls[d].vals \cap DOMAIN saves[i].calls[c].vals # {} => c = d
        /\ c # "remove" => \A p \in DOMAIN saves[i].calls[c].vals :
               /\ saves[i].calls[c].vals[p] = saves[i].val[p]
               /\ NewestOf(p, saves[i].val[p])

(* What is older than an edit that was executed or queued is gone.         *)
OlderGone ==
    \A p \in Props : \A v \in Own : \A w \in Own : v < w /\ <<p, w>> \in Safe => Gone(p, v)

(* What the original does not have is gone.                                *)
OthersGone ==
    Ready /\ saves = <<>> => \A p \in Props : \A v \in Own : v \notin item.orig[p] => Gone(p, v)

\* A call of save i that is still to come takes the value away.
WillClear(i, p, v) ==
    \E c \in DOMAIN saves[i].calls :
        Clears(c, saves[i].calls[c].vals, p, v) /\ saves[i].calls[c].stage \notin {"executed", "done"}

(* What is not being saved is gone, or a call will take it away; and the   *)
(* model shows what is being saved.                                        *)
SavesGone ==
    \A i \in DOMAIN saves :
        /\ OwnIn(saves[i].val) \subseteq OwnIn(item.val)
        /\ \A p \in Props : \A v \in Own : v \notin saves[i].val[p] => Gone(p, v) \/ WillClear(i, p, v)

NInv ==
    /\ PageOK /\ CountsOK /\ ModelNew /\ CallsNew
    /\ ~behind => OlderGone /\ OthersGone /\ SavesGone

-----------------------------------------------------------------------------
LEMMA AppliedTells ==
    ASSUME NEW rec, NEW c, NEW vals, NEW p \in Props, NEW v, v \in Applied(rec, c, vals).val[p]
    PROVE  Brings(c, vals, p, v) \/ (v \in rec.val[p] /\ ~Clears(c, vals, p, v))
<1>1. PICK f : f = [q \in Props |-> IF q \notin DOMAIN vals THEN rec.val[q]
                                    ELSE IF c = "add" THEN rec.val[q] \cup vals[q]
                                    ELSE IF c = "remove" THEN rec.val[q] \ vals[q]
                                    ELSE vals[q]]
  OBVIOUS
<1>2. Applied(rec, c, vals).val = f
  BY <1>1 DEF Applied, Rec
<1>3. v \in IF p \notin DOMAIN vals THEN rec.val[p]
            ELSE IF c = "add" THEN rec.val[p] \cup vals[p]
            ELSE IF c = "remove" THEN rec.val[p] \ vals[p]
            ELSE vals[p]
  BY <1>1, <1>2
<1>4. QED
  BY <1>3 DEF Brings, Clears

LEMMA QueueForm ==
    ASSUME IInv
    PROVE  /\ Len(offline) \in Nat /\ DOMAIN offline = 1 .. Len(offline)
           /\ From \in 1 .. Len(offline) + 1
           /\ flushes # <<>> => /\ One(flushes) /\ DOMAIN flushes = {1}
                                /\ flushes[1].queue = offline /\ flushes[1].k \in 1 .. Len(offline) + 1
                                /\ flushes[1].executed => flushes[1].k <= Len(offline)
<1>1. Len(offline) \in Nat /\ DOMAIN offline = 1 .. Len(offline)
  BY DEF IInv, Lists
<1>2. CASE flushes = <<>>
  BY <1>1, <1>2 DEF From
<1>3. CASE flushes # <<>>
  <2>1. One(flushes) /\ DOMAIN flushes = {1}
    BY <1>3, OneDomain DEF IInv, Lists
  <2>2. /\ flushes[1].queue = offline /\ flushes[1].k \in 1 .. Len(offline) + 1
        /\ flushes[1].executed => flushes[1].k <= Len(offline)
    BY <2>1 DEF IInv, FlushFollows
  <2>3. From \in 1 .. Len(offline) + 1
    BY <1>1, <1>3, <2>2 DEF From
  <2>4. QED
    BY <1>1, <2>1, <2>2, <2>3
<1>4. QED  BY <1>2, <1>3

(* A value that is gone stays gone while nothing is queued and nothing new *)
(* is stored, also when the queue is begun anew.                           *)
LEMMA GoneStays ==
    ASSUME IInv, offline' = offline, From' \in Nat, From' <= From,
           NEW p \in Props, NEW v \in Own, v \in db'.val[p] => v \in db.val[p], Gone(p, v)
    PROVE  Gone(p, v)'
<1>1. From \in Nat /\ DOMAIN offline \subseteq Nat
  BY QueueForm
<1>2. ASSUME v \in db'.val[p]
      PROVE  \E j \in DOMAIN offline : j >= From' /\ Clears(offline[j].cmd, offline[j].vals, p, v)
  <2>1. PICK j \in DOMAIN offline : j >= From /\ Clears(offline[j].cmd, offline[j].vals, p, v)
    BY <1>2 DEF Gone, ClearedFrom
  <2>2. j >= From'
    BY <1>1, <2>1
  <2>3. QED  BY <2>1, <2>2
<1>3. \A k : ClearedFrom(p, v, k)' = ClearedFrom(p, v, k)
  BY DEF ClearedFrom
<1>4. \A i \in DOMAIN offline' :
          Brings(offline'[i].cmd, offline'[i].vals, p, v) => ClearedFrom(p, v, i + 1)'
  BY <1>3 DEF Gone
<1>5. v \in db'.val[p] => ClearedFrom(p, v, From)'
  BY <1>2 DEF ClearedFrom
<1>6. QED
  BY <1>4, <1>5 DEF Gone

(* What a step leaves as it was: no edit becomes safe, and what was gone   *)
(* stays gone.                                                             *)
Steady ==
    /\ Safe' \subseteq Safe
    /\ bounds.edits \in Nat /\ bounds'.edits \in Nat /\ bounds.edits <= bounds'.edits
    /\ ~behind' => ~behind
    /\ \A p \in Props : \A v \in Own : Gone(p, v) => Gone(p, v)'

LEMMA EditsBound ==
    ASSUME Shape, bounds' = bounds \/ \E kind \in {"edits", "others", "faults"} : \E max : Happens(kind, max)
    PROVE  bounds.edits \in Nat /\ bounds'.edits \in Nat /\ bounds.edits <= bounds'.edits
<1>1. bounds.edits \in Nat
  BY DEF Shape
<1>2. CASE bounds' = bounds
  BY <1>1, <1>2
<1>3. ASSUME NEW kind \in {"edits", "others", "faults"}, NEW max, Happens(kind, max)
      PROVE  bounds'.edits \in {bounds.edits, bounds.edits + 1}
  BY <1>3 DEF Happens, Shape
<1>4. QED
  BY <1>1, <1>2, <1>3

LEMMA SteadyWhen ==
    ASSUME IInv, UNCHANGED <<executed, offline>>, From' \in Nat, From' <= From, ~behind' => ~behind,
           bounds' = bounds \/ \E kind \in {"edits", "others", "faults"} : \E max : Happens(kind, max),
           \A p \in Props : \A v \in Own : v \in db'.val[p] => v \in db.val[p]
    PROVE  Steady
<1>1. Safe' = Safe
  BY DEF Safe, OwnQueued
<1>2. \A p \in Props : \A v \in Own : Gone(p, v) => Gone(p, v)'
  BY GoneStays
<1>3. bounds.edits \in Nat /\ bounds'.edits \in Nat /\ bounds.edits <= bounds'.edits
  BY EditsBound DEF IInv
<1>4. QED
  BY <1>1, <1>2, <1>3 DEF Steady

LEMMA SteadyKeeps ==
    ASSUME NInv, Steady
    PROVE  /\ \A p \in Props : \A w \in Own : <<p, w>> \in Safe' => w <= bounds'.edits
           /\ \A p, vals : NewestOf(p, vals) => NewestOf(p, vals)'
           /\ ~behind' => OlderGone'
           /\ saves' = saves => CallsNew'
<1>1. \A w \in Own : w \in Int
  BY DEF Own
<1>2. \A p, v : v \in Own /\ Newest(p, v) => Newest(p, v)'
  BY <1>1 DEF Newest, Steady
<1>3. \A p, vals : NewestOf(p, vals) => NewestOf(p, vals)'
  BY <1>2 DEF NewestOf
<1>4. saves' = saves => CallsNew'
  BY <1>3 DEF NInv, CallsNew
<1>5. \A p \in Props : \A w \in Own : <<p, w>> \in Safe' => w <= bounds'.edits
  BY <1>1 DEF NInv, ModelNew, Steady
<1>6. ~behind' => OlderGone'
  BY DEF NInv, OlderGone, Steady
<1>7. QED
  BY <1>3, <1>4, <1>5, <1>6

(* The model stays, or it takes over what leaves out only what is gone and *)
(* shows what is being saved.                                              *)
LEMMA SteadySteps ==
    ASSUME NInv, Steady, saves' = saves, PageOK', CountsOK',
           \/ item'.val = item.val /\ item'.orig = item.orig /\ (Ready' => Ready)
           \/ /\ \A p \in Props : item'.val[p] = item'.orig[p]
              /\ ~behind' =>
                  /\ Ready' => \A p \in Props : \A v \in Own : v \notin item'.orig[p] => Gone(p, v)
                  /\ \A i \in DOMAIN saves : OwnIn(saves[i].val) \subseteq OwnIn(item'.val)
    PROVE  NInv'
<1>1. /\ CallsNew' /\ (~behind' => OlderGone')
      /\ \A p \in Props : \A w \in Own : <<p, w>> \in Safe' => w <= bounds'.edits
      /\ \A p, vals : NewestOf(p, vals) => NewestOf(p, vals)'
  BY SteadyKeeps
<1>2. ModelNew'
  BY <1>1 DEF NInv, ModelNew
<1>3. \A i, p, v : WillClear(i, p, v)' = WillClear(i, p, v)
  BY DEF WillClear
<1>4. ASSUME ~behind' PROVE OthersGone' /\ SavesGone'
  <2>1. OthersGone /\ SavesGone
    BY <1>4 DEF NInv, Steady
  <2>2. OthersGone'
    BY <1>4, <2>1 DEF OthersGone, Steady
  <2>3. SavesGone'
    BY <1>3, <1>4, <2>1 DEF SavesGone, Steady
  <2>4. QED  BY <2>2, <2>3
<1>5. QED
  BY <1>1, <1>2, <1>4 DEF NInv

(* Steps that leave the page alone but for the stages of its calls.        *)
LEMMA FormsSame ==
    ASSUME PageOK, CountsOK, UNCHANGED <<item, get, local>>,
           DOMAIN status' = DOMAIN status, status'.once = status.once,
           db' = db \/ (db'.count \in Nat /\ db'.count # 0),
           \/ saves' = saves
           \/ /\ saves # <<>> /\ DOMAIN saves' = DOMAIN saves
              /\ \A i \in DOMAIN saves : DOMAIN saves'[i].calls = DOMAIN saves[i].calls
    PROVE  PageOK' /\ CountsOK'
<1>1. Ready' = Ready
  BY DEF Ready
<1>2. PageOK'
  BY <1>1 DEF PageOK
<1>3. CountsOK'
  BY DEF CountsOK
<1>4. QED
  BY <1>2, <1>3

-----------------------------------------------------------------------------
(* The steps of the line, the others and the requests.                     *)

LEMMA QuietSteps ==
    ASSUME IInv, NInv, SocketOpened \/ SocketClosed \/ LineLost \/ LineBack \/ SaveNothing \/ UNCHANGED vars
    PROVE  NInv'
<1>1. UNCHANGED <<db, executed, behind, item, get, saves, flushes, local, offline>>
  BY DEF SocketOpened, SocketClosed, LineLost, LineBack, SaveNothing, vars, serverVars, modelVars, callVars
<1>2. DOMAIN status' = DOMAIN status /\ status'.once = status.once
  BY DEF SocketOpened, SocketClosed, LineLost, LineBack, SaveNothing, vars, NInv, PageOK
<1>3. bounds' = bounds \/ Happens("faults", MaxFault)
  BY DEF SocketOpened, SocketClosed, LineLost, LineBack, SaveNothing, vars
<1>4. From' = From /\ From \in Int
  BY <1>1, QueueForm DEF From
<1>5. Steady
  BY <1>1, <1>3, <1>4, QueueForm, SteadyWhen
<1>6. PageOK' /\ CountsOK'
  BY <1>1, <1>2, FormsSame DEF NInv
<1>7. Ready' = Ready
  BY <1>1 DEF Ready
<1>8. QED
  BY <1>1, <1>5, <1>6, <1>7, SteadySteps

(* What the others write is no edit of the page.                           *)
LEMMA OtherWriteQuiet ==
    ASSUME IInv, NInv, OtherWrite
    PROVE  NInv'
<1>1. /\ UNCHANGED <<executed, behind, item, get, saves, flushes, local, offline, status>>
      /\ Happens("others", MaxOther)
  BY DEF OtherWrite, modelVars, callVars
<1>2. PICK p \in Props : db' = Applied(db, "set", [q \in {p} |-> {Base + bounds.others + 1}])
  BY DEF OtherWrite
<1>3. PICK vals : vals = [q \in {p} |-> {Base + bounds.others + 1}]
  OBVIOUS
<1>4. bounds.others \in Nat /\ db.count \in Nat
  BY DEF IInv, Shape, NInv, CountsOK
<1>5. Base + bounds.others + 1 \notin Own
  BY <1>4, ClientBounds DEF Base, Own
<1>6. \A q \in Props : \A v \in Own : v \in db'.val[q] => v \in db.val[q]
  <2> SUFFICES ASSUME NEW q \in Props, NEW v \in Own, v \in db'.val[q] PROVE v \in db.val[q]
    OBVIOUS
  <2>1. Brings("set", vals, q, v) \/ v \in db.val[q]
    BY <1>2, <1>3, AppliedTells
  <2>2. ~Brings("set", vals, q, v)
    BY <1>3, <1>5 DEF Brings
  <2>3. QED  BY <2>1, <2>2
<1>7. From' = From /\ From \in Int
  BY <1>1, QueueForm DEF From
<1>8. Steady
  BY <1>1, <1>6, <1>7, QueueForm, SteadyWhen
<1>9. db'.count = db.count + 1
  BY <1>2 DEF Applied, Rec
<1>10. PageOK' /\ CountsOK'
  BY <1>1, <1>4, <1>9, FormsSame DEF NInv
<1>11. Ready' = Ready
  BY <1>1 DEF Ready
<1>12. QED
  BY <1>1, <1>8, <1>10, <1>11, SteadySteps

(* A record that is taken over leaves out only what is gone.               *)
LEMMA TakenGone ==
    ASSUME Shape, NEW rec, DOMAIN rec.val = Props, Taken(rec), ~behind'
    PROVE  /\ ~behind
           /\ \A p \in Props : \A v \in Own : v \notin rec.val[p] => Gone(p, v)
           /\ \A i \in DOMAIN saves : OwnIn(saves[i].val) \subseteq OwnIn(rec.val)
<1>1. /\ ~behind
      /\ OwnIn(db.val) \cup OwnQueued \cup UNION {OwnIn(saves[i].val) : i \in DOMAIN saves} \subseteq OwnIn(rec.val)
  BY DEF Taken
<1>2. ASSUME NEW p \in Props, NEW v \in Own, v \notin rec.val[p]
      PROVE  Gone(p, v)
  <2>1. <<p, v>> \notin OwnIn(rec.val)
    BY <1>2, InOwn
  <2>2. v \notin db.val[p]
    <3>1. <<p, v>> \notin OwnIn(db.val)
      BY <1>1, <2>1
    <3>2. QED
      BY <3>1, InOwn DEF Shape
  <2>3. ASSUME NEW i \in DOMAIN offline, Brings(offline[i].cmd, offline[i].vals, p, v)
        PROVE  FALSE
    <3>1. <<p, v>> \in OwnIn(offline[i].vals) /\ offline[i].cmd # "remove"
      BY <2>3, InOwn DEF Brings
    <3>2. <<p, v>> \in OwnQueued
      BY <3>1 DEF OwnQueued
    <3>3. QED
      BY <1>1, <2>1, <3>2
  <2>4. QED
    BY <2>2, <2>3 DEF Gone
<1>3. QED
  BY <1>1, <1>2

LEMMA TakesQuiet ==
    ASSUME IInv, NInv, UNCHANGED <<db, executed, saves, flushes, offline, bounds>>, PageOK', CountsOK',
           NEW rec, DOMAIN rec.val = Props, Taken(rec),
           DOMAIN item'.val = Props, item'.orig = rec.val, \A p \in Props : item'.val[p] = rec.val[p]
    PROVE  NInv'
<1>1. From' = From /\ From \in Int
  BY QueueForm DEF From
<1>2. ~behind' => ~behind
  BY DEF Taken
<1>3. Steady
  BY <1>1, <1>2, QueueForm, SteadyWhen
<1>4. OwnIn(item'.val) = OwnIn(rec.val)
  BY InOwn
<1>5. ~behind' => /\ \A p \in Props : \A v \in Own : v \notin rec.val[p] => Gone(p, v)
                  /\ \A i \in DOMAIN saves : OwnIn(saves[i].val) \subseteq OwnIn(item'.val)
  BY <1>4, TakenGone DEF IInv
<1>6. QED
  BY <1>3, <1>5, SteadySteps

LEMMA LoadQuiet ==
    ASSUME IInv, NInv, LoadDone \/ LoadFails
    PROVE  NInv'
<1>1. /\ UNCHANGED <<db, executed, saves, flushes, offline, bounds>> /\ get.load.stage # "none"
      /\ get' = [get EXCEPT !.load = Idle]
  BY DEF LoadDone, LoadFails, callVars
<1>2. /\ DOMAIN item = Fields /\ DOMAIN get = {"load", "reset"} /\ DOMAIN item.val = Props
      /\ DOMAIN get.load.rec.val = Props /\ DOMAIN local.val = Props
  BY DEF IInv, Shape
<1>3. item.here /\ ~item.isNew /\ PageOK /\ CountsOK
  BY <1>1 DEF NInv, PageOK
<1>4. get'.load.stage = "none" /\ get'.reset = get.reset
  BY <1>1, <1>2 DEF Idle
<1>5. DOMAIN status' = {"line", "ccus", "checking", "once"}
  BY <1>3 DEF PageOK, LoadDone, LoadFails, GoOffline
<1>6. ASSUME NEW rec, DOMAIN rec.val = Props, rec.count \in Nat, item' = Loaded(rec), Taken(rec),
             local' \in {local, rec}, local'.count \in Nat
      PROVE  NInv'
  <2>1. /\ item'.val = rec.val /\ item'.orig = rec.val /\ item'.count = rec.count
        /\ item'.here = item.here /\ item'.isNew = FALSE /\ item'.isLoaded = TRUE
    BY <1>2, <1>6 DEF Loaded, Fields
  <2>2. PageOK'
    BY <1>1, <1>3, <1>4, <1>5, <2>1 DEF PageOK, Ready
  <2>3. CountsOK'
    BY <1>1, <1>3, <1>4, <1>6, <2>1 DEF CountsOK
  <2>4. QED
    BY <1>1, <1>6, <2>1, <2>2, <2>3, TakesQuiet
<1>7. CASE LoadDone
  <2>1. get.load.rec.count \in Nat
    BY <1>3, <1>7 DEF LoadDone, CountsOK
  <2>2. QED
    BY <1>2, <1>6, <1>7, <2>1 DEF LoadDone
<1>8. CASE LoadFails /\ local # NoRec
  <2>1. local' = local /\ local.count \in Nat
    BY <1>3, <1>8 DEF LoadFails, callVars, CountsOK
  <2>2. QED
    BY <1>2, <1>6, <1>8, <2>1 DEF LoadFails
<1>9. CASE LoadFails /\ local = NoRec
  <2>1. item' = [Model EXCEPT !.val = Nothing] /\ behind' = behind /\ local' = local
    BY <1>9 DEF LoadFails, callVars
  <2>2. /\ item'.val = Nothing /\ item'.orig = Nothing /\ item'.count = 0
        /\ item'.here = TRUE /\ item'.isNew = FALSE /\ item'.isLoaded = FALSE
    BY <2>1 DEF Model, NoItem
  <2>3. ~item.isLoaded
    BY <1>3, <1>9 DEF CountsOK, NoRec, Rec
  <2>4. DOMAIN saves = {}
    BY <1>3, <2>3 DEF PageOK, Ready
  <2>5. PageOK'
    BY <1>1, <1>3, <1>4, <1>5, <2>2, <2>4 DEF PageOK
  <2>6. CountsOK'
    BY <1>1, <1>3, <1>4, <2>1, <2>2 DEF CountsOK
  <2>7. From' = From /\ From \in Int
    BY <1>1, QueueForm DEF From
  <2>8. Steady
    BY <1>1, <2>1, <2>7, QueueForm, SteadyWhen
  <2>9. ~Ready'
    BY <2>2 DEF Ready
  <2>10. QED
    BY <1>1, <2>2, <2>4, <2>5, <2>6, <2>8, <2>9, SteadySteps
<1>10. QED  BY <1>7, <1>8, <1>9

LEMMA ResetQuiet ==
    ASSUME IInv, Careful, NInv, ResetDone \/ ResetFails
    PROVE  NInv'
<1>1. /\ UNCHANGED <<db, executed, saves, flushes, offline, bounds>> /\ get.reset.stage # "none"
      /\ get' = [get EXCEPT !.reset = Idle]
  BY DEF ResetDone, ResetFails, callVars
<1>2. /\ DOMAIN item = Fields /\ DOMAIN get = {"load", "reset"} /\ DOMAIN item.val = Props
      /\ DOMAIN get.reset.rec.val = Props /\ DOMAIN local.val = Props
  BY DEF IInv, Shape
<1>3. item.here /\ ~item.isNew /\ PageOK /\ CountsOK
  BY <1>1 DEF NInv, PageOK
<1>4. get'.reset.stage = "none" /\ get'.load = get.load
  BY <1>1, <1>2 DEF Idle
<1>5. DOMAIN status' = {"line", "ccus", "checking", "once"}
  BY <1>3 DEF PageOK, ResetDone, ResetFails, GoOffline
<1>6. ASSUME NEW rec, DOMAIN rec.val = Props, rec.count \in Nat, item' = ResetTo(rec), Taken(rec),
             local' \in {local, rec}, local'.count \in Nat
      PROVE  NInv'
  <2>1. /\ item'.val = Merged(item.val, rec.val) /\ item'.orig = rec.val /\ item'.count = rec.count
        /\ item'.here = item.here /\ item'.isNew = FALSE /\ item'.isLoaded = TRUE
    BY <1>2, <1>6 DEF ResetTo, Fields
  <2>2. DOMAIN item'.val = Props /\ \A p \in Props : item'.val[p] = rec.val[p]
    BY <1>6, <2>1, MergedOwn, MergedIs
  <2>3. PageOK'
    BY <1>1, <1>3, <1>4, <1>5, <2>1 DEF PageOK, Ready
  <2>4. CountsOK'
    BY <1>1, <1>3, <1>4, <1>6, <2>1 DEF CountsOK
  <2>5. QED
    BY <1>1, <1>6, <2>1, <2>2, <2>3, <2>4, TakesQuiet
<1>7. CASE ResetDone
  <2>1. get.reset.rec.count \in Nat
    BY <1>3, <1>7 DEF ResetDone, CountsOK
  <2>2. QED
    BY <1>2, <1>6, <1>7, <2>1 DEF ResetDone
<1>8. CASE ResetFails /\ local # NoRec
  <2>1. local' = local /\ local.count \in Nat
    BY <1>3, <1>8 DEF ResetFails, callVars, CountsOK
  <2>2. QED
    BY <1>2, <1>6, <1>8, <2>1 DEF ResetFails
<1>9. CASE ResetFails /\ local = NoRec
  <2>1. item' = item /\ behind' = behind /\ local' = local /\ status' = [status EXCEPT !.line = FALSE, !.checking = TRUE]
    BY <1>9 DEF ResetFails, callVars, GoOffline
  <2>2. PageOK'
    BY <1>1, <1>3, <1>4, <1>5, <2>1 DEF PageOK, Ready
  <2>3. CountsOK'
    BY <1>1, <1>3, <1>4, <2>1 DEF CountsOK
  <2>4. From' = From /\ From \in Int
    BY <1>1, QueueForm DEF From
  <2>5. Steady
    BY <1>1, <2>1, <2>4, QueueForm, SteadyWhen
  <2>6. Ready' = Ready
    BY <2>1 DEF Ready
  <2>7. QED
    BY <1>1, <2>1, <2>2, <2>3, <2>5, <2>6, SteadySteps
<1>10. QED  BY <1>7, <1>8, <1>9

\* A request begins, or is answered.
Asks ==
    \/ get' = get
    \/ get' = [get EXCEPT !.load = Load]
    \/ get' = [get EXCEPT !.reset = Sent]
    \/ \E r \in {"load", "reset"} :
           get[r].stage = "sent" /\ get' = [get EXCEPT ![r] = [stage |-> "answered", rec |-> db]]

LEMMA AsksCounted ==
    ASSUME IInv, NInv, Asks
    PROVE  \A r \in {"load", "reset"} : get'[r].stage \in {"local", "answered"} => get'[r].rec.count \in Nat
<1>1. DOMAIN get = {"load", "reset"} /\ CountsOK
  BY DEF IInv, Shape, NInv
<1>2. Load.stage \in {"local", "answered"} => Load.rec.count \in Nat
  BY <1>1 DEF Load, CountsOK, Sent
<1>3. Sent.stage = "sent"
  BY DEF Sent
<1>4. db.count \in Nat
  BY <1>1 DEF CountsOK
<1>5. \A r \in {"load", "reset"} : get[r].stage \in {"local", "answered"} => get[r].rec.count \in Nat
  BY <1>1 DEF CountsOK
<1>6. CASE get' = get
  BY <1>5, <1>6
<1>7. CASE get' = [get EXCEPT !.load = Load]
  BY <1>1, <1>2, <1>5, <1>7
<1>8. CASE get' = [get EXCEPT !.reset = Sent]
  BY <1>1, <1>3, <1>5, <1>8
<1>9. ASSUME NEW r \in {"load", "reset"}, get' = [get EXCEPT ![r] = [stage |-> "answered", rec |-> db]]
      PROVE  \A t \in {"load", "reset"} : get'[t].stage \in {"local", "answered"} => get'[t].rec.count \in Nat
  BY <1>1, <1>4, <1>5, <1>9
<1>10. QED  BY <1>6, <1>7, <1>8, <1>9 DEF Asks

LEMMA RequestQuiet ==
    ASSUME IInv, NInv, Open \/ View \/ Notified \/ \E r \in {"load", "reset"} : Answer(r)
    PROVE  NInv'
<1>1. /\ UNCHANGED <<db, executed, behind, saves, flushes, local, offline, bounds, status>>
      /\ item' = item \/ (~item.here /\ item' = Model)
  BY DEF Open, View, Notified, Answer, serverVars, callVars
<1>2. Asks
  BY DEF Open, View, Notified, Answer, Resetting, Asks
<1>3. PageOK /\ CountsOK
  BY DEF NInv
<1>4. Model.val = Nothing /\ Model.orig = Nothing /\ Model.here = TRUE /\ Model.count = 0
      /\ Model.isNew = FALSE /\ Model.isLoaded = FALSE
  BY DEF Model, NoItem
<1>5. get' = get \/ (item'.here /\ ~item'.isNew)
  <2>1. CASE Open \/ View
    BY <1>4, <2>1 DEF Open, View
  <2>2. CASE Notified
    BY <2>2 DEF Notified, Resetting
  <2>3. ASSUME NEW r \in {"load", "reset"}, Answer(r) PROVE item'.here /\ ~item'.isNew
    <3>1. get[r].stage = "sent" /\ item' = item
      BY <2>3 DEF Answer
    <3>2. QED
      BY <1>3, <2>3, <3>1 DEF PageOK
  <2>4. QED  BY <2>1, <2>2, <2>3
<1>6. CountsOK'
  BY <1>1, <1>2, <1>3, <1>4, AsksCounted DEF CountsOK
<1>7. From' = From /\ From \in Int
  BY <1>1, QueueForm DEF From
<1>8. Steady
  BY <1>1, <1>7, QueueForm, SteadyWhen
<1>9. CASE item' = item
  <2>1. PageOK' /\ Ready' = Ready
    BY <1>1, <1>3, <1>5, <1>9 DEF PageOK, Ready
  <2>2. QED
    BY <1>1, <1>6, <1>8, <1>9, <2>1, SteadySteps
<1>10. CASE ~item.here /\ item' = Model
  <2>1. saves = <<>> /\ DOMAIN saves = {} /\ ~status.once
    BY <1>3, <1>10 DEF PageOK
  <2>2. ~Ready'
    BY <1>4, <1>10 DEF Ready
  <2>3. PageOK'
    BY <1>1, <1>3, <1>4, <1>10, <2>1 DEF PageOK
  <2>4. QED
    BY <1>1, <1>4, <1>6, <1>8, <1>10, <2>1, <2>2, <2>3, SteadySteps
<1>11. QED  BY <1>1, <1>9, <1>10

LEMMA PingQuiet ==
    ASSUME IInv, Careful, NInv, Ping
    PROVE  NInv'
<1>1. UNCHANGED <<db, executed, behind, item, saves, local, offline, bounds>>
  BY DEF Ping, serverVars
<1>2. \/ flushes' = flushes
      \/ flushes = <<>> /\ flushes' = Append(flushes, [queue |-> offline, k |-> 1, executed |-> FALSE])
  BY DEF Ping, Careful
<1>3. PageOK /\ CountsOK
  BY DEF NInv
<1>4. \/ get' = get
      \/ status.once /\ ~item.isNew /\ get' = [get EXCEPT !.reset = Sent]
  BY DEF Ping, Resetting
<1>5. DOMAIN status' = {"line", "ccus", "checking", "once"} /\ (status'.once => status.once)
  BY <1>3 DEF Ping, PageOK
<1>6. Asks
  BY <1>4 DEF Asks
<1>7. PageOK' /\ Ready' = Ready
  BY <1>1, <1>3, <1>4, <1>5 DEF PageOK, Ready
<1>8. CountsOK'
  BY <1>1, <1>3, <1>6, AsksCounted DEF CountsOK
<1>9. From' = From /\ From \in Int
  <2>1. CASE flushes' = flushes
    BY <1>1, <2>1, QueueForm DEF From
  <2>2. CASE flushes' # flushes
    <3>1. PICK flush : flush = [queue |-> offline, k |-> 1, executed |-> FALSE]
      OBVIOUS
    <3>2. flushes = <<>> /\ flushes' = Append(flushes, flush)
      BY <1>2, <2>2, <3>1
    <3>3. One(flushes') /\ flushes'[1] = flush
      BY <3>2, AppendOne
    <3>4. flushes' # <<>> /\ flush.k = 1 /\ flush.executed = FALSE
      BY <3>1, <3>3, OneDomain
    <3>5. QED
      BY <3>2, <3>3, <3>4 DEF From
  <2>3. QED  BY <2>1, <2>2
<1>10. Steady
  BY <1>1, <1>9, QueueForm, SteadyWhen
<1>11. QED
  BY <1>1, <1>7, <1>8, <1>10, SteadySteps

(* The page is opened anew: the queue will be executed from its beginning. *)
LEMMA ReloadQuiet ==
    ASSUME IInv, NInv, Reload
    PROVE  NInv'
<1>1. /\ UNCHANGED <<db, executed, behind, local, offline>>
      /\ item' = NoItem /\ get' = [load |-> Idle, reset |-> Idle] /\ saves' = <<>> /\ flushes' = <<>>
      /\ status' = [line |-> FALSE, ccus |-> FALSE, checking |-> FALSE, once |-> FALSE]
      /\ Happens("faults", MaxFault)
  BY DEF Reload, serverVars
<1>2. /\ item'.val = Nothing /\ item'.orig = Nothing /\ item'.here = FALSE /\ item'.count = 0
      /\ item'.isNew = FALSE /\ item'.isLoaded = FALSE
  BY <1>1 DEF NoItem
<1>3. get'.load.stage = "none" /\ get'.reset.stage = "none"
  BY <1>1 DEF Idle
<1>4. ~Ready'
  BY <1>2 DEF Ready
<1>5. PageOK'
  BY <1>1, <1>2, <1>3, <1>4 DEF PageOK
<1>6. CountsOK'
  BY <1>1, <1>2, <1>3 DEF NInv, CountsOK
<1>7. From' = 1 /\ 1 <= From
  BY <1>1, QueueForm DEF From
<1>8. Steady
  BY <1>1, <1>7, SteadyWhen
<1>9. /\ ~behind' => OlderGone'
      /\ \A p \in Props : \A w \in Own : <<p, w>> \in Safe' => w <= bounds'.edits
  BY <1>8, SteadyKeeps
<1>10. ModelNew' /\ CallsNew'
  BY <1>1, <1>2, <1>9 DEF ModelNew, CallsNew
<1>11. OthersGone' /\ SavesGone'
  BY <1>1, <1>4 DEF OthersGone, SavesGone
<1>12. QED
  BY <1>5, <1>6, <1>9, <1>10, <1>11 DEF NInv

-----------------------------------------------------------------------------
(* The steps of the user.                                                  *)

LEMMA CreateNew ==
    ASSUME IInv, NInv, Create
    PROVE  NInv'
<1>1. /\ UNCHANGED <<db, executed, behind, get, saves, flushes, local, offline, bounds, status>>
      /\ ~item.here /\ db.count = 0 /\ offline = <<>> /\ item' = [Model EXCEPT !.isNew = TRUE]
  BY DEF Create, serverVars, callVars
<1>2. /\ item'.val = Nothing /\ item'.orig = Nothing /\ item'.here = TRUE /\ item'.count = 0
      /\ item'.isNew = TRUE /\ item'.isLoaded = FALSE
  BY <1>1 DEF Model, NoItem
<1>3. \A p \in Props : Nothing[p] = {}
  BY DEF Nothing
<1>4. PageOK /\ CountsOK
  BY DEF NInv
<1>5. saves = <<>> /\ DOMAIN saves = {}
  BY <1>1, <1>4 DEF PageOK
<1>6. PageOK'
  BY <1>1, <1>2, <1>3, <1>4, <1>5 DEF PageOK
<1>7. CountsOK'
  BY <1>1, <1>2, <1>4 DEF CountsOK
<1>8. From' = From /\ From \in Int
  BY <1>1, QueueForm DEF From
<1>9. Steady
  BY <1>1, <1>8, QueueForm, SteadyWhen
<1>10. ASSUME NEW p \in Props, NEW v \in Own PROVE Gone(p, v)
  <2>1. OwnIn(db.val) = {}
    BY <1>1, <1>4 DEF CountsOK
  <2>2. v \notin db.val[p]
    <3>1. DOMAIN db.val = Props
      BY DEF IInv, Shape
    <3>2. v \in db.val[p] => <<p, v>> \in OwnIn(db.val)
      BY <1>10, <3>1, InOwn
    <3>3. QED
      BY <2>1, <3>2
  <2>3. QED
    BY <1>1, <2>2 DEF Gone
<1>11. QED
  BY <1>1, <1>2, <1>5, <1>6, <1>7, <1>9, <1>10, SteadySteps

(* An edit is newer than those before it.                                  *)
LEMMA EditNew ==
    ASSUME IInv, Careful, NInv, NEW p \in Props, Edit(p)
    PROVE  NInv'
<1>1. /\ UNCHANGED <<db, executed, behind, get, saves, flushes, local, offline, status>>
      /\ saves = <<>> /\ Ready /\ item.here /\ Happens("edits", MaxEdit)
  BY DEF Edit, serverVars, callVars, Careful, Ready
<1>2. PICK vals \in {{bounds.edits + 1}, {}} : item' = [item EXCEPT !.val[p] = vals, !.isSync = FALSE]
  BY DEF Edit
<1>3. DOMAIN item = Fields /\ DOMAIN item.val = Props /\ bounds.edits \in Nat
  BY DEF IInv, Shape
<1>4. /\ item'.orig = item.orig /\ item'.here = item.here /\ item'.count = item.count
      /\ item'.isNew = item.isNew /\ item'.isLoaded = item.isLoaded
      /\ item'.val[p] = vals /\ \A q \in Props : q # p => item'.val[q] = item.val[q]
  BY <1>2, <1>3 DEF Fields
<1>5. PageOK' /\ CountsOK' /\ Ready' = Ready
  BY <1>1, <1>4 DEF NInv, PageOK, CountsOK, Ready
<1>6. From' = From /\ From \in Int
  BY <1>1, QueueForm DEF From
<1>7. Steady
  BY <1>1, <1>6, QueueForm, SteadyWhen
<1>8. /\ CallsNew' /\ (~behind' => OlderGone')
      /\ \A q \in Props : \A w \in Own : <<q, w>> \in Safe' => w <= bounds'.edits
      /\ \A q, x : NewestOf(q, x) => NewestOf(q, x)'
  BY <1>1, <1>7, SteadyKeeps
<1>9. bounds'.edits = bounds.edits + 1 /\ bounds.edits < MaxEdit
  BY <1>1 DEF Happens, IInv, Shape
<1>10. NewestOf(p, vals)'
  <2>1. CASE vals = {}
    BY <2>1 DEF NewestOf
  <2>2. CASE vals = {bounds.edits + 1}
    <3>1. PICK n : n = bounds.edits + 1
      OBVIOUS
    <3>2. n \in Own
      BY <1>3, <1>9, <3>1, ClientBounds DEF Own
    <3>3. \A w \in Own : <<p, w>> \in Safe' => w <= n
      <4>1. \A w \in Own : w \in Int /\ (<<p, w>> \in Safe => w <= bounds.edits)
        BY DEF NInv, ModelNew, Own
      <4>2. QED
        BY <1>3, <1>7, <3>1, <4>1 DEF Steady
    <3>4. Newest(p, n)'
      BY <1>3, <1>9, <3>1, <3>3 DEF Newest
    <3>5. QED
      BY <2>2, <3>1, <3>2, <3>4 DEF NewestOf
  <2>3. QED  BY <1>2, <2>1, <2>2
<1>11. (\A q \in Props : item.val[q] # item.orig[q] => NewestOf(q, item.val[q]))'
  <2>1. ASSUME NEW q \in Props, q # p, item'.val[q] # item'.orig[q]
        PROVE  NewestOf(q, item.val[q])'
    <3>1. PICK x : x = item.val[q]
      OBVIOUS
    <3>2. NewestOf(q, x)
      BY <1>1, <1>4, <2>1, <3>1 DEF NInv, ModelNew
    <3>3. NewestOf(q, x)'
      BY <1>8, <3>2
    <3>4. QED
      BY <1>4, <2>1, <3>1, <3>3
  <2>2. NewestOf(p, item.val[p])'
    BY <1>4, <1>10
  <2>3. QED  BY <2>1, <2>2
<1>12. ModelNew'
  BY <1>8, <1>11 DEF ModelNew
<1>13. ~behind' => OthersGone' /\ SavesGone'
  BY <1>1, <1>4, <1>5, <1>7 DEF NInv, OthersGone, SavesGone, Steady
<1>14. QED
  BY <1>5, <1>8, <1>12, <1>13 DEF NInv

(* Each property is in one call of a save, and the calls take away what    *)
(* the model lost.                                                         *)
LEMMA CallsTell ==
    ASSUME NEW m, DOMAIN m.val = Props, DOMAIN m.orig = Props, m.isNew => \A p \in Props : m.orig[p] = {}
    PROVE  /\ m.isNew => "put" \in DOMAIN Calls(m)
           /\ \A c \in DOMAIN Calls(m) :
                /\ DOMAIN Calls(m)[c].vals \subseteq Props /\ Calls(m)[c].stage = "sent"
                /\ \A d \in DOMAIN Calls(m) : DOMAIN Calls(m)[d].vals \cap DOMAIN Calls(m)[c].vals # {} => c = d
                /\ c # "remove" => \A p \in DOMAIN Calls(m)[c].vals : Calls(m)[c].vals[p] = m.val[p]
                /\ \A p \in DOMAIN Calls(m)[c].vals : m.val[p] = m.orig[p] => m.val[p] = {}
           /\ \A p \in Props : \A v : v \in m.orig[p] /\ v \notin m.val[p]
                  => \E c \in DOMAIN Calls(m) : Clears(c, Calls(m)[c].vals, p, v)
<1>1. CASE m.isNew
  <2>1. DOMAIN Calls(m) = {"put"} /\ Calls(m)["put"] = Call(m.val, Props)
    BY <1>1 DEF Calls
  <2>2. PICK vals : vals = [p \in Props |-> m.val[p]]
    OBVIOUS
  <2>3. Call(m.val, Props).vals = vals /\ Call(m.val, Props).stage = "sent"
    BY <2>2 DEF Call
  <2>4. QED
    BY <1>1, <2>1, <2>2, <2>3
<1>2. CASE ~m.isNew
  <2>1. PICK of : of = [add |-> {p \in Props : m.orig[p] = {} /\ m.val[p] # {}},
                        set |-> {p \in Props : m.orig[p] # {} /\ m.val[p] # {} /\ m.val[p] # m.orig[p]},
                        remove |-> {p \in Props : m.orig[p] # {} /\ m.val[p] = {}}]
    OBVIOUS
  <2>2. PICK cs : cs = {x \in DOMAIN of : of[x] # {}}
    OBVIOUS
  <2>3. Calls(m) = [c \in cs |-> Call(IF c = "remove" THEN m.orig ELSE m.val, of[c])]
    BY <1>2, <2>1, <2>2 DEF Calls
  <2>4. DOMAIN Calls(m) = cs
    BY <2>3
  <2>5. \A c \in cs : /\ Calls(m)[c].stage = "sent"
                      /\ Calls(m)[c].vals = [p \in of[c] |-> IF c = "remove" THEN m.orig[p] ELSE m.val[p]]
    BY <2>3 DEF Call
  <2>6. cs \subseteq {"add", "set", "remove"}
    BY <2>1, <2>2
  <2>7. ASSUME NEW c \in cs PROVE DOMAIN Calls(m)[c].vals = of[c]
    <3>1. PICK vals : vals = [p \in of[c] |-> IF c = "remove" THEN m.orig[p] ELSE m.val[p]]
      OBVIOUS
    <3>2. DOMAIN vals = of[c]
      BY <3>1
    <3>3. Calls(m)[c].vals = vals
      BY <2>5, <3>1
    <3>4. QED  BY <3>2, <3>3
  <2>8. \A c \in cs : of[c] \subseteq Props /\ \A d \in cs : of[d] \cap of[c] # {} => c = d
    BY <2>1, <2>6
  <2>9. ASSUME NEW c \in cs, NEW p \in of[c] PROVE m.val[p] # m.orig[p]
    <3>1. CASE c = "add"
      BY <2>1, <2>9, <3>1
    <3>2. CASE c = "set"
      BY <2>1, <2>9, <3>2
    <3>3. CASE c = "remove"
      BY <2>1, <2>9, <3>3
    <3>4. QED  BY <2>6, <3>1, <3>2, <3>3
  <2>10. ASSUME NEW c \in cs, c # "remove", NEW p \in of[c] PROVE Calls(m)[c].vals[p] = m.val[p]
    <3>1. PICK vals : vals = [q \in of[c] |-> IF c = "remove" THEN m.orig[q] ELSE m.val[q]]
      OBVIOUS
    <3>2. vals[p] = m.val[p]
      BY <2>10, <3>1
    <3>3. Calls(m)[c].vals = vals
      BY <2>5, <3>1
    <3>4. QED  BY <3>2, <3>3
  <2>11. ASSUME NEW p \in Props, NEW v, v \in m.orig[p], v \notin m.val[p]
         PROVE  \E c \in cs : Clears(c, Calls(m)[c].vals, p, v)
    <3>1. CASE m.val[p] = {}
      <4>1. p \in of["remove"] /\ "remove" \in cs
        BY <2>1, <2>2, <2>11, <3>1
      <4>2. Calls(m)["remove"].vals[p] = m.orig[p]
        BY <2>5, <4>1
      <4>3. QED
        BY <2>7, <2>11, <4>1, <4>2 DEF Clears
    <3>2. CASE m.val[p] # {}
      <4>1. p \in of["set"] /\ "set" \in cs
        BY <2>1, <2>2, <2>11, <3>2
      <4>2. Calls(m)["set"].vals[p] = m.val[p]
        BY <2>10, <4>1
      <4>3. QED
        BY <2>7, <2>11, <4>1, <4>2 DEF Clears
    <3>3. QED  BY <3>1, <3>2
  <2>12. \A c \in cs : /\ DOMAIN Calls(m)[c].vals \subseteq Props /\ Calls(m)[c].stage = "sent"
                       /\ \A d \in cs : DOMAIN Calls(m)[d].vals \cap DOMAIN Calls(m)[c].vals # {} => c = d
    BY <2>5, <2>7, <2>8
  <2>13. \A c \in cs : /\ c # "remove" => \A p \in DOMAIN Calls(m)[c].vals : Calls(m)[c].vals[p] = m.val[p]
                       /\ \A p \in DOMAIN Calls(m)[c].vals : m.val[p] # m.orig[p]
    BY <2>7, <2>9, <2>10
  <2>14. QED
    BY <1>2, <2>4, <2>11, <2>12, <2>13
<1>3. QED  BY <1>1, <1>2

LEMMA SaveNew ==
    ASSUME IInv, Careful, NInv, Save
    PROVE  NInv'
<1>1. /\ UNCHANGED <<db, executed, behind, item, get, flushes, local, offline, bounds, status>>
      /\ saves = <<>> /\ Ready /\ item.here
      /\ saves' = Append(saves, [val |-> item.val, calls |-> Calls(item)])
  BY DEF Save, serverVars, modelVars, Careful, Ready
<1>2. PICK save : save = [val |-> item.val, calls |-> Calls(item)]
  OBVIOUS
<1>3. saves' # <<>> /\ DOMAIN saves' = {1} /\ saves'[1] = save
  <2>1. One(saves') /\ DOMAIN saves' = {1} /\ saves'[1] = save
    BY <1>1, <1>2, AppendOne
  <2>2. QED
    BY <2>1
<1>4. save.val = item.val /\ save.calls = Calls(item)
  BY <1>2
<1>5. PageOK /\ CountsOK /\ DOMAIN item.val = Props /\ DOMAIN item.orig = Props
  BY DEF NInv, IInv, Shape
<1>6. item.isNew => \A p \in Props : item.orig[p] = {}
  BY <1>5 DEF PageOK
<1>7. /\ item.isNew => "put" \in DOMAIN save.calls
      /\ \A c \in DOMAIN save.calls :
           /\ DOMAIN save.calls[c].vals \subseteq Props /\ save.calls[c].stage = "sent"
           /\ \A d \in DOMAIN save.calls :
                  DOMAIN save.calls[d].vals \cap DOMAIN save.calls[c].vals # {} => c = d
           /\ c # "remove" => \A p \in DOMAIN save.calls[c].vals : save.calls[c].vals[p] = item.val[p]
           /\ \A p \in DOMAIN save.calls[c].vals : item.val[p] = item.orig[p] => item.val[p] = {}
      /\ \A p \in Props : \A v : v \in item.orig[p] /\ v \notin item.val[p]
             => \E c \in DOMAIN save.calls : Clears(c, save.calls[c].vals, p, v)
  BY <1>4, <1>5, <1>6, CallsTell
<1>8. PageOK' /\ Ready' = Ready
  BY <1>1, <1>3, <1>4, <1>5, <1>7 DEF PageOK, Ready
<1>9. CountsOK'
  BY <1>1, <1>5 DEF CountsOK
<1>10. From' = From /\ From \in Int
  BY <1>1, QueueForm DEF From
<1>11. Steady
  BY <1>1, <1>10, QueueForm, SteadyWhen
<1>12. /\ ~behind' => OlderGone'
       /\ \A p \in Props : \A w \in Own : <<p, w>> \in Safe' => w <= bounds'.edits
       /\ \A p, vals : NewestOf(p, vals) => NewestOf(p, vals)'
  BY <1>11, SteadyKeeps
<1>13. ModelNew'
  BY <1>3, <1>12 DEF ModelNew
<1>14. CallsNew'
  <2>1. ASSUME NEW c \in DOMAIN save.calls, NEW p \in DOMAIN save.calls[c].vals
        PROVE  NewestOf(p, save.val[p])'
    <3>1. PICK x : x = item.val[p]
      OBVIOUS
    <3>2. CASE x # item.orig[p]
      <4>1. p \in Props
        BY <1>7, <2>1
      <4>2. NewestOf(p, x)
        BY <1>1, <3>1, <3>2, <4>1 DEF NInv, ModelNew
      <4>3. QED
        BY <1>4, <1>12, <3>1, <4>2
    <3>3. CASE x = item.orig[p]
      BY <1>4, <1>7, <2>1, <3>1, <3>3 DEF NewestOf
    <3>4. QED  BY <3>2, <3>3
  <2>2. \A c \in DOMAIN save.calls :
           /\ DOMAIN save.calls[c].vals \subseteq Props
           /\ \A d \in DOMAIN save.calls :
                  DOMAIN save.calls[d].vals \cap DOMAIN save.calls[c].vals # {} => c = d
           /\ c # "remove" => \A p \in DOMAIN save.calls[c].vals :
                  save.calls[c].vals[p] = save.val[p] /\ NewestOf(p, save.val[p])'
    BY <1>4, <1>7, <2>1
  <2>3. QED
    BY <1>3, <2>2 DEF CallsNew
<1>15. OthersGone'
  BY <1>3 DEF OthersGone
<1>16. ASSUME ~behind' PROVE SavesGone'
  <2>1. OwnIn(save.val) \subseteq OwnIn(item'.val)
    BY <1>1, <1>4
  <2>2. ASSUME NEW p \in Props, NEW v \in Own, v \notin save.val[p]
        PROVE  (Gone(p, v) \/ WillClear(1, p, v))'
    <3>1. CASE v \in item.orig[p]
      <4>1. PICK c \in DOMAIN save.calls : Clears(c, save.calls[c].vals, p, v)
        BY <1>4, <1>7, <2>2, <3>1
      <4>2. save.calls[c].stage \notin {"executed", "done"}
        BY <1>7
      <4>3. QED
        BY <1>3, <4>1, <4>2 DEF WillClear
    <3>2. CASE v \notin item.orig[p]
      BY <1>1, <1>11, <1>16, <3>2 DEF NInv, OthersGone, Steady
    <3>3. QED  BY <3>1, <3>2
  <2>3. QED
    BY <1>3, <2>1, <2>2 DEF SavesGone
<1>17. QED
  BY <1>8, <1>9, <1>12, <1>13, <1>14, <1>15, <1>16 DEF NInv

-----------------------------------------------------------------------------
(* The steps of the calls.                                                 *)

LEMMA NotEmpty == \A s : DOMAIN s = {1} => s # <<>>
OBVIOUS

(* A call of the save is executed or queued: its edits are the newest, and *)
(* what it takes away is gone.                                             *)
LEMMA CallCounts ==
    ASSUME IInv, NInv, PageOK', CountsOK', UNCHANGED <<item, bounds, behind>>,
           NEW c \in DOMAIN saves[1].calls, NEW stage, NEW seen, Moved(c, stage, seen),
           NEW vals, vals = saves[1].calls[c].vals,
           Safe' = Safe \cup (IF c = "remove" THEN {} ELSE OwnIn(vals)),
           \A p \in Props : \A v \in Own :
               Clears(c, vals, p, v) \/ (Gone(p, v) /\ ~Brings(c, vals, p, v)) => Gone(p, v)'
    PROVE  NInv'
<1>1. /\ 1 \in DOMAIN saves /\ DOMAIN saves' = {1} /\ saves'[1].val = saves[1].val /\ saves' # <<>>
      /\ DOMAIN saves'[1].calls = DOMAIN saves[1].calls
      /\ \A d \in DOMAIN saves[1].calls :
             saves'[1].calls[d].vals = saves[1].calls[d].vals /\ (d # c => saves'[1].calls[d] = saves[1].calls[d])
  BY DEF Moved
<1>2. CallsNew /\ ModelNew
  BY DEF NInv
<1>3. /\ DOMAIN vals \subseteq Props
      /\ \A d \in DOMAIN saves[1].calls : DOMAIN saves[1].calls[d].vals \cap DOMAIN vals # {} => c = d
      /\ c # "remove" => \A p \in DOMAIN vals : vals[p] = saves[1].val[p] /\ NewestOf(p, saves[1].val[p])
  BY <1>1, <1>2 DEF CallsNew
<1>4. \A w \in Own : w \in Int
  BY DEF Own
<1>5. ASSUME NEW p \in Props, NEW w \in Own, <<p, w>> \in Safe', <<p, w>> \notin Safe
      PROVE  c # "remove" /\ p \in DOMAIN vals /\ vals[p] = {w} /\ Newest(p, w)
  <2>1. c # "remove" /\ <<p, w>> \in OwnIn(vals)
    BY <1>5
  <2>2. p \in DOMAIN vals /\ w \in vals[p]
    BY <2>1, InOwn
  <2>3. NewestOf(p, vals[p])
    BY <1>3, <2>1, <2>2
  <2>4. PICK v \in Own : vals[p] = {v} /\ Newest(p, v)
    BY <2>2, <2>3 DEF NewestOf
  <2>5. QED
    BY <2>1, <2>2, <2>4
<1>6. \A p \in Props : \A w \in Own : <<p, w>> \in Safe' => w <= bounds'.edits
  BY <1>2, <1>5 DEF ModelNew, Newest
<1>7. ModelNew'
  BY <1>1, <1>6 DEF ModelNew
<1>8. ASSUME NEW d \in DOMAIN saves[1].calls, d # "remove", NEW p \in DOMAIN saves[1].calls[d].vals
      PROVE  NewestOf(p, saves[1].val[p])'
  <2>1. p \in Props /\ saves[1].calls[d].vals[p] = saves[1].val[p] /\ NewestOf(p, saves[1].val[p])
    BY <1>1, <1>2, <1>8 DEF CallsNew
  <2>2. CASE saves[1].val[p] = {}
    BY <1>1, <2>2 DEF NewestOf
  <2>3. CASE saves[1].val[p] # {}
    <3>1. PICK v \in Own : saves[1].val[p] = {v} /\ Newest(p, v)
      BY <2>1, <2>3 DEF NewestOf
    <3>2. ASSUME NEW w \in Own, <<p, w>> \in Safe' PROVE w <= v
      <4>1. CASE <<p, w>> \in Safe
        BY <3>1, <3>2, <4>1 DEF Newest
      <4>2. CASE <<p, w>> \notin Safe
        <5>1. c # "remove" /\ p \in DOMAIN vals /\ vals[p] = {w}
          BY <1>5, <2>1, <3>2, <4>2
        <5>2. vals[p] = saves[1].val[p]
          BY <1>3, <5>1
        <5>3. QED
          BY <1>4, <3>1, <5>1, <5>2
      <4>3. QED  BY <4>1, <4>2
    <3>3. Newest(p, v)'
      BY <3>1, <3>2 DEF Newest
    <3>4. QED
      BY <1>1, <3>1, <3>3 DEF NewestOf
  <2>4. QED  BY <2>2, <2>3
<1>9. CallsNew'
  BY <1>1, <1>2, <1>8 DEF CallsNew
<1>10. OthersGone'
  BY <1>1 DEF OthersGone
<1>11. ASSUME ~behind' PROVE OlderGone' /\ SavesGone'
  <2>1. OlderGone /\ SavesGone
    BY <1>11 DEF NInv
  <2>2. ASSUME NEW p \in Props, NEW v \in Own, v \notin saves[1].val[p]
        PROVE  Gone(p, v)' \/ \E d \in DOMAIN saves[1].calls :
                   /\ d # c /\ Clears(d, saves[1].calls[d].vals, p, v)
                   /\ saves[1].calls[d].stage \notin {"executed", "done"}
    <3>1. ~Brings(c, vals, p, v)
      BY <1>3, <2>2 DEF Brings
    <3>2. Gone(p, v) \/ WillClear(1, p, v)
      BY <1>1, <2>1, <2>2 DEF SavesGone
    <3>3. CASE Gone(p, v)
      BY <3>1, <3>3
    <3>4. CASE WillClear(1, p, v)
      <4>1. PICK d \in DOMAIN saves[1].calls :
                Clears(d, saves[1].calls[d].vals, p, v) /\ saves[1].calls[d].stage \notin {"executed", "done"}
        BY <3>4 DEF WillClear
      <4>2. CASE d = c
        BY <4>1, <4>2
      <4>3. CASE d # c
        BY <4>1, <4>3
      <4>4. QED  BY <4>2, <4>3
    <3>5. QED  BY <3>2, <3>3, <3>4
  <2>3. ASSUME NEW p \in Props, NEW v \in Own, v \notin saves[1].val[p]
        PROVE  (Gone(p, v) \/ WillClear(1, p, v))'
    BY <1>1, <2>2, <2>3 DEF WillClear
  <2>4. OwnIn(saves'[1].val) \subseteq OwnIn(item'.val)
    BY <1>1, <2>1 DEF SavesGone
  <2>5. SavesGone'
    BY <1>1, <2>3, <2>4 DEF SavesGone
  <2>6. ASSUME NEW p \in Props, NEW v \in Own, NEW w \in Own, v < w, <<p, w>> \in Safe'
        PROVE  Gone(p, v)'
    <3>1. CASE <<p, w>> \in Safe
      <4>1. Gone(p, v)
        BY <2>1, <2>6, <3>1 DEF OlderGone
      <4>2. ~Brings(c, vals, p, v)
        <5>1. SUFFICES ASSUME p \in DOMAIN vals, c # "remove", v \in vals[p] PROVE FALSE
          BY DEF Brings
        <5>2. PICK x \in Own : vals[p] = {x} /\ Newest(p, x)
          BY <1>3, <5>1 DEF NewestOf
        <5>3. w <= v
          BY <3>1, <5>1, <5>2 DEF Newest
        <5>4. QED
          BY <1>4, <2>6, <5>3
      <4>3. QED  BY <4>1, <4>2
    <3>2. CASE <<p, w>> \notin Safe
      <4>1. c # "remove" /\ p \in DOMAIN vals /\ vals[p] = {w}
        BY <1>5, <2>6, <3>2
      <4>2. v \notin saves[1].val[p]
        BY <1>3, <1>4, <2>6, <4>1
      <4>3. \A d \in DOMAIN saves[1].calls : Clears(d, saves[1].calls[d].vals, p, v) => d = c
        BY <1>3, <4>1 DEF Clears
      <4>4. QED
        BY <2>2, <4>2, <4>3
    <3>3. QED  BY <3>1, <3>2
  <2>7. OlderGone'
    BY <2>6 DEF OlderGone
  <2>8. QED  BY <2>5, <2>7
<1>12. QED
  BY <1>7, <1>9, <1>10, <1>11 DEF NInv

LEMMA CallExecutedNew ==
    ASSUME IInv, NInv, NEW i \in DOMAIN saves, NEW c \in DOMAIN saves[i].calls, CallExecuted(i, c)
    PROVE  NInv'
<1>1. /\ UNCHANGED <<behind, item, get, flushes, local, offline, status, bounds>> /\ line
      /\ To(i, c, "executed") /\ Execute(c, saves[i].calls[c].vals)
  BY DEF CallExecuted, Execute, modelVars
<1>2. i = 1 /\ DOMAIN saves = {1} /\ Moved(c, "executed", saves[1].calls[c].seen) /\ c \in DOMAIN saves[1].calls
  BY <1>1, CallMoves DEF IInv
<1>3. PICK vals : vals = saves[1].calls[c].vals
  OBVIOUS
<1>4. /\ db' = Applied(db, c, vals)
      /\ executed' = executed \cup (IF c = "remove" THEN {} ELSE OwnIn(vals))
  BY <1>1, <1>2, <1>3 DEF Execute
<1>5. saves # <<>>
  BY <1>2, NotEmpty
<1>6. offline = <<>> /\ DOMAIN offline = {}
  BY <1>1, <1>5 DEF IInv, Separate
<1>7. Safe' = Safe \cup (IF c = "remove" THEN {} ELSE OwnIn(vals))
  <2>1. OwnQueued' = OwnQueued
    BY <1>1 DEF OwnQueued
  <2>2. QED
    BY <1>4, <2>1 DEF Safe
<1>8. ASSUME NEW p \in Props, NEW v \in Own, Clears(c, vals, p, v) \/ (Gone(p, v) /\ ~Brings(c, vals, p, v))
      PROVE  Gone(p, v)'
  <2>1. ~Brings(c, vals, p, v)
    BY <1>8 DEF Clears, Brings
  <2>2. v \in db'.val[p] => v \in db.val[p] /\ ~Clears(c, vals, p, v)
    BY <1>4, <2>1, AppliedTells
  <2>3. Gone(p, v) => v \notin db.val[p]
    BY <1>6 DEF Gone, ClearedFrom
  <2>4. v \notin db'.val[p]
    BY <1>8, <2>2, <2>3
  <2>5. QED
    BY <1>1, <1>6, <2>4 DEF Gone
<1>9. db'.count \in Nat /\ db'.count # 0
  BY <1>4 DEF Applied, Rec, NInv, CountsOK
<1>10. PageOK' /\ CountsOK'
  BY <1>1, <1>2, <1>5, <1>9, FormsSame DEF NInv, Moved
<1>11. QED
  BY <1>1, <1>2, <1>3, <1>7, <1>8, <1>10, CallCounts

LEMMA EnqueuePutsNew ==
    ASSUME IInv, NInv, NEW i \in DOMAIN saves, NEW c \in DOMAIN saves[i].calls, EnqueuePuts(i, c)
    PROVE  NInv'
<1>1. /\ UNCHANGED <<db, executed, behind, item, get, flushes, local, status, bounds>>
      /\ CallAt(i, c, "got") /\ To(i, c, "done")
      /\ offline' = Append(saves[i].calls[c].seen, [cmd |-> c, vals |-> saves[i].calls[c].vals])
  BY DEF EnqueuePuts, serverVars, modelVars
<1>2. i = 1 /\ DOMAIN saves = {1} /\ Moved(c, "done", saves[1].calls[c].seen) /\ c \in DOMAIN saves[1].calls
  BY <1>1, CallMoves DEF IInv
<1>3. PICK vals : vals = saves[1].calls[c].vals
  OBVIOUS
<1>4. PICK call : call = [cmd |-> c, vals |-> vals]
  OBVIOUS
<1>5. saves[1].calls[c].seen = offline
  BY <1>1, <1>2 DEF IInv, OneEnqueues, CallAt
<1>6. offline' = Append(offline, call)
  BY <1>1, <1>2, <1>3, <1>4, <1>5
<1>7. PICK S : offline \in Seq(S)
  BY DEF IInv, Lists
<1>8. PICK n : n = Len(offline)
  OBVIOUS
<1>9. /\ n \in Nat /\ DOMAIN offline = 1 .. n /\ DOMAIN offline' = 1 .. n + 1 /\ offline'[n + 1] = call
      /\ \A k \in 1 .. n : offline'[k] = offline[k]
  BY <1>6, <1>7, <1>8
<1>10. call.cmd = c /\ call.vals = vals
  BY <1>4
<1>11. saves # <<>> /\ flushes = <<>> /\ flushes' = <<>>
  <2>1. saves # <<>>
    BY <1>2, NotEmpty
  <2>2. QED
    BY <1>1, <2>1 DEF IInv, Separate
<1>12. From = 1 /\ From' = 1
  BY <1>11 DEF From
<1>13. Safe' = Safe \cup (IF c = "remove" THEN {} ELSE OwnIn(vals))
  <2>1. \A x : x \in OwnQueued <=> \E k \in 1 .. n : offline[k].cmd # "remove" /\ x \in OwnIn(offline[k].vals)
    BY <1>9 DEF OwnQueued
  <2>2. \A x : x \in OwnQueued' <=>
                   \E k \in 1 .. n + 1 : offline'[k].cmd # "remove" /\ x \in OwnIn(offline'[k].vals)
    BY <1>9 DEF OwnQueued
  <2>3. \A k : k \in 1 .. n + 1 <=> k \in 1 .. n \/ k = n + 1
    BY <1>9
  <2>4. \A x : x \in OwnQueued' <=> x \in OwnQueued \/ (c # "remove" /\ x \in OwnIn(vals))
    BY <1>9, <1>10, <2>1, <2>2, <2>3
  <2>5. QED
    BY <1>1, <2>4 DEF Safe
<1>14. ASSUME NEW p \in Props, NEW v \in Own, Clears(c, vals, p, v) \/ (Gone(p, v) /\ ~Brings(c, vals, p, v))
       PROVE  Gone(p, v)'
  <2>1. ~Brings(c, vals, p, v)
    BY <1>14 DEF Clears, Brings
  <2>2. ASSUME NEW k \in 1 .. n + 1, ClearedFrom(p, v, k) PROVE ClearedFrom(p, v, k)'
    BY <1>9, <2>2 DEF ClearedFrom
  <2>3. ASSUME NEW k \in 1 .. n + 1, Clears(c, vals, p, v) PROVE ClearedFrom(p, v, k)'
    <3>1. n + 1 \in DOMAIN offline' /\ n + 1 >= k
      BY <1>9
    <3>2. QED
      BY <1>9, <1>10, <2>3, <3>1 DEF ClearedFrom
  <2>4. v \in db'.val[p] => ClearedFrom(p, v, 1)'
    BY <1>1, <1>9, <1>12, <1>14, <2>2, <2>3 DEF Gone
  <2>5. ASSUME NEW k \in 1 .. n + 1, Brings(offline'[k].cmd, offline'[k].vals, p, v)
        PROVE  ClearedFrom(p, v, k + 1)'
    <3>1. k \in 1 .. n /\ offline'[k] = offline[k]
      BY <1>9, <1>10, <2>1, <2>5
    <3>2. k + 1 \in 1 .. n + 1
      BY <1>9, <3>1
    <3>3. Clears(c, vals, p, v) \/ ClearedFrom(p, v, k + 1)
      BY <1>9, <1>14, <2>5, <3>1 DEF Gone
    <3>4. QED
      BY <2>2, <2>3, <3>2, <3>3
  <2>6. QED
    BY <1>9, <1>12, <2>4, <2>5 DEF Gone
<1>15. PageOK' /\ CountsOK'
  BY <1>1, <1>2, <1>11, FormsSame DEF NInv, Moved
<1>16. QED
  BY <1>1, <1>2, <1>3, <1>13, <1>14, <1>15, CallCounts

(* A call is answered or fails, or the queue is read for it.               *)
LEMMA CallMovesQuiet ==
    ASSUME IInv, NInv, NEW i \in DOMAIN saves, NEW c \in DOMAIN saves[i].calls,
           CallReturned(i, c) \/ CallFails(i, c) \/ EnqueueGets(i, c)
    PROVE  NInv'
<1>1. UNCHANGED <<db, executed, behind, item, get, flushes, local, offline, bounds>>
  BY DEF CallReturned, CallFails, EnqueueGets, serverVars, modelVars
<1>2. PICK stage : /\ (stage = "done" /\ CallAt(i, c, "executed")) \/ stage \in {"failed", "got"}
                   /\ \/ To(i, c, stage)
                      \/ saves' = [saves EXCEPT ![i].calls[c].stage = stage, ![i].calls[c].seen = offline]
  BY DEF CallReturned, CallFails, EnqueueGets
<1>3. i = 1 /\ DOMAIN saves = {1} /\ c \in DOMAIN saves[1].calls
  BY CallMoves DEF IInv
<1>4. PICK seen : Moved(c, stage, seen)
  BY <1>2, CallMoves DEF IInv
<1>5. saves # <<>> /\ saves' # <<>>
  BY <1>3, <1>4 DEF Moved
<1>6. DOMAIN status' = DOMAIN status /\ status'.once = status.once
  BY DEF CallReturned, CallFails, EnqueueGets, GoOffline, NInv, PageOK
<1>7. PageOK' /\ CountsOK'
  BY <1>1, <1>3, <1>4, <1>5, <1>6, FormsSame DEF NInv, Moved
<1>8. From' = From /\ From \in Int
  BY <1>1, QueueForm DEF From
<1>9. Steady
  BY <1>1, <1>8, QueueForm, SteadyWhen
<1>10. /\ ~behind' => OlderGone'
       /\ \A p \in Props : \A w \in Own : <<p, w>> \in Safe' => w <= bounds'.edits
       /\ \A p, vals : NewestOf(p, vals) => NewestOf(p, vals)'
  BY <1>9, SteadyKeeps
<1>11. ModelNew' /\ OthersGone'
  BY <1>5, <1>10 DEF ModelNew, OthersGone
<1>12. CallsNew'
  BY <1>3, <1>4, <1>10 DEF NInv, CallsNew, Moved
<1>13. \A p, v : WillClear(1, p, v) => WillClear(1, p, v)'
  BY <1>2, <1>3, <1>4 DEF WillClear, Moved, CallAt
<1>14. ~behind' => SavesGone'
  BY <1>1, <1>3, <1>4, <1>9, <1>13 DEF NInv, SavesGone, Moved, Steady
<1>15. QED
  BY <1>7, <1>10, <1>11, <1>12, <1>14 DEF NInv

(* The save ends: the model shows what was saved, and what it does not     *)
(* show is gone.                                                           *)
LEMMA SaveDoneNew ==
    ASSUME IInv, NInv, NEW i \in DOMAIN saves, SaveDone(i)
    PROVE  NInv'
<1>1. /\ UNCHANGED <<db, executed, behind, get, flushes, offline, status, bounds>>
      /\ \A c \in DOMAIN saves[i].calls : CallAt(i, c, "done")
      /\ item' = [item EXCEPT !.orig = item.val, !.isNew = FALSE, !.isSync = TRUE, !.isLoaded = TRUE]
      /\ local' = IF "put" \in DOMAIN saves[i].calls THEN Rec(item.count, item.val) ELSE local
      /\ saves' = RemoveAt(saves, i)
  BY DEF SaveDone, serverVars
<1>2. saves' = <<>>
  <2>1. One(saves)
    BY DEF IInv, Lists
  <2>2. QED
    BY <1>1, <2>1, RemoveOne
<1>3. DOMAIN item = Fields /\ DOMAIN item.val = Props /\ DOMAIN saves[i].val = Props /\ PageOK /\ CountsOK
  BY DEF IInv, Shape, NInv
<1>4. /\ item'.val = item.val /\ item'.orig = item.val /\ item'.here = item.here /\ item'.count = item.count
      /\ item'.isNew = FALSE /\ item'.isLoaded = TRUE
  BY <1>1, <1>3 DEF Fields
<1>5. item.here /\ Ready /\ (item.isNew => "put" \in DOMAIN saves[i].calls)
  BY <1>3 DEF PageOK
<1>6. local'.count \in Nat
  <2>1. CASE "put" \in DOMAIN saves[i].calls
    BY <1>1, <1>3, <2>1 DEF Rec, CountsOK
  <2>2. CASE "put" \notin DOMAIN saves[i].calls
    BY <1>1, <1>3, <1>5, <2>2 DEF Ready, CountsOK
  <2>3. QED  BY <2>1, <2>2
<1>7. PageOK'
  BY <1>1, <1>2, <1>3, <1>4, <1>5 DEF PageOK
<1>8. CountsOK'
  BY <1>1, <1>3, <1>4, <1>6 DEF CountsOK
<1>9. From' = From /\ From \in Int
  BY <1>1, QueueForm DEF From
<1>10. Steady
  BY <1>1, <1>9, QueueForm, SteadyWhen
<1>11. /\ ~behind' => OlderGone'
       /\ \A p \in Props : \A w \in Own : <<p, w>> \in Safe' => w <= bounds'.edits
  BY <1>10, SteadyKeeps
<1>12. ModelNew' /\ CallsNew' /\ SavesGone'
  BY <1>2, <1>4, <1>11 DEF ModelNew, CallsNew, SavesGone
<1>13. ASSUME ~behind', NEW p \in Props, NEW v \in Own, v \notin item.val[p]
       PROVE  Gone(p, v)'
  <2>1. SavesGone
    BY <1>10, <1>13 DEF NInv, Steady
  <2>2. OwnIn(saves[i].val) \subseteq OwnIn(item.val)
    BY <2>1 DEF SavesGone
  <2>3. v \notin saves[i].val[p]
    <3>1. <<p, v>> \in OwnIn(item.val) => v \in item.val[p]
      BY <1>3, InOwn
    <3>2. v \in saves[i].val[p] => <<p, v>> \in OwnIn(saves[i].val)
      BY <1>3, InOwn
    <3>3. QED
      BY <1>13, <2>2, <3>1, <3>2
  <2>4. ~WillClear(i, p, v)
    BY <1>1 DEF WillClear, CallAt
  <2>5. Gone(p, v)
    BY <2>1, <2>3, <2>4 DEF SavesGone
  <2>6. QED
    BY <1>10, <2>5 DEF Steady
<1>14. ~behind' => OthersGone'
  BY <1>4, <1>13 DEF OthersGone
<1>15. QED
  BY <1>7, <1>8, <1>11, <1>12, <1>14 DEF NInv

-----------------------------------------------------------------------------
(* The steps of the queue.                                                 *)

(* A call of the queue is executed: what it brings and what it does not    *)
(* take away is taken away by a later one.                                 *)
LEMMA FlushSendsKeeps ==
    ASSUME IInv, NInv, NEW f \in DOMAIN flushes, FlushSends(f)
    PROVE  NInv'
<1>1. /\ UNCHANGED <<behind, item, get, saves, local, offline, status, bounds>>
      /\ flushes[f].k <= Len(flushes[f].queue) /\ ~flushes[f].executed
      /\ flushes' = [flushes EXCEPT ![f].executed = TRUE]
  BY DEF FlushSends, modelVars
<1>2. PICK call : call = flushes[f].queue[flushes[f].k]
  OBVIOUS
<1>3. /\ db' = Applied(db, call.cmd, call.vals)
      /\ executed' = executed \cup (IF call.cmd = "remove" THEN {} ELSE OwnIn(call.vals))
  BY <1>2 DEF FlushSends, Execute
<1>4. /\ flushes # <<>> /\ One(flushes) /\ DOMAIN flushes = {1} /\ f = 1
      /\ flushes[1].queue = offline /\ flushes[1].k \in 1 .. Len(offline) + 1
      /\ Len(offline) \in Nat /\ DOMAIN offline = 1 .. Len(offline)
  BY QueueForm
<1>5. PICK k : k = flushes[1].k
  OBVIOUS
<1>6. k \in DOMAIN offline /\ k \in Nat /\ call = offline[k]
  BY <1>1, <1>2, <1>4, <1>5
<1>7. From = k
  BY <1>1, <1>4, <1>5 DEF From
<1>8. From' = k + 1
  <2>1. PICK flush : flush = [flushes[1] EXCEPT !.executed = TRUE]
    OBVIOUS
  <2>2. flushes' = [flushes EXCEPT ![1] = flush]
    BY <1>1, <1>4, <2>1
  <2>3. One(flushes') /\ DOMAIN flushes' = {1} /\ flushes'[1] = flush
    BY <1>4, <2>2, ReplaceOne
  <2>4. DOMAIN flushes[1] = {"queue", "k", "executed"}
    BY <1>4 DEF IInv, Shape
  <2>5. flush.k = k /\ flush.executed = TRUE
    BY <1>5, <2>1, <2>4
  <2>6. flushes' # <<>>
    BY <2>3, NotEmpty
  <2>7. QED
    BY <2>3, <2>5, <2>6 DEF From
<1>9. Safe' = Safe
  <2>1. OwnQueued' = OwnQueued
    BY <1>1 DEF OwnQueued
  <2>2. call.cmd # "remove" => OwnIn(call.vals) \subseteq OwnQueued
    BY <1>6 DEF OwnQueued
  <2>3. QED
    BY <1>3, <2>1, <2>2 DEF Safe
<1>10. ASSUME NEW p \in Props, NEW v \in Own, Gone(p, v) PROVE Gone(p, v)'
  <2>1. \A j : ClearedFrom(p, v, j)' = ClearedFrom(p, v, j)
    BY <1>1 DEF ClearedFrom
  <2>2. ASSUME v \in db'.val[p] PROVE ClearedFrom(p, v, k + 1)
    <3>1. CASE Brings(call.cmd, call.vals, p, v)
      BY <1>6, <1>10, <3>1 DEF Gone
    <3>2. CASE ~Brings(call.cmd, call.vals, p, v)
      <4>1. v \in db.val[p] /\ ~Clears(call.cmd, call.vals, p, v)
        BY <1>3, <2>2, <3>2, AppliedTells
      <4>2. PICK j \in DOMAIN offline : j >= k /\ Clears(offline[j].cmd, offline[j].vals, p, v)
        BY <1>7, <1>10, <4>1 DEF Gone, ClearedFrom
      <4>3. j # k
        BY <1>6, <4>1, <4>2
      <4>4. j >= k + 1
        BY <1>4, <1>6, <4>2, <4>3
      <4>5. QED
        BY <4>2, <4>4 DEF ClearedFrom
    <3>3. QED  BY <3>1, <3>2
  <2>3. v \in db'.val[p] => ClearedFrom(p, v, From)'
    BY <1>1, <1>8, <2>2 DEF ClearedFrom
  <2>4. \A j \in DOMAIN offline' :
            Brings(offline'[j].cmd, offline'[j].vals, p, v) => ClearedFrom(p, v, j + 1)'
    BY <1>1, <1>10, <2>1 DEF Gone
  <2>5. QED
    BY <2>3, <2>4 DEF Gone
<1>11. Steady
  BY <1>1, <1>9, <1>10 DEF Steady, IInv, Shape
<1>12. db'.count \in Nat /\ db'.count # 0
  BY <1>3 DEF Applied, Rec, NInv, CountsOK
<1>13. PageOK' /\ CountsOK'
  BY <1>1, <1>12, FormsSame DEF NInv
<1>14. Ready' = Ready
  BY <1>1 DEF Ready
<1>15. QED
  BY <1>1, <1>11, <1>13, <1>14, SteadySteps

LEMMA FlushMovesKeeps ==
    ASSUME IInv, NInv, NEW f \in DOMAIN flushes, FlushReturned(f) \/ FlushFails(f)
    PROVE  NInv'
<1>1. UNCHANGED <<db, executed, behind, item, get, saves, local, offline, bounds>>
  BY DEF FlushReturned, FlushFails, serverVars, modelVars
<1>2. /\ flushes # <<>> /\ One(flushes) /\ DOMAIN flushes = {1} /\ f = 1
      /\ flushes[1].k \in 1 .. Len(offline) + 1 /\ Len(offline) \in Nat /\ From \in Int /\ 1 <= From
  BY QueueForm
<1>3. From' \in Nat /\ From' <= From
  <2>1. CASE FlushReturned(f)
    <3>1. flushes[1].executed /\ flushes' = [flushes EXCEPT ![1].executed = FALSE, ![1].k = @ + 1]
      BY <1>2, <2>1 DEF FlushReturned
    <3>2. PICK flush : flush = [flushes[1] EXCEPT !.executed = FALSE, !.k = @ + 1]
      OBVIOUS
    <3>3. flushes' = [flushes EXCEPT ![1] = flush]
      BY <1>2, <3>1, <3>2
    <3>4. DOMAIN flushes' = {1} /\ flushes'[1] = flush
      BY <1>2, <3>3, ReplaceOne
    <3>5. DOMAIN flushes[1] = {"queue", "k", "executed"}
      BY <1>2 DEF IInv, Shape
    <3>6. flush.k = flushes[1].k + 1 /\ flush.executed = FALSE
      BY <3>2, <3>5
    <3>7. flushes' # <<>>
      BY <3>4, NotEmpty
    <3>8. From' = flushes[1].k + 1 /\ From = flushes[1].k + 1
      BY <1>2, <3>1, <3>4, <3>6, <3>7 DEF From
    <3>9. QED
      BY <1>2, <3>8
  <2>2. CASE FlushFails(f)
    <3>1. flushes' = <<>>
      BY <1>2, <2>2, RemoveOne DEF FlushFails
    <3>2. QED
      BY <1>2, <3>1 DEF From
  <2>3. QED  BY <2>1, <2>2
<1>4. Steady
  BY <1>1, <1>3, SteadyWhen
<1>5. DOMAIN status' = DOMAIN status /\ status'.once = status.once
  BY DEF FlushReturned, FlushFails, GoOffline, NInv, PageOK
<1>6. PageOK' /\ CountsOK'
  BY <1>1, <1>5, FormsSame DEF NInv
<1>7. Ready' = Ready
  BY <1>1 DEF Ready
<1>8. QED
  BY <1>1, <1>4, <1>6, <1>7, SteadySteps

(* When the queue is at its end, what is gone is not stored.               *)
LEMMA FlushDoneKeeps ==
    ASSUME IInv, NInv, NEW f \in DOMAIN flushes, FlushDone(f)
    PROVE  NInv'
<1>1. /\ UNCHANGED <<db, executed, behind, item, get, saves, local, status, bounds>>
      /\ flushes[f].k > Len(flushes[f].queue) /\ offline' = <<>>
  BY DEF FlushDone, serverVars, modelVars
<1>2. /\ flushes # <<>> /\ f = 1 /\ flushes[1].queue = offline /\ flushes[1].k \in 1 .. Len(offline) + 1
      /\ flushes[1].executed => flushes[1].k <= Len(offline)
      /\ Len(offline) \in Nat /\ DOMAIN offline = 1 .. Len(offline)
  BY QueueForm
<1>3. From = Len(offline) + 1
  BY <1>1, <1>2 DEF From
<1>4. OwnQueued' = {}
  BY <1>1 DEF OwnQueued
<1>5. Safe' \subseteq Safe
  BY <1>1, <1>4 DEF Safe
<1>6. ASSUME NEW p \in Props, NEW v \in Own, Gone(p, v) PROVE Gone(p, v)'
  <2>1. ~ClearedFrom(p, v, From)
    BY <1>2, <1>3 DEF ClearedFrom
  <2>2. v \notin db'.val[p]
    BY <1>1, <1>6, <2>1 DEF Gone
  <2>3. QED
    BY <1>1, <2>2 DEF Gone
<1>7. Steady
  BY <1>1, <1>5, <1>6 DEF Steady, IInv, Shape
<1>8. PageOK' /\ CountsOK'
  BY <1>1, FormsSame DEF NInv
<1>9. Ready' = Ready
  BY <1>1 DEF Ready
<1>10. QED
  BY <1>1, <1>7, <1>8, <1>9, SteadySteps

-----------------------------------------------------------------------------
(* Together.                                                               *)

LEMMA InitNew == Init => NInv
<1> SUFFICES ASSUME Init PROVE NInv
  OBVIOUS
<1>1. /\ item = NoItem /\ get = [load |-> Idle, reset |-> Idle] /\ saves = <<>> /\ offline = <<>>
      /\ executed = {} /\ behind = FALSE
      /\ status = [line |-> FALSE, ccus |-> FALSE, checking |-> FALSE, once |-> FALSE]
  BY DEF Init
<1>2. /\ item.val = Nothing /\ item.orig = Nothing /\ item.here = FALSE /\ item.count = 0
      /\ item.isNew = FALSE /\ item.isLoaded = FALSE
  BY <1>1 DEF NoItem
<1>3. get.load.stage = "none" /\ get.reset.stage = "none"
  BY <1>1 DEF Idle
<1>4. OwnIn(db.val) = {} /\ DOMAIN db.val = Props
  <2>1. OwnIn(db.val) \subseteq executed /\ DOMAIN db.val = Props
    BY InitSafe DEF IInv, CopiesSafe, Shape
  <2>2. QED
    BY <1>1, <2>1
<1>5. db.count \in {0, 1}
  BY DEF Init, Rec
<1>6. local = NoRec \/ local = db
  BY DEF Init
<1>7. ~Ready
  BY <1>2 DEF Ready
<1>8. PageOK
  BY <1>1, <1>2, <1>3, <1>7 DEF PageOK
<1>9. CountsOK
  BY <1>2, <1>3, <1>4, <1>5, <1>6 DEF CountsOK
<1>10. OwnQueued = {}
  BY <1>1 DEF OwnQueued
<1>11. Safe = {}
  BY <1>1, <1>10 DEF Safe
<1>12. ModelNew /\ CallsNew
  BY <1>1, <1>2, <1>11 DEF ModelNew, CallsNew
<1>13. OlderGone /\ OthersGone /\ SavesGone
  BY <1>1, <1>7, <1>11 DEF OlderGone, OthersGone, SavesGone
<1>14. QED
  BY <1>8, <1>9, <1>12, <1>13 DEF NInv

LEMMA StepNew == Careful /\ IInv /\ NInv /\ [Next]_vars => NInv'
<1> SUFFICES ASSUME Careful, IInv, NInv, [Next]_vars PROVE NInv'
  OBVIOUS
<1>1. CASE Requests
  BY <1>1, RequestQuiet, LoadQuiet, ResetQuiet DEF Requests
<1>2. ASSUME NEW i \in DOMAIN saves, SaveDone(i) PROVE NInv'
  BY <1>2, SaveDoneNew
<1>3. ASSUME NEW i \in DOMAIN saves, NEW c \in DOMAIN saves[i].calls, CallStep(i, c) PROVE NInv'
  BY <1>3, CallExecutedNew, CallMovesQuiet, EnqueuePutsNew DEF CallStep
<1>4. CASE Flushing
  BY <1>4, FlushSendsKeeps, FlushMovesKeeps, FlushDoneKeeps DEF Flushing
<1>5. CASE Ping \/ Notified \/ OtherWrite \/ Reload
  BY <1>5, PingQuiet, RequestQuiet, OtherWriteQuiet, ReloadQuiet
<1>6. CASE User
  BY <1>6, RequestQuiet, CreateNew, EditNew, SaveNew, QuietSteps DEF User
<1>7. CASE SocketOpened \/ SocketClosed \/ LineLost \/ LineBack \/ UNCHANGED vars
  BY <1>7, QuietSteps
<1>8. QED
  BY <1>1, <1>2, <1>3, <1>4, <1>5, <1>6, <1>7 DEF Next, Saving

(* Once every call is answered no edit is in place of a newer one that the *)
(* server has executed, whatever fails and however often the queue is      *)
(* executed from its beginning (backend.js:755-792), unless the model was  *)
(* taken from a copy without an edit on its way.                           *)
THEOREM NotUndoneHolds == ASSUME Careful PROVE Spec => []NotUndone
<1>1. NInv => NotUndone
  <2> SUFFICES ASSUME NInv, saves = <<>>, flushes = <<>>, offline = <<>>, ~behind,
                      NEW p \in Props, NEW v \in db.val[p] \cap Own, NEW w \in Own, <<p, w>> \in executed, v < w
               PROVE  FALSE
    BY DEF NotUndone
  <2>1. <<p, w>> \in Safe
    BY DEF Safe
  <2>2. Gone(p, v)
    BY <2>1 DEF NInv, OlderGone
  <2>3. QED
    BY <2>2 DEF Gone, ClearedFrom
<1>2. QED
  BY <1>1, InitSafe, InitNew, StepSafe, StepNew, PTL DEF Spec
=============================================================================
