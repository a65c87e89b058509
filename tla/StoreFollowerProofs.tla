------------------------- MODULE StoreFollowerProofs ------------------------
(***************************************************************************)
(* Theorems about veda-mstorage, and about a module that follows it        *)
(* through the queue, for every set of individuals, requests and faults    *)
(* and every number of deaths of either process.                           *)
(***************************************************************************)
EXTENDS StoreFollower, FiniteSetTheorems, TLAPS

Busy == {"backup", "push", "put_info", "remove"}
InChange == {"backup", "push"}

(* The item in work is one of the request.                                 *)
Placed ==
    /\ pc = "item" => Len(responses) <= Len(request)
    /\ pc \in Busy => Len(responses) < Len(request)
    /\ pc \in {"down", "recv"} => responses = <<>>

(* An operation id that was answered is saved, and the one in work is not. *)
OpIds ==
    /\ pc # "down" => info <= op_id
    /\ pc = "put_info" => info < op_id
    /\ \A a \in acks : a.op_id <= info
    /\ \A i \in DOMAIN responses : responses[i].res = "ok" => responses[i].op_id <= info
    /\ AckedOpIdUnique
    /\ \A i, j \in DOMAIN responses :
          /\ responses[i].res = "ok" /\ responses[j].res = "ok"
          /\ responses[i].op_id = responses[j].op_id
          => i = j
    /\ \A i \in DOMAIN responses, a \in acks :
          responses[i].res = "ok" => responses[i].op_id # a.op_id

(* What an answer tells is what its element in the queue says.             *)
Told(r) ==
    r.pos > 0 =>
        /\ r.pos \in DOMAIN log
        /\ log[r.pos].id = r.id /\ log[r.pos].op_id = r.op_id /\ log[r.pos].n = r.n

AnswersTold ==
    /\ \A a \in acks : Told(a)
    /\ \A i \in DOMAIN responses : responses[i].res = "ok" => Told(responses[i])
    /\ pc \in InChange => cur.pos = 0
    /\ pc = "put_info" => Told(Response(current.id, "ok", op_id, cur.n, cur.pos))

(* Every individual the queue tells of has a last element there.           *)
LastPlaced ==
    \A id \in Ids : \A k \in 0 .. Len(log) :
        Positions(id, k) # {} =>
            \E j \in Positions(id, k) : \A i \in Positions(id, k) : i <= j

(* The queue tells the state of each individual without a gap, but for the *)
(* change that is on its way, whose previous state it tells.               *)
Tells ==
    \A id \in Ids \ gaps :
        IF pc \in InChange /\ id = current.id
        THEN /\ cur.new = db[id]
             /\ cur.cmd = "put" => LastTold(id, Len(log)) = cur.prev
        ELSE LastTold(id, Len(log)) = db[id]

(* The backup database follows, but for the individual just stored.        *)
Backs ==
    UseBackup /\ "backup" \notin Faults =>
        \A id \in Ids \ gaps :
            (pc = "backup" /\ id = current.id) \/ backup[id] = db[id]

(* Answers that were lost on publishing: at most one for each run of the   *)
(* process, because after it the queue takes no more pushes.               *)
LostAcks == {a \in acks : a.pos = 0}
IsLost(i) == responses[i].res = "ok" /\ responses[i].pos = 0
LosingNow == pc = "put_info" /\ cur.pos = 0
Losing == LosingNow \/ \E i \in DOMAIN responses : IsLost(i)

LostBound ==
    /\ IsFiniteSet(LostAcks)
    /\ Cardinality(LostAcks) <= crashes + (IF pc = "down" \/ q_ready THEN 0 ELSE 1)
    /\ Losing => ~q_ready /\ pc # "down" /\ Cardinality(LostAcks) <= crashes
    /\ \A i, j \in DOMAIN responses : IsLost(i) /\ IsLost(j) => i = j
    /\ LosingNow => \A i \in DOMAIN responses : ~IsLost(i)
    /\ "publish" \notin Faults => LostAcks = {} /\ ~Losing

IInv ==
    /\ TypeOK /\ Placed
    /\ OpIds /\ AnswersTold
    /\ LastPlaced /\ Tells /\ ChainUnbroken
    /\ Backs
    /\ LostBound

-----------------------------------------------------------------------------
(* Types of what the actions write.                                        *)
LEMMA CurrentItem ==
    ASSUME TypeOK, Placed, pc \in Busy \/ Working
    PROVE  current \in Item
<1>1. Len(responses) < Len(request)  BY DEF Placed, Working
<1>2. Len(responses) \in Nat /\ Len(request) \in Nat  BY DEF TypeOK
<1>3. Len(responses) + 1 \in DOMAIN request  BY <1>1, <1>2 DEF TypeOK
<1> QED  BY <1>3 DEF TypeOK, current

(* A command makes an individual of an individual.                         *)
LEMMA AppliedType ==
    ASSUME NEW item \in Item, NEW prev \in Indv
    PROVE  Applied(item, prev) \in Indv
BY DEF Applied, Item, Indv, Updates, Cmds

(* No individual reads as an empty one, and no change as an empty put.     *)
LEMMA NoneTypes == NoIndv \in Indv /\ NoChange.cmd = "put" /\ NoChange.pos = 0
                   /\ NoChange \in [cmd : {"put", "remove"}, new : Indv, prev : Indv, n : Nat, pos : Nat]
BY DEF NoIndv, NoChange, Change, Indv

(* An answer is of the response type and gives the item back.              *)
LEMMA AnswerType ==
    ASSUME TypeOK, Placed, pc \in Busy \/ Working,
           NEW res \in {"ok", "fail"}, NEW op \in Ops, NEW n \in Ops, NEW pos \in Nat,
           Answer(res, op, n, pos)
    PROVE  /\ responses' \in Seq(ResponseType)
           /\ Len(responses') = Len(responses) + 1
           /\ cur' = NoChange /\ pc' = "item"
<1>1. current \in Item  BY CurrentItem
<1>2. Response(current.id, res, op, n, pos) \in ResponseType
  BY <1>1 DEF Response, ResponseType, Item
<1> QED  BY <1>2 DEF Answer, TypeOK

(* The state the process starts from: nothing stored, nothing queued.      *)
LEMMA InitInv == Init => IInv
<1> SUFFICES ASSUME Init PROVE IInv  OBVIOUS
<1>1. TypeOK
  <2>1. db \in [Ids -> Indv] /\ backup \in [Ids -> Indv]  BY NoneTypes DEF Init
  <2>2. \A S : <<>> \in Seq(S)  OBVIOUS
  <2>3. 0 \in 0 .. MaxCrash  BY StoreBounds
  <2> QED  BY <2>1, <2>2, <2>3, NoneTypes DEF Init, TypeOK
<1>2. Placed /\ OpIds /\ AnswersTold
  BY DEF Init, Placed, Busy, InChange, OpIds, AckedOpIdUnique, AnswersTold, Told
<1>3. LastPlaced /\ Tells
  BY DEF Init, LastPlaced, Tells, LastTold, Positions, InChange
<1>4. ChainUnbroken /\ Backs  BY DEF Init, ChainUnbroken, Backs
<1>5. LostBound
  <2>1. LostAcks = {}  BY DEF Init, LostAcks
  <2>2. IsFiniteSet(LostAcks) /\ Cardinality(LostAcks) = 0  BY <2>1, FS_EmptySet
  <2> QED  BY <2>1, <2>2 DEF Init, LostBound, Losing, LosingNow, IsLost
<1> QED  BY <1>1, <1>2, <1>3, <1>4, <1>5 DEF IInv

(* Every action keeps the types and the place of the item in work.         *)
LEMMA TypeInv == TypeOK /\ Placed /\ Next => TypeOK' /\ Placed'
<1> SUFFICES ASSUME TypeOK, Placed, Next PROVE TypeOK' /\ Placed'  OBVIOUS
<1> USE DEF Busy
<1>0. Len(responses) \in Nat /\ Len(request) \in Nat  BY DEF TypeOK
<1>1. CASE Start
  BY <1>1 DEF Start, storeVars, countVars, historyVars, TypeOK, Placed
<1>2. CASE Receive
  <2>1. PICK r \in Requests : request' = r /\ received' = received + Len(r)
    BY <1>2 DEF Receive
  <2>2. r \in Seq(Item) /\ Len(r) \in Nat  BY RequestsAssumption
  <2>3. received' \in Nat  BY <2>1, <2>2 DEF TypeOK
  <2>4. responses' \in Seq(ResponseType) /\ Len(responses') = 0  BY <1>2 DEF Receive
  <2>5. TypeOK'
    BY <1>2, <2>1, <2>2, <2>3, <2>4 DEF Receive, storeVars, historyVars, TypeOK
  <2> QED  BY <1>2, <2>1, <2>2, <2>4, <2>5 DEF Receive, Placed
<1>3. CASE RefuseItem
  <2>1. Answer("fail", -1, -1, 0) /\ Working  BY <1>3 DEF RefuseItem, Fail
  <2>2. /\ responses' \in Seq(ResponseType) /\ Len(responses') = Len(responses) + 1
        /\ cur' = NoChange /\ pc' = "item"
    BY <2>1, AnswerType DEF Ops
  <2>3. TypeOK'
    BY <1>3, <2>2, NoneTypes DEF RefuseItem, storeVars, countVars, historyVars, TypeOK
  <2> QED  BY <1>0, <1>3, <2>1, <2>2, <2>3 DEF RefuseItem, Placed, Working
<1>4. CASE Store
  <2> DEFINE new == Applied(current, db[current.id])
  <2>1. current \in Item  BY <1>4, CurrentItem DEF Store
  <2>2. current.id \in Ids /\ db[current.id] \in Indv  BY <2>1 DEF Item, TypeOK
  <2>3. new \in Indv  BY <2>1, <2>2, AppliedType
  <2>4. db' = [db EXCEPT ![current.id] = new] /\ cur' = Change("put", new, db[current.id], new.n)
    BY <1>4 DEF Store
  <2> HIDE DEF new
  <2>5. db' \in [Ids -> Indv]  BY <2>3, <2>4 DEF TypeOK
  <2>6. cur' \in [cmd : {"put", "remove"}, new : Indv, prev : Indv, n : Nat, pos : Nat]
    BY <2>2, <2>3, <2>4 DEF Change, Indv
  <2>7. TypeOK'  BY <1>4, <2>5, <2>6 DEF Store, countVars, historyVars, TypeOK
  <2> QED  BY <1>4, <2>7 DEF Store, Working, Placed
<1>5. CASE Remove
  <2>1. current.id \in Ids  BY <1>5, CurrentItem DEF Remove, Item
  <2>2. db' \in [Ids -> Indv]  BY <1>5, <2>1, NoneTypes DEF Remove, TypeOK
  <2>3. cur.n \in Nat  BY DEF TypeOK
  <2>4. cur' \in [cmd : {"put", "remove"}, new : Indv, prev : Indv, n : Nat, pos : Nat]
    BY <1>5, <2>3, NoneTypes DEF Remove, Change
  <2>5. TypeOK'  BY <1>5, <2>2, <2>4 DEF Remove, countVars, historyVars, TypeOK
  <2> QED  BY <1>5, <2>5 DEF Remove, Placed
<1>6. CASE StoreFails
  <2>1. Answer("fail", -1, -1, 0) /\ (pc \in Busy \/ Working)
    BY <1>6 DEF StoreFails, Fail
  <2>2. /\ responses' \in Seq(ResponseType) /\ Len(responses') = Len(responses) + 1
        /\ cur' = NoChange /\ pc' = "item"
    BY <2>1, AnswerType DEF Ops
  <2>3. TypeOK'
    BY <1>6, <2>2, NoneTypes DEF StoreFails, storeVars, countVars, historyVars, TypeOK
  <2> QED  BY <1>0, <1>6, <2>1, <2>2, <2>3 DEF StoreFails, Placed, Working
<1>7. CASE BackUp
  <2>1. current.id \in Ids  BY <1>7, CurrentItem DEF BackUp, Item
  <2>2. cur.new \in Indv  BY DEF TypeOK
  <2>3. backup' \in [Ids -> Indv]  BY <1>7, <2>1, <2>2 DEF BackUp, TypeOK
  <2>4. TypeOK'  BY <1>7, <2>3 DEF BackUp, countVars, historyVars, TypeOK
  <2> QED  BY <1>7, <2>4 DEF BackUp, Placed
<1>8. CASE Push
  <2> DEFINE ElementType == [id : Ids, cmd : {"put", "remove"}, new : Indv, prev : Indv,
                             n : Nat, op_id : Nat]
  <2>1. current.id \in Ids  BY <1>8, CurrentItem DEF Push, Item
  <2>2. Element(current.id, cur, op_id + 1) \in ElementType
    BY <2>1 DEF Element, TypeOK
  <2>3. log \in Seq(ElementType)  BY DEF TypeOK
  <2> HIDE DEF ElementType
  <2>9. log' = log \/ log' = Append(log, Element(current.id, cur, op_id + 1))
    BY <1>8 DEF Push
  <2>4. log' \in Seq(ElementType) /\ Len(log') \in Nat  BY <2>2, <2>3, <2>9
  <2>5. cur' \in [cmd : {"put", "remove"}, new : Indv, prev : Indv, n : Nat, pos : Nat]
    BY <1>8, <2>4 DEF Push, TypeOK
  <2>6. gaps' \subseteq Ids /\ q_ready' \in BOOLEAN  BY <1>8, <2>1 DEF Push, TypeOK
  <2> USE DEF ElementType
  <2>7. op_id' \in Nat  BY <1>8 DEF Push, TypeOK
  <2>8. TypeOK'  BY <1>8, <2>4, <2>5, <2>6, <2>7 DEF Push, countVars, TypeOK
  <2> QED  BY <1>8, <2>8 DEF Push, Placed
<1>9. CASE PushFails
  <2>1. Answer("fail", -1, -1, 0) /\ pc \in Busy  BY <1>9 DEF PushFails, Fail
  <2>2. /\ responses' \in Seq(ResponseType) /\ Len(responses') = Len(responses) + 1
        /\ cur' = NoChange /\ pc' = "item"
    BY <2>1, AnswerType DEF Ops
  <2>3. current.id \in Ids  BY <2>1, CurrentItem DEF Item
  <2>4. TypeOK'
    BY <1>9, <2>2, <2>3, NoneTypes DEF PushFails, storeVars, countVars, TypeOK
  <2> QED  BY <1>0, <1>9, <2>1, <2>2, <2>4 DEF PushFails, Placed
<1>10. CASE PutInfo
  <2>1. CASE current.cmd = "remove" /\ cur.cmd = "put"
    <3>1. pc' = "remove" /\ UNCHANGED <<responses, cur>>  BY <1>10, <2>1 DEF PutInfo
    <3>2. TypeOK'  BY <1>10, <3>1 DEF PutInfo, countVars, historyVars, TypeOK
    <3> QED  BY <1>10, <3>1, <3>2 DEF PutInfo, Placed
  <2>2. CASE ~(current.cmd = "remove" /\ cur.cmd = "put")
    <3>1. Answer("ok", op_id, cur.n, cur.pos) /\ pc \in Busy  BY <1>10, <2>2 DEF PutInfo
    <3>2. op_id \in Ops /\ cur.n \in Ops /\ cur.pos \in Nat  BY DEF TypeOK, Ops
    <3>3. /\ responses' \in Seq(ResponseType) /\ Len(responses') = Len(responses) + 1
          /\ cur' = NoChange /\ pc' = "item"
      BY <3>1, <3>2, AnswerType
    <3>4. TypeOK'  BY <1>10, <3>3, NoneTypes DEF PutInfo, countVars, historyVars, TypeOK
    <3> QED  BY <1>0, <1>10, <3>1, <3>3, <3>4 DEF PutInfo, Placed
  <2> QED  BY <2>1, <2>2
<1>11. CASE PutInfoFails
  <2>1. Answer("fail", -1, -1, 0) /\ pc \in Busy  BY <1>11 DEF PutInfoFails, Fail
  <2>2. /\ responses' \in Seq(ResponseType) /\ Len(responses') = Len(responses) + 1
        /\ cur' = NoChange /\ pc' = "item"
    BY <2>1, AnswerType DEF Ops
  <2>3. TypeOK'
    BY <1>11, <2>2, NoneTypes DEF PutInfoFails, storeVars, countVars, historyVars, TypeOK
  <2> QED  BY <1>0, <1>11, <2>1, <2>2, <2>3 DEF PutInfoFails, Placed
<1>12. CASE Respond
  <2>1. \A i \in DOMAIN responses : responses[i] \in ResponseType  BY DEF TypeOK
  <2>2. acks' \subseteq ResponseType  BY <1>12, <2>1 DEF Respond, TypeOK
  <2>3. \A S : <<>> \in Seq(S)  OBVIOUS
  <2>4. TypeOK'  BY <1>12, <2>2, <2>3 DEF Respond, storeVars, countVars, TypeOK
  <2> QED  BY <1>12, <2>4 DEF Respond, Placed
<1>13. CASE Crash
  <2>1. gaps' \subseteq Ids
    <3>1. CASE pc \in {"backup", "push"}
      <4>1. current.id \in Ids  BY <3>1, CurrentItem DEF Item
      <4> QED  BY <1>13, <3>1, <4>1 DEF Crash, TypeOK
    <3> QED  BY <1>13, <3>1 DEF Crash, TypeOK
  <2>2. crashes' \in 0 .. MaxCrash  BY <1>13, StoreBounds DEF Crash, TypeOK
  <2>3. \A S : <<>> \in Seq(S)  OBVIOUS
  <2>4. TypeOK'
    BY <1>13, <2>1, <2>2, <2>3, NoneTypes DEF Crash, storeVars, TypeOK
  <2> QED  BY <1>13, <2>4 DEF Crash, Placed
<1> QED  BY <1>1, <1>2, <1>3, <1>4, <1>5, <1>6, <1>7, <1>8, <1>9, <1>10, <1>11, <1>12, <1>13
         DEF Next
-----------------------------------------------------------------------------
(* An answer leaves the earlier ones as they are.                          *)
LEMMA Answered ==
    ASSUME TypeOK, NEW res, NEW op, NEW n, NEW pos, Answer(res, op, n, pos)
    PROVE  /\ Len(responses) \in Nat
           /\ DOMAIN responses = 1 .. Len(responses)
           /\ DOMAIN responses' = 1 .. Len(responses) + 1
           /\ \A i \in DOMAIN responses : responses'[i] = responses[i]
           /\ responses'[Len(responses) + 1] = Response(current.id, res, op, n, pos)
           /\ pc' = "item"
<1>1. responses' = Append(responses, Response(current.id, res, op, n, pos))
  BY DEF Answer
<1>2. responses \in Seq(ResponseType)  BY DEF TypeOK
<1> HIDE DEF Response, ResponseType
<1> QED  BY <1>1, <1>2 DEF Answer

(* A failing answer is not a successful one.                               *)
LEMMA FailAnswered ==
    ASSUME TypeOK, Fail
    PROVE  \A i \in DOMAIN responses' :
              responses'[i].res = "ok" => i \in DOMAIN responses /\ responses'[i] = responses[i]
<1>1. Answer("fail", -1, -1, 0)  BY DEF Fail
<1>2. responses'[Len(responses) + 1] = Response(current.id, "fail", -1, -1, 0)
  BY <1>1, Answered
<1>3. Response(current.id, "fail", -1, -1, 0).res = "fail"  BY DEF Response
<1>4. \A i \in DOMAIN responses' : i \in DOMAIN responses \/ i = Len(responses) + 1
  BY <1>1, Answered
<1>5. \A i \in DOMAIN responses : responses'[i] = responses[i]  BY <1>1, Answered
<1> QED  BY <1>2, <1>3, <1>4, <1>5

(* A successful answer: the last one is new.                               *)
LEMMA OkAnswered ==
    ASSUME TypeOK, NEW op, NEW n, NEW pos, Answer("ok", op, n, pos), NEW i \in DOMAIN responses'
    PROVE  \/ i \in DOMAIN responses /\ responses'[i] = responses[i]
           \/ i = Len(responses) + 1 /\ responses'[i] = Response(current.id, "ok", op, n, pos)
BY Answered

(* The id in work is above every id answered: an id is answered only after *)
(* the info file has it, and counted on from there.                        *)
LEMMA OpIdsInv == TypeOK /\ OpIds /\ Next => OpIds'
<1> SUFFICES ASSUME TypeOK, OpIds, Next PROVE OpIds'  OBVIOUS
<1> USE DEF Busy
<1>0. op_id \in Nat /\ info \in Nat  BY DEF TypeOK
<1>1. CASE Start
  BY <1>0, <1>1 DEF Start, storeVars, countVars, historyVars, OpIds, AckedOpIdUnique
<1>2. CASE Receive
  <2>1. DOMAIN responses' = {}  BY <1>2 DEF Receive
  <2> QED  BY <1>2, <2>1 DEF Receive, storeVars, historyVars, OpIds, AckedOpIdUnique
<1>3. ASSUME Fail, UNCHANGED <<op_id, info, acks>>, pc # "down" PROVE OpIds'
  <2>1. pc' = "item"  BY <1>3 DEF Fail, Answer
  <2> QED  BY <1>3, <2>1, FailAnswered DEF OpIds, AckedOpIdUnique
<1>4. CASE RefuseItem \/ StoreFails \/ PushFails \/ PutInfoFails
  <2>1. Fail /\ UNCHANGED <<op_id, info, acks>> /\ pc # "down"
    BY <1>4 DEF RefuseItem, StoreFails, PushFails, PutInfoFails, Working, storeVars, historyVars
  <2> QED  BY <1>3, <2>1
<1>5. CASE Store \/ Remove \/ BackUp
  <2>1. /\ UNCHANGED <<op_id, info, acks, responses>>
        /\ pc # "down" /\ pc' # "put_info"
    BY <1>5 DEF Store, Remove, BackUp, Working, historyVars
  <2> QED  BY <2>1 DEF OpIds, AckedOpIdUnique
<1>6. CASE Push
  <2>1. op_id' = op_id + 1 /\ UNCHANGED <<info, acks, responses>> /\ pc = "push"
    BY <1>6 DEF Push
  <2>2. info < op_id'  BY <1>0, <2>1 DEF OpIds
  <2> QED  BY <1>0, <2>1, <2>2 DEF OpIds, AckedOpIdUnique
<1>7. CASE PutInfo
  <2>1. info' = op_id /\ UNCHANGED <<op_id, acks>> /\ info < op_id
    BY <1>7 DEF PutInfo, historyVars, OpIds
  <2>2. acks \subseteq ResponseType /\ \A i \in DOMAIN responses : responses[i] \in ResponseType
    BY DEF TypeOK
  <2>3. \A r \in ResponseType : r.op_id <= info => r.op_id < op_id
    BY <1>0, <2>1 DEF ResponseType, Ops
  <2>4. CASE current.cmd = "remove" /\ cur.cmd = "put"
    <3>1. UNCHANGED responses /\ pc' = "remove"  BY <1>7, <2>4 DEF PutInfo
    <3>2. \A r \in ResponseType : r.op_id <= info => r.op_id <= op_id
      BY <1>0, <2>1 DEF ResponseType, Ops
    <3> QED  BY <1>0, <2>1, <2>2, <3>1, <3>2 DEF OpIds, AckedOpIdUnique
  <2>5. CASE ~(current.cmd = "remove" /\ cur.cmd = "put")
    <3>1. Answer("ok", op_id, cur.n, cur.pos)  BY <1>7, <2>5 DEF PutInfo
    <3>2. pc' = "item"  BY <3>1 DEF Answer
    <3>3. \A i \in DOMAIN responses' :
             \/ i \in DOMAIN responses /\ responses'[i] = responses[i]
             \/ i = Len(responses) + 1 /\ responses'[i].op_id = op_id
      BY <3>1, OkAnswered DEF Response
    <3>4. \A a \in acks : a.op_id < op_id  BY <2>2, <2>3 DEF OpIds
    <3>5. \A i \in DOMAIN responses : responses[i].res = "ok" => responses[i].op_id < op_id
      BY <2>2, <2>3 DEF OpIds
    <3>6. \A x \in Ops : x < op_id => x <= op_id /\ x # op_id  BY <1>0 DEF Ops
    <3>7. \A i \in DOMAIN responses : responses[i].op_id \in Ops
      BY <2>2 DEF ResponseType
    <3>8. \A a \in acks : a.op_id \in Ops  BY <2>2 DEF ResponseType
    <3>9. \A a \in acks' : a.op_id <= info'  BY <2>1, <3>4, <3>6, <3>8
    <3>10. \A i \in DOMAIN responses' : responses'[i].res = "ok" => responses'[i].op_id <= info'
      BY <1>0, <2>1, <3>3, <3>5, <3>6, <3>7
    <3>11. \A i, j \in DOMAIN responses' :
              /\ responses'[i].res = "ok" /\ responses'[j].res = "ok"
              /\ responses'[i].op_id = responses'[j].op_id
              => i = j
      BY <3>3, <3>5, <3>6, <3>7 DEF OpIds
    <3>12. \A i \in DOMAIN responses', a \in acks' :
              responses'[i].res = "ok" => responses'[i].op_id # a.op_id
      BY <2>1, <3>3, <3>4, <3>6, <3>8 DEF OpIds
    <3>13. info' <= op_id'  BY <1>0, <2>1
    <3> QED  BY <2>1, <3>2, <3>9, <3>10, <3>11, <3>12, <3>13 DEF OpIds, AckedOpIdUnique
  <2> QED  BY <2>4, <2>5
<1>8. CASE Respond
  <2>1. DOMAIN responses' = {} /\ UNCHANGED <<op_id, info>> /\ pc = "item" /\ pc' = "recv"
    BY <1>8 DEF Respond, storeVars
  <2>2. acks' = acks \cup {responses[i] : i \in {j \in DOMAIN responses : responses[j].res = "ok"}}
    BY <1>8 DEF Respond
  <2>3. \A a \in acks' : a.op_id <= info'  BY <2>1, <2>2 DEF OpIds
  <2>4. AckedOpIdUnique'  BY <2>2 DEF OpIds, AckedOpIdUnique
  <2> QED  BY <2>1, <2>3, <2>4 DEF OpIds
<1>9. CASE Crash
  <2>1. DOMAIN responses' = {} /\ UNCHANGED <<info, acks>> /\ pc' = "down"
    BY <1>9 DEF Crash, storeVars
  <2> QED  BY <2>1 DEF OpIds, AckedOpIdUnique
<1> QED  BY <1>1, <1>2, <1>4, <1>5, <1>6, <1>7, <1>8, <1>9 DEF Next
-----------------------------------------------------------------------------
(* The queue only grows.                                                   *)
LEMMA Appended ==
    ASSUME TypeOK, NEW e, log' = Append(log, e)
    PROVE  /\ Len(log) \in Nat
           /\ DOMAIN log = 1 .. Len(log)
           /\ Len(log') = Len(log) + 1
           /\ DOMAIN log' = 1 .. Len(log) + 1
           /\ \A k \in DOMAIN log : log'[k] = log[k]
           /\ log'[Len(log) + 1] = e
<1> DEFINE T == [id : Ids, cmd : {"put", "remove"}, new : Indv, prev : Indv, n : Nat, op_id : Nat]
<1>1. log \in Seq(T)  BY DEF TypeOK
<1> HIDE DEF T
<1> QED  BY <1>1

(* What was told of an answer stays told.                                  *)
LEMMA ToldKept ==
    ASSUME TypeOK, NEW r, Told(r), \/ UNCHANGED log
                                   \/ \E e : log' = Append(log, e)
    PROVE  r.pos > 0 =>
              /\ r.pos \in DOMAIN log'
              /\ log'[r.pos].id = r.id /\ log'[r.pos].op_id = r.op_id /\ log'[r.pos].n = r.n
<1>1. CASE UNCHANGED log  BY <1>1 DEF Told
<1>2. CASE \E e : log' = Append(log, e)
  <2>1. PICK e : log' = Append(log, e)  BY <1>2
  <2>2. \A k \in DOMAIN log : k \in DOMAIN log' /\ log'[k] = log[k]  BY <2>1, Appended
  <2> QED  BY <2>2 DEF Told
<1> QED  BY <1>1, <1>2

(* An answer is built of what was pushed, and the queue only grows.        *)
LEMMA AnswersToldInv == TypeOK /\ Placed /\ AnswersTold /\ Next => AnswersTold'
<1> SUFFICES ASSUME TypeOK, Placed, AnswersTold, Next PROVE AnswersTold'  OBVIOUS
<1> USE DEF Busy, InChange
<1>1. CASE Start
  BY <1>1 DEF Start, storeVars, historyVars, AnswersTold, Told
<1>2. CASE Receive
  <2>1. DOMAIN responses' = {}  BY <1>2 DEF Receive
  <2> QED  BY <1>2, <2>1 DEF Receive, storeVars, historyVars, AnswersTold, Told
<1>3. CASE RefuseItem \/ StoreFails \/ PushFails \/ PutInfoFails
  <2>1. Fail /\ UNCHANGED <<log, acks>>
    BY <1>3 DEF RefuseItem, StoreFails, PushFails, PutInfoFails, storeVars, historyVars
  <2>2. pc' = "item"  BY <2>1 DEF Fail, Answer
  <2> QED  BY <2>1, <2>2, FailAnswered DEF AnswersTold, Told
<1>4. CASE Store \/ Remove
  <2>1. UNCHANGED <<log, acks, responses>> /\ pc' = "backup" /\ cur'.pos = 0
    BY <1>4 DEF Store, Remove, historyVars, Change
  <2> QED  BY <2>1 DEF AnswersTold, Told
<1>5. CASE BackUp
  <2>1. UNCHANGED <<log, acks, responses, cur>> /\ pc' = "push" /\ pc = "backup"
    BY <1>5 DEF BackUp, historyVars
  <2> QED  BY <2>1 DEF AnswersTold, Told
<1>6. CASE Push
  <2> DEFINE e == Element(current.id, cur, op_id + 1)
  <2>1. UNCHANGED <<acks, responses, request>> /\ pc' = "put_info" /\ op_id' = op_id + 1
    BY <1>6 DEF Push
  <2>2. cur.pos = 0  BY <1>6 DEF Push, AnswersTold
  <2>3. current' = current  BY <2>1 DEF current
  <2>4. log' = log \/ log' = Append(log, e)  BY <1>6 DEF Push
  <2>5. Told(Response(current.id, "ok", op_id, cur.n, cur.pos))'
    <3>1. CASE log' = log /\ cur' = cur
      BY <2>2, <3>1 DEF Told, Response
    <3>2. CASE log' = Append(log, e) /\ cur' = [cur EXCEPT !.pos = Len(log')]
      <4>1. Len(log') \in DOMAIN log' /\ log'[Len(log')] = e  BY <3>2, Appended
      <4>2. cur'.pos = Len(log') /\ cur'.n = cur.n  BY <3>2 DEF TypeOK
      <4> QED  BY <2>1, <2>3, <4>1, <4>2 DEF Told, Response, Element
    <3> QED  BY <1>6, <3>1, <3>2 DEF Push
  <2>6. \A a \in acks' : Told(a)'  BY <2>1, <2>4, ToldKept DEF AnswersTold, Told
  <2>7. \A i \in DOMAIN responses' : responses'[i].res = "ok" => Told(responses[i])'
    BY <2>1, <2>4, ToldKept DEF AnswersTold, Told
  <2> QED  BY <2>1, <2>5, <2>6, <2>7 DEF AnswersTold
<1>7. CASE PutInfo
  <2>1. UNCHANGED <<log, acks>> /\ pc = "put_info"  BY <1>7 DEF PutInfo, historyVars
  <2>2. CASE current.cmd = "remove" /\ cur.cmd = "put"
    <3>1. UNCHANGED responses /\ pc' = "remove"  BY <1>7, <2>2 DEF PutInfo
    <3> QED  BY <2>1, <3>1 DEF AnswersTold, Told
  <2>3. CASE ~(current.cmd = "remove" /\ cur.cmd = "put")
    <3>1. Answer("ok", op_id, cur.n, cur.pos)  BY <1>7, <2>3 DEF PutInfo
    <3>2. pc' = "item"  BY <3>1 DEF Answer
    <3>3. Told(Response(current.id, "ok", op_id, cur.n, cur.pos))  BY <2>1 DEF AnswersTold
    <3>4. \A i \in DOMAIN responses' :
             \/ i \in DOMAIN responses /\ responses'[i] = responses[i]
             \/ responses'[i] = Response(current.id, "ok", op_id, cur.n, cur.pos)
      BY <3>1, OkAnswered
    <3>5. \A i \in DOMAIN responses' : responses'[i].res = "ok" => Told(responses[i])'
      BY <2>1, <3>3, <3>4 DEF AnswersTold, Told
    <3> QED  BY <2>1, <3>2, <3>5 DEF AnswersTold, Told
  <2> QED  BY <2>2, <2>3
<1>8. CASE Respond
  <2>1. DOMAIN responses' = {} /\ UNCHANGED log /\ pc' = "recv"
    BY <1>8 DEF Respond, storeVars
  <2>2. acks' = acks \cup {responses[i] : i \in {j \in DOMAIN responses : responses[j].res = "ok"}}
    BY <1>8 DEF Respond
  <2> QED  BY <2>1, <2>2 DEF AnswersTold, Told
<1>9. CASE Crash
  <2>1. DOMAIN responses' = {} /\ UNCHANGED <<log, acks>> /\ pc' = "down"
    BY <1>9 DEF Crash, storeVars
  <2> QED  BY <2>1 DEF AnswersTold, Told
<1> QED  BY <1>1, <1>2, <1>3, <1>4, <1>5, <1>6, <1>7, <1>8, <1>9 DEF Next
-----------------------------------------------------------------------------
(* The largest number of a set, where there is one.                        *)
LastOf(S) == CHOOSE j \in S : \A i \in S : i <= j

(* A member that bounds a set of numbers is the one LastOf chooses.        *)
LEMMA LastOfIs ==
    ASSUME NEW S, NEW j \in S, \A i \in S : i <= j, S \subseteq Nat
    PROVE  LastOf(S) = j
<1>1. LastOf(S) \in S /\ \A i \in S : i <= LastOf(S)  BY DEF LastOf
<1>2. LastOf(S) <= j /\ j <= LastOf(S)  BY <1>1
<1>3. LastOf(S) \in Nat /\ j \in Nat  BY <1>1
<1> QED  BY <1>2, <1>3

(* What the queue told last of an individual is in its last element.       *)
LEMMA LastToldIs ==
    ASSUME NEW id, NEW k
    PROVE  LastTold(id, k) =
              IF Positions(id, k) = {} THEN NoIndv ELSE log[LastOf(Positions(id, k))].new
BY DEF LastTold, LastOf

(* The same after a step.                                                  *)
LEMMA LastToldIsNext ==
    ASSUME NEW id, NEW k
    PROVE  LastTold(id, k)' =
              IF Positions(id, k)' = {} THEN NoIndv ELSE log'[LastOf(Positions(id, k)')].new
BY DEF LastTold, LastOf

(* What the queue told stays told.                                         *)
LEMMA ToldBefore ==
    ASSUME TypeOK, LastPlaced, NEW e, log' = Append(log, e),
           NEW id \in Ids, NEW k \in 0 .. Len(log)
    PROVE  /\ Positions(id, k)' = Positions(id, k)
           /\ LastTold(id, k)' = LastTold(id, k)
<1>1. Positions(id, k)' = Positions(id, k)
  <2>1. \A j \in 1 .. k : log'[j] = log[j]  BY Appended
  <2> QED  BY <2>1 DEF Positions
<1>2. CASE Positions(id, k) = {}
  BY <1>1, <1>2, LastToldIs, LastToldIsNext
<1>3. CASE Positions(id, k) # {}
  <2> DEFINE P == Positions(id, k)
  <2>1. PICK j \in P : \A i \in P : i <= j  BY <1>3 DEF LastPlaced
  <2>2. P \subseteq 1 .. k /\ P \subseteq Nat  BY DEF Positions
  <2>3. LastOf(P) = j  BY <2>1, <2>2, LastOfIs
  <2>4. log'[j] = log[j]  BY <2>1, <2>2, Appended
  <2> QED  BY <1>1, <1>3, <2>3, <2>4, LastToldIs, LastToldIsNext
<1> QED  BY <1>1, <1>2, <1>3

(* A new element is the last of its individual.                            *)
LEMMA ToldLast ==
    ASSUME TypeOK, LastPlaced, NEW e, log' = Append(log, e),
           NEW id \in Ids, NEW k, k = Len(log) + 1
    PROVE  /\ Positions(id, k)' = Positions(id, Len(log)) \cup (IF e.id = id THEN {k} ELSE {})
           /\ LastTold(id, k)' = IF e.id = id THEN e.new ELSE LastTold(id, Len(log))
<1>0. Len(log) \in Nat /\ k \in Nat  BY Appended
<1>1. Positions(id, k)' = Positions(id, Len(log)) \cup (IF e.id = id THEN {k} ELSE {})
  <2>1. \A j \in 1 .. Len(log) : log'[j] = log[j]  BY Appended
  <2>2. log'[k] = e  BY Appended
  <2>3. 1 .. k = 1 .. Len(log) \cup {k}  BY <1>0
  <2> QED  BY <1>0, <2>1, <2>2, <2>3 DEF Positions
<1>2. CASE e.id = id
  <2> DEFINE P == Positions(id, Len(log)) \cup {k}
  <2>1. Positions(id, k)' = P  BY <1>1, <1>2
  <2>2. P \subseteq Nat /\ \A i \in P : i <= k  BY <1>0 DEF Positions
  <2>3. k \in P  OBVIOUS
  <2> HIDE DEF P
  <2>4. LastOf(P) = k  BY <2>2, <2>3, LastOfIs
  <2>5. log'[k] = e  BY Appended
  <2> QED  BY <1>1, <1>2, <2>1, <2>3, <2>4, <2>5, LastToldIsNext
<1>3. CASE e.id # id
  <2>1. Positions(id, k)' = Positions(id, Len(log))  BY <1>1, <1>3
  <2>2. Len(log) \in 0 .. Len(log)  BY <1>0
  <2>3. CASE Positions(id, Len(log)) = {}
    BY <1>1, <1>3, <2>1, <2>3, LastToldIs, LastToldIsNext
  <2>4. CASE Positions(id, Len(log)) # {}
    <3> DEFINE P == Positions(id, Len(log))
    <3>1. PICK j \in P : \A i \in P : i <= j  BY <2>2, <2>4 DEF LastPlaced
    <3>2. P \subseteq 1 .. Len(log) /\ P \subseteq Nat  BY DEF Positions
    <3>3. LastOf(P) = j  BY <3>1, <3>2, LastOfIs
    <3>4. log'[j] = log[j]  BY <3>1, <3>2, Appended
    <3> QED  BY <1>1, <1>3, <2>1, <2>4, <3>3, <3>4, LastToldIs, LastToldIsNext
  <2> QED  BY <2>3, <2>4
<1> QED  BY <1>1, <1>2, <1>3

(* An append keeps every last element, or is one itself.                   *)
LEMMA LastPlacedInv ==
    ASSUME TypeOK, LastPlaced, UNCHANGED log \/ \E e : log' = Append(log, e)
    PROVE  LastPlaced'
<1>1. CASE UNCHANGED log  BY SMTT(60), <1>1 DEF LastPlaced, Positions
<1>2. CASE \E e : log' = Append(log, e)
  <2>1. PICK e : log' = Append(log, e)  BY <1>2
  <2>2. Len(log) \in Nat /\ Len(log') = Len(log) + 1  BY <2>1, Appended
  <2> SUFFICES ASSUME NEW id \in Ids, NEW k \in 0 .. Len(log'), Positions(id, k)' # {}
               PROVE  \E j \in Positions(id, k)' : \A i \in Positions(id, k)' : i <= j
    BY DEF LastPlaced
  <2>3. CASE k \in 0 .. Len(log)
    <3>1. Positions(id, k)' = Positions(id, k)  BY <2>1, <2>3, ToldBefore
    <3> QED  BY <2>3, <3>1 DEF LastPlaced
  <2>4. CASE k = Len(log) + 1
    <3>1. Positions(id, k)' = Positions(id, Len(log)) \cup (IF e.id = id THEN {k} ELSE {})
      BY <2>1, <2>4, ToldLast
    <3>2. \A i \in Positions(id, Len(log)) : i <= k  BY <2>2, <2>4 DEF Positions
    <3>3. Len(log) \in 0 .. Len(log) /\ k <= k  BY <2>2, <2>4
    <3> QED  BY <3>1, <3>2, <3>3 DEF LastPlaced
  <2> QED  BY <2>2, <2>3, <2>4
<1> QED  BY <1>1, <1>2

(* A queue that did not change tells the same.                             *)
LEMMA ToldSame ==
    ASSUME UNCHANGED log, NEW id, NEW k
    PROVE  LastTold(id, k)' = LastTold(id, k)
BY DEF LastTold, Positions

(* The push of a change tells what its store did; whatever comes between   *)
(* the two leaves a gap.                                                   *)
LEMMA TellsInv == TypeOK /\ Placed /\ LastPlaced /\ Tells /\ Next => Tells'
<1> SUFFICES ASSUME TypeOK, Placed, LastPlaced, Tells, Next,
                    NEW id \in Ids, id \notin gaps'
             PROVE  IF pc' \in InChange /\ id = current'.id
                    THEN /\ cur'.new = db'[id]
                         /\ cur'.cmd = "put" => (LastTold(id, Len(log)))' = cur'.prev
                    ELSE (LastTold(id, Len(log)))' = db'[id]
  BY DEF Tells
<1> USE DEF InChange, Busy
<1>1. CASE Start \/ Receive \/ RefuseItem \/ StoreFails \/ PutInfo \/ PutInfoFails \/ Respond
  <2>1. UNCHANGED <<db, log, gaps>>
    BY <1>1 DEF Start, Receive, RefuseItem, StoreFails, PutInfo, PutInfoFails, Respond,
                storeVars, historyVars
  <2>2. pc \notin InChange /\ pc' \notin InChange
    BY <1>1 DEF Start, Receive, RefuseItem, StoreFails, PutInfo, PutInfoFails, Respond,
                Working, Fail, Answer
  <2>3. (LastTold(id, Len(log)))' = LastTold(id, Len(log))
    BY <2>1 DEF LastTold, Positions
  <2> QED  BY <2>1, <2>2, <2>3 DEF Tells
<1>2. CASE Store
  <2> DEFINE new == Applied(current, db[current.id])
  <2>1. /\ pc = "item" /\ pc' = "backup" /\ UNCHANGED <<log, gaps, request, responses>>
        /\ db' = [db EXCEPT ![current.id] = new]
        /\ cur' = Change("put", new, db[current.id], new.n)
    BY <1>2 DEF Store, Working, historyVars
  <2> HIDE DEF new
  <2>2. current' = current  BY <2>1 DEF current
  <2>3. (LastTold(id, Len(log)))' = LastTold(id, Len(log))
    BY <2>1 DEF LastTold, Positions
  <2>4. LastTold(id, Len(log)) = db[id]  BY <2>1 DEF Tells
  <2>5. db \in [Ids -> Indv]  BY DEF TypeOK
  <2>6. cur'.new = new /\ cur'.prev = db[current.id]  BY <2>1 DEF Change
  <2> QED  BY <2>1, <2>2, <2>3, <2>4, <2>5, <2>6
<1>3. CASE Remove
  <2>1. /\ pc = "remove" /\ pc' = "backup" /\ UNCHANGED <<log, gaps, request, responses>>
        /\ db' = [db EXCEPT ![current.id] = NoIndv]
        /\ cur' = Change("remove", NoIndv, NoIndv, cur.n)
    BY <1>3 DEF Remove, historyVars
  <2>2. current' = current  BY <2>1 DEF current
  <2>3. (LastTold(id, Len(log)))' = LastTold(id, Len(log))
    BY <2>1 DEF LastTold, Positions
  <2>4. LastTold(id, Len(log)) = db[id]  BY <2>1 DEF Tells
  <2>5. db \in [Ids -> Indv]  BY DEF TypeOK
  <2>6. cur'.new = NoIndv /\ cur'.cmd = "remove"  BY <2>1 DEF Change
  <2> QED  BY <2>1, <2>2, <2>3, <2>4, <2>5, <2>6
<1>4. CASE BackUp
  <2>1. /\ pc = "backup" /\ pc' = "push"
        /\ UNCHANGED <<db, cur, log, gaps, request, responses>>
    BY <1>4 DEF BackUp, historyVars
  <2>2. current' = current  BY <2>1 DEF current
  <2>3. (LastTold(id, Len(log)))' = LastTold(id, Len(log))
    BY <2>1 DEF LastTold, Positions
  <2> QED  BY <2>1, <2>2, <2>3 DEF Tells
<1>5. CASE Push
  <2> DEFINE e == Element(current.id, cur, op_id + 1)
  <2>1. /\ pc = "push" /\ pc' = "put_info" /\ UNCHANGED db
        /\ \/ log' = Append(log, e) /\ UNCHANGED gaps
           \/ UNCHANGED log /\ gaps' = gaps \cup {current.id}
    BY <1>5 DEF Push
  <2>2. e.id = current.id /\ e.new = cur.new  BY DEF Element
  <2> HIDE DEF e
  <2>3. CASE log' = Append(log, e) /\ UNCHANGED gaps
    <3>1. (LastTold(id, Len(log)))' = IF e.id = id THEN e.new ELSE LastTold(id, Len(log))
      <4>1. Len(log') = Len(log) + 1  BY <2>3, Appended
      <4>2. PICK k : k = Len(log) + 1  OBVIOUS
      <4>3. LastTold(id, k)' = IF e.id = id THEN e.new ELSE LastTold(id, Len(log))
        BY <2>3, <4>2, ToldLast
      <4>4. (LastTold(id, Len(log)))' = LastTold(id, k)'
        BY <4>1, <4>2 DEF LastTold, Positions
      <4> QED  BY <4>3, <4>4
    <3> QED  BY <2>1, <2>2, <2>3, <3>1 DEF Tells
  <2>4. CASE UNCHANGED log /\ gaps' = gaps \cup {current.id}
    <3>1. (LastTold(id, Len(log)))' = LastTold(id, Len(log))
      BY <2>4 DEF LastTold, Positions
    <3> QED  BY <2>1, <2>4, <3>1 DEF Tells
  <2> QED  BY <2>1, <2>3, <2>4
<1>6. CASE PushFails
  <2>1. /\ pc = "push" /\ pc' = "item" /\ UNCHANGED <<db, log>>
        /\ gaps' = gaps \cup {current.id}
    BY <1>6 DEF PushFails, Fail, Answer, storeVars
  <2>2. (LastTold(id, Len(log)))' = LastTold(id, Len(log))
    BY <2>1 DEF LastTold, Positions
  <2> QED  BY <2>1, <2>2 DEF Tells
<1>7. CASE Crash
  <2>1. /\ pc' = "down" /\ UNCHANGED <<db, log>>
        /\ gaps' = IF pc \in InChange THEN gaps \cup {current.id} ELSE gaps
    BY <1>7 DEF Crash, storeVars
  <2>2. (LastTold(id, Len(log)))' = LastTold(id, Len(log))
    BY <2>1 DEF LastTold, Positions
  <2> QED  BY <2>1, <2>2 DEF Tells
<1> QED  BY <1>1, <1>2, <1>3, <1>4, <1>5, <1>6, <1>7 DEF Next

(* Every element of the queue is about an individual.                      *)
LEMMA ElementIds == TypeOK => \A j \in DOMAIN log : log[j].id \in Ids
<1> DEFINE E == [id : Ids, cmd : {"put", "remove"}, new : Indv, prev : Indv, n : Nat, op_id : Nat]
<1> SUFFICES ASSUME TypeOK, NEW j \in DOMAIN log PROVE log[j].id \in Ids  OBVIOUS
<1>1. log \in Seq(E)  BY DEF TypeOK
<1>2. \A e \in E : e.id \in Ids  OBVIOUS
<1> HIDE DEF E
<1>3. log[j] \in E  BY <1>1
<1> QED  BY <1>2, <1>3

(* Readers' view of the queue: appended under a push, else as it was, and  *)
(* no gap is forgotten.                                                    *)
LEMMA LogSteps ==
    ASSUME Next
    PROVE  /\ gaps \subseteq gaps'
           /\ \/ UNCHANGED log
              \/ /\ pc = "push"
                 /\ log' = Append(log, Element(current.id, cur, op_id + 1))
BY DEF Next, Start, Receive, RefuseItem, Store, Remove, StoreFails, BackUp, Push, PushFails,
       PutInfo, PutInfoFails, Respond, Crash, storeVars, historyVars

(* The previous state of a pushed element is what the queue told last.     *)
LEMMA ChainInv == TypeOK /\ Placed /\ LastPlaced /\ Tells /\ ChainUnbroken /\ Next => ChainUnbroken'
<1> SUFFICES ASSUME TypeOK, Placed, LastPlaced, Tells, ChainUnbroken, Next,
                    NEW k \in DOMAIN log', log'[k].id \notin gaps', log'[k].cmd = "put"
             PROVE  log'[k].prev = (LastTold(log[k].id, k - 1))'
  BY DEF ChainUnbroken
<1>1. gaps \subseteq gaps'  BY LogSteps
<1>2. CASE UNCHANGED log
  BY <1>1, <1>2 DEF ChainUnbroken, LastTold, Positions
<1>3. CASE pc = "push" /\ log' = Append(log, Element(current.id, cur, op_id + 1))
  <2> DEFINE e == Element(current.id, cur, op_id + 1)
  <2>1. e.id = current.id /\ e.cmd = cur.cmd /\ e.prev = cur.prev  BY DEF Element
  <2>2. log' = Append(log, e)  BY <1>3
  <2> HIDE DEF e
  <2>3. /\ Len(log) \in Nat /\ DOMAIN log = 1 .. Len(log)
        /\ DOMAIN log' = 1 .. Len(log) + 1
        /\ log'[Len(log) + 1] = e
        /\ \A j \in DOMAIN log : log'[j] = log[j]
    BY <2>2, Appended
  <2>4. PICK id : id = log'[k].id  OBVIOUS
  <2>5. PICK m : m = k - 1  OBVIOUS
  <2>6. (LastTold(log[k].id, k - 1))' = LastTold(id, m)'
    BY <2>4, <2>5 DEF LastTold, Positions
  <2>7. m \in 0 .. Len(log)  BY <2>3, <2>5
  <2>8. id \in Ids => LastTold(id, m)' = LastTold(id, m)  BY <2>2, <2>7, ToldBefore
  <2>9. CASE k \in DOMAIN log
    <3>1. id = log[k].id /\ id \in Ids  BY <2>3, <2>4, <2>9, ElementIds
    <3>2. log[k].prev = LastTold(id, m)
      BY <1>1, <2>3, <2>4, <2>5, <2>9, <3>1 DEF ChainUnbroken
    <3> QED  BY <2>3, <2>6, <2>8, <2>9, <3>1, <3>2
  <2>10. CASE k = Len(log) + 1
    <3>1. id = current.id /\ cur.cmd = "put" /\ log'[k].prev = cur.prev
      BY <2>1, <2>3, <2>4, <2>10
    <3>2. id \in Ids  BY <1>3, <3>1, CurrentItem DEF Busy, Item
    <3>3. m = Len(log)  BY <2>3, <2>5, <2>10
    <3>4. id \notin gaps  BY <1>1, <2>4
    <3>5. LastTold(id, Len(log)) = cur.prev  BY <1>3, <3>1, <3>2, <3>4 DEF Tells, InChange
    <3> QED  BY <2>6, <2>8, <3>1, <3>2, <3>3, <3>5
  <2> QED  BY <2>3, <2>9, <2>10
<1> QED  BY <1>2, <1>3, LogSteps
(* A change reaches the backup database before the queue does, unless its  *)
(* individual gets a gap.                                                  *)
LEMMA BacksInv == TypeOK /\ Tells /\ Backs /\ Next => Backs'
<1> SUFFICES ASSUME TypeOK, Tells, Backs, Next, UseBackup, "backup" \notin Faults,
                    NEW id \in Ids, id \notin gaps'
             PROVE  (pc' = "backup" /\ id = current'.id) \/ backup'[id] = db'[id]
  BY DEF Backs
<1> USE DEF InChange
<1>0. id \notin gaps  BY LogSteps
<1>1. CASE Store \/ Remove
  <2>1. /\ pc \in {"item", "remove"} /\ pc' = "backup"
        /\ UNCHANGED <<backup, request, responses>>
        /\ \E new : db' = [db EXCEPT ![current.id] = new]
    BY <1>1 DEF Store, Remove, Working
  <2>2. current' = current  BY <2>1 DEF current
  <2>3. backup[id] = db[id]  BY <1>0, <2>1 DEF Backs
  <2>4. db \in [Ids -> Indv]  BY DEF TypeOK
  <2> QED  BY <2>1, <2>2, <2>3, <2>4
<1>2. CASE BackUp
  <2>1. /\ pc = "backup" /\ UNCHANGED db
        /\ backup' = [backup EXCEPT ![current.id] = cur.new]
    BY <1>2 DEF BackUp
  <2>2. backup \in [Ids -> Indv]  BY DEF TypeOK
  <2>3. CASE id = current.id
    <3>1. cur.new = db[id]  BY <1>0, <2>1, <2>3 DEF Tells
    <3> QED  BY <2>1, <2>2, <2>3, <3>1
  <2>4. CASE id # current.id  BY <1>0, <2>1, <2>2, <2>4 DEF Backs
  <2> QED  BY <2>3, <2>4
<1>3. CASE Crash
  <2>1. /\ UNCHANGED <<db, backup>>
        /\ gaps' = IF pc \in InChange THEN gaps \cup {current.id} ELSE gaps
    BY <1>3 DEF Crash, storeVars
  <2> QED  BY <1>0, <2>1 DEF Backs
<1>4. CASE \/ Start \/ Receive \/ RefuseItem \/ StoreFails \/ Push \/ PushFails
           \/ PutInfo \/ PutInfoFails \/ Respond
  <2>1. pc # "backup" /\ UNCHANGED <<db, backup>>
    BY <1>4 DEF Start, Receive, RefuseItem, StoreFails, Push, PushFails, PutInfo,
                PutInfoFails, Respond, Working, storeVars
  <2> QED  BY <1>0, <2>1 DEF Backs
<1> QED  BY <1>1, <1>2, <1>3, <1>4 DEF Next
(* A step that loses nothing more and answers nothing keeps the count.     *)
LEMMA LostKept ==
    ASSUME LostBound, UNCHANGED <<acks, crashes, q_ready>>, pc # "down", pc' # "down",
           \A i \in DOMAIN responses' : IsLost(i)' => i \in DOMAIN responses /\ IsLost(i),
           LosingNow' => LosingNow
    PROVE  LostBound'
<1>1. LostAcks' = LostAcks  BY DEF LostAcks
<1>2. Losing' => Losing  BY DEF Losing
<1> QED  BY <1>1, <1>2 DEF LostBound

(* One run of the process loses one record at most: the queue that could   *)
(* not publish refuses every push after it.                                *)
LEMMA LostBoundInv == TypeOK /\ Placed /\ LostBound /\ Next => LostBound'
<1> SUFFICES ASSUME TypeOK, Placed, LostBound, Next PROVE LostBound'  OBVIOUS
<1>0. Cardinality(LostAcks) \in Nat /\ crashes \in Nat
  BY FS_CardinalityType, StoreBounds DEF LostBound, TypeOK
<1>1. CASE Start
  <2>1. /\ pc = "down" /\ pc' = "recv" /\ q_ready'
        /\ UNCHANGED <<acks, crashes, responses>>
    BY <1>1 DEF Start, historyVars, countVars
  <2>2. ~Losing /\ LostAcks' = LostAcks  BY <2>1 DEF LostBound, LostAcks
  <2>3. ~LosingNow' /\ \A i \in DOMAIN responses' : ~IsLost(i)'
    BY <2>1, <2>2 DEF Losing, LosingNow, IsLost
  <2>4. ~Losing'  BY <2>3 DEF Losing
  <2> QED  BY <1>0, <2>1, <2>2, <2>3, <2>4 DEF LostBound
<1>2. CASE Receive
  <2>1. /\ pc = "recv" /\ pc' = "item" /\ DOMAIN responses' = {}
        /\ UNCHANGED <<acks, crashes, q_ready>>
    BY <1>2 DEF Receive, historyVars
  <2> QED  BY <2>1, LostKept DEF LosingNow
<1>3. CASE RefuseItem \/ StoreFails \/ PushFails \/ PutInfoFails
  <2>1. Fail /\ pc # "down" /\ pc' = "item" /\ UNCHANGED <<acks, crashes, q_ready>>
    BY <1>3 DEF RefuseItem, StoreFails, PushFails, PutInfoFails, Fail, Answer, Working,
                historyVars, countVars
  <2>2. \A i \in DOMAIN responses' : IsLost(i)' => i \in DOMAIN responses /\ IsLost(i)
    BY <2>1, FailAnswered DEF IsLost
  <2> QED  BY <2>1, <2>2, LostKept DEF LosingNow
<1>4. CASE Store \/ Remove \/ BackUp
  <2>1. /\ pc # "down" /\ pc' \in {"backup", "push"}
        /\ UNCHANGED <<acks, crashes, q_ready, responses>>
    BY <1>4 DEF Store, Remove, BackUp, Working, historyVars, countVars
  <2> QED  BY <2>1, LostKept DEF LosingNow, IsLost
<1>5. CASE Push
  <2>1. /\ pc = "push" /\ pc' = "put_info" /\ q_ready
        /\ UNCHANGED <<acks, crashes, responses>>
    BY <1>5 DEF Push, countVars
  <2>2. ~Losing  BY <2>1 DEF LostBound
  <2>3. CASE q_ready' = q_ready /\ cur' = [cur EXCEPT !.pos = Len(log')] /\ \E e : log' = Append(log, e)
    <3>1. Len(log') \in Nat /\ Len(log') > 0
      <4>1. PICK e : log' = Append(log, e)  BY <2>3
      <4> QED  BY <4>1, Appended
    <3>2. cur'.pos = Len(log')  BY <2>3 DEF TypeOK
    <3>3. ~LosingNow'  BY <3>1, <3>2 DEF LosingNow
    <3> QED  BY <2>1, <2>3, <3>3, LostKept DEF IsLost
  <2>4. CASE q_ready' = FALSE /\ "publish" \in Faults
    <3>1. LostAcks' = LostAcks  BY <2>1 DEF LostAcks
    <3>2. \A i \in DOMAIN responses' : ~IsLost(i)'  BY <2>1, <2>2 DEF Losing, IsLost
    <3>3. Cardinality(LostAcks) <= crashes  BY <1>0, <2>1 DEF LostBound
    <3>4. /\ IsFiniteSet(LostAcks') /\ Cardinality(LostAcks') <= crashes'
          /\ pc' # "down" /\ ~q_ready'
      BY <2>1, <2>4, <3>1, <3>3 DEF LostBound
    <3>5. crashes' \in Nat /\ Cardinality(LostAcks') \in Nat  BY <1>0, <2>1, <3>1
    <3> QED  BY <2>4, <3>2, <3>4, <3>5 DEF LostBound
  <2> QED  BY <1>5, <2>3, <2>4 DEF Push
<1>6. CASE PutInfo
  <2>1. pc = "put_info" /\ UNCHANGED <<acks, crashes, q_ready>>
    BY <1>6 DEF PutInfo, historyVars, countVars
  <2>2. CASE UNCHANGED responses /\ pc' = "remove"
    BY <2>1, <2>2, LostKept DEF LosingNow, IsLost
  <2>3. CASE Answer("ok", op_id, cur.n, cur.pos)
    <3> DEFINE r == Response(current.id, "ok", op_id, cur.n, cur.pos)
               new == Len(responses) + 1
    <3>1. \A i \in DOMAIN responses' :
             \/ i \in DOMAIN responses /\ responses'[i] = responses[i]
             \/ i = new /\ responses'[i] = r
      BY <2>3, OkAnswered
    <3>2. pc' = "item"  BY <2>3 DEF Answer
    <3>3. r.res = "ok" /\ r.pos = cur.pos  BY DEF Response
    <3> HIDE DEF r, new
    <3>4. \A i \in DOMAIN responses' :
             IsLost(i)' => \/ i \in DOMAIN responses /\ IsLost(i)
                           \/ i = new /\ LosingNow
      BY <2>1, <3>1, <3>3 DEF IsLost, LosingNow
    <3>5. LostAcks' = LostAcks /\ ~LosingNow'  BY <2>1, <3>2 DEF LostAcks, LosingNow
    <3>6. Losing' => Losing  BY <3>4, <3>5 DEF Losing
    <3>7. \A i, j \in DOMAIN responses' : IsLost(i)' /\ IsLost(j)' => i = j
      BY <3>4 DEF LostBound
    <3> QED  BY <2>1, <3>2, <3>5, <3>6, <3>7 DEF LostBound
  <2> QED  BY <1>6, <2>2, <2>3 DEF PutInfo
<1>7. CASE Respond
  <2> DEFINE Lost == {i \in DOMAIN responses : IsLost(i)}
  <2>1. /\ pc = "item" /\ pc' = "recv" /\ DOMAIN responses' = {}
        /\ UNCHANGED <<crashes, q_ready>>
        /\ acks' = acks \cup {responses[i] : i \in {j \in DOMAIN responses : responses[j].res = "ok"}}
    BY <1>7 DEF Respond, countVars
  <2>2. LostAcks' = LostAcks \cup {responses[i] : i \in Lost}
    BY <2>1 DEF LostAcks, IsLost
  <2>3. ~Losing' /\ ~LosingNow'  BY <2>1 DEF Losing, LosingNow
  <2>4. CASE Lost = {}
    <3>1. LostAcks' = LostAcks  BY <2>2, <2>4
    <3> QED  BY <2>1, <2>3, <3>1 DEF LostBound
  <2>5. CASE Lost # {}
    <3>1. PICK i \in Lost : TRUE  BY <2>5
    <3>2. Lost = {i}  BY <3>1 DEF LostBound
    <3>3. LostAcks' = LostAcks \cup {responses[i]}  BY <2>2, <3>2
    <3>4. Losing  BY <3>1 DEF Losing
    <3>5. /\ IsFiniteSet(LostAcks) /\ ~q_ready /\ Cardinality(LostAcks) <= crashes
          /\ "publish" \in Faults
      BY <3>4 DEF LostBound
    <3>6. /\ IsFiniteSet(LostAcks')
          /\ Cardinality(LostAcks') <= Cardinality(LostAcks) + 1
      <4> DEFINE S == LostAcks \cup {responses[i]}
      <4>1. /\ IsFiniteSet(S)
            /\ \/ Cardinality(S) = Cardinality(LostAcks)
               \/ Cardinality(S) = Cardinality(LostAcks) + 1
        BY <3>5, FS_AddElement, Zenon
      <4>2. Cardinality(S) <= Cardinality(LostAcks) + 1
        <5> HIDE DEF S
        <5> QED  BY <1>0, <4>1
      <4> QED  BY <3>3, <4>1, <4>2
    <3>7. Cardinality(LostAcks') <= crashes' + (IF pc' = "down" \/ q_ready' THEN 0 ELSE 1)
      BY <1>0, <2>1, <3>5, <3>6, FS_CardinalityType
    <3> QED  BY <2>1, <2>3, <3>5, <3>6, <3>7 DEF LostBound
  <2> QED  BY <2>4, <2>5
<1>8. CASE Crash
  <2>1. /\ pc' = "down" /\ crashes' = crashes + 1 /\ DOMAIN responses' = {}
        /\ UNCHANGED acks
    BY <1>8 DEF Crash
  <2>2. LostAcks' = LostAcks  BY <2>1 DEF LostAcks
  <2>3. ~Losing' /\ ~LosingNow'  BY <2>1 DEF Losing, LosingNow
  <2>4. Cardinality(LostAcks) <= crashes + 1  BY <1>0 DEF LostBound
  <2> QED  BY <1>0, <2>1, <2>2, <2>3, <2>4 DEF LostBound
<1> QED  BY <1>1, <1>2, <1>3, <1>4, <1>5, <1>6, <1>7, <1>8 DEF Next
(* A step that changes nothing keeps the invariant.                        *)
LEMMA StutterInv == IInv /\ UNCHANGED mstorageVars => IInv'
<1> SUFFICES ASSUME IInv, UNCHANGED mstorageVars PROVE IInv'  OBVIOUS
<1> USE DEF mstorageVars, storeVars, memoryVars, countVars, historyVars
<1>1. TypeOK' /\ Placed'  BY DEF IInv, TypeOK, Placed
<1>2. OpIds'  BY DEF IInv, OpIds, AckedOpIdUnique
<1>3. current' = current  BY DEF current
<1>4. AnswersTold'  BY <1>3 DEF IInv, AnswersTold, Told
<1>5. LastPlaced'  BY LastPlacedInv DEF IInv
<1>6. Tells'
  <2>1. \A id : (LastTold(id, Len(log)))' = LastTold(id, Len(log))  BY DEF LastTold, Positions
  <2> QED  BY <1>3, <2>1 DEF IInv, Tells
<1>7. ChainUnbroken'  BY DEF IInv, ChainUnbroken, LastTold, Positions
<1>8. Backs'  BY <1>3 DEF IInv, Backs
<1>9. LostBound'  BY DEF IInv, LostBound, LostAcks, Losing, LosingNow, IsLost
<1> QED  BY <1>1, <1>2, <1>4, <1>5, <1>6, <1>7, <1>8, <1>9 DEF IInv

(* Every action of the server keeps the invariant.                         *)
LEMMA NextInv == IInv /\ Next => IInv'
<1> SUFFICES ASSUME IInv, Next PROVE IInv'  OBVIOUS
<1> USE DEF IInv
<1>1. TypeOK' /\ Placed'  BY TypeInv
<1>2. OpIds'  BY OpIdsInv
<1>3. AnswersTold'  BY AnswersToldInv
<1>4. LastPlaced'  BY LogSteps, LastPlacedInv
<1>5. Tells' /\ ChainUnbroken'  BY TellsInv, ChainInv
<1>6. Backs'  BY BacksInv
<1>7. LostBound'  BY LostBoundInv
<1> QED  BY <1>1, <1>2, <1>3, <1>4, <1>5, <1>6, <1>7

(* The invariant holds in every state the server can be in: whatever fails *)
(* and whenever the process dies (veda-mstorage main.rs).                  *)
THEOREM Invariance == Spec => []IInv
<1>1. Init => IInv  BY InitInv
<1>2. IInv /\ [Next]_mstorageVars => IInv'  BY NextInv, StutterInv
<1> QED  BY <1>1, <1>2, PTL DEF Spec

(* The databases, the queue, the info file and the answers keep the types  *)
(* main.rs gives them.                                                     *)
THEOREM TypeCorrect == Spec => []TypeOK
<1>1. IInv => TypeOK  BY DEF IInv
<1> QED  BY <1>1, Invariance, PTL

(* A change answered with success is in the queue under the operation id   *)
(* and the counter that were answered; each run of the process can lose at *)
(* most one, on publishing (main.rs:576-585, queue.rs:158-163).            *)
THEOREM AckedQueuedHolds == Spec => []AckedQueued
<1>1. IInv => AckedQueued
  <2> SUFFICES ASSUME IInv PROVE AckedQueued  OBVIOUS
  <2>1. \A a \in acks : a.pos > 0 =>
           log[a.pos].id = a.id /\ log[a.pos].op_id = a.op_id /\ log[a.pos].n = a.n
    BY DEF IInv, AnswersTold, Told
  <2>2. crashes \in Nat /\ Cardinality(LostAcks) \in Nat
    BY StoreBounds, FS_CardinalityType DEF IInv, LostBound, TypeOK
  <2>3. Cardinality(LostAcks) <= crashes + 1  BY <2>2 DEF IInv, LostBound
  <2>4. "publish" \notin Faults => Cardinality(LostAcks) = 0
    BY FS_EmptySet DEF IInv, LostBound
  <2>5. Cardinality(LostAcks) <= (IF "publish" \in Faults THEN crashes + 1 ELSE 0)
    BY <2>2, <2>3, <2>4
  <2> QED  BY <2>1, <2>5 DEF AckedQueued, LostAcks
<1> QED  BY <1>1, Invariance, PTL

(* No two successful answers carry the same operation id, even over a      *)
(* death of the process between push and put_info (main.rs:112-115,        *)
(* 581-585).                                                               *)
THEOREM AckedOpIdUniqueHolds == Spec => []AckedOpIdUnique
<1>1. IInv => AckedOpIdUnique  BY DEF IInv, OpIds
<1> QED  BY <1>1, Invariance, PTL

(* Between two requests the queue tells the state of every individual that *)
(* has no gap (main.rs:494-579).                                           *)
THEOREM LogTellsStoreHolds == Spec => []LogTellsStore
<1>1. IInv => LogTellsStore  BY DEF IInv, Tells, LogTellsStore, InChange
<1> QED  BY <1>1, Invariance, PTL

(* The previous state in an element is the new state of the one before it  *)
(* of the same individual (main.rs:309-319, 541-543).                      *)
THEOREM ChainUnbrokenHolds == Spec => []ChainUnbroken
<1>1. IInv => ChainUnbroken  BY DEF IInv
<1> QED  BY <1>1, Invariance, PTL

(* Between two requests the backup database has what the primary one has,  *)
(* but for individuals of which a change was cut short (main.rs:494-524).  *)
THEOREM BackupFollowsHolds == Spec => []BackupFollows
<1>1. IInv => BackupFollows  BY DEF IInv, Backs, BackupFollows
<1> QED  BY <1>1, Invariance, PTL

-----------------------------------------------------------------------------
(* The follower.                                                           *)

(* Types of the follower's state; no cursor is past the queue, and the     *)
(* saved one never past the one in memory.                                 *)
FollowerTypeOK ==
    /\ next \in 0 .. Len(log) /\ committed \in 0 .. next
    /\ f_info \in Nat
    /\ view \in [Ids -> Indv]

(* What a cursor, in memory or saved, is past has been handled.            *)
CursorsHandled == 1 .. next \subseteq done /\ 1 .. committed \subseteq done

(* An individual whose view is not what the queue had told of it at the    *)
(* cursor, as after a restart, is told of again.                           *)
ToldAgain(id) == \E j \in DOMAIN log : next < j /\ log[j].id = id
ViewAtCursor == \A id \in Ids : ToldAgain(id) \/ view[id] = LastTold(id, next)

(* Until mstorage dies for the first time its operation ids grow along the *)
(* queue, and the one in the follower's info file tells what was handled.  *)
IdsGrow ==
    /\ pc = "down" => log = <<>> /\ info = 0 /\ f_info = 0
    /\ pc # "down" => f_info <= op_id /\ \A j \in DOMAIN log : log[j].op_id <= op_id
    /\ \A i, j \in DOMAIN log : i < j => log[i].op_id < log[j].op_id
    /\ \A j \in DOMAIN log : log[j].op_id <= f_info => j \in done

FollowInv ==
    /\ IInv
    /\ FollowerTypeOK /\ CursorsHandled /\ ViewAtCursor
    /\ crashes = 0 => IdsGrow

-----------------------------------------------------------------------------
(* The queue as the type invariant has it.                                 *)
LEMMA LogType ==
    ASSUME TypeOK
    PROVE  /\ Len(log) \in Nat /\ DOMAIN log = 1 .. Len(log)
           /\ \A j \in DOMAIN log : /\ log[j].id \in Ids /\ log[j].new \in Indv
                                    /\ log[j].op_id \in Nat
<1> DEFINE E == [id : Ids, cmd : {"put", "remove"}, new : Indv, prev : Indv, n : Nat, op_id : Nat]
<1>1. log \in Seq(E)  BY DEF TypeOK
<1>2. \A e \in E : e.id \in Ids /\ e.new \in Indv /\ e.op_id \in Nat  OBVIOUS
<1> HIDE DEF E
<1>3. Len(log) \in Nat /\ DOMAIN log = 1 .. Len(log) /\ \A j \in DOMAIN log : log[j] \in E
  BY <1>1
<1> QED  BY <1>2, <1>3

(* How far the queue had told of an individual one element later.          *)
LEMMA ToldOneLater ==
    ASSUME TypeOK, LastPlaced, NEW k \in 0 .. Len(log), k + 1 \in DOMAIN log, NEW id \in Ids
    PROVE  LastTold(id, k + 1) = IF log[k + 1].id = id THEN log[k + 1].new ELSE LastTold(id, k)
<1>0. k \in Nat  BY LogType
<1>1. Positions(id, k + 1) = Positions(id, k) \cup (IF log[k + 1].id = id THEN {k + 1} ELSE {})
  <2>1. 1 .. k + 1 = 1 .. k \cup {k + 1}  BY <1>0
  <2> QED  BY <2>1 DEF Positions
<1>2. CASE log[k + 1].id = id
  <2> DEFINE P == Positions(id, k + 1)
  <2>1. k + 1 \in P /\ P \subseteq Nat /\ \A i \in P : i <= k + 1
    BY <1>0, <1>1, <1>2 DEF Positions
  <2>2. LastOf(P) = k + 1  BY <2>1, LastOfIs
  <2> QED  BY <1>2, <2>1, <2>2, LastToldIs
<1>3. CASE log[k + 1].id # id
  BY <1>1, <1>3, LastToldIs
<1> QED  BY <1>2, <1>3

(* What no element between two positions is about is told alike at both.   *)
LEMMA ToldNothingBetween ==
    ASSUME TypeOK, NEW k \in 0 .. Len(log), NEW m \in 0 .. k, NEW id \in Ids,
           \A j \in DOMAIN log : m < j /\ j <= k => log[j].id # id
    PROVE  LastTold(id, m) = LastTold(id, k)
<1>1. Positions(id, m) = Positions(id, k)
  <2>1. \A j \in 1 .. k : j \in DOMAIN log  BY LogType
  <2>2. k \in Nat /\ m \in Nat  BY LogType
  <2> QED  BY <2>1, <2>2 DEF Positions
<1> QED  BY <1>1, LastToldIs

-----------------------------------------------------------------------------
(* Nothing is in the queue, and nothing was handled.                       *)
LEMMA FollowInvInit == FollowInit => FollowInv
<1> SUFFICES ASSUME FollowInit PROVE FollowInv  OBVIOUS
<1> USE DEF FollowInit
<1>1. IInv  BY InitInv
<1>2. log = <<>> /\ Len(log) = 0 /\ DOMAIN log = {}  BY DEF Init
<1>3. FollowerTypeOK  BY <1>2, NoneTypes DEF FollowerInit, FollowerTypeOK
<1>4. CursorsHandled  BY DEF FollowerInit, CursorsHandled
<1>5. ViewAtCursor
  <2>1. \A id : Positions(id, 0) = {}  BY DEF Positions
  <2>2. \A id \in Ids : view[id] = NoIndv /\ LastTold(id, 0) = NoIndv
    BY <2>1, LastToldIs DEF FollowerInit
  <2> QED  BY <2>2 DEF FollowerInit, ViewAtCursor
<1>6. IdsGrow  BY <1>2 DEF Init, FollowerInit, IdsGrow
<1> QED  BY <1>1, <1>3, <1>4, <1>5, <1>6 DEF FollowInv

(* A step of mstorage: the queue at most grows behind every cursor.        *)
LEMMA ServerKeeps ==
    ASSUME FollowInv, Next, UNCHANGED followerVars
    PROVE  FollowerTypeOK' /\ CursorsHandled' /\ ViewAtCursor'
<1> USE DEF FollowInv
<1>0. TypeOK /\ LastPlaced  BY DEF IInv
<1>1. next' = next /\ committed' = committed /\ f_info' = f_info /\ view' = view /\ done' = done
  BY DEF followerVars
<1>2. CursorsHandled'  BY <1>1 DEF CursorsHandled
<1>3. CASE UNCHANGED log
  <2>1. \A id : LastTold(id, next)' = LastTold(id, next)
    BY <1>1, <1>3 DEF LastTold, Positions
  <2>2. FollowerTypeOK'  BY <1>1, <1>3 DEF FollowerTypeOK
  <2>3. ViewAtCursor'  BY <1>1, <1>3, <2>1 DEF ViewAtCursor, ToldAgain
  <2> QED  BY <1>2, <2>2, <2>3
<1>4. CASE \E e : log' = Append(log, e)
  <2>1. PICK e : log' = Append(log, e)  BY <1>4
  <2>2. /\ Len(log) \in Nat /\ Len(log') = Len(log) + 1 /\ DOMAIN log \subseteq DOMAIN log'
        /\ \A j \in DOMAIN log : log'[j] = log[j]
    BY <1>0, <2>1, Appended
  <2>3. FollowerTypeOK'  BY <1>1, <2>2 DEF FollowerTypeOK
  <2>4. ViewAtCursor'
    <3> SUFFICES ASSUME NEW id \in Ids, ~ToldAgain(id)'
                 PROVE  view'[id] = LastTold(id, next)'
      BY DEF ViewAtCursor
    <3>1. ~ToldAgain(id)  BY <1>1, <2>2 DEF ToldAgain
    <3>2. view[id] = LastTold(id, next)  BY <3>1 DEF ViewAtCursor
    <3>3. PICK n : n = next  OBVIOUS
    <3>4. n \in 0 .. Len(log)  BY <3>3 DEF FollowerTypeOK
    <3>5. LastTold(id, n)' = LastTold(id, n)  BY <1>0, <2>1, <3>4, ToldBefore
    <3>6. LastTold(id, next)' = LastTold(id, n)'  BY <1>1, <3>3 DEF LastTold, Positions
    <3> QED  BY <1>1, <3>2, <3>3, <3>5, <3>6
  <2> QED  BY <1>2, <2>3, <2>4
<1> QED  BY <1>3, <1>4, LogSteps

(* Operation ids grow with every push.                                     *)
LEMMA ServerIdsGrow ==
    ASSUME FollowInv, Next, UNCHANGED followerVars, crashes' = 0
    PROVE  IdsGrow'
<1> USE DEF FollowInv
<1>0. TypeOK /\ crashes \in Nat /\ op_id \in Nat /\ info \in Nat /\ f_info \in Nat
  BY StoreBounds DEF IInv, TypeOK, FollowerTypeOK
<1>1. f_info' = f_info /\ done' = done  BY DEF followerVars
<1>2. /\ Len(log) \in Nat /\ DOMAIN log = 1 .. Len(log)
      /\ \A j \in DOMAIN log : log[j].op_id \in Nat
  BY <1>0, LogType
<1>3. crashes = 0 /\ ~Crash
  BY <1>0 DEF Next, Start, Receive, RefuseItem, Store, Remove, StoreFails, BackUp, Push, PushFails,
       PutInfo, PutInfoFails, Respond, Crash, countVars
<1>4. IdsGrow  BY <1>3
<1>5. pc' # "down"
  BY <1>3 DEF Next, Start, Receive, RefuseItem, Store, Remove, StoreFails, BackUp, Push, PushFails,
       PutInfo, PutInfoFails, Respond, Fail, Answer, Working
<1>6. CASE pc = "down"
  <2>1. Start
    BY <1>3, <1>6 DEF Next, Receive, RefuseItem, Store, Remove, StoreFails, BackUp, Push, PushFails,
       PutInfo, PutInfoFails, Respond, Working
  <2>2. op_id' = 0 /\ log' = <<>> /\ f_info' = 0  BY <1>1, <1>4, <1>6, <2>1 DEF Start, storeVars, IdsGrow
  <2>3. DOMAIN log' = {}  BY <2>2
  <2> QED  BY <1>5, <2>2, <2>3 DEF IdsGrow
<1>7. CASE pc # "down" /\ UNCHANGED log
  <2>1. op_id' = op_id \/ op_id' = op_id + 1
    BY <1>3, <1>7 DEF Next, Start, Receive, RefuseItem, Store, Remove, StoreFails, BackUp, Push,
       PushFails, PutInfo, PutInfoFails, Respond
  <2> QED  BY <1>0, <1>1, <1>2, <1>4, <1>5, <1>7, <2>1 DEF IdsGrow
<1>8. CASE pc # "down" /\ log' = Append(log, Element(current.id, cur, op_id + 1)) /\ ~UNCHANGED log
  <2> DEFINE e == Element(current.id, cur, op_id + 1)
  <2>1. /\ DOMAIN log' = 1 .. Len(log) + 1
        /\ log'[Len(log) + 1] = e
        /\ \A j \in DOMAIN log : log'[j] = log[j]
    BY <1>0, <1>8, Appended
  <2>2. e.op_id = op_id + 1  BY DEF Element
  <2> HIDE DEF e
  <2>3. op_id' = op_id + 1
    BY <1>3, <1>8 DEF Next, Start, Receive, RefuseItem, Store, Remove, StoreFails, BackUp, Push,
       PushFails, PutInfo, PutInfoFails, Respond, storeVars
  <2>4. \A j \in DOMAIN log' : j \in DOMAIN log \/ j = Len(log) + 1  BY <1>2, <2>1
  <2>8. /\ f_info <= op_id
        /\ \A j \in DOMAIN log : log[j].op_id <= op_id /\ log[j].op_id \in Nat
        /\ \A j \in DOMAIN log : log[j].op_id <= f_info => j \in done
    BY <1>2, <1>4, <1>8 DEF IdsGrow
  <2>9. log'[Len(log) + 1].op_id = op_id + 1  BY <2>1, <2>2
  <2>10. \A j \in DOMAIN log : log'[j].op_id = log[j].op_id  BY <2>1
  <2>5. \A j \in DOMAIN log' : log'[j].op_id <= op_id'
    <3> SUFFICES ASSUME NEW j \in DOMAIN log' PROVE log'[j].op_id <= op_id'  OBVIOUS
    <3>1. CASE j \in DOMAIN log
      <4>1. log'[j].op_id = log[j].op_id /\ log[j].op_id <= op_id /\ log[j].op_id \in Nat
        BY <2>8, <2>10, <3>1
      <4> QED  BY <1>0, <2>3, <4>1
    <3>2. CASE j = Len(log) + 1  BY <1>0, <2>3, <2>9, <3>2
    <3> QED  BY <2>4, <3>1, <3>2
  <2>6. \A i, j \in DOMAIN log' : i < j => log'[i].op_id < log'[j].op_id
    <3> SUFFICES ASSUME NEW i \in DOMAIN log', NEW j \in DOMAIN log', i < j
                 PROVE  log'[i].op_id < log'[j].op_id
      OBVIOUS
    <3>1. i \in DOMAIN log  BY <1>2, <2>1
    <3>2. CASE j \in DOMAIN log  BY <1>4, <2>1, <3>1, <3>2 DEF IdsGrow
    <3>3. CASE j = Len(log) + 1
      <4>1. log'[i].op_id = log[i].op_id /\ log[i].op_id <= op_id /\ log[i].op_id \in Nat
        BY <2>8, <2>10, <3>1
      <4> QED  BY <1>0, <2>9, <3>3, <4>1
    <3> QED  BY <2>4, <3>2, <3>3
  <2>7. \A j \in DOMAIN log' : log'[j].op_id <= f_info' => j \in done'
    <3> SUFFICES ASSUME NEW j \in DOMAIN log', log'[j].op_id <= f_info PROVE j \in done
      BY <1>1
    <3>1. j # Len(log) + 1  BY <1>0, <2>8, <2>9
    <3>2. j \in DOMAIN log /\ log[j].op_id <= f_info  BY <2>4, <2>10, <3>1
    <3> QED  BY <2>8, <3>2
  <2> QED  BY <1>0, <1>1, <1>4, <1>5, <1>8, <2>3, <2>5, <2>6, <2>7 DEF IdsGrow
<1> QED  BY <1>6, <1>7, <1>8, LogSteps

(* The follower handles the next element.                                  *)
LEMMA HandleKeeps ==
    ASSUME FollowInv, Handle, UNCHANGED mstorageVars
    PROVE  FollowerTypeOK' /\ CursorsHandled' /\ ViewAtCursor' /\ (crashes = 0 => IdsGrow')
<1> USE DEF FollowInv
<1> DEFINE e == log[next + 1]
<1>0. TypeOK /\ LastPlaced  BY DEF IInv
<1>1. /\ log' = log /\ pc' = pc /\ op_id' = op_id /\ info' = info
  BY DEF mstorageVars, storeVars, memoryVars
<1>2. /\ Len(log) \in Nat /\ DOMAIN log = 1 .. Len(log)
      /\ next \in 0 .. Len(log) /\ next < Len(log) /\ next + 1 \in DOMAIN log
  BY <1>0, LogType DEF FollowerTypeOK, Handle
<1>3. e.id \in Ids /\ e.new \in Indv /\ e.op_id \in Nat  BY <1>0, <1>2, LogType
<1>4. /\ view' = [view EXCEPT ![e.id] = e.new] /\ f_info' = e.op_id
      /\ done' = done \cup {next + 1} /\ next' = next + 1
      /\ committed' \in {committed, next + 1}
  BY DEF Handle
<1> HIDE DEF e
<1>5. FollowerTypeOK'  BY <1>1, <1>2, <1>3, <1>4 DEF FollowerTypeOK
<1>6. CursorsHandled'
  <2>1. 1 .. next + 1 = 1 .. next \cup {next + 1}  BY <1>2
  <2> QED  BY <1>4, <2>1 DEF CursorsHandled
<1>7. ViewAtCursor'
  <2> SUFFICES ASSUME NEW id \in Ids, ~ToldAgain(id)' PROVE view'[id] = LastTold(id, next)'
    BY DEF ViewAtCursor
  <2>1. LastTold(id, next)' = LastTold(id, next + 1)
    BY <1>1, <1>4 DEF LastTold, Positions
  <2>2. LastTold(id, next + 1) = IF e.id = id THEN e.new ELSE LastTold(id, next)
    BY <1>0, <1>2, ToldOneLater DEF e
  <2>3. view \in [Ids -> Indv]  BY DEF FollowerTypeOK
  <2>4. CASE e.id = id  BY <1>4, <2>1, <2>2, <2>3, <2>4
  <2>5. CASE e.id # id
    <3>1. view'[id] = view[id]  BY <1>4, <2>3, <2>5
    <3>2. ~ToldAgain(id)
      <4> SUFFICES ASSUME NEW j \in DOMAIN log, next < j, log[j].id = id PROVE FALSE
        BY DEF ToldAgain
      <4>1. j # next + 1  BY <2>5 DEF e
      <4>2. next + 1 < j  BY <1>2, <4>1
      <4> QED  BY <1>1, <1>4, <4>2 DEF ToldAgain
    <3> QED  BY <2>1, <2>2, <2>5, <3>1, <3>2 DEF ViewAtCursor
  <2> QED  BY <2>4, <2>5
<1>8. ASSUME crashes = 0 PROVE IdsGrow'
  <2>0. IdsGrow /\ op_id \in Nat  BY <1>0, <1>8 DEF TypeOK
  <2>1. pc # "down"  BY <1>2, <2>0 DEF IdsGrow
  <2>2. e.op_id <= op_id  BY <1>2, <2>0, <2>1 DEF IdsGrow, e
  <2>3. ASSUME NEW j \in DOMAIN log, log[j].op_id <= e.op_id PROVE j \in done'
    <3>1. ~(next + 1 < j)
      <4> SUFFICES ASSUME next + 1 < j PROVE FALSE  OBVIOUS
      <4>1. e.op_id < log[j].op_id  BY <1>2, <2>0 DEF IdsGrow, e
      <4>2. log[j].op_id \in Nat  BY <1>0, LogType
      <4> QED  BY <1>3, <2>3, <4>1, <4>2
    <3>2. j \in 1 .. next \/ j = next + 1  BY <1>2, <3>1
    <3> QED  BY <1>4, <3>2 DEF CursorsHandled
  <2> QED  BY <1>1, <1>4, <2>0, <2>1, <2>2, <2>3 DEF IdsGrow
<1> QED  BY <1>5, <1>6, <1>7, <1>8

(* The follower dies and goes back to a cursor it had.                     *)
LEMMA RestartKeeps ==
    ASSUME FollowInv, Restart, UNCHANGED mstorageVars
    PROVE  FollowerTypeOK' /\ CursorsHandled' /\ ViewAtCursor' /\ (crashes = 0 => IdsGrow')
<1> USE DEF FollowInv
<1>0. TypeOK /\ Len(log) \in Nat /\ DOMAIN log = 1 .. Len(log)  BY LogType DEF IInv
<1>1. log' = log /\ pc' = pc /\ op_id' = op_id /\ info' = info
  BY DEF mstorageVars, storeVars, memoryVars
<1>2. /\ committed' \in {committed, 0} /\ next' = committed'
      /\ f_info' = f_info /\ view' = view /\ done' = done
  BY DEF Restart
<1>3. FollowerTypeOK'  BY <1>0, <1>1, <1>2 DEF FollowerTypeOK
<1>4. CursorsHandled'  BY <1>2 DEF CursorsHandled
<1>5. crashes = 0 => IdsGrow'  BY <1>1, <1>2 DEF IdsGrow
<1>6. ViewAtCursor'
  <2> SUFFICES ASSUME NEW id \in Ids, ~ToldAgain(id)' PROVE view'[id] = LastTold(id, next)'
    BY DEF ViewAtCursor
  <2> PICK m : m = next'  OBVIOUS
  <2>1. next \in 0 .. Len(log) /\ m \in 0 .. Len(log)  BY <1>1, <1>2, <1>3 DEF FollowerTypeOK
  <2>2. \A j \in DOMAIN log : m < j => log[j].id # id  BY <1>1 DEF ToldAgain
  <2>3. LastTold(id, next)' = LastTold(id, m)  BY <1>1 DEF LastTold, Positions
  <2>4. m \in 0 .. next  BY <1>2, <2>1 DEF FollowerTypeOK
  <2>5. LastTold(id, m) = LastTold(id, next)  BY <1>0, <2>1, <2>2, <2>4, ToldNothingBetween
  <2>6. ~ToldAgain(id)
    <3>1. \A j \in DOMAIN log : next < j => m < j  BY <1>0, <2>1, <2>4
    <3> QED  BY <2>2, <3>1 DEF ToldAgain
  <2> QED  BY <1>2, <2>3, <2>5, <2>6 DEF ViewAtCursor
<1> QED  BY <1>3, <1>4, <1>5, <1>6

(* Every step of the server or the follower keeps the invariant.           *)
LEMMA FollowStep == FollowInv /\ [FollowNext]_allVars => FollowInv'
<1> SUFFICES ASSUME FollowInv, [FollowNext]_allVars PROVE FollowInv'  OBVIOUS
<1>0. IInv /\ crashes \in Nat  BY StoreBounds DEF FollowInv, IInv, TypeOK
<1>1. CASE Next /\ UNCHANGED followerVars
  <2>1. IInv'  BY <1>0, <1>1, NextInv
  <2>2. FollowerTypeOK' /\ CursorsHandled' /\ ViewAtCursor'  BY <1>1, ServerKeeps
  <2>3. crashes' = 0 => IdsGrow'  BY <1>1, ServerIdsGrow
  <2> QED  BY <2>1, <2>2, <2>3 DEF FollowInv
<1>2. CASE (Handle \/ Restart) /\ UNCHANGED mstorageVars
  <2>1. IInv'  BY <1>0, <1>2, StutterInv
  <2>2. crashes' = crashes  BY <1>2 DEF mstorageVars, countVars
  <2> QED  BY <1>2, <2>1, <2>2, HandleKeeps, RestartKeeps DEF FollowInv
<1>3. CASE UNCHANGED allVars
  <2>1. IInv'  BY <1>0, <1>3, StutterInv DEF allVars
  <2>2. /\ UNCHANGED <<log, info, pc, op_id, crashes, acks>>
        /\ UNCHANGED <<next, committed, f_info, view, done>>
    BY <1>3 DEF allVars, mstorageVars, storeVars, memoryVars, countVars, historyVars, followerVars
  <2>3. \A id : LastTold(id, next)' = LastTold(id, next)  BY <2>2 DEF LastTold, Positions
  <2>4. FollowerTypeOK' /\ CursorsHandled'  BY <2>2 DEF FollowInv, FollowerTypeOK, CursorsHandled
  <2>5. ViewAtCursor'  BY <2>2, <2>3 DEF FollowInv, ViewAtCursor, ToldAgain
  <2>6. crashes' = 0 => IdsGrow'  BY <2>2 DEF FollowInv, IdsGrow
  <2> QED  BY <2>1, <2>4, <2>5, <2>6 DEF FollowInv
<1> QED  BY <1>1, <1>2, <1>3 DEF FollowNext

(* The invariant holds whatever fails and whoever dies                     *)
(* (veda-mstorage main.rs, module.rs:289-327).                             *)
THEOREM FollowInvariance == FollowSpec => []FollowInv
<1>1. FollowInit => FollowInv  BY FollowInvInit
<1>2. FollowInv /\ [FollowNext]_allVars => FollowInv'  BY FollowStep
<1> QED  BY <1>1, <1>2, PTL DEF FollowSpec

(* A follower never disturbs mstorage: what is proved of every behaviour   *)
(* of the server holds with a follower beside it (module.rs:289-327).      *)
THEOREM ServerUndisturbed == FollowSpec => Spec
<1>1. FollowInit => Init  BY DEF FollowInit
<1>2. [FollowNext]_allVars => [Next]_mstorageVars  BY DEF FollowNext, allVars
<1> QED  BY <1>1, <1>2, PTL DEF FollowSpec, Spec

(* A follower at the end of the queue has the state of every individual    *)
(* without a gap, however often it died and started again at an old cursor *)
(* (module.rs:289-327, veda-az-indexer main.rs:107).                       *)
THEOREM FollowerConvergesHolds == FollowSpec => []FollowerConverges
<1>1. FollowInv => FollowerConverges
  <2> SUFFICES ASSUME FollowInv, pc = "recv", next = Len(log), NEW id \in Ids \ gaps
               PROVE  view[id] = db[id]
    BY DEF FollowerConverges
  <2>1. TypeOK  BY DEF FollowInv, IInv
  <2>2. ~ToldAgain(id)  BY <2>1, LogType DEF ToldAgain
  <2>3. view[id] = LastTold(id, Len(log))  BY <2>2 DEF FollowInv, ViewAtCursor
  <2>4. LastTold(id, Len(log)) = db[id]  BY DEF FollowInv, IInv, Tells, InChange
  <2> QED  BY <2>3, <2>4
<1> QED  BY <1>1, FollowInvariance, PTL

(* As long as mstorage has not died a client may rely on the operation id  *)
(* in a module's info file, whatever else fails and however often the      *)
(* module dies (public/js/browser/backend.js:323-334).                     *)
THEOREM OpIdWaitUntilDeath == FollowSpec => [](crashes = 0 => OpIdWait)
<1>1. FollowInv => (crashes = 0 => OpIdWait)
  <2> SUFFICES ASSUME FollowInv, crashes = 0, NEW a \in acks, a.pos > 0, f_info >= a.op_id
               PROVE  a.pos \in done
    BY DEF OpIdWait
  <2>1. a.pos \in DOMAIN log /\ log[a.pos].op_id = a.op_id
    BY DEF FollowInv, IInv, AnswersTold, Told
  <2>2. log[a.pos].op_id <= f_info  BY <2>1
  <2> QED  BY <2>1, <2>2 DEF FollowInv, IdsGrow
<1> QED  BY <1>1, FollowInvariance, PTL
=============================================================================
