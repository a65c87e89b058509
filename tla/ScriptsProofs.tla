--------------------------- MODULE ScriptsProofs ---------------------------
(***************************************************************************)
(* Theorems about the script machines of veda-scripts-v8, for every set of *)
(* machines, documents and scripts, every order of the scripts, and every  *)
(* number of changes, parts and deaths.                                    *)
(***************************************************************************)
EXTENDS Scripts, FiniteSetTheorems, TLAPS

(* Elements of the queue, and what is in a part.                           *)
Paths == Seq((Docs \X ScriptNames) \cup {Ignore})
Events == [doc : Docs, src : Vms \cup {User}, path : Paths]

QueueOK ==
    /\ log \in [Parts -> Seq(Events)]
    /\ top \in Parts
    /\ \A p \in Parts : p > top => log[p] = <<>>

MachinesOK ==
    /\ cursor \in [Vms -> [id : Parts, count : Nat]]
    /\ seen \in [Vms -> [id : Parts, count : Nat]]
    /\ saved \in [Vms -> [id : Parts, count : Nat] \cup {Empty}]
    /\ vpc \in [Vms -> {"pop", "enter", "wait_main", "scripts", "commit"}]
    /\ script \in [Vms -> 0 .. Len(ScriptsOrder)]
    /\ items \in [Vms -> Seq(Docs)]

CountsOK == puts \in 0 .. MaxPut /\ crashes \in 0 .. MaxCrash

(* A cursor is never past what is written: no later push falls behind it.  *)
Reached(c) ==
    /\ c.id \in Parts /\ c.count \in Nat
    /\ c.id <= top /\ c.count <= Len(log[c.id])

CursorsReached(vm) ==
    /\ Reached(cursor[vm]) /\ Reached(seen[vm])
    /\ saved[vm] = Empty \/ Reached(saved[vm])

(* A machine at work has an element, and a script when it commits.         *)
AtElement(vm) ==
    /\ vpc[vm] \in {"wait_main", "scripts", "commit"} => Record(vm) \in DOMAIN log[cursor[vm].id]
    /\ vpc[vm] = "wait_main" => script[vm] = 0
    /\ vpc[vm] = "commit" =>
           /\ script[vm] \in DOMAIN ScriptsOrder
           /\ <<vm, cursor[vm].id, Record(vm), ScriptsOrder[script[vm]]>> \in ran

(* A script that was run fell to the machine that ran it.                  *)
RanFell ==
    \A x \in ran :
        /\ x[1] \in Vms /\ x[2] \in Parts /\ x[3] \in DOMAIN log[x[2]]
        /\ FallsTo(x[1], log[x[2]][x[3]], x[4])

(* What main's cursor is past, in memory, saved, or as another machine has *)
(* seen it, main has finished.                                             *)
MainDone(c) == \A x \in Places : Before(x[1], x[2], c) => <<Main, x[1], x[2]>> \in done

Behind(vm) ==
    /\ MainDone(seen[vm])
    /\ vm # Main /\ vpc[vm] \in {"scripts", "commit"} => ~Ahead(cursor[vm], seen[vm])

(* What a cursor of a machine is past has the transactions that fall to    *)
(* this machine, and so has the element in work, up to the script in work. *)
Committed(vm, c) ==
    \A x \in Places : Before(x[1], x[2], c) =>
        \A s \in ScriptNames :
            Applies(vm, log[x[1]][x[2]], s) => <<vm, x[1], x[2], s>> \in committed

Finished(vm) == IF vpc[vm] = "commit" THEN script[vm] - 1 ELSE script[vm]

CommittedSoFar(vm) ==
    \A i \in 1 .. Finished(vm) : Applies(vm, Current(vm), ScriptsOrder[i]) =>
        <<vm, cursor[vm].id, Record(vm), ScriptsOrder[i]>> \in committed

NothingLost(vm) ==
    /\ Committed(vm, cursor[vm]) /\ Committed(vm, saved[vm])
    /\ vpc[vm] \in {"scripts", "commit"} => CommittedSoFar(vm)

MachineInv(vm) == CursorsReached(vm) /\ AtElement(vm) /\ Behind(vm) /\ NothingLost(vm)

ScriptsInv ==
    /\ QueueOK /\ MachinesOK /\ CountsOK
    /\ committed \subseteq ran /\ RanFell
    /\ MainDone(cursor[Main]) /\ MainDone(saved[Main])
    /\ \A vm \in Vms : MachineInv(vm)

-----------------------------------------------------------------------------
(* A set of numbers has a least one.                                       *)
LEMMA LeastNumber ==
    ASSUME NEW S \in SUBSET Nat, S # {}
    PROVE  \E m \in S : \A k \in S : m <= k
<1> DEFINE R == {ss \in Nat \X Nat : ss[1] < ss[2]}
<1>1. IsWellFoundedOn(R, Nat)  BY NatLessThanWellFounded DEF OpToRel
<1>2. PICK m \in S : \A y \in S : ~(<<y, m>> \in R)
  <2> HIDE DEF R
  <2> QED  BY <1>1, WFMin
<1>3. \A y \in S : ~(y < m)  BY <1>2
<1> QED  BY <1>3

(* What the sequences of the queue are.                                    *)
LEMMA QueueType ==
    ASSUME QueueOK, NEW p \in Parts
    PROVE  /\ log[p] \in Seq(Events) /\ Len(log[p]) \in Nat /\ DOMAIN log[p] = 1 .. Len(log[p])
           /\ \A k \in DOMAIN log[p] : log[p][k] \in Events
<1> HIDE DEF Events
<1>1. log[p] \in Seq(Events)  BY DEF QueueOK
<1> QED  BY <1>1

(* The queue grows behind what is there: the older parts are closed.       *)
Grown ==
    /\ QueueOK' /\ top <= top'
    /\ \A p \in Parts : /\ Len(log[p]) <= Len(log'[p])
                        /\ \A k \in DOMAIN log[p] : k \in DOMAIN log'[p] /\ log'[p][k] = log[p][k]
    /\ \A p \in Parts : p < top => log'[p] = log[p]

(* A push, to the newest part.                                             *)
LEMMA PushGrows ==
    ASSUME QueueOK, NEW e \in Events, log' = [log EXCEPT ![top] = Append(@, e)], top' = top
    PROVE  Grown
<1> HIDE DEF Events
<1>1. top \in Parts /\ log \in [Parts -> Seq(Events)]  BY DEF QueueOK
<1>2. log[top] \in Seq(Events) /\ Append(log[top], e) \in Seq(Events)  BY <1>1
<1>3. log' \in [Parts -> Seq(Events)]  BY <1>1, <1>2
<1>4. QueueOK'  BY <1>1, <1>3 DEF QueueOK, Parts
<1>5. \A p \in Parts : p # top => log'[p] = log[p]  BY <1>1
<1>6. log'[top] = Append(log[top], e)  BY <1>1
<1>7. /\ Len(log[top]) <= Len(log'[top])
      /\ \A k \in DOMAIN log[top] : k \in DOMAIN log'[top] /\ log'[top][k] = log[top][k]
  BY <1>2, <1>6
<1>8. \A p \in Parts : Len(log[p]) \in Nat  BY QueueType
<1>9. \A p \in Parts : /\ Len(log[p]) <= Len(log'[p])
                       /\ \A k \in DOMAIN log[p] : k \in DOMAIN log'[p] /\ log'[p][k] = log[p][k]
  BY <1>5, <1>7, <1>8
<1>10. top \in Int  BY <1>1 DEF Parts
<1> QED  BY <1>1, <1>4, <1>5, <1>9, <1>10 DEF Grown

(* No push, perhaps a new part.                                            *)
LEMMA StillGrows ==
    ASSUME QueueOK, log' = log, top' \in Parts, top <= top'
    PROVE  Grown
<1>1. \A p \in Parts : Len(log[p]) \in Nat  BY QueueType
<1>2. top \in Parts  BY DEF QueueOK
<1>3. QueueOK'  BY <1>2, ScriptBounds DEF QueueOK, Parts
<1> QED  BY <1>1, <1>3 DEF Grown

(* The element in work, and what SendItem pushes.                          *)
LEMMA CurrentEvent ==
    ASSUME QueueOK, MachinesOK, NEW vm \in Vms, AtElement(vm), vpc[vm] \in {"wait_main", "scripts", "commit"}
    PROVE  /\ cursor[vm].id \in Parts /\ cursor[vm].count \in Nat /\ Record(vm) \in Nat
           /\ Record(vm) \in DOMAIN log[cursor[vm].id] /\ Current(vm) \in Events
<1>1. cursor[vm].id \in Parts /\ cursor[vm].count \in Nat  BY DEF MachinesOK
<1>2. Record(vm) \in DOMAIN log[cursor[vm].id]  BY DEF AtElement
<1>3. Record(vm) \in Nat  BY <1>1 DEF Record
<1> QED  BY <1>1, <1>2, <1>3, QueueType DEF Current

LEMMA SentEvent ==
    ASSUME QueueOK, MachinesOK, NEW vm \in Vms, AtElement(vm), vpc[vm] = "commit", items[vm] # <<>>,
           NEW src \in Vms \cup {User}
    PROVE  Element(Head(items[vm]), src,
                   <<Run(Current(vm).doc, ScriptsOrder[script[vm]])>> \o Current(vm).path) \in Events
<1>1. Current(vm) \in Events  BY CurrentEvent
<1>2. Current(vm).doc \in Docs /\ Current(vm).path \in Paths  BY <1>1 DEF Events
<1>3. items[vm] \in Seq(Docs)  BY DEF MachinesOK
<1>4. Head(items[vm]) \in Docs  BY <1>3
<1>5. ScriptsOrder[script[vm]] \in ScriptNames  BY OrderAssumption DEF AtElement
<1> DEFINE S == (Docs \X ScriptNames) \cup {Ignore}
           r == Run(Current(vm).doc, ScriptsOrder[script[vm]])
<1>6. r \in S  BY <1>2, <1>5 DEF Run
<1>7. Current(vm).path \in Seq(S)  BY <1>2 DEF Paths
<1> HIDE DEF S, r
<1>8. <<r>> \o Current(vm).path \in Seq(S)  BY <1>6, <1>7
<1>9. <<r>> \o Current(vm).path \in Paths  BY <1>8 DEF S, Paths
<1> QED  BY <1>4, <1>9 DEF Element, Events, r

(* Whatever step is taken, the queue at most grows.                        *)
LEMMA NextGrows ==
    ASSUME QueueOK, MachinesOK, \A vm \in Vms : AtElement(vm), Next
    PROVE  Grown
<1>0. top \in Parts /\ top \in Int /\ top <= top  BY DEF QueueOK, Parts
<1>1. CASE UserPut
  <2>1. PICK d \in Docs, path \in {<<>>, <<Ignore>>} :
            log' = [log EXCEPT ![top] = Append(@, Element(d, User, path))]
    BY <1>1, Zenon DEF UserPut
  <2>2. path \in Paths
    <3> DEFINE S == (Docs \X ScriptNames) \cup {Ignore}
    <3>1. Ignore \in S  OBVIOUS
    <3> HIDE DEF S
    <3>2. <<>> \in Seq(S) /\ <<Ignore>> \in Seq(S)  BY <3>1
    <3> QED  BY <2>1, <3>2 DEF S, Paths
  <2>3. Element(d, User, path) \in Events  BY <2>2 DEF Element, Events
  <2>4. top' = top  BY <1>1 DEF UserPut
  <2> QED  BY <2>1, <2>3, <2>4, PushGrows
<1>2. CASE NewPart
  <2>1. log' = log /\ top' \in Parts /\ top <= top'
    BY <1>0, <1>2, ScriptBounds DEF NewPart, Parts
  <2> QED  BY <2>1, StillGrows
<1>3. ASSUME NEW vm \in Vms, SendItem(vm) PROVE Grown
  <2> DEFINE src == IF ScriptsOrder[script[vm]] \in KeepSource THEN Current(vm).src ELSE vm
             e == Element(Head(items[vm]), src,
                          <<Run(Current(vm).doc, ScriptsOrder[script[vm]])>> \o Current(vm).path)
  <2>1. vpc[vm] = "commit" /\ items[vm] # <<>> /\ top' = top  BY <1>3 DEF SendItem
  <2>2. log' = [log EXCEPT ![top] = Append(@, e)]  BY <1>3 DEF SendItem
  <2>3. Current(vm).src \in Vms \cup {User}  BY <2>1, CurrentEvent DEF Events
  <2>4. src \in Vms \cup {User}  BY <2>3
  <2> HIDE DEF src
  <2>5. e \in Events  BY <2>1, <2>4, SentEvent
  <2> HIDE DEF e
  <2> QED  BY <2>1, <2>2, <2>5, PushGrows
<1>4. ASSUME NEW vm \in Vms, ~SendItem(vm),
             Step(vm) \/ ItemDropped(vm) \/ UpdateRefused(vm) \/ Crash(vm)
      PROVE  Grown
  <2>1. log' = log /\ top' = top
    BY <1>4 DEF Step, Pop, EnterPart, CommitPart, WaitMain, RunScript, CommitDone, NextRecord,
                ItemDropped, UpdateRefused, Crash, flowVars
  <2> QED  BY <1>0, <2>1, StillGrows
<1> QED  BY <1>1, <1>2, <1>3, <1>4 DEF Next

-----------------------------------------------------------------------------
(* Elements a cursor is past were there before a step.                     *)
LEMMA OldPlaces ==
    ASSUME QueueOK, Grown, NEW c, Reached(c) \/ c = Empty,
           NEW x \in Places', Before(x[1], x[2], c)
    PROVE  x \in Places /\ x[1] \in Parts /\ x[2] \in DOMAIN log[x[1]]
           /\ log'[x[1]][x[2]] = log[x[1]][x[2]]
<1>1. /\ x \in Parts \X (1 .. MaxLog) /\ x[1] \in Parts /\ x[2] \in 1 .. MaxLog
      /\ x[1] \in Int /\ x[2] \in Nat /\ x[2] >= 1 /\ x[2] <= Len(log'[x[1]])
  BY ScriptBounds DEF Places, Parts
<1>2. c # Empty
  <2> SUFFICES ASSUME c = Empty PROVE FALSE  OBVIOUS
  <2>1. c.id = -1  BY DEF Empty, Cursor
  <2>2. x[1] >= 0  BY <1>1 DEF Parts
  <2> QED  BY <1>1, <2>1, <2>2 DEF Before
<1>3. c.id \in Parts /\ c.count \in Nat /\ c.id <= top /\ c.count <= Len(log[c.id])
  BY <1>2 DEF Reached
<1>4. top \in Int /\ c.id \in Int  BY <1>3 DEF QueueOK, Parts
<1>5. x[2] <= Len(log[x[1]])
  <2>1. CASE x[1] < c.id
    <3>1. log'[x[1]] = log[x[1]]  BY <1>1, <1>3, <1>4, <2>1 DEF Grown
    <3> QED  BY <1>1, <3>1
  <2>2. CASE x[1] = c.id /\ x[2] <= c.count
    <3>1. Len(log[x[1]]) \in Nat  BY <1>1, QueueType
    <3> QED  BY <1>1, <1>3, <2>2, <3>1
  <2> QED  BY <2>1, <2>2 DEF Before
<1>6. x \in Places  BY <1>1, <1>5 DEF Places
<1>7. x[2] \in DOMAIN log[x[1]]  BY <1>1, <1>5, QueueType
<1> QED  BY <1>1, <1>6, <1>7 DEF Grown

(* What a cursor tells stays true.                                         *)
LEMMA ReachedKept ==
    ASSUME QueueOK, Grown, NEW c, Reached(c)
    PROVE  Reached(c)'
<1>1. c.id \in Parts /\ c.count \in Nat /\ c.id <= top /\ c.count <= Len(log[c.id])  BY DEF Reached
<1>2. top \in Int /\ top' \in Int /\ c.id \in Int  BY <1>1 DEF QueueOK, Grown, Parts
<1>3. Len(log[c.id]) \in Nat /\ Len(log[c.id]) <= Len(log'[c.id])  BY <1>1, QueueType DEF Grown
<1>4. log'[c.id] \in Seq(Events)  BY <1>1 DEF Grown, QueueOK
<1>5. Len(log'[c.id]) \in Nat
  <2> HIDE DEF Events
  <2> QED  BY <1>4
<1> QED  BY <1>1, <1>2, <1>3, <1>5 DEF Reached, Grown

LEMMA MainDoneKept ==
    ASSUME QueueOK, Grown, done \subseteq done', NEW c, Reached(c) \/ c = Empty, MainDone(c)
    PROVE  MainDone(c)'
<1> SUFFICES ASSUME NEW x \in Places', Before(x[1], x[2], c) PROVE <<Main, x[1], x[2]>> \in done'
  BY DEF MainDone
<1> QED  BY OldPlaces DEF MainDone

LEMMA CommittedKept ==
    ASSUME QueueOK, Grown, committed \subseteq committed', NEW vm \in Vms, NEW c,
           Reached(c) \/ c = Empty, Committed(vm, c)
    PROVE  Committed(vm, c)'
<1> SUFFICES ASSUME NEW x \in Places', Before(x[1], x[2], c), NEW s \in ScriptNames,
                    Applies(vm, log'[x[1]][x[2]], s)
             PROVE  <<vm, x[1], x[2], s>> \in committed'
  BY DEF Committed
<1>1. x \in Places /\ log'[x[1]][x[2]] = log[x[1]][x[2]]  BY OldPlaces
<1> QED  BY <1>1 DEF Committed

(* A machine that does nothing keeps what holds of it.                     *)
LEMMA MachineKept ==
    ASSUME QueueOK, MachinesOK, Grown, NEW vm \in Vms, MachineInv(vm),
           ran \subseteq ran', committed \subseteq committed', done \subseteq done',
           cursor'[vm] = cursor[vm], seen'[vm] = seen[vm], saved'[vm] = saved[vm],
           vpc'[vm] = vpc[vm], script'[vm] = script[vm]
    PROVE  MachineInv(vm)'
<1> USE DEF MachineInv
<1>1. CursorsReached(vm)'
  <2>1. \A c : Reached(c) => Reached(c)'  BY ReachedKept
  <2>2. PICK c, m, v : c = cursor[vm] /\ m = seen[vm] /\ v = saved[vm]  OBVIOUS
  <2>3. Reached(c)' /\ Reached(m)' /\ (v = Empty \/ Reached(v)')  BY <2>1, <2>2 DEF CursorsReached
  <2>4. c = cursor'[vm] /\ m = seen'[vm] /\ v = saved'[vm]  BY <2>2
  <2> QED  BY <2>3, <2>4 DEF CursorsReached, Reached
<1>2. cursor[vm].id \in Parts  BY DEF MachinesOK
<1>3. AtElement(vm)'  BY <1>2 DEF AtElement, Record, Grown
<1>4. Behind(vm)'
  <2>1. PICK m : m = seen[vm]  OBVIOUS
  <2>2. MainDone(m)'  BY <2>1, MainDoneKept DEF Behind, CursorsReached
  <2>3. MainDone(seen[vm])'  BY <2>1, <2>2 DEF MainDone
  <2> QED  BY <2>3 DEF Behind
<1>5. NothingLost(vm)'
  <2>1. PICK c, v : c = cursor[vm] /\ v = saved[vm]  OBVIOUS
  <2>2. Committed(vm, c)' /\ Committed(vm, v)'
    BY <2>1, CommittedKept DEF NothingLost, CursorsReached
  <2>3. Committed(vm, cursor[vm])' /\ Committed(vm, saved[vm])'  BY <2>1, <2>2 DEF Committed
  <2>4. vpc[vm] \in {"scripts", "commit"} => CommittedSoFar(vm)'
    <3> SUFFICES ASSUME vpc[vm] \in {"scripts", "commit"} PROVE CommittedSoFar(vm)'  OBVIOUS
    <3>1. Current(vm)' = Current(vm) /\ Record(vm)' = Record(vm)
      BY <1>2 DEF AtElement, Record, Current, Grown
    <3>2. Finished(vm)' = Finished(vm)  BY DEF Finished
    <3> QED  BY <3>1, <3>2 DEF NothingLost, CommittedSoFar
  <2> QED  BY <2>3, <2>4 DEF NothingLost
<1> QED  BY <1>1, <1>3, <1>4, <1>5

(* What holds of a machine after a step, from what its cursors are then.   *)
LEMMA MachineAfter ==
    ASSUME QueueOK, Grown, done \subseteq done', NEW vm \in Vms, NEW c, NEW m, NEW v,
           cursor'[vm] = c, seen'[vm] = m, saved'[vm] = v,
           Reached(c), Reached(m), v = Empty \/ Reached(v), MainDone(m),
           Committed(vm, c)', Committed(vm, v)', AtElement(vm)',
           vpc'[vm] \in {"scripts", "commit"} =>
               CommittedSoFar(vm)' /\ (vm # Main => ~Ahead(c, m))
    PROVE  MachineInv(vm)'
<1>1. CursorsReached(vm)'
  <2>1. Reached(c)' /\ Reached(m)' /\ (v = Empty \/ Reached(v)')  BY ReachedKept
  <2> QED  BY <2>1 DEF CursorsReached, Reached
<1>2. Behind(vm)'
  <2>1. MainDone(m)'  BY MainDoneKept
  <2>2. MainDone(seen[vm])'  BY <2>1 DEF MainDone
  <2> QED  BY <2>2 DEF Behind
<1>3. NothingLost(vm)'
  <2>1. Committed(vm, cursor[vm])' /\ Committed(vm, saved[vm])'  BY DEF Committed
  <2> QED  BY <2>1 DEF NothingLost
<1> QED  BY <1>1, <1>2, <1>3 DEF MachineInv

(* Nothing is before the beginning of the queue, or before an empty file.  *)
LEMMA NothingBefore ==
    ASSUME QueueOK
    PROVE  /\ Reached(Cursor(0, 0))
           /\ \A c \in {Empty, Cursor(0, 0)} : MainDone(c) /\ \A vm \in Vms : Committed(vm, c)
<1>1. 0 \in Parts /\ Len(log[0]) \in Nat /\ top \in Nat  BY ScriptBounds, QueueType DEF QueueOK, Parts
<1>2. Reached(Cursor(0, 0))  BY <1>1 DEF Reached, Cursor
<1>3. ASSUME NEW c \in {Empty, Cursor(0, 0)}, NEW x \in Places PROVE ~Before(x[1], x[2], c)
  <2>1. x[1] \in Int /\ x[1] >= 0 /\ x[2] \in Int /\ x[2] >= 1  BY DEF Places, Parts
  <2>2. c.id = c.count /\ (c.id = -1 \/ c.id = 0)  BY DEF Empty, Cursor
  <2> QED  BY <2>1, <2>2 DEF Before
<1> QED  BY <1>2, <1>3 DEF MainDone, Committed

(* A step of one machine, as the others see it.                            *)
LEMMA OthersKept ==
    ASSUME ScriptsInv, Grown, NEW vm,
           ran \subseteq ran', committed \subseteq committed', done \subseteq done',
           \A u \in Vms \ {vm} : /\ cursor'[u] = cursor[u] /\ seen'[u] = seen[u]
                                 /\ saved'[u] = saved[u] /\ vpc'[u] = vpc[u]
                                 /\ script'[u] = script[u]
    PROVE  /\ \A u \in Vms \ {vm} : MachineInv(u)'
           /\ vm # Main => MainDone(cursor[Main])' /\ MainDone(saved[Main])'
<1> USE DEF ScriptsInv
<1>1. \A u \in Vms \ {vm} : MachineInv(u)'  BY MachineKept
<1>2. ASSUME vm # Main PROVE MainDone(cursor[Main])' /\ MainDone(saved[Main])'
  <2>1. PICK c, v : c = cursor[Main] /\ v = saved[Main]  OBVIOUS
  <2>2. Reached(c) /\ (v = Empty \/ Reached(v))  BY <2>1, VmsAssumption DEF MachineInv, CursorsReached
  <2>3. MainDone(c)' /\ MainDone(v)'  BY <2>1, <2>2, MainDoneKept
  <2>4. cursor'[Main] = c /\ saved'[Main] = v  BY <1>2, <2>1, VmsAssumption
  <2> QED  BY <2>3, <2>4 DEF MainDone
<1> QED  BY <1>1, <1>2

(* The same for the machine itself, when its cursors stay.                 *)
LEMMA MainKept ==
    ASSUME ScriptsInv, Grown, done \subseteq done',
           cursor'[Main] = cursor[Main], saved'[Main] = saved[Main]
    PROVE  MainDone(cursor[Main])' /\ MainDone(saved[Main])'
<1> USE DEF ScriptsInv
<1>1. PICK c, v : c = cursor[Main] /\ v = saved[Main]  OBVIOUS
<1>2. Reached(c) /\ (v = Empty \/ Reached(v))  BY <1>1, VmsAssumption DEF MachineInv, CursorsReached
<1>3. MainDone(c)' /\ MainDone(v)'  BY <1>1, <1>2, MainDoneKept
<1> QED  BY <1>1, <1>3 DEF MainDone

(* What a step leaves of the runs and the queue keeps the runs what they   *)
(* were.                                                                   *)
LEMMA RanKept ==
    ASSUME QueueOK, Grown, RanFell,
           \A x \in ran' \ ran : /\ x[1] \in Vms /\ x[2] \in Parts /\ x[3] \in DOMAIN log[x[2]]
                                 /\ FallsTo(x[1], log[x[2]][x[3]], x[4])
    PROVE  RanFell'
<1> SUFFICES ASSUME NEW x \in ran'
             PROVE  /\ x[1] \in Vms /\ x[2] \in Parts /\ x[3] \in DOMAIN log'[x[2]]
                    /\ FallsTo(x[1], log'[x[2]][x[3]], x[4])
  BY DEF RanFell, FallsTo
<1>1. /\ x[1] \in Vms /\ x[2] \in Parts /\ x[3] \in DOMAIN log[x[2]]
      /\ FallsTo(x[1], log[x[2]][x[3]], x[4])
  BY DEF RanFell
<1> QED  BY <1>1 DEF Grown

-----------------------------------------------------------------------------
(* What a step of a machine is to show: of the queue and the runs nothing  *)
(* more than that they grow.                                               *)
Kept(vm) ==
    /\ MachinesOK' /\ MachineInv(vm)'
    /\ vm = Main => MainDone(cursor[Main])' /\ MainDone(saved[Main])'
    /\ ran \subseteq ran' /\ committed \subseteq committed' /\ done \subseteq done'
    /\ committed' \subseteq ran'
    /\ RanFell'

(* A record is there: it is to be treated.                                 *)
LEMMA PopKeeps ==
    ASSUME ScriptsInv, NEW vm \in Vms, Pop(vm), Grown
    PROVE  Kept(vm)
<1> USE DEF ScriptsInv
<1>1. /\ UNCHANGED <<log, saved, cursor, seen, items, ran, committed, done>>
      /\ vpc' = [vpc EXCEPT ![vm] = IF vm = Main THEN "scripts" ELSE "wait_main"]
      /\ script' = [script EXCEPT ![vm] = 0]
      /\ Record(vm) <= Len(log[cursor[vm].id])
  BY DEF Pop, flowVars, historyVars
<1>2. MachinesOK'  BY <1>1, OrderAssumption DEF MachinesOK
<1>3. vpc'[vm] = (IF vm = Main THEN "scripts" ELSE "wait_main") /\ script'[vm] = 0
  BY <1>1 DEF MachinesOK
<1>4. AtElement(vm)'
  <2>1. cursor[vm].id \in Parts /\ cursor[vm].count \in Nat  BY DEF MachinesOK
  <2>2. Record(vm) \in DOMAIN log[cursor[vm].id]  BY <1>1, <2>1, QueueType DEF Record
  <2> QED  BY <1>1, <1>3, <2>2 DEF AtElement, Record
<1>5. PICK c, m, v : c = cursor[vm] /\ m = seen[vm] /\ v = saved[vm]  OBVIOUS
<1>6. Committed(vm, c)' /\ Committed(vm, v)'
  BY <1>1, <1>5, CommittedKept DEF MachineInv, NothingLost, CursorsReached
<1>7. CommittedSoFar(vm)'  BY <1>3 DEF CommittedSoFar, Finished
<1>8. MachineInv(vm)'
  BY <1>1, <1>3, <1>4, <1>5, <1>6, <1>7, MachineAfter DEF MachineInv, CursorsReached, Behind
<1>9. vm = Main => MainDone(cursor[Main])' /\ MainDone(saved[Main])'  BY <1>1, MainKept
<1> QED  BY <1>1, <1>2, <1>8, <1>9, RanKept DEF Kept

(* The end of a part is the beginning of the next one.                     *)
LEMMA PartEnd ==
    ASSUME QueueOK, NEW c, Reached(c), Len(log[c.id]) < c.count + 1,
           NEW x \in Places, Before(x[1], x[2], Cursor(c.id + 1, 0))
    PROVE  Before(x[1], x[2], c)
<1>1. x[1] \in Parts /\ x[1] \in Int /\ x[2] \in Nat /\ x[2] >= 1 /\ x[2] <= Len(log[x[1]])
  BY DEF Places, Parts
<1>2. c.id \in Int /\ c.count \in Nat /\ Len(log[c.id]) \in Nat  BY QueueType DEF Reached, Parts
<1>3. x[1] < c.id + 1  BY <1>1 DEF Before, Cursor
<1> QED  BY <1>1, <1>2, <1>3 DEF Before

(* The file of the next part is empty, and then has its beginning.         *)
LEMMA EnterPartKeeps ==
    ASSUME ScriptsInv, NEW vm \in Vms, EnterPart(vm), Grown
    PROVE  Kept(vm)
<1> USE DEF ScriptsInv
<1>0. PICK b, c : b = cursor[vm] /\ c = Cursor(b.id + 1, 0)  OBVIOUS
<1>1. /\ UNCHANGED <<log, top, seen, script, items, ran, committed, done>>
      /\ cursor' = [cursor EXCEPT ![vm] = c]
      /\ saved' = [saved EXCEPT ![vm] = Empty]
      /\ vpc' = [vpc EXCEPT ![vm] = "enter"]
      /\ b.count + 1 > Len(log[b.id]) /\ top > b.id
  BY <1>0 DEF EnterPart, flowVars, historyVars, Record
<1>2. b.id \in Parts /\ b.count \in Nat /\ top \in Parts /\ Reached(b)
  <2>1. Reached(cursor[vm])  BY DEF MachineInv, CursorsReached
  <2>2. Reached(b)  BY <1>0, <2>1
  <2>3. top \in Parts  BY DEF QueueOK
  <2> QED  BY <2>2, <2>3 DEF Reached
<1>3. b.id + 1 \in Parts  BY <1>1, <1>2, ScriptBounds DEF Parts
<1>4. c \in [id : Parts, count : Nat] /\ c.id = b.id + 1 /\ c.count = 0  BY <1>0, <1>3 DEF Cursor
<1>5. Reached(c)
  <2>1. Len(log[c.id]) \in Nat  BY <1>3, <1>4, QueueType
  <2> QED  BY <1>1, <1>2, <1>3, <1>4, <2>1 DEF Reached, Parts
<1>6. Len(log[b.id]) < b.count + 1  BY <1>1, <1>2, QueueType
<1>7. \A x \in Places : Before(x[1], x[2], c) => Before(x[1], x[2], b)
  BY <1>0, <1>2, <1>6, PartEnd
<1>8. MachinesOK'  BY <1>1, <1>4 DEF MachinesOK
<1>9. cursor'[vm] = c /\ saved'[vm] = Empty /\ vpc'[vm] = "enter" /\ seen'[vm] = seen[vm]
  BY <1>1 DEF MachinesOK
<1>10. AtElement(vm)'  BY <1>9 DEF AtElement
<1>11. Committed(vm, c)' /\ Committed(vm, Empty)'
  <2>1. Committed(vm, c)  BY <1>0, <1>7 DEF Committed, MachineInv, NothingLost
  <2> QED  BY <1>1, <1>5, <2>1, CommittedKept, NothingBefore
<1>12. MachineInv(vm)'
  <2>1. PICK m : m = seen[vm]  OBVIOUS
  <2> QED  BY <1>1, <1>5, <1>9, <1>10, <1>11, <2>1, MachineAfter DEF MachineInv, CursorsReached, Behind
<1>13. ASSUME vm = Main PROVE MainDone(cursor[Main])' /\ MainDone(saved[Main])'
  <2>1. MainDone(c)  BY <1>0, <1>7, <1>13 DEF MainDone
  <2>2. MainDone(c)' /\ MainDone(Empty)'  BY <1>1, <1>5, <2>1, MainDoneKept, NothingBefore
  <2> QED  BY <1>9, <1>13, <2>2 DEF MainDone
<1> QED  BY <1>1, <1>8, <1>12, <1>13, RanKept DEF Kept

LEMMA CommitPartKeeps ==
    ASSUME ScriptsInv, NEW vm \in Vms, CommitPart(vm), Grown
    PROVE  Kept(vm)
<1> USE DEF ScriptsInv
<1>1. /\ UNCHANGED <<log, cursor, seen, script, items, ran, committed, done>>
      /\ saved' = [saved EXCEPT ![vm] = cursor[vm]]
      /\ vpc' = [vpc EXCEPT ![vm] = "pop"]
  BY DEF CommitPart, flowVars, historyVars
<1>2. MachinesOK'  BY <1>1 DEF MachinesOK
<1>3. PICK c, m : c = cursor[vm] /\ m = seen[vm]  OBVIOUS
<1>4. cursor'[vm] = c /\ saved'[vm] = c /\ vpc'[vm] = "pop" /\ seen'[vm] = m
  BY <1>1, <1>3 DEF MachinesOK
<1>5. Reached(c) /\ Committed(vm, c)  BY <1>3 DEF MachineInv, NothingLost, CursorsReached
<1>6. Committed(vm, c)'  BY <1>1, <1>5, CommittedKept
<1>7. AtElement(vm)'  BY <1>4 DEF AtElement
<1>8. MachineInv(vm)'
  BY <1>1, <1>3, <1>4, <1>5, <1>6, <1>7, MachineAfter DEF MachineInv, CursorsReached, Behind
<1>9. ASSUME vm = Main PROVE MainDone(cursor[Main])' /\ MainDone(saved[Main])'
  <2>1. MainDone(c)'  BY <1>1, <1>3, <1>5, <1>9, MainDoneKept
  <2> QED  BY <1>4, <1>9, <2>1 DEF MainDone
<1> QED  BY <1>1, <1>2, <1>8, <1>9, RanKept DEF Kept

(* What of Main a machine reads from its file is what Main has finished.   *)
LEMMA ReadOfMain ==
    ASSUME ScriptsInv, NEW old, Reached(old), MainDone(old),
           old \in [id : Parts, count : Nat]
    PROVE  /\ Reached(GetInfo(saved[Main], old)) /\ MainDone(GetInfo(saved[Main], old))
           /\ GetInfo(saved[Main], old) \in [id : Parts, count : Nat]
<1>1. MainDone(saved[Main]) /\ (saved[Main] = Empty \/ Reached(saved[Main]))
  BY VmsAssumption DEF ScriptsInv, MachineInv, CursorsReached
<1>2. saved[Main] \in [id : Parts, count : Nat] \cup {Empty}
  BY VmsAssumption DEF ScriptsInv, MachinesOK
<1> QED  BY <1>1, <1>2 DEF GetInfo

(* lp or lp1 finds that it is not ahead of main.                           *)
LEMMA WaitMainKeeps ==
    ASSUME ScriptsInv, NEW vm \in Vms, WaitMain(vm), Grown
    PROVE  Kept(vm)
<1> USE DEF ScriptsInv
<1>0. PICK c, v, o, m : /\ c = cursor[vm] /\ v = saved[vm] /\ o = seen[vm]
                        /\ m = IF Ahead(c, o) THEN GetInfo(saved[Main], o) ELSE o
  OBVIOUS
<1>1. /\ UNCHANGED <<log, saved, cursor, script, items, ran, committed, done>>
      /\ vpc[vm] = "wait_main"
      /\ seen' = [seen EXCEPT ![vm] = m]
      /\ ~Ahead(c, seen'[vm])
      /\ vpc' = [vpc EXCEPT ![vm] = "scripts"]
  BY <1>0 DEF WaitMain, flowVars, historyVars
<1>2. /\ Reached(c) /\ (v = Empty \/ Reached(v)) /\ Committed(vm, c) /\ Committed(vm, v)
      /\ Reached(o) /\ MainDone(o) /\ AtElement(vm)
  BY <1>0 DEF MachineInv, CursorsReached, NothingLost, Behind
<1>3. o \in [id : Parts, count : Nat]  BY <1>0 DEF MachinesOK
<1>4. Reached(m) /\ MainDone(m) /\ m \in [id : Parts, count : Nat]
  BY <1>0, <1>2, <1>3, ReadOfMain
<1>5. MachinesOK'  BY <1>1, <1>4 DEF MachinesOK
<1>6. seen'[vm] = m /\ vpc'[vm] = "scripts" /\ script'[vm] = 0
  BY <1>1, <1>2 DEF MachinesOK, AtElement
<1>7. Committed(vm, c)' /\ Committed(vm, v)'  BY <1>1, <1>2, CommittedKept
<1>8. AtElement(vm)'  BY <1>1, <1>2, <1>6 DEF AtElement, Record
<1>9. CommittedSoFar(vm)'  BY <1>6 DEF CommittedSoFar, Finished
<1>10. cursor'[vm] = c /\ saved'[vm] = v /\ ~Ahead(c, m)  BY <1>0, <1>1, <1>6
<1>11. MachineInv(vm)'  BY <1>1, <1>2, <1>4, <1>6, <1>7, <1>8, <1>9, <1>10, MachineAfter
<1>12. vm = Main => MainDone(cursor[Main])' /\ MainDone(saved[Main])'  BY <1>1, MainKept
<1> QED  BY <1>1, <1>5, <1>11, <1>12, RanKept DEF Kept

(* The script that runs next is the first one that applies: those between  *)
(* do not.                                                                 *)
LEMMA FirstRemaining ==
    ASSUME ScriptsInv, NEW vm \in Vms, Remaining(vm) # {}, NEW i,
           i = CHOOSE j \in Remaining(vm) : \A k \in Remaining(vm) : j <= k
    PROVE  /\ i \in Remaining(vm) /\ i \in DOMAIN ScriptsOrder /\ i \in Nat /\ i > script[vm]
           /\ \A j \in 1 .. i - 1 : j > script[vm] => ~Applies(vm, Current(vm), ScriptsOrder[j])
<1>1. Remaining(vm) \subseteq Nat /\ DOMAIN ScriptsOrder = 1 .. Len(ScriptsOrder)
  BY OrderAssumption DEF Remaining
<1>2. \E j \in Remaining(vm) : \A k \in Remaining(vm) : j <= k  BY <1>1, LeastNumber
<1>3. i \in Remaining(vm) /\ \A k \in Remaining(vm) : i <= k  BY <1>2
<1>4. i \in DOMAIN ScriptsOrder /\ i \in Nat /\ i > script[vm]  BY <1>1, <1>3 DEF Remaining
<1>5. ASSUME NEW j \in 1 .. i - 1, j > script[vm], Applies(vm, Current(vm), ScriptsOrder[j])
      PROVE  FALSE
  <2>1. j \in DOMAIN ScriptsOrder  BY <1>1, <1>4, OrderAssumption
  <2>2. j \in Remaining(vm)  BY <1>5, <2>1 DEF Remaining
  <2> QED  BY <1>3, <1>4, <2>2
<1> QED  BY <1>3, <1>4, <1>5

(* The next script is run.                                                 *)
LEMMA RunScriptKeeps ==
    ASSUME ScriptsInv, NEW vm \in Vms, RunScript(vm), Grown
    PROVE  Kept(vm)
<1> USE DEF ScriptsInv
<1>0. PICK i : i = CHOOSE j \in Remaining(vm) : \A k \in Remaining(vm) : j <= k  OBVIOUS
<1> DEFINE x == <<vm, cursor[vm].id, Record(vm), ScriptsOrder[i]>>
<1>1. /\ UNCHANGED <<log, saved, cursor, seen, committed, done>>
      /\ vpc[vm] = "scripts" /\ Remaining(vm) # {}
      /\ script' = [script EXCEPT ![vm] = i]
      /\ items' = [items EXCEPT ![vm] = Writes[ScriptsOrder[i]]]
      /\ ran' = ran \cup {x}
      /\ vpc' = [vpc EXCEPT ![vm] = "commit"]
  BY <1>0 DEF RunScript, flowVars
<1>2. /\ i \in Remaining(vm) /\ i \in DOMAIN ScriptsOrder /\ i \in Nat /\ i > script[vm]
      /\ \A j \in 1 .. i - 1 : j > script[vm] => ~Applies(vm, Current(vm), ScriptsOrder[j])
  BY <1>0, <1>1, FirstRemaining
<1>3. ScriptsOrder[i] \in ScriptNames /\ i \in 0 .. Len(ScriptsOrder)
  BY <1>2, OrderAssumption
<1>4. MachinesOK'
  <2>1. Writes[ScriptsOrder[i]] \in Seq(Docs)  BY <1>3, ScriptAssumption
  <2> QED  BY <1>1, <1>3, <2>1 DEF MachinesOK
<1>5. vpc'[vm] = "commit" /\ script'[vm] = i  BY <1>1 DEF MachinesOK
<1>6. PICK c, m, v : c = cursor[vm] /\ m = seen[vm] /\ v = saved[vm]  OBVIOUS
<1>7. /\ Reached(c) /\ (v = Empty \/ Reached(v)) /\ Committed(vm, c) /\ Committed(vm, v)
      /\ Reached(m) /\ MainDone(m) /\ (vm # Main => ~Ahead(c, m))
      /\ AtElement(vm) /\ CommittedSoFar(vm)
  BY <1>1, <1>6 DEF MachineInv, CursorsReached, NothingLost, Behind
<1>8. Committed(vm, c)' /\ Committed(vm, v)'  BY <1>1, <1>7, CommittedKept
<1>9. AtElement(vm)'  BY <1>1, <1>2, <1>5, <1>7 DEF AtElement, Record
<1>10. CommittedSoFar(vm)'
  <2>1. Finished(vm)' = i - 1 /\ Finished(vm) = script[vm]  BY <1>1, <1>5 DEF Finished
  <2>2. Current(vm)' = Current(vm) /\ Record(vm)' = Record(vm)  BY <1>1 DEF Current, Record
  <2>3. script[vm] \in Nat  BY DEF MachinesOK
  <2>4. \A j \in 1 .. i - 1 : j \in 1 .. script[vm] \/ j > script[vm]  BY <1>2, <2>3
  <2> QED  BY <1>1, <1>2, <1>7, <2>1, <2>2, <2>4 DEF CommittedSoFar
<1>11. cursor'[vm] = c /\ saved'[vm] = v /\ seen'[vm] = m  BY <1>1, <1>6
<1>12. MachineInv(vm)'  BY <1>1, <1>7, <1>8, <1>9, <1>10, <1>11, MachineAfter
<1>13. vm = Main => MainDone(cursor[Main])' /\ MainDone(saved[Main])'  BY <1>1, MainKept
<1>14. RanFell'
  <2>1. Applies(vm, Current(vm), ScriptsOrder[i])  BY <1>2 DEF Remaining
  <2>2. FallsTo(vm, Current(vm), ScriptsOrder[i])  BY <2>1 DEF Applies
  <2>3. cursor[vm].id \in Parts /\ Record(vm) \in DOMAIN log[cursor[vm].id]
    BY <1>1, <1>7, CurrentEvent
  <2>4. x[1] = vm /\ x[2] = cursor[vm].id /\ x[3] = Record(vm) /\ x[4] = ScriptsOrder[i]
    OBVIOUS
  <2>5. FallsTo(x[1], log[x[2]][x[3]], x[4])  BY <2>2, <2>4 DEF Current
  <2>6. ran' \ ran \subseteq {x}  BY <1>1
  <2> HIDE DEF x
  <2> QED  BY <2>3, <2>4, <2>5, <2>6, RanKept
<1> QED  BY <1>1, <1>4, <1>12, <1>13, <1>14 DEF Kept

(* An item of the transaction is stored, or given up.                      *)
LEMMA ItemKeeps ==
    ASSUME ScriptsInv, NEW vm \in Vms, SendItem(vm) \/ ItemDropped(vm), Grown
    PROVE  Kept(vm)
<1> USE DEF ScriptsInv
<1>1. /\ UNCHANGED <<saved, cursor, seen, vpc, script, ran, committed, done>>
      /\ items[vm] # <<>> /\ items' = [items EXCEPT ![vm] = Tail(@)]
  BY DEF SendItem, ItemDropped, historyVars
<1>2. MachinesOK'
  <2>1. items[vm] \in Seq(Docs)  BY DEF MachinesOK
  <2>2. Tail(items[vm]) \in Seq(Docs)  BY <1>1, <2>1
  <2> QED  BY <1>1, <2>2 DEF MachinesOK
<1>3. MachineInv(vm)'  BY <1>1, MachineKept
<1>4. vm = Main => MainDone(cursor[Main])' /\ MainDone(saved[Main])'  BY <1>1, MainKept
<1> QED  BY <1>1, <1>2, <1>3, <1>4, RanKept DEF Kept

(* The transaction is complete.                                            *)
LEMMA CommitDoneKeeps ==
    ASSUME ScriptsInv, NEW vm \in Vms, CommitDone(vm), Grown
    PROVE  Kept(vm)
<1> USE DEF ScriptsInv
<1> DEFINE x == <<vm, cursor[vm].id, Record(vm), ScriptsOrder[script[vm]]>>
<1>1. /\ UNCHANGED <<log, saved, cursor, seen, script, items, ran, done>>
      /\ vpc[vm] = "commit"
      /\ committed' = committed \cup {x}
      /\ vpc' = [vpc EXCEPT ![vm] = "scripts"]
  BY DEF CommitDone, flowVars
<1>2. MachinesOK'  BY <1>1 DEF MachinesOK
<1>3. vpc'[vm] = "scripts"  BY <1>1 DEF MachinesOK
<1>6. PICK c, m, v : c = cursor[vm] /\ m = seen[vm] /\ v = saved[vm]  OBVIOUS
<1>7. /\ Reached(c) /\ (v = Empty \/ Reached(v)) /\ Committed(vm, c) /\ Committed(vm, v)
      /\ Reached(m) /\ MainDone(m) /\ (vm # Main => ~Ahead(c, m))
      /\ AtElement(vm) /\ CommittedSoFar(vm)
  BY <1>1, <1>6 DEF MachineInv, CursorsReached, NothingLost, Behind
<1>8. Committed(vm, c)' /\ Committed(vm, v)'  BY <1>1, <1>7, CommittedKept
<1>9. AtElement(vm)'  BY <1>1, <1>3, <1>7 DEF AtElement, Record
<1>10. CommittedSoFar(vm)'
  <2>1. Finished(vm)' = script[vm] /\ Finished(vm) = script[vm] - 1  BY <1>1, <1>3 DEF Finished
  <2>2. Current(vm)' = Current(vm) /\ Record(vm)' = Record(vm)  BY <1>1 DEF Current, Record
  <2>3. script[vm] \in Nat  BY DEF MachinesOK
  <2>4. \A j \in 1 .. script[vm] : j \in 1 .. script[vm] - 1 \/ j = script[vm]  BY <2>3
  <2> QED  BY <1>1, <1>7, <2>1, <2>2, <2>4 DEF CommittedSoFar
<1>11. cursor'[vm] = c /\ saved'[vm] = v /\ seen'[vm] = m  BY <1>1, <1>6
<1>12. MachineInv(vm)'  BY <1>1, <1>7, <1>8, <1>9, <1>10, <1>11, MachineAfter
<1>13. vm = Main => MainDone(cursor[Main])' /\ MainDone(saved[Main])'  BY <1>1, MainKept
<1>14. x \in ran  BY <1>1, <1>7 DEF AtElement
<1>15. ran \subseteq ran' /\ committed \subseteq committed' /\ done \subseteq done' /\ committed' \subseteq ran'
  BY <1>1, <1>14
<1> QED  BY <1>1, <1>2, <1>12, <1>13, <1>15, RanKept DEF Kept

(* The cursor goes past an element: every script that falls to the machine *)
(* has been committed, or does not apply.                                  *)
LEMMA NextRecordKeeps ==
    ASSUME ScriptsInv, NEW vm \in Vms, NextRecord(vm), Grown
    PROVE  Kept(vm)
<1> USE DEF ScriptsInv
<1>0. PICK b, c, m : b = cursor[vm] /\ c = Cursor(b.id, b.count + 1) /\ m = seen[vm]  OBVIOUS
<1>1. /\ UNCHANGED <<log, top, seen, script, items, ran, committed>>
      /\ vpc[vm] = "scripts" /\ Remaining(vm) = {}
      /\ done' = done \cup {<<vm, b.id, b.count + 1>>}
      /\ cursor' = [cursor EXCEPT ![vm] = c]
      /\ saved' = [saved EXCEPT ![vm] = cursor'[vm]]
      /\ vpc' = [vpc EXCEPT ![vm] = "pop"]
  BY <1>0 DEF NextRecord, flowVars, Record
<1>2. /\ Reached(b) /\ Reached(m) /\ MainDone(m) /\ Committed(vm, b)
      /\ AtElement(vm) /\ CommittedSoFar(vm)
  BY <1>0, <1>1 DEF MachineInv, CursorsReached, NothingLost, Behind
<1>3. /\ b.id \in Parts /\ b.count \in Nat /\ Record(vm) = b.count + 1
      /\ b.count + 1 \in DOMAIN log[b.id] /\ Current(vm) = log[b.id][b.count + 1]
  BY <1>0, <1>1, <1>2, CurrentEvent DEF Record, Current
<1>4. c.id = b.id /\ c.count = b.count + 1 /\ c \in [id : Parts, count : Nat]
  BY <1>0, <1>3 DEF Cursor
<1>5. Reached(c)  BY <1>2, <1>3, <1>4, QueueType DEF Reached
<1>6. \A x \in Places : Before(x[1], x[2], c) =>
          Before(x[1], x[2], b) \/ (x[1] = b.id /\ x[2] = b.count + 1)
  <2>1. \A x \in Places : x[2] \in Nat  BY DEF Places
  <2> QED  BY <1>3, <1>4, <2>1 DEF Before
<1>7. MachinesOK'  BY <1>1, <1>4 DEF MachinesOK
<1>8. cursor'[vm] = c /\ saved'[vm] = c /\ vpc'[vm] = "pop" /\ seen'[vm] = m
  BY <1>0, <1>1 DEF MachinesOK
<1>9. AtElement(vm)'  BY <1>8 DEF AtElement
<1>10. \A s \in ScriptNames : Applies(vm, Current(vm), s) => <<vm, b.id, b.count + 1, s>> \in committed
  <2> SUFFICES ASSUME NEW s \in ScriptNames, Applies(vm, Current(vm), s)
               PROVE  <<vm, b.id, b.count + 1, s>> \in committed
    OBVIOUS
  <2>1. PICK i \in DOMAIN ScriptsOrder : s = ScriptsOrder[i]  BY DEF ScriptNames, Range
  <2>2. DOMAIN ScriptsOrder = 1 .. Len(ScriptsOrder) /\ script[vm] \in Nat
    BY OrderAssumption DEF MachinesOK
  <2>3. ~(i > script[vm])  BY <1>1, <2>1 DEF Remaining
  <2>4. i \in 1 .. Finished(vm)  BY <1>1, <2>2, <2>3 DEF Finished
  <2> QED  BY <1>0, <1>2, <1>3, <2>1, <2>4 DEF CommittedSoFar
<1>11. Committed(vm, c)'
  <2>1. Committed(vm, c)
    <3> SUFFICES ASSUME NEW x \in Places, Before(x[1], x[2], c), NEW s \in ScriptNames,
                        Applies(vm, log[x[1]][x[2]], s)
                 PROVE  <<vm, x[1], x[2], s>> \in committed
      BY DEF Committed
    <3>1. CASE Before(x[1], x[2], b)  BY <1>2, <3>1 DEF Committed
    <3>2. CASE x[1] = b.id /\ x[2] = b.count + 1  BY <1>3, <1>10, <3>2
    <3> QED  BY <1>6, <3>1, <3>2
  <2> QED  BY <1>1, <1>5, <2>1, CommittedKept
<1>12. done \subseteq done' /\ committed \subseteq committed' /\ ran \subseteq ran' /\ committed' \subseteq ran'
  BY <1>1
<1>13. MachineInv(vm)'  BY <1>2, <1>5, <1>8, <1>9, <1>11, <1>12, MachineAfter
<1>14. ASSUME vm = Main PROVE MainDone(cursor[Main])' /\ MainDone(saved[Main])'
  <2>1. MainDone(c)'
    <3> SUFFICES ASSUME NEW x \in Places', Before(x[1], x[2], c) PROVE <<Main, x[1], x[2]>> \in done'
      BY DEF MainDone
    <3>1. x \in Places  BY <1>1 DEF Places
    <3>2. CASE Before(x[1], x[2], b)  BY <1>0, <1>12, <1>14, <3>1, <3>2 DEF MainDone
    <3>3. CASE x[1] = b.id /\ x[2] = b.count + 1  BY <1>1, <1>14, <3>3
    <3> QED  BY <1>6, <3>1, <3>2, <3>3
  <2> QED  BY <1>8, <1>14, <2>1 DEF MainDone
<1> QED  BY <1>1, <1>7, <1>12, <1>13, <1>14, RanKept DEF Kept

(* A death: the machine is back at what it has saved.                      *)
LEMMA RestartKeeps ==
    ASSUME ScriptsInv, NEW vm \in Vms, UpdateRefused(vm) \/ Crash(vm), Grown
    PROVE  Kept(vm)
<1> USE DEF ScriptsInv
<1>0. PICK c, m, v : /\ c = GetInfo(saved[vm], Cursor(0, 0)) /\ v = saved[vm]
                     /\ m = GetInfo(saved[Main], Cursor(0, 0))
  OBVIOUS
<1>1. /\ UNCHANGED <<log, top, saved, ran, committed, done>>
      /\ cursor' = [cursor EXCEPT ![vm] = c]
      /\ seen' = [seen EXCEPT ![vm] = m]
      /\ vpc' = [vpc EXCEPT ![vm] = "pop"]
      /\ script' = [script EXCEPT ![vm] = 0]
      /\ items' = [items EXCEPT ![vm] = <<>>]
  BY <1>0 DEF UpdateRefused, Crash, Restarts, flowVars, historyVars
<1>2. /\ Reached(Cursor(0, 0)) /\ MainDone(Cursor(0, 0)) /\ Committed(vm, Cursor(0, 0))
      /\ Cursor(0, 0) \in [id : Parts, count : Nat]
  <2>1. Cursor(0, 0) \in [id : Parts, count : Nat]  BY ScriptBounds DEF Cursor, Parts
  <2> QED  BY <2>1, NothingBefore
<1>3. /\ (v = Empty \/ Reached(v)) /\ Committed(vm, v)
      /\ v \in [id : Parts, count : Nat] \cup {Empty}
  BY <1>0 DEF MachineInv, CursorsReached, NothingLost, MachinesOK
<1>4. Reached(c) /\ Committed(vm, c) /\ c \in [id : Parts, count : Nat]
  BY <1>0, <1>2, <1>3 DEF GetInfo
<1>5. Reached(m) /\ MainDone(m) /\ m \in [id : Parts, count : Nat]  BY <1>0, <1>2, ReadOfMain
<1>6. MachinesOK'  BY <1>1, <1>4, <1>5, OrderAssumption DEF MachinesOK
<1>7. cursor'[vm] = c /\ saved'[vm] = v /\ vpc'[vm] = "pop" /\ seen'[vm] = m
  BY <1>0, <1>1 DEF MachinesOK
<1>8. AtElement(vm)'  BY <1>7 DEF AtElement
<1>9. Committed(vm, c)' /\ Committed(vm, v)'  BY <1>1, <1>3, <1>4, CommittedKept
<1>10. MachineInv(vm)'  BY <1>1, <1>3, <1>4, <1>5, <1>7, <1>8, <1>9, MachineAfter
<1>11. ASSUME vm = Main PROVE MainDone(cursor[Main])' /\ MainDone(saved[Main])'
  <2>1. MainDone(c) /\ MainDone(v)  BY <1>0, <1>2, <1>11 DEF GetInfo
  <2>2. MainDone(c)' /\ MainDone(v)'  BY <1>1, <1>3, <1>4, <2>1, MainDoneKept
  <2> QED  BY <1>7, <1>11, <2>2 DEF MainDone
<1> QED  BY <1>1, <1>6, <1>10, <1>11, RanKept DEF Kept

-----------------------------------------------------------------------------
(* Nothing is in the queue, and every machine at its beginning.            *)
LEMMA ScriptsInit == Init => ScriptsInv
<1> SUFFICES ASSUME Init PROVE ScriptsInv  OBVIOUS
<1> USE DEF Init
<1>1. QueueOK
  <2>1. 0 \in Parts  BY ScriptBounds DEF Parts
  <2> HIDE DEF Events
  <2>2. <<>> \in Seq(Events)  OBVIOUS
  <2> QED  BY <2>1, <2>2 DEF QueueOK
<1>2. /\ Reached(Cursor(0, 0)) /\ MainDone(Cursor(0, 0))
      /\ \A vm \in Vms : Committed(vm, Cursor(0, 0))
  BY <1>1, NothingBefore
<1>3. Cursor(0, 0) \in [id : Parts, count : Nat]  BY ScriptBounds DEF Cursor, Parts
<1>4. Len(ScriptsOrder) \in Nat  BY OrderAssumption
<1>5. MachinesOK  BY <1>3, <1>4 DEF MachinesOK
<1>6. CountsOK  BY ScriptBounds DEF CountsOK
<1>7. MainDone(cursor[Main]) /\ MainDone(saved[Main])  BY <1>2, VmsAssumption
<1>8. ASSUME NEW vm \in Vms PROVE MachineInv(vm)
  <2>1. cursor[vm] = Cursor(0, 0) /\ saved[vm] = Cursor(0, 0) /\ seen[vm] = Cursor(0, 0) /\ vpc[vm] = "pop"
    OBVIOUS
  <2> QED  BY <1>2, <2>1 DEF MachineInv, CursorsReached, AtElement, Behind, NothingLost
<1>9. RanFell /\ committed \subseteq ran  BY DEF RanFell
<1> QED  BY <1>1, <1>5, <1>6, <1>7, <1>8, <1>9 DEF ScriptsInv

(* A step of a machine.                                                    *)
LEMMA MachineStep ==
    ASSUME ScriptsInv, NEW vm \in Vms,
           Step(vm) \/ ItemDropped(vm) \/ UpdateRefused(vm) \/ Crash(vm)
    PROVE  ScriptsInv'
<1>1. Grown  BY NextGrows DEF Next, ScriptsInv, MachineInv
<1>2. Kept(vm)
  BY <1>1, PopKeeps, EnterPartKeeps, CommitPartKeeps, WaitMainKeeps, RunScriptKeeps, ItemKeeps,
     CommitDoneKeeps, NextRecordKeeps, RestartKeeps DEF Step
<1>3. \A u \in Vms \ {vm} : /\ cursor'[u] = cursor[u] /\ seen'[u] = seen[u]
                            /\ saved'[u] = saved[u] /\ vpc'[u] = vpc[u]
                            /\ script'[u] = script[u]
  BY DEF ScriptsInv, MachinesOK, Step, Pop, EnterPart, CommitPart, WaitMain, RunScript, SendItem,
         CommitDone, NextRecord, ItemDropped, UpdateRefused, Crash, Restarts
<1>4. CountsOK'
  <2>1. puts' = puts /\ (crashes' = crashes \/ (crashes < MaxCrash /\ crashes' = crashes + 1))
    BY DEF Step, Pop, EnterPart, CommitPart, WaitMain, RunScript, SendItem,
           CommitDone, NextRecord, ItemDropped, UpdateRefused, Crash, Restarts, flowVars
  <2> QED  BY <2>1, ScriptBounds DEF ScriptsInv, CountsOK
<1>5. /\ \A u \in Vms \ {vm} : MachineInv(u)'
      /\ vm # Main => MainDone(cursor[Main])' /\ MainDone(saved[Main])'
  BY <1>1, <1>2, <1>3, OthersKept DEF Kept
<1>6. \A u \in Vms : MachineInv(u)'  BY <1>2, <1>5 DEF Kept
<1>7. MainDone(cursor[Main])' /\ MainDone(saved[Main])'  BY <1>2, <1>5 DEF Kept
<1>8. QueueOK' /\ MachinesOK' /\ (committed \subseteq ran)' /\ RanFell'  BY <1>1, <1>2 DEF Kept, Grown
<1> QED  BY <1>4, <1>6, <1>7, <1>8 DEF ScriptsInv

(* A step of the clients or of mstorage, or none.                          *)
LEMMA FlowStep ==
    ASSUME ScriptsInv, UserPut \/ NewPart \/ UNCHANGED vars
    PROVE  ScriptsInv'
<1> USE DEF ScriptsInv
<1>1. UNCHANGED <<machineVars, historyVars>>  BY DEF UserPut, NewPart, vars
<1>2. /\ UNCHANGED <<saved, cursor, seen, vpc, script, items, crashes, ran, committed, done>>
  BY <1>1 DEF machineVars, historyVars
<1>3. Grown
  <2>1. CASE UserPut \/ NewPart  BY <2>1, NextGrows DEF Next, MachineInv
  <2>2. CASE UNCHANGED vars
    <3>1. log' = log /\ top' = top /\ top \in Parts /\ top <= top
      BY <2>2 DEF vars, flowVars, QueueOK, Parts
    <3> QED  BY <3>1, StillGrows
  <2> QED  BY <2>1, <2>2
<1>4. \A u \in Vms : MachineInv(u)'  BY <1>2, <1>3, MachineKept
<1>5. MainDone(cursor[Main])' /\ MainDone(saved[Main])'  BY <1>2, <1>3, MainKept
<1>6. MachinesOK'  BY <1>2 DEF MachinesOK
<1>7. CountsOK'
  <2>1. puts' = puts \/ (puts < MaxPut /\ puts' = puts + 1)
    BY DEF UserPut, NewPart, vars, flowVars
  <2> QED  BY <1>2, <2>1, ScriptBounds DEF CountsOK
<1>8. RanFell'  BY <1>2, <1>3, RanKept
<1> QED  BY <1>2, <1>3, <1>4, <1>5, <1>6, <1>7, <1>8 DEF Grown

(* The invariant holds whatever the machines run, wherever they die, and   *)
(* whatever mstorage answers (veda-scripts-v8 main.rs).                    *)
THEOREM ScriptsInvariance == Spec => []ScriptsInv
<1>1. Init => ScriptsInv  BY ScriptsInit
<1>2. ScriptsInv /\ [Next]_vars => ScriptsInv'  BY MachineStep, FlowStep DEF Next
<1> QED  BY <1>1, <1>2, PTL DEF Spec

(* The queue, the cursors and the machines keep their types                *)
(* (veda-scripts-v8 main.rs:187-200).                                      *)
THEOREM ScriptsTypeCorrect == Spec => []TypeOK
<1>1. ScriptsInv => TypeOK
  <2> SUFFICES ASSUME ScriptsInv PROVE TypeOK  OBVIOUS
  <2>1. \A p \in Parts : \A k \in DOMAIN log[p] :
            log[p][k].doc \in Docs /\ log[p][k].src \in Vms \cup {User}
    BY QueueType DEF ScriptsInv, Events
  <2> QED  BY <2>1 DEF ScriptsInv, QueueOK, MachinesOK, CountsOK, TypeOK
<1> QED  BY <1>1, ScriptsInvariance, PTL

(* No element has a script run by two machines: where a machine's own      *)
(* change or the v-s:runAt of the script decides, it decides for one       *)
(* machine (veda-scripts-v8 main.rs:220, 313-320).                         *)
THEOREM OneMachineHolds == Spec => []OneMachine
<1>1. ScriptsInv => OneMachine
  <2> SUFFICES ASSUME ScriptsInv, NEW x \in ran, NEW y \in ran,
                      x[2] = y[2], x[3] = y[3], x[4] = y[4]
               PROVE  x[1] = y[1]
    BY DEF OneMachine
  <2>1. RanFell  BY DEF ScriptsInv
  <2>2. x[1] \in Vms /\ FallsTo(x[1], log[x[2]][x[3]], x[4])  BY <2>1 DEF RanFell
  <2>3. y[1] \in Vms /\ FallsTo(y[1], log[y[2]][y[3]], y[4])  BY <2>1 DEF RanFell
  <2>4. PICK e, s : e = log[x[2]][x[3]] /\ s = x[4]  OBVIOUS
  <2>5. e = log[y[2]][y[3]] /\ s = y[4]  BY <2>4
  <2>6. FallsTo(x[1], e, s) /\ FallsTo(y[1], e, s)  BY <2>2, <2>3, <2>4, <2>5
  <2> QED  BY <2>2, <2>3, <2>6, VmsAssumption DEF FallsTo
<1> QED  BY <1>1, ScriptsInvariance, PTL

(* A machine past an element has gone to the end of the transaction of     *)
(* every script that falls to it there, wherever it died                   *)
(* (main.rs:364-389, session_cache.rs:168-194, module.rs:305-318).         *)
THEOREM NoTransactionLostHolds == Spec => []NoTransactionLost
<1>1. ScriptsInv => NoTransactionLost
  BY DEF ScriptsInv, MachineInv, NothingLost, Committed, NoTransactionLost
<1> QED  BY <1>1, ScriptsInvariance, PTL

(* lp and lp1 treat an element only when main has finished everything      *)
(* before it, although they look at a file that main truncates and         *)
(* rewrites, and although main may die and go back (main.rs:187-197).      *)
THEOREM LpNotAheadHolds == Spec => []LpNotAhead
<1>1. ScriptsInv => LpNotAhead
  <2> SUFFICES ASSUME ScriptsInv, NEW vm \in Vms \ {Main}, vpc[vm] \in {"scripts", "commit"},
                      NEW x \in Places, Before(x[1], x[2], cursor[vm])
               PROVE  <<Main, x[1], x[2]>> \in done
    BY DEF LpNotAhead
  <2>1. MainDone(seen[vm]) /\ ~Ahead(cursor[vm], seen[vm])  BY DEF ScriptsInv, MachineInv, Behind
  <2>2. /\ cursor[vm].id \in Int /\ cursor[vm].count \in Int
        /\ seen[vm].id \in Int /\ seen[vm].count \in Int
    BY DEF ScriptsInv, MachinesOK, Parts
  <2>3. x[1] \in Int /\ x[2] \in Int  BY DEF Places, Parts
  <2>4. Before(x[1], x[2], seen[vm])  BY <2>1, <2>2, <2>3 DEF Before, Ahead
  <2> QED  BY <2>1, <2>4 DEF MainDone
<1> QED  BY <1>1, ScriptsInvariance, PTL
=============================================================================
