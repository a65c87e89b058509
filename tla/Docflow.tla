------------------------------- MODULE Docflow -------------------------------
(***************************************************************************)
(* The workflow engine: event scripts df1 .. df5 and the stop script, run  *)
(* by one script machine over the queue of changes while users change      *)
(* start forms, decision forms and processes.                              *)
(*                                                                         *)
(* The machine takes the changes in order.  A script sees the document as  *)
(* it was when the change was queued, and everything else as it is stored  *)
(* when the script runs; what it writes goes to the store one individual   *)
(* after the other when it has ended, each as a whole record, and comes    *)
(* back through the queue.  A user's change may fall between any two of    *)
(* these steps.  Several writes of one individual within a transaction are *)
(* one write here, as no user sees them apart; journals, rights, messages  *)
(* and the values of variables other than the result of an order are left  *)
(* out.  Deaths of the machine are in module Scripts.                      *)
(***************************************************************************)
EXTENDS Integers, Sequences, FiniteSets, SequencesExt

CONSTANTS
    ConsistsOf,     \* [net -> set of elements], v-wf:consistsOf without the flows
    ElementType,    \* [element -> "input", "condition", "task" or "output"]
    HasFlow,        \* [element -> sequence of flows], a flow [into, test, value]
    Split,          \* [element -> "None", "XOR" or another v-wf:split]
    AndJoin,        \* elements with v-wf:join v-wf:AND
    Executor,       \* [element -> sequence], the executors found for a task
    SubNet,         \* [element -> net, or NoNet]
    Users,          \* executors that are appointments or positions
    CodeletResult,  \* [codelet -> set of results], NoResult for nothing
    Decisions,      \* values of v-wf:takenDecision
    ForNet,         \* sequence of nets: a start form for each
    Repeat,         \* decisions that lead back in the net
    Hurried,        \* what users also do while the machine has work: "vote", "stop", "send"
    MaxSend, MaxChange, MaxRepeat, MaxStop, MaxId  \* bounds

Nets == DOMAIN ConsistsOf
Elements == DOMAIN ElementType
NoNet == "-"
NoResult == "-"
Complete == "complete"      \* the individual v-wf:complete
Results == Decisions \cup {Complete}
Ids == 1 .. MaxId
User == <<0, "user">>       \* no script led to the change

ASSUME NetAssumption ==
    /\ \A n \in Nets : ConsistsOf[n] \subseteq Elements
    /\ \A n \in Nets : \E x \in ConsistsOf[n] : ElementType[x] = "input"
    /\ DOMAIN HasFlow = Elements /\ AndJoin \subseteq Elements
    /\ DOMAIN Executor = Elements /\ SubNet \in [Elements -> Nets \cup {NoNet}]
    /\ DOMAIN Split = Elements
ASSUME DocflowBounds ==
    /\ Repeat \subseteq Decisions /\ Hurried \subseteq {"vote", "stop", "send"}
    /\ {MaxSend, MaxChange, MaxRepeat, MaxStop, MaxId} \subseteq Nat

VARIABLES
    db,         \* the individuals; a new one takes the next index
    queue,      \* changes the machine has not taken yet
    tx, run,    \* what the last script wrote and is not stored yet; which script, on what
    sends, answered, changes, repeats, stops,   \* what the users did
    interrupted \* history: processes the stop script was run for

userVars == <<sends, answered, changes, repeats, stops>>
vars == <<db, queue, tx, run, userVars, interrupted>>

-----------------------------------------------------------------------------
(* The individuals.                                                        *)
StartFormOf(net) == [type |-> "start", forNet |-> net, status |-> "draft", isProcess |-> <<>>]

ProcessOf(net, start, order) ==
    [type |-> "process", instanceOf |-> net, hasStartForm |-> start, parentWorkOrder |-> order,
     workItemList |-> <<>>, isCompleted |-> "absent", isStopped |-> FALSE]

WorkItem(process, element, previous) ==
    [type |-> "item", forProcess |-> process, forNetElement |-> element,
     previousWorkItem |-> previous, workOrderList |-> <<>>, workItemList |-> <<>>,
     isExecuted |-> FALSE, isCompleted |-> FALSE]

WorkOrder(item, executor, subnet) ==
    [type |-> "order", forWorkItem |-> item, executor |-> executor, useSubNet |-> subnet,
     outVars |-> NoResult, decisionFormList |-> <<>>, isProcess |-> <<>>]

DecisionForm(order) ==
    [type |-> "form", onWorkOrder |-> order, takenDecision |-> NoResult,
     isCompleted |-> FALSE, deleted |-> FALSE]

None == [type |-> "none"]
OfType(t) == {i \in DOMAIN db : db[i].type = t}
Null == "null"

Put(i, record) == [id |-> i, rec |-> record]
New(k) == Len(db) + k

NewIds(n) == [k \in 1 .. n |-> New(k)]

Before(i) == IF i \in DOMAIN db THEN db[i] ELSE None

-----------------------------------------------------------------------------
(* Which script a change starts.  A script is not started by its own write *)
(* of the same individual.                                                 *)
Workflow == {"df1", "df2", "df3", "df4", "df5"}
By(e, scripts) == e.by[2] \in scripts

Wants(e, s) ==
    \/ s = "df1" /\ e.doc.type = "start" /\ e.by = User /\ e.doc.status = "ToBeSent"
    \/ s = "df2" /\ e.doc.type = "process" /\ By(e, Workflow) /\ ~e.doc.isStopped
    \/ s = "df3" /\ e.doc.type = "item" /\ By(e, Workflow \ {"df5"})
    \/ s = "df4" /\ e.doc.type = "order" /\ By(e, Workflow)
    \/ s = "df5" /\ e.doc.type = "form" /\ ~e.doc.deleted
    \/ s = "stop" /\ e.doc.type = "process" /\ e.doc.isStopped
                  /\ e.prev.type = "process" /\ ~e.prev.isStopped

Starts(e, s) == Wants(e, s) /\ e.by # <<e.id, s>>

Taken(s) == tx = <<>> /\ queue # <<>> /\ Starts(Head(queue), s)

Ends(s, writes) ==
    /\ tx' = writes
    /\ run' = <<Head(queue).id, s>>
    /\ queue' = Tail(queue)
    /\ UNCHANGED <<db, userVars>>

-----------------------------------------------------------------------------
Input(net) == CHOOSE x \in ConsistsOf[net] : ElementType[x] = "input"

(* prepare_start_form: a process for the net, entered in the form.         *)
PrepareStartForm(e) ==
    IF e.doc.isProcess # <<>> THEN <<>>
    ELSE <<Put(New(1), ProcessOf(e.doc.forNet, e.id, 0)),
           Put(e.id, [e.doc EXCEPT !.status = "IsSent", !.isProcess = <<New(1)>>])>>

(* prepare_process: a work item for the input condition.                   *)
PrepareProcess(e) ==
    IF e.doc.isCompleted # "absent" THEN <<>>
    ELSE <<Put(New(1), WorkItem(e.id, Input(e.doc.instanceOf), 0)),
           Put(e.id, [e.doc EXCEPT !.workItemList = <<New(1)>>, !.isCompleted = "false"])>>

(* create_work_item for each flow taken, in the order of the flows.        *)
CreateWorkItems(item, flows) ==
    [k \in DOMAIN flows |-> Put(New(k), WorkItem(db[item].forProcess, flows[k].into, item))]

-----------------------------------------------------------------------------
(* find_in_work_item_tree: what the lists of work items of a process lead  *)
(* to.  An item is always newer than the one whose list it is in.          *)
InTree(process) ==
    LET in[i \in 1 .. Len(db)] ==
            /\ db[i].type = "item"
            /\ \/ i \in Range(db[process].workItemList)
               \/ \E j \in 1 .. i - 1 :
                      db[j].type = "item" /\ i \in Range(db[j].workItemList) /\ in[j]
    IN  {i \in 1 .. Len(db) : in[i]}

InFlows(net, element) ==
    UNION {{<<x, k>> : k \in {n \in DOMAIN HasFlow[x] : HasFlow[x][n].into = element}} :
               x \in ConsistsOf[net]}

\* Mutant: one item that has arrived is enough.
JoinAny(process, element) == TRUE

\* Mutant: the item in work is not counted.
JoinMore(process, element) ==
    LET found == {i \in InTree(process) :
                      db[i].forNetElement = element /\ ~db[i].isCompleted}
    IN  Cardinality(found) > Cardinality(InFlows(db[process].instanceOf, element))

(* The AND join: there is one open item for each flow that leads into the  *)
(* element, each from the task the flow comes from, and none of them is    *)
(* executed already.  (A task has at most one flow into a join.)           *)
JoinComplete(process, element) ==
    LET flows == InFlows(db[process].instanceOf, element)
        found == {i \in InTree(process) :
                      db[i].forNetElement = element /\ ~db[i].isCompleted}
    IN  /\ Cardinality(found) = Cardinality(flows)
        /\ \A i \in found : ~db[i].isExecuted
        /\ \A f \in flows :
               /\ ElementType[f[1]] = "task"
               /\ \E i \in found : /\ db[i].previousWorkItem # 0
                                   /\ db[db[i].previousWorkItem].forNetElement = f[1]

Waits(e) ==
    \/ e.doc.isCompleted
    \/ e.doc.forNetElement \in AndJoin /\ ~JoinComplete(e.doc.forProcess, e.doc.forNetElement)

(* prepare_work_item of a task: an order for each executor; an order       *)
(* without executor when there is none, and one for the subnet when there  *)
(* is only that.                                                           *)
ExecutorList(element) ==
    IF Executor[element] # <<>> THEN Executor[element]
    ELSE IF SubNet[element] # NoNet THEN <<SubNet[element]>> ELSE <<Null>>

StartTask(e) ==
    LET x == e.doc.forNetElement
        list == ExecutorList(x)
    IN  <<Put(e.id, [e.doc EXCEPT !.isExecuted = TRUE, !.workOrderList = NewIds(Len(list))])>>
        \o [k \in DOMAIN list |-> Put(New(k), WorkOrder(e.id, list[k], SubNet[x]))]

(* prepare_work_item of an input condition or a condition: the flows are   *)
(* followed; a predicate on the variables of the process may hold or not.  *)
PassCondition(e, choice) ==
    LET flows == SelectSeq(HasFlow[e.doc.forNetElement],
                           LAMBDA f : f.test = "none" \/ f \in choice)
        passed == [e.doc EXCEPT !.workItemList = NewIds(Len(flows)), !.isCompleted = TRUE]
    IN  IF flows = <<>> THEN <<Put(e.id, [e.doc EXCEPT !.isExecuted = TRUE])>>
        ELSE CreateWorkItems(e.id, flows) \o <<Put(e.id, passed)>>

\* change_process_status: the document of the process lets it go.
ChangeProcessStatus(process, status) ==
    LET start == db[process].hasStartForm
    IN  IF start = 0 \/ ~\E k \in DOMAIN db[start].isProcess : db[start].isProcess[k] = process
        THEN <<>>
        ELSE <<Put(start, [db[start] EXCEPT !.status = status, !.isProcess = <<>>])>>

(* prepare_work_item of an output condition: the order that asked for the  *)
(* process gets a result, and the process is completed.                    *)
ReachOutput(e) ==
    LET p == e.doc.forProcess
        order == db[p].parentWorkOrder
        parent == IF order = 0 THEN <<>> ELSE <<Put(order, [db[order] EXCEPT !.outVars = Complete])>>
    IN  parent \o ChangeProcessStatus(p, "Completed")
        \o <<Put(p, [db[p] EXCEPT !.isCompleted = "true"]),
             Put(e.id, [e.doc EXCEPT !.isExecuted = TRUE, !.isCompleted = TRUE])>>

-----------------------------------------------------------------------------
(* prepare_work_order, first part: an order without result.  What is       *)
(* written depends on the executor; an order without executor has its      *)
(* result at once, a codelet may have one, users and nets will give it.    *)
OwnResults(e) ==
    IF e.doc.outVars # NoResult THEN {e.doc.outVars}
    ELSE IF e.doc.executor = Null THEN {Complete}
    ELSE IF e.doc.executor \in DOMAIN CodeletResult THEN CodeletResult[e.doc.executor]
    ELSE {NoResult}

AsksUser(e) == e.doc.executor \in Users /\ e.doc.useSubNet = NoNet
UsesNet(e) ==
    /\ e.doc.executor \in Nets \/ e.doc.useSubNet # NoNet
    /\ e.doc.executor \notin DOMAIN CodeletResult

StartOrder(e, result) ==
    IF e.doc.outVars # NoResult THEN <<>>
    ELSE IF result # NoResult THEN <<Put(e.id, [e.doc EXCEPT !.outVars = result])>>
    ELSE IF AsksUser(e) THEN
        <<Put(New(1), DecisionForm(e.id)),
          Put(e.id, [db[e.id] EXCEPT !.decisionFormList = <<New(1)>>])>>
    ELSE IF UsesNet(e) THEN
        LET net == IF e.doc.useSubNet # NoNet THEN e.doc.useSubNet ELSE e.doc.executor
        IN  <<Put(New(1), ProcessOf(net, 0, e.id)),
              Put(e.id, [e.doc EXCEPT !.isProcess = <<New(1)>>])>>
    ELSE <<>>

(* The results of the orders of the item, this order's as the script has   *)
(* it, the others' as they are stored.                                     *)
WorkItemResult(e, result) ==
    LET orders == db[e.doc.forWorkItem].workOrderList
        outs == [k \in DOMAIN orders |-> IF orders[k] = e.id THEN result ELSE db[orders[k]].outVars]
    IN  SelectSeq(outs, LAMBDA r : r # NoResult)

\* Mutant: one result is enough to go on.
SomeDone(e, result) == Len(WorkItemResult(e, result)) > 0

AllDone(e, result) ==
    Len(WorkItemResult(e, result)) = Len(db[e.doc.forWorkItem].workOrderList)

(* compare and is_some_executor_taken_decision; is_all_executors_taken_... *)
Holds(f, results) ==
    \/ f.test = "some" /\ \E k \in DOMAIN results : results[k] = f.value
    \/ f.test = "all" /\ \A k \in DOMAIN results : results[k] = f.value

(* The flows a task goes on by: with a predicate when it holds, the first  *)
(* one only at an XOR split; without one when nothing is split.            *)
Followed(element, results) ==
    LET flows == SelectSeq(HasFlow[element],
                     LAMBDA f : Holds(f, results) \/ (f.test = "none" /\ Split[element] = "None"))
    IN  IF Split[element] = "XOR" /\ flows # <<>> THEN <<Head(flows)>> ELSE flows

(* prepare_work_order, second part: prepare[[wo][wo][wo]] ----> new [wi].  *)
Continue(e, result) ==
    LET i == e.doc.forWorkItem
        flows == Followed(db[i].forNetElement, WorkItemResult(e, result))
        next == IF flows = <<>> THEN db[i].workItemList ELSE NewIds(Len(flows))
    IN  IF ~AllDone(e, result) THEN <<>>
        ELSE CreateWorkItems(i, flows)
             \o <<Put(i, [db[i] EXCEPT !.isCompleted = TRUE, !.workItemList = next])>>

Stopped(e) == db[db[e.doc.forWorkItem].forProcess].isStopped

PrepareWorkOrder(e, result) ==
    IF Stopped(e) THEN <<>> ELSE StartOrder(e, result) \o Continue(e, result)

-----------------------------------------------------------------------------
\* Mutant: what the form said before is not looked at.
PrepareDecisionFormAnew(e) ==
    LET order == e.doc.onWorkOrder
        item == db[order].forWorkItem
    IN  IF \/ e.doc.takenDecision = NoResult \/ e.doc.isCompleted
           \/ db[item].isCompleted \/ db[db[item].forProcess].isStopped
        THEN <<>>
        ELSE <<Put(order, [db[order] EXCEPT !.outVars = e.doc.takenDecision]),
               Put(e.id, [db[e.id] EXCEPT !.isCompleted = TRUE])>>

\* Mutant: another decision is refused, but left in the form.
PrepareDecisionFormLeft(e) ==
    LET before == IF e.prev.type = "form" THEN e.prev.takenDecision ELSE NoResult
        order == e.doc.onWorkOrder
        item == db[order].forWorkItem
    IN  IF \/ e.doc.takenDecision = before \/ before # NoResult \/ e.doc.isCompleted
           \/ db[item].isCompleted \/ db[db[item].forProcess].isStopped
        THEN <<>>
        ELSE <<Put(order, [db[order] EXCEPT !.outVars = e.doc.takenDecision]),
               Put(e.id, [db[e.id] EXCEPT !.isCompleted = TRUE])>>

(* prepare_decision_form: a decision that stood before the change is put   *)
(* back.  A new one becomes the result of the order, unless the form or    *)
(* the item is completed, which is noted in the form, or the process is    *)
(* stopped.                                                                *)
PrepareDecisionForm(e) ==
    LET before == IF e.prev.type = "form" THEN e.prev.takenDecision ELSE NoResult
        order == e.doc.onWorkOrder
        item == db[order].forWorkItem
    IN  IF e.doc.takenDecision = before THEN <<>>
        ELSE IF before # NoResult THEN <<Put(e.id, [db[e.id] EXCEPT !.takenDecision = before])>>
        ELSE IF e.doc.isCompleted THEN <<>>
        ELSE IF db[item].isCompleted THEN <<Put(e.id, db[e.id])>>
        ELSE IF db[db[item].forProcess].isStopped THEN <<>>
        ELSE <<Put(order, [db[order] EXCEPT !.outVars = e.doc.takenDecision]),
               Put(e.id, [db[e.id] EXCEPT !.isCompleted = TRUE])>>

-----------------------------------------------------------------------------
\* Mutant: what an order started is not followed.
LinksFlat(record) ==
    IF record.type = "process" THEN Range(record.workItemList)
    ELSE IF record.type = "item" THEN Range(record.workItemList) \cup Range(record.workOrderList)
    ELSE IF record.type = "order" THEN Range(record.decisionFormList)
    ELSE {}

(* recursiveCall: everything the lists of the process lead to.             *)
Links(record) ==
    IF record.type = "process" THEN Range(record.workItemList)
    ELSE IF record.type = "item" THEN Range(record.workItemList) \cup Range(record.workOrderList)
    ELSE IF record.type = "order" THEN Range(record.decisionFormList) \cup Range(record.isProcess)
    ELSE {}

Under(document) ==
    LET reached[i \in 1 .. Len(db)] ==
            i \in Links(document) \/ \E j \in 1 .. i - 1 : i \in Links(db[j]) /\ reached[j]
    IN  {i \in 1 .. Len(db) : reached[i]}

(* The stop script: open decision forms are marked deleted, processes of   *)
(* orders stopped.                                                         *)
StopProcess(e) ==
    LET open == {i \in Under(e.doc) :
                    \/ db[i].type = "form" /\ ~db[i].isCompleted
                    \/ db[i].type = "process" /\ db[i].isCompleted # "true"}
    IN  [k \in 1 .. Cardinality(open) |->
            LET i == SetToSortSeq(open, <)[k]
            IN  Put(i, IF db[i].type = "form" THEN [db[i] EXCEPT !.deleted = TRUE]
                       ELSE [db[i] EXCEPT !.isStopped = TRUE])]
        \o ChangeProcessStatus(e.id, "Interrupted")

-----------------------------------------------------------------------------
Init ==
    /\ db = [k \in DOMAIN ForNet |-> StartFormOf(ForNet[k])]
    /\ queue = <<>> /\ tx = <<>> /\ run = User
    /\ sends = 0 /\ answered = {} /\ changes = 0 /\ repeats = 0 /\ stops = 0
    /\ interrupted = {}

RunDF1 == Taken("df1") /\ Ends("df1", PrepareStartForm(Head(queue))) /\ UNCHANGED interrupted

RunDF2 == Taken("df2") /\ Ends("df2", PrepareProcess(Head(queue))) /\ UNCHANGED interrupted

RunDF3Waits ==
    /\ Taken("df3") /\ Waits(Head(queue))
    /\ Ends("df3", <<>>) /\ UNCHANGED interrupted

RunDF3Task ==
    /\ Taken("df3") /\ ~Waits(Head(queue))
    /\ ElementType[Head(queue).doc.forNetElement] = "task"
    /\ Ends("df3", StartTask(Head(queue))) /\ UNCHANGED interrupted

RunDF3Condition ==
    /\ Taken("df3") /\ ~Waits(Head(queue))
    /\ LET x == Head(queue).doc.forNetElement
       IN  /\ ElementType[x] \in {"input", "condition"}
           /\ \E choice \in SUBSET {f \in Range(HasFlow[x]) : f.test = "variable"} :
                  Ends("df3", PassCondition(Head(queue), choice))
    /\ UNCHANGED interrupted

RunDF3Output ==
    /\ Taken("df3") /\ ~Waits(Head(queue))
    /\ ElementType[Head(queue).doc.forNetElement] = "output"
    /\ Ends("df3", ReachOutput(Head(queue))) /\ UNCHANGED interrupted

RunDF4 ==
    /\ Taken("df4")
    /\ \E result \in OwnResults(Head(queue)) :
           Ends("df4", PrepareWorkOrder(Head(queue), result))
    /\ UNCHANGED interrupted

RunDF5 == Taken("df5") /\ Ends("df5", PrepareDecisionForm(Head(queue))) /\ UNCHANGED interrupted

RunStop ==
    /\ Taken("stop") /\ Ends("stop", StopProcess(Head(queue)))
    /\ interrupted' = interrupted \cup {Head(queue).id}

(* A change that no script of the engine wants.                            *)
Skip ==
    /\ tx = <<>> /\ queue # <<>>
    /\ \A s \in Workflow \cup {"stop"} : ~Starts(Head(queue), s)
    /\ queue' = Tail(queue)
    /\ UNCHANGED <<db, tx, run, userVars, interrupted>>

(* mstorage: an individual is stored and its change queued.                *)
Store(i, record, by) ==
    /\ db' = IF i > Len(db) THEN Append(db, record) ELSE [db EXCEPT ![i] = record]
    /\ queue' = Append(queue, [id |-> i, doc |-> record, prev |-> Before(i), by |-> by])

Commit ==
    /\ tx # <<>>
    /\ Store(Head(tx).id, Head(tx).rec, run)
    /\ tx' = Tail(tx)
    /\ UNCHANGED <<run, userVars, interrupted>>

Machine ==
    \/ RunDF1 \/ RunDF2 \/ RunDF3Waits \/ RunDF3Task \/ RunDF3Condition \/ RunDF3Output
    \/ RunDF4 \/ RunDF5 \/ RunStop \/ Skip \/ Commit

-----------------------------------------------------------------------------
Idle == queue = <<>> /\ tx = <<>>
Now(act) == act \in Hurried \/ Idle

(* A user sends a start form.                                              *)
Send(i) ==
    /\ i \in OfType("start") /\ sends < MaxSend /\ Now("send")
    /\ Store(i, [db[i] EXCEPT !.status = "ToBeSent"], User)
    /\ sends' = sends + 1
    /\ UNCHANGED <<tx, run, answered, changes, repeats, stops, interrupted>>

Orders(form) == db[db[db[form].onWorkOrder].forWorkItem].workOrderList

(* A user takes a decision, another one, or none again.                    *)
Decide(i) ==
    /\ i \in OfType("form") /\ ~db[i].deleted
    /\ i \in answered => changes < MaxChange
    /\ Len(Orders(i)) = 1 \/ Now("vote")
    /\ \E d \in (Decisions \cup {NoResult}) \ {db[i].takenDecision} :
           /\ d \in Repeat => repeats < MaxRepeat
           /\ repeats' = IF d \in Repeat THEN repeats + 1 ELSE repeats
           /\ Store(i, [db[i] EXCEPT !.takenDecision = d], User)
    /\ changes' = IF i \in answered THEN changes + 1 ELSE changes
    /\ answered' = answered \cup {i}
    /\ UNCHANGED <<tx, run, sends, stops, interrupted>>

(* A user stops a process: the button is there while it is neither stopped *)
(* nor completed.                                                          *)
Stop(i) ==
    /\ i \in OfType("process") /\ db[i].hasStartForm # 0 /\ stops < MaxStop /\ Now("stop")
    /\ ~db[i].isStopped /\ db[i].isCompleted # "true"
    /\ Store(i, [db[i] EXCEPT !.isStopped = TRUE], User)
    /\ stops' = stops + 1
    /\ UNCHANGED <<tx, run, sends, answered, changes, repeats, interrupted>>

Next == Machine \/ \E i \in Ids : Send(i) \/ Decide(i) \/ Stop(i)

Spec == Init /\ [][Next]_vars

(* The machine keeps running, and each user answers the forms that are     *)
(* open.                                                                   *)
Answer(u) ==
    \E i \in OfType("form") :
        /\ db[db[i].onWorkOrder].executor = u /\ i \notin answered
        /\ Decide(i)
FairSpec == Spec /\ WF_vars(Machine) /\ \A u \in Users : WF_vars(Answer(u))

-----------------------------------------------------------------------------
(* Types of the individuals, the changes and the transaction.              *)
RecordOK(r) ==
    \/ r.type = "start" /\ r.status \in {"draft", "ToBeSent", "IsSent", "Completed", "Interrupted"}
    \/ r.type = "process" /\ r.instanceOf \in Nets /\ r.isCompleted \in {"absent", "false", "true"}
    \/ r.type = "item" /\ r.forNetElement \in Elements /\ r.isCompleted \in BOOLEAN
    \/ r.type = "order" /\ r.outVars \in Results \cup {NoResult}
    \/ r.type = "form" /\ r.takenDecision \in Decisions \cup {NoResult}

TypeOK ==
    /\ Len(db) <= MaxId
    /\ \A i \in DOMAIN db : RecordOK(db[i])
    /\ \A k \in DOMAIN queue : queue[k].id \in DOMAIN db /\ RecordOK(queue[k].doc)
    /\ \A k \in DOMAIN tx : tx[k].id \in Ids /\ RecordOK(tx[k].rec)
    /\ tx = <<>> => \A i \in DOMAIN db :
           /\ db[i].type \in {"process", "item"} => Range(db[i].workItemList) \subseteq OfType("item")
           /\ db[i].type = "item" => Range(db[i].workOrderList) \subseteq OfType("order")
           /\ db[i].type = "order" => Range(db[i].decisionFormList) \subseteq OfType("form")
           /\ db[i].type = "order" => Range(db[i].isProcess) \subseteq OfType("process")
    /\ interrupted \subseteq OfType("process")

ProcessOfOrder(o) == db[db[o].forWorkItem].forProcess

\* A process, and the ones that were started for orders in it.
WithInner(p) ==
    LET in[q \in 1 .. Len(db)] ==
            /\ db[q].type = "process"
            /\ \/ q = p
               \/ db[q].parentWorkOrder # 0 /\ in[ProcessOfOrder(db[q].parentWorkOrder)]
    IN  {q \in 1 .. Len(db) : in[q]}

Items(p, x) == {i \in OfType("item") : db[i].forProcess = p /\ db[i].forNetElement = x}

(* A task is left once: no flow out of it gives two work items             *)
(* (docflow.js:550, "prepare[[wo][wo][wo]] ----> new [wi]").               *)
OneContinuation ==
    \A i, j \in OfType("item") :
        /\ db[i].previousWorkItem = db[j].previousWorkItem /\ db[i].previousWorkItem # 0
        /\ db[i].forNetElement = db[j].forNetElement
        => i = j

(* The element behind an AND join is executed once, and only after every   *)
(* task that leads into it was left (docflow.js:740-820).                  *)
JoinTogether ==
    \A x \in AndJoin, p \in OfType("process") :
        LET executed == {i \in Items(p, x) : db[i].isExecuted}
        IN  /\ Cardinality(executed) <= 1
            /\ executed # {} =>
                   \A f \in InFlows(db[p].instanceOf, x) :
                       \E i \in Items(p, f[1]) : db[i].isCompleted

(* The result of an order is final: what users enter afterwards, and in    *)
(* which order their changes are handled, does not change it               *)
(* (docflow.js:25-47, 122-130).                                            *)
ResultFinal ==
    [][\A i \in OfType("order") :
           db[i].outVars # NoResult => db'[i].outVars = db[i].outVars]_vars

(* When the machine has caught up, a form shows the decision that was      *)
(* processed (docflow.js:30-43, "restore previous decision").              *)
DecisionKept ==
    Idle => \A i \in OfType("form") : \A r \in Decisions :
        db[db[i].onWorkOrder].outVars = r => db[i].takenDecision = r

(* A completed process has nothing left to do: its tasks were left, its    *)
(* forms answered, and the processes its orders started completed          *)
(* (docflow.js:999-1064).                                                  *)
NothingLeft ==
    \A p \in OfType("process") : db[p].isCompleted = "true" =>
        /\ \A i \in OfType("item") :
               db[i].forProcess = p /\ db[i].workOrderList # <<>> => db[i].isCompleted
        /\ \A o \in OfType("order") : ProcessOfOrder(o) = p =>
               /\ \A i \in Range(db[o].decisionFormList) : db[i].isCompleted \/ db[i].deleted
               /\ \A q \in Range(db[o].isProcess) : db[q].isCompleted = "true"

(* Once the stop of a process was handled nobody is asked to decide in it  *)
(* or in the processes it started (veda-workflow.ttl:2399, "Disable all    *)
(* active tasks").                                                         *)
StopHolds ==
    tx = <<>> => \A p \in interrupted : \A i \in OfType("form") :
        ProcessOfOrder(db[i].onWorkOrder) \in WithInner(p) => db[i].deleted \/ db[i].isCompleted

AllEnded == \A i \in OfType("process") : db[i].isCompleted = "true" \/ db[i].isStopped

(* A process that was started gets to its end, unless it is stopped:       *)
(* neither a join nor a race of changes leaves it hanging                  *)
(* (docflow.js:466-683, 740-820).                                          *)
ProcessEnds == []<>AllEnded
=============================================================================
