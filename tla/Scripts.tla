------------------------------- MODULE Scripts -------------------------------
(***************************************************************************)
(* The script machines of veda-scripts-v8: processes main, lp and lp1, one *)
(* program started with three arguments.  Each reads the whole queue       *)
(* individuals-flow with a cursor of its own, runs the event scripts that  *)
(* fall to it, and sends what a script changed to mstorage one individual  *)
(* after the other; those changes come back through the queue.  lp and lp1 *)
(* look at the cursor file of main before they treat an element.           *)
(*                                                                         *)
(* What a reader does with files is module QueueConsumer; here a cursor is *)
(* a part and a count in it, and the cursor file is Empty between its      *)
(* truncation and its first line, when a part is entered.  mstorage is     *)
(* module MStorage; here it appends an element or answers an error.        *)
(***************************************************************************)
EXTENDS Integers, Sequences, SequencesExt

CONSTANTS
    Vms,            \* machines, main among them
    Docs,           \* individuals
    ScriptsOrder,   \* scripts_order, a sequence of script names
    RunAt,          \* [script -> machine], v-s:runAt of a script
    Triggers,       \* [script -> SUBSET Docs], what is_filter_pass lets through
    Writes,         \* [script -> Seq(Docs)], the individuals a script puts
    Unsafe,         \* scripts with v-s:unsafe
    KeepSource,     \* scripts with v-s:disallowChangingSource
    MaxCountLoops,  \* MAX_COUNT_LOOPS
    MaxPart, MaxPut, MaxCrash, MaxLog, \* bounds: parts, user changes, deaths, elements of a part
    UpdateFails,    \* may mstorage answer an error
    SendFails       \* may a request to mstorage fail on the way

Main == "main"
Parts == 0 .. MaxPart
User == "?"     \* src of a change that no script made
ScriptNames == Range(ScriptsOrder)

ASSUME VmsAssumption == Main \in Vms /\ User \notin Vms
ASSUME OrderAssumption == ScriptsOrder \in Seq(ScriptNames)
ASSUME RunAtAssumption == RunAt \in [ScriptNames -> Vms]
ASSUME ScriptAssumption ==
    /\ Triggers \in [ScriptNames -> SUBSET Docs] /\ Writes \in [ScriptNames -> Seq(Docs)]
    /\ Unsafe \subseteq ScriptNames /\ KeepSource \subseteq ScriptNames
ASSUME ScriptBounds ==
    MaxCountLoops \in Nat /\ MaxPart \in Nat /\ MaxPut \in Nat /\ MaxCrash \in Nat /\ MaxLog \in Nat
    /\ UpdateFails \in BOOLEAN /\ SendFails \in BOOLEAN

VARIABLES
    log, top,    \* the parts of the queue, and the newest
    saved,       \* [Vms -> cursor file]
    cursor,      \* [Vms -> [id, count]], id and count_popped of the Consumer
    seen,        \* [Vms -> [id, count]], main_queue_cs of lp and lp1
    vpc,         \* [Vms -> where the machine is]
    script,      \* [Vms -> index of the script in work]
    items,       \* [Vms -> individuals of the transaction still to be sent]
    puts, crashes,
    ran,         \* history: <<machine, part, record, script>> that were started
    committed,   \* history: those whose commit returned Ok
    done         \* history: <<machine, part, record>> popped by next

flowVars == <<log, top, puts>>
machineVars == <<saved, cursor, seen, vpc, script, items, crashes>>
historyVars == <<ran, committed, done>>
vars == <<flowVars, machineVars, historyVars>>

-----------------------------------------------------------------------------
Cursor(i, n) == [id |-> i, count |-> n]
Empty == Cursor(-1, -1)

\* get_info: an empty file leaves the values as they were.
GetInfo(file, old) == IF file = Empty THEN old ELSE file

(* An element: event_id as the path of runs that led to it, last run first.*)
Element(d, src, path) == [doc |-> d, src |-> src, path |-> path]

Record(vm) == cursor[vm].count + 1
Current(vm) == log[cursor[vm].id][Record(vm)]

\* doc_id + "+" + script_id, an entry of event_id, and the entry a client
\* gives that wants no scripts.
Run(d, s) == <<d, s>>
Ignore == <<"IGNORE">>

CountLoops(e, s) == Len(SelectSeq(e.path, LAMBDA r : r = Run(e.doc, s)))

\* Mutant: the path is only looked at for an immediate repetition.
NotLoopedShort(e, s) == e.path = <<>> \/ Head(e.path) # Run(e.doc, s)

(* A script is not run again on what it has just changed itself, nor more  *)
(* often than MAX_COUNT_LOOPS along one chain of events.                   *)
NotLooped(e, s) ==
    \/ e.path = <<>>
    \/ Head(e.path) \notin {Run(e.doc, s), Ignore} /\ CountLoops(e, s) <= MaxCountLoops

\* Mutant: where a script wants to run is not looked at.
FallsToAll(vm, e, s) == e.src \in {User, vm}

(* Which machine a script falls to.  The v-s:runAt of an individual is     *)
(* asked of the queue element (main.rs:234), which never has it, and so    *)
(* does not count.                                                         *)
FallsTo(vm, e, s) == e.src = vm \/ (e.src = User /\ RunAt[s] = vm)

Applies(vm, e, s) ==
    /\ FallsTo(vm, e, s)
    /\ e.doc \in Triggers[s]
    /\ s \in Unsafe \/ NotLooped(e, s)

\* Indexes of the scripts still to be run on the current element.
Remaining(vm) ==
    {i \in DOMAIN ScriptsOrder : i > script[vm] /\ Applies(vm, Current(vm), ScriptsOrder[i])}

-----------------------------------------------------------------------------
Init ==
    /\ log = [p \in Parts |-> <<>>] /\ top = 0
    /\ saved = [v \in Vms |-> Cursor(0, 0)]
    /\ cursor = [v \in Vms |-> Cursor(0, 0)]
    /\ seen = [v \in Vms |-> Cursor(0, 0)]
    /\ vpc = [v \in Vms |-> "pop"]
    /\ script = [v \in Vms |-> 0]
    /\ items = [v \in Vms |-> <<>>]
    /\ puts = 0 /\ crashes = 0
    /\ ran = {} /\ committed = {} /\ done = {}

(* A client changes an individual.                                         *)
UserPut ==
    /\ puts < MaxPut
    /\ Len(log[top]) < MaxLog
    /\ puts' = puts + 1
    /\ \E d \in Docs, path \in {<<>>, <<Ignore>>} :
           log' = [log EXCEPT ![top] = Append(@, Element(d, User, path))]
    /\ UNCHANGED <<top, machineVars, historyVars>>

(* mstorage restarts and opens the next part.                              *)
NewPart ==
    /\ top < MaxPart
    /\ top' = top + 1
    /\ UNCHANGED <<log, puts, machineVars, historyVars>>

(* The Consumer has a record to give to prepare.                           *)
Pop(vm) ==
    /\ vpc[vm] = "pop"
    /\ Record(vm) <= Len(log[cursor[vm].id])
    /\ vpc' = [vpc EXCEPT ![vm] = IF vm = Main THEN "scripts" ELSE "wait_main"]
    /\ script' = [script EXCEPT ![vm] = 0]
    /\ UNCHANGED <<flowVars, saved, cursor, seen, items, crashes, historyVars>>

(* The Consumer moves to the next part: its file is truncated, and gets    *)
(* the new cursor in a second step.                                        *)
EnterPart(vm) ==
    /\ vpc[vm] = "pop"
    /\ Record(vm) > Len(log[cursor[vm].id])
    /\ top > cursor[vm].id
    /\ cursor' = [cursor EXCEPT ![vm] = Cursor(@.id + 1, 0)]
    /\ saved' = [saved EXCEPT ![vm] = Empty]
    /\ vpc' = [vpc EXCEPT ![vm] = "enter"]
    /\ UNCHANGED <<flowVars, seen, script, items, crashes, historyVars>>

CommitPart(vm) ==
    /\ vpc[vm] = "enter"
    /\ saved' = [saved EXCEPT ![vm] = cursor[vm]]
    /\ vpc' = [vpc EXCEPT ![vm] = "pop"]
    /\ UNCHANGED <<flowVars, cursor, seen, script, items, crashes, historyVars>>

(* The test of prepare that keeps lp and lp1 behind main.                  *)
Ahead(c, m) == (c.count > m.count /\ m.id = c.id) \/ c.id > m.id

\* Mutant: the parts of the two cursors are not compared.
WaitMainCount(vm) ==
    /\ vpc[vm] = "wait_main"
    /\ seen' = [seen EXCEPT ![vm] = IF cursor[vm].count > @.count THEN GetInfo(saved[Main], @) ELSE @]
    /\ cursor[vm].count <= seen'[vm].count
    /\ vpc' = [vpc EXCEPT ![vm] = "scripts"]
    /\ UNCHANGED <<flowVars, saved, cursor, script, items, crashes, historyVars>>

\* Mutant: the part of main is compared for equality with the own one.
WaitMainSamePart(vm) ==
    /\ vpc[vm] = "wait_main"
    /\ seen' = [seen EXCEPT ![vm] = GetInfo(saved[Main], @)]
    /\ seen'[vm].id = cursor[vm].id /\ cursor[vm].count <= seen'[vm].count
    /\ vpc' = [vpc EXCEPT ![vm] = "scripts"]
    /\ UNCHANGED <<flowVars, saved, cursor, script, items, crashes, historyVars>>

(* prepare of lp and lp1: main's file is read as long as this machine's    *)
(* cursor is ahead of what was read of it.                                 *)
WaitMain(vm) ==
    /\ vpc[vm] = "wait_main"
    /\ seen' = [seen EXCEPT ![vm] = IF Ahead(cursor[vm], @) THEN GetInfo(saved[Main], @) ELSE @]
    /\ ~Ahead(cursor[vm], seen'[vm])
    /\ vpc' = [vpc EXCEPT ![vm] = "scripts"]
    /\ UNCHANGED <<flowVars, saved, cursor, script, items, crashes, historyVars>>

(* prepare_for_js: the next script that applies runs, and has a            *)
(* transaction of its own.                                                 *)
RunScript(vm) ==
    /\ vpc[vm] = "scripts"
    /\ Remaining(vm) # {}
    /\ LET i == CHOOSE j \in Remaining(vm) : \A k \in Remaining(vm) : j <= k
           s == ScriptsOrder[i]
       IN  /\ script' = [script EXCEPT ![vm] = i]
           /\ items' = [items EXCEPT ![vm] = Writes[s]]
           /\ ran' = ran \cup {<<vm, cursor[vm].id, Record(vm), s>>}
    /\ vpc' = [vpc EXCEPT ![vm] = "commit"]
    /\ UNCHANGED <<flowVars, saved, cursor, seen, crashes, committed, done>>

(* commit: one individual goes to mstorage, with the source and the event  *)
(* path of the transaction.                                                *)
SendItem(vm) ==
    /\ vpc[vm] = "commit"
    /\ items[vm] # <<>>
    /\ Len(log[top]) < MaxLog
    /\ LET e == Current(vm)
           s == ScriptsOrder[script[vm]]
           src == IF s \in KeepSource THEN e.src ELSE vm
       IN  log' = [log EXCEPT ![top] =
                       Append(@, Element(Head(items[vm]), src, <<Run(e.doc, s)>> \o e.path))]
    /\ items' = [items EXCEPT ![vm] = Tail(@)]
    /\ UNCHANGED <<top, puts, saved, cursor, seen, vpc, script, crashes, historyVars>>

(* commit: the request does not reach mstorage, or its answer not the      *)
(* machine (NotReady).  This item is given up and the loop goes on; with   *)
(* the answer alone lost, the effect is SendItem's.                        *)
ItemDropped(vm) ==
    /\ vpc[vm] = "commit"
    /\ items[vm] # <<>>
    /\ SendFails
    /\ items' = [items EXCEPT ![vm] = Tail(@)]
    /\ UNCHANGED <<flowVars, saved, cursor, seen, vpc, script, crashes, historyVars>>

CommitDone(vm) ==
    /\ vpc[vm] = "commit"
    /\ items[vm] = <<>>
    /\ committed' = committed \cup
           {<<vm, cursor[vm].id, Record(vm), ScriptsOrder[script[vm]]>>}
    /\ vpc' = [vpc EXCEPT ![vm] = "scripts"]
    /\ UNCHANGED <<flowVars, saved, cursor, seen, script, items, crashes, ran, done>>

(* listen_queue after prepare: next(true).                                 *)
NextRecord(vm) ==
    /\ vpc[vm] = "scripts"
    /\ Remaining(vm) = {}
    /\ done' = done \cup {<<vm, cursor[vm].id, Record(vm)>>}
    /\ cursor' = [cursor EXCEPT ![vm] = Cursor(@.id, @.count + 1)]
    /\ saved' = [saved EXCEPT ![vm] = cursor'[vm]]
    /\ vpc' = [vpc EXCEPT ![vm] = "pop"]
    /\ UNCHANGED <<flowVars, seen, script, items, crashes, ran, committed>>

\* A new process: Consumer::new reads the machine's file, and main's.
Restarts(vm) ==
    /\ crashes' = crashes + 1
    /\ cursor' = [cursor EXCEPT ![vm] = GetInfo(saved[vm], Cursor(0, 0))]
    /\ seen' = [seen EXCEPT ![vm] = GetInfo(saved[Main], Cursor(0, 0))]
    /\ vpc' = [vpc EXCEPT ![vm] = "pop"]
    /\ script' = [script EXCEPT ![vm] = 0]
    /\ items' = [items EXCEPT ![vm] = <<>>]

\* Mutant: an error of mstorage ends the transaction, not the process.
UpdateRefusedGoesOn(vm) ==
    /\ vpc[vm] = "commit"
    /\ items[vm] # <<>>
    /\ UpdateFails
    /\ crashes < MaxCrash
    /\ crashes' = crashes + 1
    /\ items' = [items EXCEPT ![vm] = <<>>]
    /\ vpc' = [vpc EXCEPT ![vm] = "scripts"]
    /\ UNCHANGED <<flowVars, saved, cursor, seen, script, historyVars>>

(* commit: mstorage answers an error.  prepare is Fatal: the process ends  *)
(* with the first part of the transaction stored, and is started again.    *)
UpdateRefused(vm) ==
    /\ vpc[vm] = "commit"
    /\ items[vm] # <<>>
    /\ UpdateFails
    /\ crashes < MaxCrash
    /\ Restarts(vm)
    /\ UNCHANGED <<flowVars, saved, historyVars>>

(* The process dies anywhere, and is started again.                        *)
Crash(vm) ==
    /\ crashes < MaxCrash
    /\ Restarts(vm)
    /\ UNCHANGED <<flowVars, saved, historyVars>>

Step(vm) ==
    \/ Pop(vm) \/ EnterPart(vm) \/ CommitPart(vm) \/ WaitMain(vm)
    \/ RunScript(vm) \/ SendItem(vm) \/ CommitDone(vm) \/ NextRecord(vm)

Next ==
    \/ UserPut \/ NewPart
    \/ \E vm \in Vms : Step(vm) \/ ItemDropped(vm) \/ UpdateRefused(vm) \/ Crash(vm)

Spec == Init /\ [][Next]_vars

(* Each machine's thread keeps running.                                    *)
FairSpec == Spec /\ \A vm \in Vms : WF_vars(Step(vm))

-----------------------------------------------------------------------------
Places == {x \in Parts \X (1 .. MaxLog) : x[2] <= Len(log[x[1]])}
Before(p, k, c) == p < c.id \/ (p = c.id /\ k <= c.count)

(* Types of the queue, the machines and the history.                       *)
TypeOK ==
    /\ \A p \in Parts : \A k \in DOMAIN log[p] :
           log[p][k].doc \in Docs /\ log[p][k].src \in Vms \cup {User}
    /\ top \in Parts
    /\ saved \in [Vms -> [id : Parts, count : Nat] \cup {Empty}]
    /\ cursor \in [Vms -> [id : Parts, count : Nat]]
    /\ seen \in [Vms -> [id : Parts, count : Nat]]
    /\ vpc \in [Vms -> {"pop", "enter", "wait_main", "scripts", "commit"}]
    /\ script \in [Vms -> 0 .. Len(ScriptsOrder)]
    /\ \A vm \in Vms : items[vm] \in Seq(Docs)
    /\ puts \in 0 .. MaxPut /\ crashes \in 0 .. MaxCrash
    /\ committed \subseteq ran

(* No script is run on one element by two machines, although each machine  *)
(* decides alone (veda-scripts-v8 main.rs:220, 313-320).                   *)
OneMachine ==
    \A x, y \in ran : x[2] = y[2] /\ x[3] = y[3] /\ x[4] = y[4] => x[1] = y[1]

(* Chains of events end: script-made changes that trigger scripts in turn  *)
(* do not fill the queue without end (main.rs:325-346).                    *)
CascadeEnds == \A p \in Parts : Len(log[p]) < MaxLog

(* A machine whose cursor, in memory or saved, is past an element has gone *)
(* to the end of the transaction of every script that falls to it there,   *)
(* although mstorage may refuse in the middle and the process may die; an  *)
(* item is missing only where the request itself failed (ItemDropped)      *)
(* (main.rs:364-389, session_cache.rs:168-194, module.rs:305-318).         *)
NoTransactionLost ==
    \A vm \in Vms, x \in Places :
        Before(x[1], x[2], cursor[vm]) \/ Before(x[1], x[2], saved[vm]) =>
            \A s \in ScriptNames :
                Applies(vm, log[x[1]][x[2]], s) => <<vm, x[1], x[2], s>> \in committed

(* lp and lp1 treat an element only when main has finished every element   *)
(* before it (main.rs:187-197).                                            *)
LpNotAhead ==
    \A vm \in Vms \ {Main} : vpc[vm] \in {"scripts", "commit"} =>
        \A x \in Places : Before(x[1], x[2], cursor[vm]) => <<Main, x[1], x[2]>> \in done

(* Every machine gets to the end of the queue again and again: lp is never *)
(* left waiting for main, also after a death of either (main.rs:187-197).  *)
AllTreated == []<>(\A vm \in Vms, x \in Places : <<vm, x[1], x[2]>> \in done)
=============================================================================
