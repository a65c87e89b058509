----------------------------- MODULE Numerator ------------------------------
(***************************************************************************)
(* Numeration of documents: the script of v-s:NumerationEvent, run by the  *)
(* main script machine for each change a user made, gives a document the   *)
(* next number of its scope, and keeps the numbers in use as a list of     *)
(* intervals.  Users create, number, delete and restore documents while    *)
(* the script works on an earlier change, and what the script wrote is     *)
(* stored one individual after the other when it has ended.                *)
(*                                                                         *)
(* Habits names what may happen that spoils the numbers:                   *)
(*   "haste"    a document is changed while its last change is not treated *)
(*   "contend"  a number is entered while other changes are not treated    *)
(*   "restore"  a deleted document is restored                             *)
(*   "die"      the script machine dies with half of a transaction stored  *)
(***************************************************************************)
EXTENDS Integers, Sequences, FiniteSets, SequencesExt

CONSTANTS
    Docs,       \* documents of one scope
    Habits,     \* of "haste", "contend", "restore", "die"
    MaxOwn,     \* greatest number a user enters
    MaxChange,  \* bound: changes made by users
    MaxDeath    \* bound: deaths of the script machine

ASSUME NumeratorBounds == MaxOwn \in Nat /\ MaxChange \in Nat /\ MaxDeath \in Nat
ASSUME NumeratorHabits == Habits \subseteq {"haste", "contend", "restore", "die"}

VARIABLES
    doc,        \* stored documents: [here, number, deleted]; number 0 when there is none
    scope,      \* stored scope: the list of its intervals
    interval,   \* stored intervals: <<begin, end>>
    queue,      \* changes not treated yet: [doc, prev]
    writes,     \* what the script wrote and is not stored yet
    stored,     \* how many individuals of the transaction are stored
    changes,    \* changes made by users so far
    deaths      \* deaths of the script machine so far

vars == <<doc, scope, interval, queue, writes, stored, changes, deaths>>

NoDoc == [here |-> FALSE, number |-> 0, deleted |-> FALSE]
Live(d) == doc[d].here /\ ~doc[d].deleted

-----------------------------------------------------------------------------
(* Intervals.  A state of the numbers is the list and the intervals.       *)
Numbers == [list |-> scope, of |-> interval]
In(s, v) == {i \in ToSet(s.list) : s.of[i][1] <= v /\ v <= s.of[i][2]}
EndsAt(s, v) == {i \in ToSet(s.list) : s.of[i][2] = v}
BeginsAt(s, v) == {i \in ToSet(s.list) : s.of[i][1] = v}
The(S) == CHOOSE i \in S : TRUE

PutInterval(i, begin, end) == [kind |-> "interval", id |-> i, value |-> <<begin, end>>]
PutScope(list) == [kind |-> "scope", id |-> 0, value |-> list]
PutDoc(d, rec) == [kind |-> "doc", id |-> d, value |-> rec]

\* genUri: an interval that was not there.
NewId(s) == Len(s.of) + 1

With(s, w) ==
    IF w.kind = "scope" THEN [s EXCEPT !.list = w.value]
    ELSE IF w.id = NewId(s) THEN [s EXCEPT !.of = Append(@, w.value)]
    ELSE [s EXCEPT !.of[w.id] = w.value]

\* After at most two writes.
After(s, ws) ==
    LET first == IF ws = <<>> THEN s ELSE With(s, ws[1])
    IN  IF Len(ws) < 2 THEN first ELSE With(first, ws[2])

\* The list without one that it names (once, IntervalsApart).
Without(list, i) == RemoveAt(list, CHOOSE k \in DOMAIN list : list[k] = i)

\* Mutant: intervals that meet are not merged.
CommitApart(s, v) ==
    IF In(s, v) # {} THEN <<>>
    ELSE <<PutInterval(NewId(s), v, v), PutScope(Append(s.list, NewId(s)))>>

(* commitValue: the value joins the interval before it, the one after it,  *)
(* or both, or is an interval by itself.                                   *)
CommitValue(s, v) ==
    LET before == EndsAt(s, v - 1)
        after == BeginsAt(s, v + 1)
    IN  IF In(s, v) # {} THEN <<>>
        ELSE IF before # {} /\ after # {}
        THEN LET a == The(after) b == The(before)
             IN  <<PutInterval(b, s.of[b][1], s.of[a][2]), PutScope(Without(s.list, a))>>
        ELSE IF before # {} THEN <<PutInterval(The(before), s.of[The(before)][1], v)>>
        ELSE IF after # {} THEN <<PutInterval(The(after), v, s.of[The(after)][2])>>
        ELSE <<PutInterval(NewId(s), v, v), PutScope(Append(s.list, NewId(s)))>>

\* Mutant: what is behind the value in its interval is lost.
RevokeRest(s, v) ==
    LET i == The(In(s, v))
    IN  IF In(s, v) = {} THEN <<PutScope(s.list)>>
        ELSE IF s.of[i][1] = v THEN <<PutScope(Without(s.list, i))>>
        ELSE <<PutInterval(i, s.of[i][1], v - 1), PutScope(s.list)>>

(* revokeValue: the interval loses its first or last value, goes, or is    *)
(* cut in two; the scope is stored in any case.                            *)
RevokeValue(s, v) ==
    LET i == The(In(s, v))
        begin == s.of[i][1]
        end == s.of[i][2]
    IN  IF In(s, v) = {} THEN <<PutScope(s.list)>>
        ELSE IF begin = end THEN <<PutScope(Without(s.list, i))>>
        ELSE IF begin = v THEN <<PutInterval(i, v + 1, end), PutScope(s.list)>>
        ELSE IF end = v THEN <<PutInterval(i, begin, v - 1), PutScope(s.list)>>
        ELSE <<PutInterval(i, begin, v - 1), PutInterval(NewId(s), v + 1, end),
               PutScope(Append(s.list, NewId(s)))>>

\* Mutant: the next number is counted.
NextCounted(s) == IF s.list = <<>> THEN 1 ELSE Cardinality({v \in 1 .. 20 : In(s, v) # {}}) + 1

(* getNextValueSimple, with first value 1.                                 *)
GetNextValue(s) == IF s.list = <<>> THEN 1 ELSE Max({s.of[i][2] : i \in ToSet(s.list)}) + 1

-----------------------------------------------------------------------------
\* Mutant: a number that was cleared stays cleared.
NumerateNew(d, prev) ==
    LET next == GetNextValue(Numbers)
    IN  IF doc[d].deleted THEN RevokeValue(Numbers, doc[d].number)
        ELSE IF doc[d].number # 0 THEN CommitValue(Numbers, doc[d].number)
        ELSE IF prev.number # 0 THEN <<>>
        ELSE Append(CommitValue(Numbers, next), PutDoc(d, [doc[d] EXCEPT !.number = next]))

(* numerate, for a document as it is now and as it was before the change.  *)
Numerate(d, prev) ==
    LET now == doc[d]
        n == now.number
        next == GetNextValue(Numbers)
        committed == CommitValue(Numbers, n)
    IN  IF n # 0 /\ n = prev.number /\ now.deleted = prev.deleted THEN <<>>
        ELSE IF n = 0 /\ prev.number = 0
        THEN Append(CommitValue(Numbers, next), PutDoc(d, [now EXCEPT !.number = next]))
        ELSE IF n = 0 THEN <<PutDoc(d, [now EXCEPT !.number = prev.number])>>
        ELSE IF ~prev.here THEN committed
        ELSE IF now.deleted THEN RevokeValue(Numbers, n)
        ELSE IF prev.number # 0 /\ n # prev.number
        THEN committed \o RevokeValue(After(Numbers, committed), prev.number)
        ELSE <<>>

(* The main machine takes the next change.  Changes made by scripts are    *)
(* passed over (they have a parent script), and are not in this queue.     *)
Treat ==
    /\ queue # <<>> /\ writes = <<>>
    /\ writes' = Append(Numerate(Head(queue).doc, Head(queue).prev), [kind |-> "end", id |-> 0, value |-> 0])
    /\ UNCHANGED <<doc, scope, interval, queue, stored, changes, deaths>>

(* The next individual of the transaction is stored.                       *)
Store ==
    /\ writes # <<>>
    /\ LET w == Head(writes)
       IN  /\ doc' = IF w.kind = "doc" THEN [doc EXCEPT ![w.id] = w.value] ELSE doc
           /\ scope' = IF w.kind = "scope" THEN w.value ELSE scope
           /\ interval' = IF w.kind = "interval" THEN With(Numbers, w).of ELSE interval
           /\ queue' = IF w.kind = "end" THEN Tail(queue) ELSE queue
    /\ writes' = Tail(writes)
    /\ stored' = IF Len(writes) = 1 THEN 0 ELSE stored + 1
    /\ UNCHANGED <<changes, deaths>>

(* The machine dies and treats the change again.                           *)
Dies ==
    /\ deaths < MaxDeath
    /\ writes # <<>>
    /\ "die" \in Habits \/ stored = 0
    /\ writes' = <<>> /\ stored' = 0
    /\ deaths' = deaths + 1
    /\ UNCHANGED <<doc, scope, interval, queue, changes>>

-----------------------------------------------------------------------------
(* What users do: the stored document changes, and the queue tells of it.  *)
Change(d, rec) ==
    /\ changes < MaxChange
    /\ rec # doc[d]
    /\ "haste" \in Habits \/ \A i \in DOMAIN queue : queue[i].doc # d
    /\ doc' = [doc EXCEPT ![d] = rec]
    /\ queue' = Append(queue, [doc |-> d, prev |-> doc[d]])
    /\ changes' = changes + 1
    /\ UNCHANGED <<scope, interval, writes, stored, deaths>>

(* A number that nobody has (the numeration control offers the next one),  *)
(* entered while nobody else gets one.                                     *)
Available(v) ==
    /\ In(Numbers, v) = {}
    /\ "contend" \in Habits \/ queue = <<>>

Create(d) ==
    /\ ~doc[d].here
    /\ Change(d, [NoDoc EXCEPT !.here = TRUE])

CreateNumbered(d) ==
    /\ ~doc[d].here
    /\ \E v \in 1 .. MaxOwn : Available(v) /\ Change(d, [NoDoc EXCEPT !.here = TRUE, !.number = v])

Renumber(d) ==
    /\ Live(d) /\ doc[d].number # 0
    /\ \E v \in 1 .. MaxOwn : Available(v) /\ Change(d, [doc[d] EXCEPT !.number = v])

ClearNumber(d) ==
    /\ Live(d) /\ doc[d].number # 0
    /\ Change(d, [doc[d] EXCEPT !.number = 0])

Mark(d) ==
    /\ doc[d].here
    /\ \E deleted \in IF "restore" \in Habits THEN BOOLEAN ELSE {TRUE} :
            Change(d, [doc[d] EXCEPT !.deleted = deleted])

Init ==
    /\ doc = [d \in Docs |-> NoDoc]
    /\ scope = <<>> /\ interval = <<>>
    /\ queue = <<>> /\ writes = <<>>
    /\ stored = 0 /\ changes = 0 /\ deaths = 0

User(d) ==
    Create(d) \/ CreateNumbered(d) \/ Renumber(d) \/ ClearNumber(d) \/ Mark(d)

Next == Treat \/ Store \/ Dies \/ \E d \in Docs : User(d)

Spec == Init /\ [][Next]_vars

(* The script machine goes on.                                             *)
FairSpec == Spec /\ WF_vars(Treat) /\ WF_vars(Store)

-----------------------------------------------------------------------------
(* Numbers are unique in a scope (numerator.js:6, "among that range        *)
(* numeration value must be unique").                                      *)
UniqueNumbers ==
    \A d, e \in Docs : d # e /\ Live(d) /\ Live(e) /\ doc[d].number # 0 => doc[d].number # doc[e].number

(* When all changes are treated, the numbers of the documents that are not *)
(* deleted are committed, so that the next one is free                     *)
(* (numerator.js:7, "Commit - add numeration value to scope").             *)
NumbersCommitted ==
    queue = <<>> => \A d \in Docs : Live(d) => In(Numbers, doc[d].number) # {}

(* Whatever was committed and revoked, the scope names stored intervals    *)
(* that are not empty, each once, and no two of them overlap or meet: a    *)
(* number is in one at most, and a revoke takes it away                    *)
(* (numerator.js:129-319).                                                 *)
IntervalsApart ==
    /\ ToSet(scope) \subseteq DOMAIN interval
    /\ \A i \in DOMAIN interval : interval[i][1] <= interval[i][2]
    /\ writes = <<>> =>
           /\ IsInjective(scope)
           /\ \A i, j \in ToSet(scope) : i # j =>
                  interval[i][2] + 1 < interval[j][1] \/ interval[j][2] + 1 < interval[i][1]

(* Every document gets its number, also one whose number was cleared       *)
(* (numerator.js:57-67).                                                   *)
AllNumbered == []<>(\A d \in Docs : Live(d) => doc[d].number # 0)
=============================================================================
