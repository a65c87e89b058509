----------------------------- MODULE RightSets -----------------------------
(***************************************************************************)
(* veda-az-indexer: the right sets authorize reads, kept from the changes  *)
(* of permission statements (or memberships, or filters) in the queue.     *)
(*                                                                         *)
(* A right set belongs to a filter and a resource and has, for every       *)
(* subject, the access and, for each letter of it, how many permissions    *)
(* give it.  A change of a permission is handled as a sequence of writes,  *)
(* one for each resource; the process may die between any two and is given *)
(* the element again.  What the records look like is reduced to what       *)
(* encoding and decoding a right do to it.                                 *)
(*                                                                         *)
(* A predicate's values are a set here, and a right without access is no   *)
(* right.  The marker of a right (exclusive groups) is left out.           *)
(***************************************************************************)
EXTENDS Integers, Sequences, FiniteSets, SequencesExt

CONSTANTS
    Perms, Resources, Subjects, Filters,
    Letters,        \* letters of access in use, a subset of AllLetters
    DefaultAccess,  \* access of a statement that names none: {} for permissions
    Format,         \* version_of_index_format, 1 or 2
    Habits,         \* what clients do besides plain changes, a subset of HabitKinds
    MaxPending, MaxRestart  \* bounds: elements not yet committed, deaths

AllLetters == {"M", "R", "U", "P", "m", "r", "u", "p"}
Denials == {"m", "r", "u", "p"}
Opposite == [M |-> "m", R |-> "r", U |-> "u", P |-> "p", m |-> "M", r |-> "R", u |-> "U", p |-> "P"]

\* A statement created as deleted, deleted with other objects, given another
\* filter, or one that names no access.
HabitKinds == {"born_deleted", "relist", "refilter", "no_access"}

ASSUME LettersAssumption == Letters \subseteq AllLetters /\ DefaultAccess \subseteq Letters
ASSUME FiniteAssumption == IsFiniteSet(Perms) /\ IsFiniteSet(Resources)
ASSUME FormatAssumption == Format \in {1, 2} /\ Habits \subseteq HabitKinds
ASSUME PendingBounds == MaxPending \in Nat /\ MaxRestart \in Nat

VARIABLES
    perms,      \* [Perms -> statement], as mstorage has them
    pending,    \* elements of the queue the cursor file is not past
    todo,       \* writes of the element in work still to be made
    handled,    \* has prepare of the first pending element begun
    az,         \* [Keys -> [Subjects -> right]]
    restarts,
    again       \* history: keys and subjects of elements that were begun and given again

vars == <<perms, pending, todo, handled, az, restarts, again>>

-----------------------------------------------------------------------------
Keys == Filters \X Resources

Accesses == {a \in SUBSET Letters : \A c \in a : Opposite[c] \notin a}

\* A statement; NoPerm is one that is not there.
Statement == [deleted : BOOLEAN, obj : SUBSET Resources, subj : SUBSET Subjects,
              access : Accesses, filter : Filters]
NoFilter == CHOOSE f \in Filters : \A g \in Filters : f = "" \/ g # ""
NoPerm == [deleted |-> FALSE, obj |-> {}, subj |-> {}, access |-> {}, filter |-> NoFilter]

NoRight == [access |-> {}, counts |-> [c \in Letters |-> 0]]

Element(p, prev, new) == [perm |-> p, prev |-> prev, new |-> new]

\* One put_kv: the right set of a key, changed for some subjects.
Write(key, subj, prev, new, del) ==
    [key |-> key, subj |-> subj, prev |-> prev, new |-> new, del |-> del]

-----------------------------------------------------------------------------
\* Mutant: a removal takes every letter of the statement, counted or not.
UpdateCountersAll(counts, prev, cur, del) ==
    [access |-> IF del THEN cur \ prev ELSE cur,
     counts |-> [c \in Letters |->
                   IF c \notin cur THEN counts[c]
                   ELSE IF ~del THEN counts[c] + 1
                   ELSE IF c \in prev THEN 0 ELSE counts[c]]]

(* update_counters: the access and the counters after it.                  *)
UpdateCounters(counts, prev, cur, del) ==
    [access |-> IF del THEN {c \in cur : ~(c \in prev /\ counts[c] = 1)} ELSE cur,
     counts |-> [c \in Letters |->
                   IF c \notin cur THEN counts[c]
                   ELSE IF ~del THEN counts[c] + 1
                   ELSE IF c \in prev /\ counts[c] > 0 THEN counts[c] - 1
                   ELSE counts[c]]]

Total(counts) ==
    LET n(c) == IF c \in Letters THEN counts[c] ELSE 0
    IN  n("M") + n("R") + n("U") + n("P") + n("m") + n("r") + n("u") + n("p")

(* Format 1 writes the access as a hexadecimal number, most significant    *)
(* digit first, and reads the first digit as the least significant one: a  *)
(* number of two digits, one with a denial, comes back with permissions    *)
(* and denials exchanged.  Every letter then counts once.                  *)
DecodedV1(access) ==
    LET read == IF access \cap Denials = {} THEN access ELSE {Opposite[c] : c \in access}
    IN  [access |-> read, counts |-> [c \in Letters |-> IF c \in read THEN 1 ELSE 0]]

(* Format 2 writes the counted letters with their counts, then letters of  *)
(* the access that were not counted.                                       *)
DecodedV2(access, counts) ==
    LET read == access \cup {c \in Letters : counts[c] > 0}
    IN  [access |-> read,
         counts |-> [c \in Letters |-> IF c \in read /\ counts[c] = 0 THEN 1 ELSE counts[c]]]

(* What encode_rightset and decode_rec_to_rightset leave of a right.       *)
Stored(r) == IF Total(r.counts) < 2 \/ Format = 1 THEN DecodedV1(r.access)
             ELSE DecodedV2(r.access, r.counts)

(* update_right_set for one subject.                                       *)
Updated(r, w) ==
    LET cur == IF w.del THEN r.access \cup w.prev ELSE w.new
        upd == UpdateCounters(r.counts, w.prev, cur, w.del)
        gone == w.del /\ (upd.access = {} \/ Total(r.counts) = 0)
    IN  IF gone THEN NoRight
        ELSE IF r = NoRight THEN DecodedV1(w.new)
        ELSE Stored(upd)

\* What a of two lists is not in b: the loop fills another vector than the
\* one that is returned (common.rs:229-248).
GetDisappeared(a, b) == {}

\* One write for each resource, in the order of the list.
Writes(obj, subj, filter, prev, new, del) ==
    LET rs == SetToSeq(obj)
    IN  [i \in DOMAIN rs |-> Write(<<filter, rs[i]>>, subj, prev, new, del)]

AddOrDelRightSets(obj, subj, prevObj, prevSubj, filter, prev, new, del) ==
    (IF del /\ obj = {} /\ subj = {} THEN Writes(prevObj, prevSubj, filter, prev, new, del)
     ELSE Writes(obj, subj, filter, prev, new, del))
    \o Writes(GetDisappeared(prevObj, obj), subj, filter, prev, new, TRUE)
    \o (IF GetDisappeared(prevSubj, subj) = {} THEN <<>>
        ELSE Writes(obj, GetDisappeared(prevSubj, subj), filter, prev, new, TRUE))

AccessOf(st) == IF st.access = {} THEN DefaultAccess ELSE st.access

\* Mutant: a statement that is changed is added without being taken away.
IndexRightSetsAdd(e) ==
    LET p == AccessOf(e.prev)  n == AccessOf(e.new)  f == e.new.filter
        add(del) == AddOrDelRightSets(e.new.obj, e.new.subj, e.prev.obj, e.prev.subj, f, p, n, del)
    IN  IF e.new.deleted THEN (IF e.prev.deleted THEN <<>> ELSE add(TRUE)) ELSE add(FALSE)

\* Mutant: the previous state does not get the default access.
IndexRightSetsNoDefault(e) ==
    LET p == e.prev.access  n == AccessOf(e.new)  f == e.new.filter
        whole(del) == AddOrDelRightSets(e.new.obj, e.new.subj, e.prev.obj, e.prev.subj, f, p, n, del)
        old == AddOrDelRightSets(e.prev.obj, e.prev.subj, {}, {}, f, p, p, TRUE)
    IN  CASE e.new.deleted /\ ~e.prev.deleted -> whole(TRUE)
          [] ~e.new.deleted /\ e.prev.deleted -> whole(FALSE)
          [] ~e.new.deleted /\ ~e.prev.deleted ->
                 (IF e.prev.obj = {} THEN <<>> ELSE old) \o whole(FALSE)
          [] OTHER -> <<>>

(* index_right_sets: a deletion, a restoration, or a change, which is a    *)
(* deletion of the previous state and an addition of the new one.          *)
IndexRightSets(e) ==
    LET p == AccessOf(e.prev)  n == AccessOf(e.new)  f == e.new.filter
        whole(del) == AddOrDelRightSets(e.new.obj, e.new.subj, e.prev.obj, e.prev.subj, f, p, n, del)
        old == AddOrDelRightSets(e.prev.obj, e.prev.subj, {}, {}, f, p, p, TRUE)
    IN  CASE e.new.deleted /\ ~e.prev.deleted -> whole(TRUE)
          [] ~e.new.deleted /\ e.prev.deleted -> whole(FALSE)
          [] ~e.new.deleted /\ ~e.prev.deleted ->
                 (IF e.prev.obj = {} THEN <<>> ELSE old) \o whole(FALSE)
          [] OTHER -> <<>>

\* The rights an element is about.
Named(e) ==
    (Filters \X (e.prev.obj \cup e.new.obj)) \X (e.prev.subj \cup e.new.subj)

-----------------------------------------------------------------------------
Init ==
    /\ perms = [p \in Perms |-> NoPerm]
    /\ pending = <<>> /\ todo = <<>> /\ handled = FALSE
    /\ az = [k \in Keys |-> [s \in Subjects |-> NoRight]]
    /\ restarts = 0 /\ again = {}

\* A statement a client may put where prev is stored.
MayPut(prev, new) ==
    /\ new.obj # {} /\ new.subj # {}
    /\ new.access # {} \/ DefaultAccess # {} \/ "no_access" \in Habits
    /\ new.deleted => prev # NoPerm \/ "born_deleted" \in Habits
    /\ new.deleted /\ ~prev.deleted /\ prev # NoPerm =>
           (new.obj = prev.obj /\ new.subj = prev.subj) \/ "relist" \in Habits
    /\ prev # NoPerm => new.filter = prev.filter \/ "refilter" \in Habits

(* A client puts a statement: mstorage queues its previous and new state.  *)
Put ==
    /\ Len(pending) < MaxPending
    /\ \E p \in Perms, new \in Statement :
        /\ MayPut(perms[p], new)
        /\ perms' = [perms EXCEPT ![p] = new]
        /\ pending' = Append(pending, Element(p, perms[p], new))
    /\ UNCHANGED <<todo, handled, az, restarts, again>>

(* A client removes a statement by its name alone: mstorage first puts an   *)
(* individual that has nothing but v-s:deleted, and then queues an element  *)
(* without states.                                                          *)
RemovePerm ==
    /\ Len(pending) < MaxPending
    /\ \E p \in Perms :
        /\ perms[p] # NoPerm
        /\ perms' = [perms EXCEPT ![p] = NoPerm]
        /\ pending' = pending \o <<Element(p, perms[p], [NoPerm EXCEPT !.deleted = TRUE]),
                                   Element(p, NoPerm, NoPerm)>>
    /\ UNCHANGED <<todo, handled, az, restarts, again>>

(* prepare of the next element.                                            *)
Prepare ==
    /\ ~handled
    /\ pending # <<>>
    /\ todo' = IndexRightSets(Head(pending))
    /\ handled' = TRUE
    /\ UNCHANGED <<perms, pending, az, restarts, again>>

(* update_right_set: one record of the database is read, changed and put.  *)
PutRightSet ==
    /\ todo # <<>>
    /\ LET w == Head(todo)
       IN  az' = [az EXCEPT ![w.key] =
                     [s \in Subjects |-> IF s \in w.subj THEN Updated(@[s], w) ELSE @[s]]]
    /\ todo' = Tail(todo)
    /\ UNCHANGED <<perms, pending, handled, restarts, again>>

(* listen_queue commits the cursor.                                        *)
Commit ==
    /\ handled
    /\ todo = <<>>
    /\ handled' = FALSE
    /\ pending' = Tail(pending)
    /\ UNCHANGED <<perms, todo, az, restarts, again>>

(* The process dies anywhere and starts at its cursor.                     *)
Restart ==
    /\ restarts < MaxRestart
    /\ restarts' = restarts + 1
    /\ todo' = <<>> /\ handled' = FALSE
    /\ again' = again \cup (IF handled THEN Named(Head(pending)) ELSE {})
    /\ UNCHANGED <<perms, pending, az>>

Next == Put \/ RemovePerm \/ Prepare \/ PutRightSet \/ Commit \/ Restart

Spec == Init /\ [][Next]_vars

-----------------------------------------------------------------------------
Grants(st, k, s, c) ==
    ~st.deleted /\ k[1] = st.filter /\ k[2] \in st.obj /\ s \in st.subj /\ c \in AccessOf(st)

\* The state of a permission the index is to show: what was told of it last
\* by an element that is no longer pending.
Told(p) ==
    LET mine == {i \in DOMAIN pending : pending[i].perm = p}
    IN  IF mine = {} THEN perms[p]
        ELSE pending[CHOOSE i \in mine : \A j \in mine : i <= j].prev

Granted(k, s) == {c \in Letters : \E p \in Perms : Grants(Told(p), k, s, c)}

(* Types of the statements, the queue and the index; a right as it is read *)
(* gives the letters that are counted (formats.rs:82-152).                 *)
TypeOK ==
    /\ perms \in [Perms -> Statement]
    /\ \A i \in DOMAIN pending :
           pending[i].perm \in Perms /\ pending[i].prev \in Statement /\ pending[i].new \in Statement
    /\ handled \in BOOLEAN
    /\ \A k \in Keys, s \in Subjects :
        /\ az[k][s].counts \in [Letters -> Nat]
        /\ az[k][s].access = {c \in Letters : az[k][s].counts[c] > 0}
    /\ restarts \in 0 .. MaxRestart

(* Between two elements the index gives every subject exactly the rights   *)
(* the statements give it, however often they were changed, deleted,       *)
(* restored or removed (veda-az-indexer common.rs:53-109, formats.rs:51);  *)
(* what a death spoils are the rights the element in work names.           *)
RightsAsGranted ==
    ~handled => \A k \in Keys, s \in Subjects :
        <<k, s>> \notin again => az[k][s].access = Granted(k, s)

(* Each letter is counted once for every statement that gives it: a later  *)
(* deletion of one of them leaves the right to the others, and the last    *)
(* one takes it away (formats.rs:51-79).  No counter, a u16, goes below 0, *)
(* not even when an element is handled again (formats.rs:60).              *)
CountsExact ==
    /\ \A k \in Keys, s \in Subjects : az[k][s].counts \in [Letters -> Nat]
    /\ ~handled => \A k \in Keys, s \in Subjects : \A c \in Letters : <<k, s>> \notin again =>
           az[k][s].counts[c] = Cardinality({p \in Perms : Grants(Told(p), k, s, c)})

(* Not even while an element is handled does anyone have a right that      *)
(* neither a statement told before gives nor the one being told (authorize *)
(* reads the same database at any time; common.rs:100-107).                *)
NothingUngranted ==
    \A k \in Keys, s \in Subjects : \A c \in az[k][s].access :
        \/ <<k, s>> \in again
        \/ c \in Granted(k, s)
        \/ handled /\ Grants(Head(pending).new, k, s, c)

(* "Запрет чтения" (the reading is forbidden, v-authorization common.rs:32) *)
(* a statement that only forbids gives no right: veda-az-indexer           *)
(* common.rs:17-51, formats.rs:119-152, 208-214.                           *)
ForbiddingGivesNothing ==
    ~handled => \A k \in Keys, s \in Subjects : \A c \in az[k][s].access \ Denials :
        \E p \in Perms : Grants(Told(p), k, s, c)

(* Removing the last statement that gives a right takes the right away     *)
(* (public/js/test/test_individuals.js:2793-2799; common.rs:71, 137-138).  *)
RemovedIsGone ==
    ~handled /\ (\A p \in Perms : Told(p) = NoPerm) =>
        \A k \in Keys, s \in Subjects : az[k][s].access = {}
=============================================================================
