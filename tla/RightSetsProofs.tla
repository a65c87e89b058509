--------------------------- MODULE RightSetsProofs ---------------------------
(***************************************************************************)
(* Theorems about the right sets of veda-az-indexer, for every finite set  *)
(* of statements and resources, every set of subjects, histories of any    *)
(* length and any number of deaths of the indexer.                         *)
(***************************************************************************)
EXTENDS RightSets, FiniteSetTheorems, SequenceTheorems, NaturalsInduction, WellFoundedInduction, TLAPS

(* What the theorems ask of the constants: the index has format 2, no      *)
(* letter denies (formats.rs:119-152 exchanges the two kinds), clients do  *)
(* none of the Habits, and statements name one filter (common.rs:71).      *)
Ordinary ==
    /\ Format = 2 /\ Habits = {}
    /\ Letters \cap Denials = {}
    /\ \E f : Filters = {f}

(* Rights, and those that read as they were counted.                       *)
Rights == [access : SUBSET Letters, counts : [Letters -> Nat]]
Counted(counts) == {c \in Letters : counts[c] > 0}
RightOK(r) == r \in Rights /\ r.access = Counted(r.counts)

-----------------------------------------------------------------------------
(* What counting, encoding and decoding a right do to it.                  *)

(* The sum of the counters bounds each of them and any two.                *)
LEMMA TotalBounds ==
    ASSUME NEW n \in [Letters -> Nat]
    PROVE  /\ Total(n) \in Nat
           /\ \A a \in Letters : n[a] <= Total(n)
           /\ \A a, b \in Letters : a # b => n[a] + n[b] <= Total(n)
<1> DEFINE m(c) == IF c \in Letters THEN n[c] ELSE 0
<1>1. \A c : m(c) \in Nat  OBVIOUS
<1>2. \A a \in Letters : n[a] = m(a) /\ a \in AllLetters  BY LettersAssumption
<1>3. Total(n) = m("M") + m("R") + m("U") + m("P") + m("m") + m("r") + m("u") + m("p")
  BY DEF Total
<1> HIDE DEF m
<1>4. Total(n) \in Nat  BY <1>1, <1>3
<1>5. \A a \in AllLetters : m(a) <= Total(n)
  BY <1>1, <1>3 DEF AllLetters
<1>6. \A a, b \in AllLetters : a # b => m(a) + m(b) <= Total(n)
  BY <1>1, <1>3 DEF AllLetters
<1> QED  BY <1>2, <1>4, <1>5, <1>6

(* A first right is read as it was written: each letter counts once.       *)
LEMMA FirstStored ==
    ASSUME Ordinary, NEW a \in SUBSET Letters
    PROVE  DecodedV1(a) = [access |-> a, counts |-> [c \in Letters |-> IF c \in a THEN 1 ELSE 0]]
BY DEF Ordinary, DecodedV1

(* Whatever is stored reads as it was counted.                             *)
LEMMA StoredType ==
    ASSUME Ordinary, NEW r \in Rights
    PROVE  RightOK(Stored(r))
<1>1. r.access \in SUBSET Letters /\ r.counts \in [Letters -> Nat]  BY DEF Rights
<1>2. RightOK(DecodedV1(r.access))
  BY <1>1, FirstStored DEF RightOK, Rights, Counted
<1>3. RightOK(DecodedV2(r.access, r.counts))
  BY <1>1 DEF RightOK, Rights, Counted, DecodedV2
<1> QED  BY <1>2, <1>3 DEF Stored

(* A right is stored with its counters when none of its letters is left    *)
(* uncounted; a small one, which is stored without them, when all counted  *)
(* letters are its letters.                                                *)
LEMMA StoredKeeps ==
    ASSUME Ordinary, NEW r \in Rights, r.access \subseteq Counted(r.counts),
           Total(r.counts) < 2 => r.access = Counted(r.counts)
    PROVE  Stored(r) = [access |-> Counted(r.counts), counts |-> r.counts]
<1>1. r.access \in SUBSET Letters /\ r.counts \in [Letters -> Nat]  BY DEF Rights
<1>2. CASE Total(r.counts) < 2
  <2>1. \A c \in Letters : r.counts[c] <= 1  BY <1>1, <1>2, TotalBounds
  <2>2. [c \in Letters |-> IF c \in r.access THEN 1 ELSE 0] = r.counts
    BY <1>1, <1>2, <2>1 DEF Counted
  <2> QED  BY <1>1, <1>2, <2>2, FirstStored DEF Stored
<1>3. CASE ~(Total(r.counts) < 2)
  <2>1. r.access \cup {c \in Letters : r.counts[c] > 0} = Counted(r.counts)  BY DEF Counted
  <2>2. [c \in Letters |-> IF c \in Counted(r.counts) /\ r.counts[c] = 0 THEN 1 ELSE r.counts[c]]
            = r.counts
    BY <1>1 DEF Counted
  <2> QED  BY <1>3, <2>1, <2>2 DEF Stored, DecodedV2, Ordinary
<1> QED  BY <1>2, <1>3

(* A right none of whose letters is counted is no right.                   *)
LEMMA NothingCounted ==
    ASSUME NEW r, RightOK(r), \A c \in Letters : r.counts[c] = 0
    PROVE  r = NoRight
<1>1. r.access = {}  BY DEF RightOK, Counted
<1>2. r.counts = [c \in Letters |-> 0]  BY DEF RightOK, Rights
<1>3. r = [access |-> r.access, counts |-> r.counts]  BY DEF RightOK, Rights
<1> QED  BY <1>1, <1>2, <1>3 DEF NoRight

(* The counters after an addition, and after a removal.                    *)
Raised(n, a) == [c \in Letters |-> IF c \in a THEN n[c] + 1 ELSE n[c]]
Lowered(n, a) == [c \in Letters |-> IF c \in a THEN n[c] - 1 ELSE n[c]]

(* An addition counts each letter of the statement once more.              *)
LEMMA GivenOnce ==
    ASSUME Ordinary, NEW r, RightOK(r), NEW w, ~w.del,
           w.new \in SUBSET Letters, w.new # {}
    PROVE  Updated(r, w).counts = Raised(r.counts, w.new)
<1>1. r.counts \in [Letters -> Nat]  BY DEF RightOK, Rights
<1>2. CASE r = NoRight
  <2>1. Updated(r, w) = DecodedV1(w.new)  BY <1>2 DEF Updated
  <2>2. Updated(r, w).counts = [c \in Letters |-> IF c \in w.new THEN 1 ELSE 0]
    BY <2>1, FirstStored
  <2>3. r.counts = [c \in Letters |-> 0]  BY <1>2 DEF NoRight
  <2> QED  BY <2>2, <2>3 DEF Raised
<1>3. CASE r # NoRight
  <2> DEFINE u == [access |-> w.new, counts |-> Raised(r.counts, w.new)]
  <2>1. UpdateCounters(r.counts, w.prev, w.new, w.del) = u
    BY DEF UpdateCounters, Raised
  <2>2. Updated(r, w) = Stored(u)
    BY <1>3, <2>1 DEF Updated
  <2>3. u \in Rights /\ u.counts \in [Letters -> Nat]  BY <1>1 DEF Rights, Raised
  <2>4. u.access \subseteq Counted(u.counts)  BY <1>1 DEF Counted, Raised
  <2>5. Total(u.counts) >= 2
    <3>1. PICK a \in Letters : r.counts[a] >= 1
      BY <1>1, <1>3, NothingCounted
    <3>2. PICK b \in Letters : b \in w.new  OBVIOUS
    <3>3. u.counts[b] >= 1 /\ u.counts[a] >= 1  BY <1>1, <3>1, <3>2 DEF Raised
    <3>4. CASE a = b
      <4>1. u.counts[a] >= 2  BY <1>1, <3>1, <3>2, <3>4 DEF Raised
      <4> QED  BY <2>3, <4>1, TotalBounds
    <3>5. CASE a # b
      <4>1. u.counts[a] + u.counts[b] <= Total(u.counts)  BY <2>3, <3>5, TotalBounds
      <4> QED  BY <2>3, <3>3, <4>1, TotalBounds
    <3> QED  BY <3>4, <3>5
  <2>6. Stored(u) = [access |-> Counted(u.counts), counts |-> u.counts]
    <3>1. ~(Total(u.counts) < 2)  BY <2>3, <2>5, TotalBounds
    <3> QED  BY <2>3, <2>4, <3>1, StoredKeeps
  <2> QED  BY <2>2, <2>6
<1> QED  BY <1>2, <1>3

(* A removal, spelled out.                                                 *)
LEMMA RemovalCases ==
    ASSUME NEW r, NEW w, w.del,
           NEW u, u = UpdateCounters(r.counts, w.prev, r.access \cup w.prev, w.del)
    PROVE  /\ u.access = {} \/ Total(r.counts) = 0 => Updated(r, w) = NoRight
           /\ ~(u.access = {} \/ Total(r.counts) = 0) /\ r # NoRight => Updated(r, w) = Stored(u)
<1>1. u = UpdateCounters(r.counts, w.prev, IF w.del THEN r.access \cup w.prev ELSE w.new, w.del)
  OBVIOUS
<1> QED  BY <1>1 DEF Updated

(* A removal of letters that are counted takes each of them once.          *)
LEMMA TakenOnce ==
    ASSUME Ordinary, NEW r, RightOK(r), NEW w, w.del,
           w.prev \in SUBSET Counted(r.counts)
    PROVE  Updated(r, w).counts = Lowered(r.counts, w.prev)
<1>1. r.counts \in [Letters -> Nat] /\ r.access = Counted(r.counts)  BY DEF RightOK, Rights
<1>2. r.access \cup w.prev = Counted(r.counts)  BY <1>1
<1> DEFINE n == Lowered(r.counts, w.prev)  u == [access |-> Counted(n), counts |-> n]
<1>3. n \in [Letters -> Nat]  BY <1>1 DEF Lowered, Counted
<1>4. UpdateCounters(r.counts, w.prev, Counted(r.counts), w.del) = u
  <2>1. {c \in Counted(r.counts) : ~(c \in w.prev /\ r.counts[c] = 1)} = Counted(n)
    BY <1>1 DEF Counted, Lowered
  <2>2. [c \in Letters |->
           IF c \notin Counted(r.counts) THEN r.counts[c]
           ELSE IF c \in w.prev /\ r.counts[c] > 0 THEN r.counts[c] - 1 ELSE r.counts[c]] = n
    BY <1>1 DEF Counted, Lowered
  <2> QED  BY <2>1, <2>2 DEF UpdateCounters
<1>5. u \in Rights  BY <1>3 DEF Rights, Counted
<1>6. Stored(u) = u
  <2> HIDE DEF n
  <2> QED  BY <1>5, StoredKeeps
<1>7. u.access = Counted(n) /\ u.counts = n  OBVIOUS
<1> HIDE DEF u
<1>8. CASE Counted(n) = {} \/ Total(r.counts) = 0
  <2>1. \A c \in Letters : n[c] = 0
    <3>1. CASE Counted(n) = {}  BY <1>3, <3>1 DEF Counted
    <3>2. CASE Total(r.counts) = 0
      <4>1. \A c \in Letters : r.counts[c] = 0  BY <1>1, <3>2, TotalBounds
      <4> QED  BY <1>1, <4>1 DEF Lowered, Counted
    <3> QED  BY <1>8, <3>1, <3>2
  <2>2. n = [c \in Letters |-> 0]  BY <1>3, <2>1
  <2> HIDE DEF n
  <2>3. Updated(r, w) = NoRight  BY <1>2, <1>4, <1>7, <1>8, RemovalCases
  <2> QED  BY <2>2, <2>3 DEF NoRight, n
<1>9. CASE ~(Counted(n) = {} \/ Total(r.counts) = 0)
  <2>1. r # NoRight
    <3>1. ASSUME r = NoRight PROVE \A c \in Letters : r.counts[c] = 0  BY <3>1 DEF NoRight
    <3>2. (\A c \in Letters : r.counts[c] = 0) => Total(r.counts) = 0  BY <1>1 DEF Total
    <3> QED  BY <1>9, <3>1, <3>2
  <2> HIDE DEF n
  <2>2. Updated(r, w) = Stored(u)  BY <1>2, <1>4, <1>7, <1>9, <2>1, RemovalCases
  <2> QED  BY <1>6, <1>7, <2>2 DEF n
<1> QED  BY <1>8, <1>9

(* Whatever is written, what is read afterwards reads as it was counted.   *)
LEMMA UpdatedType ==
    ASSUME Ordinary, NEW r, RightOK(r), NEW w,
           w.new \in SUBSET Letters, w.prev \in SUBSET Letters
    PROVE  RightOK(Updated(r, w))
<1>1. r.access \in SUBSET Letters /\ r.counts \in [Letters -> Nat]  BY DEF RightOK, Rights
<1>2. RightOK(NoRight)  BY DEF RightOK, NoRight, Rights, Counted
<1>3. RightOK(DecodedV1(w.new))
  BY FirstStored DEF RightOK, Rights, Counted
<1>4. \A cur \in SUBSET Letters : UpdateCounters(r.counts, w.prev, cur, w.del) \in Rights
  BY <1>1 DEF UpdateCounters, Rights
<1>5. \A u \in Rights : RightOK(Stored(u))  BY StoredType
<1>6. (IF w.del THEN r.access \cup w.prev ELSE w.new) \in SUBSET Letters  BY <1>1
<1> QED  BY <1>2, <1>3, <1>4, <1>5, <1>6 DEF Updated

-----------------------------------------------------------------------------
(* The writes an element is turned into.                                   *)

(* SetToSeq lists each member of a finite set once.                        *)
LEMMA Listed ==
    ASSUME NEW S, IsFiniteSet(S), NEW q, q = SetToSeq(S)
    PROVE  /\ q \in Seq(S)
           /\ \A i, j \in DOMAIN q : q[i] = q[j] => i = j
           /\ \A x \in S : \E i \in DOMAIN q : q[i] = x
<1> DEFINE n == Cardinality(S)
<1>1. n \in Nat /\ ExistsBijection(1 .. n, S)  BY FS_CardinalityType
<1>2. \E f \in [1 .. n -> S] : IsInjective(f)
  BY <1>1 DEF ExistsBijection, Bijection, Injection
<1>3. q \in [1 .. n -> S] /\ IsInjective(q)  BY <1>2 DEF SetToSeq
<1>4. q \in Injection(1 .. n, S)  BY <1>3 DEF Injection
<1>5. Cardinality(1 .. n) = n  BY <1>1, FS_Interval
<1>6. q \in Surjection(1 .. n, S)  BY <1>4, <1>5, FS_Injection
<1>7. \A x \in S : \E i \in 1 .. n : q[i] = x  BY <1>6 DEF Surjection
<1>8. q \in Seq(S)  BY <1>1, <1>3
<1> QED  BY <1>3, <1>7, <1>8 DEF IsInjective

WriteRecs == [key : Keys, subj : SUBSET Subjects, prev : SUBSET Letters,
              new : SUBSET Letters, del : BOOLEAN]

(* Is there a write to be made that takes (del), or gives, rights of k?    *)
ToDo(ws, k, del) == \E i \in DOMAIN ws : ws[i].key = k /\ ws[i].del = del

(* The writes of update_right_set: one for each resource, each the same.   *)
OnePer(ws, obj, subj, prev, new, del) ==
    /\ ws \in Seq(WriteRecs)
    /\ \A i \in DOMAIN ws :
          ws[i].key[2] \in obj /\ ws[i].subj = subj /\ ws[i].prev = prev
          /\ ws[i].new = new /\ ws[i].del = del
    /\ \A i, j \in DOMAIN ws : ws[i].key = ws[j].key => i = j
    /\ \A k \in Keys : k[2] \in obj => ToDo(ws, k, del)

LEMMA WritesMade ==
    ASSUME Ordinary, NEW obj \in SUBSET Resources, NEW subj \in SUBSET Subjects, NEW f \in Filters,
           NEW prev \in SUBSET Letters, NEW new \in SUBSET Letters, NEW del \in BOOLEAN
    PROVE  OnePer(Writes(obj, subj, f, prev, new, del), obj, subj, prev, new, del)
<1>1. PICK rs : rs = SetToSeq(obj)  OBVIOUS
<1>2. IsFiniteSet(obj)  BY FiniteAssumption, FS_Subset
<1>3. /\ rs \in Seq(obj)
      /\ \A i, j \in DOMAIN rs : rs[i] = rs[j] => i = j
      /\ \A x \in obj : \E i \in DOMAIN rs : rs[i] = x
  BY <1>1, <1>2, Listed
<1>4. PICK ws : ws = [i \in DOMAIN rs |-> Write(<<f, rs[i]>>, subj, prev, new, del)]  OBVIOUS
<1>5. Writes(obj, subj, f, prev, new, del) = ws  BY <1>1, <1>4 DEF Writes
<1>6. DOMAIN rs = 1 .. Len(rs) /\ Len(rs) \in Nat  BY <1>3
<1>7. \A i \in DOMAIN rs : rs[i] \in obj  BY <1>3, <1>6
<1>8. \A i \in DOMAIN rs :
          /\ ws[i] \in WriteRecs /\ ws[i].key = <<f, rs[i]>> /\ ws[i].subj = subj
          /\ ws[i].prev = prev /\ ws[i].new = new /\ ws[i].del = del
  BY <1>4, <1>7 DEF Write, WriteRecs, Keys
<1>9. ws \in Seq(WriteRecs) /\ DOMAIN ws = DOMAIN rs
  <2>1. DOMAIN ws = DOMAIN rs  BY <1>4
  <2>2. ws \in [1 .. Len(rs) -> WriteRecs]  BY <1>4, <1>6, <1>8
  <2> QED  BY <1>6, <2>1, <2>2
<1>10. \A k \in Keys : k[2] \in obj => ToDo(ws, k, del)
  <2> SUFFICES ASSUME NEW k \in Keys, k[2] \in obj PROVE ToDo(ws, k, del)  OBVIOUS
  <2>1. PICK i \in DOMAIN rs : rs[i] = k[2]  BY <1>3
  <2>2. k = <<f, k[2]>>  BY DEF Keys, Ordinary
  <2> QED  BY <1>8, <1>9, <2>1, <2>2 DEF ToDo
<1>11. \A i, j \in DOMAIN ws : ws[i].key = ws[j].key => i = j
  <2> SUFFICES ASSUME NEW i \in DOMAIN rs, NEW j \in DOMAIN rs, ws[i].key = ws[j].key PROVE i = j
    BY <1>9
  <2>1. <<f, rs[i]>> = <<f, rs[j]>>  BY <1>8
  <2> QED  BY <1>3, <2>1
<1>12. \A i \in DOMAIN ws :
          ws[i].key[2] \in obj /\ ws[i].subj = subj /\ ws[i].prev = prev
          /\ ws[i].new = new /\ ws[i].del = del
  BY <1>7, <1>8, <1>9
<1> QED  BY <1>5, <1>9, <1>10, <1>11, <1>12 DEF OnePer

(* Without resources nothing is written.                                   *)
LEMMA NoWrites ==
    ASSUME NEW subj, NEW f, NEW prev, NEW new, NEW del
    PROVE  Writes({}, subj, f, prev, new, del) = <<>>
<1>1. PICK rs : rs = SetToSeq({})  OBVIOUS
<1>2. rs \in Seq({})  BY <1>1, FS_EmptySet, Listed
<1>3. DOMAIN rs = {}  BY <1>2
<1>4. Writes({}, subj, f, prev, new, del) = [i \in DOMAIN rs |-> Write(<<f, rs[i]>>, subj, prev, new, del)]
  BY <1>1 DEF Writes
<1>5. PICK w : w = [i \in DOMAIN rs |-> Write(<<f, rs[i]>>, subj, prev, new, del)]  OBVIOUS
<1>6. w \in [1 .. 0 -> {}]  BY <1>3, <1>5
<1>7. w \in Seq({}) /\ Len(w) = 0  BY <1>6
<1> QED  BY <1>4, <1>5, <1>7

(* As get_disappeared finds nothing, a call writes either its own lists or *)
(* the previous ones.                                                      *)
LEMMA AddOrDel ==
    ASSUME Ordinary, NEW obj \in SUBSET Resources, NEW subj \in SUBSET Subjects,
           NEW pobj \in SUBSET Resources, NEW psubj \in SUBSET Subjects, NEW f \in Filters,
           NEW prev \in SUBSET Letters, NEW new \in SUBSET Letters, NEW del \in BOOLEAN
    PROVE  LET ws == AddOrDelRightSets(obj, subj, pobj, psubj, f, prev, new, del)
           IN  /\ del /\ obj = {} /\ subj = {} => OnePer(ws, pobj, psubj, prev, new, del)
               /\ ~(del /\ obj = {} /\ subj = {}) => OnePer(ws, obj, subj, prev, new, del)
<1> DEFINE a == IF del /\ obj = {} /\ subj = {} THEN Writes(pobj, psubj, f, prev, new, del)
                ELSE Writes(obj, subj, f, prev, new, del)
<1>1. PICK x : x = a  OBVIOUS
<1>2. x \in Seq(WriteRecs)  BY <1>1, WritesMade DEF OnePer
<1>3. AddOrDelRightSets(obj, subj, pobj, psubj, f, prev, new, del) = x \o <<>> \o <<>>
  <2>1. GetDisappeared(pobj, obj) = {} /\ GetDisappeared(psubj, subj) = {}  BY DEF GetDisappeared
  <2> QED  BY <1>1, <2>1, NoWrites DEF AddOrDelRightSets
<1>4. x \o <<>> \o <<>> = x  BY <1>2, ConcatEmptySeq
<1> QED  BY <1>1, <1>3, <1>4, WritesMade

-----------------------------------------------------------------------------
(* The element in work, and what of it is still to be written.             *)

(* An element as clients make it: a deletion keeps the lists, or has none  *)
(* as a removal by name, and a statement with resources gives something.   *)
ElementOK(e) ==
    /\ e.perm \in Perms /\ e.prev \in Statement /\ e.new \in Statement
    /\ e.new.deleted /\ ~e.prev.deleted =>
           (e.new.obj = {} /\ e.new.subj = {}) \/ (e.new.obj = e.prev.obj /\ e.new.subj = e.prev.subj)
    /\ e.new.obj # {} => AccessOf(e.new) # {}

(* Does the statement give its subjects anything on the resource of k?     *)
About(st, k) == ~st.deleted /\ k[2] \in st.obj

Takes(e, w) ==
    w.del /\ About(e.prev, w.key) /\ w.subj = e.prev.subj /\ w.prev = AccessOf(e.prev)
Gives(e, w) ==
    ~w.del /\ About(e.new, w.key) /\ w.subj = e.new.subj /\ w.new = AccessOf(e.new)

(* Each key is taken from before it is given to, and what was to be given  *)
(* is not forgotten while something is still to be taken.                  *)
TodoOK(e, ws) ==
    /\ ws \in Seq(WriteRecs)
    /\ \A i \in DOMAIN ws : Takes(e, ws[i]) \/ Gives(e, ws[i])
    /\ \A i, j \in DOMAIN ws : i < j /\ ws[i].key = ws[j].key => ws[i].del /\ ~ws[j].del
    /\ \A k \in Keys : ToDo(ws, k, TRUE) /\ About(e.new, k) => ToDo(ws, k, FALSE)

(* What index_right_sets is asked to do, whole.                            *)
Whole(e, ws) ==
    \A k \in Keys : /\ ToDo(ws, k, TRUE) <=> About(e.prev, k)
                    /\ ToDo(ws, k, FALSE) <=> About(e.new, k)

(* The access of a statement is one of letters in use.                     *)
LEMMA AccessLetters ==
    ASSUME NEW st \in Statement
    PROVE  AccessOf(st) \in SUBSET Letters
BY LettersAssumption DEF AccessOf, Statement, Accesses

(* A removal and an addition one after the other.                          *)
LEMMA TakeThenGive ==
    ASSUME NEW e, ElementOK(e), NEW ta, NEW ga, NEW o1, NEW o2, NEW p1, NEW n1, NEW p2, NEW n2,
           OnePer(ta, o1, e.prev.subj, p1, n1, TRUE), OnePer(ga, o2, e.new.subj, p2, n2, FALSE),
           \A k \in Keys : (k[2] \in o1 <=> About(e.prev, k)) /\ (k[2] \in o2 <=> About(e.new, k)),
           p1 = AccessOf(e.prev), n2 = AccessOf(e.new)
    PROVE  TodoOK(e, ta \o ga) /\ Whole(e, ta \o ga)
<1>1. PICK ws : ws = ta \o ga  OBVIOUS
<1>2. ta \in Seq(WriteRecs) /\ ga \in Seq(WriteRecs)  BY DEF OnePer
<1>3. /\ ws \in Seq(WriteRecs) /\ Len(ws) = Len(ta) + Len(ga)
      /\ \A i \in 1 .. Len(ws) : ws[i] = IF i <= Len(ta) THEN ta[i] ELSE ga[i - Len(ta)]
  BY <1>1, <1>2, ConcatProperties
<1>4. PICK m, n : m = Len(ta) /\ n = Len(ga)  OBVIOUS
<1>5. /\ m \in Nat /\ n \in Nat /\ DOMAIN ta = 1 .. m /\ DOMAIN ga = 1 .. n /\ DOMAIN ws = 1 .. m + n
      /\ \A i \in 1 .. m : ws[i] = ta[i]
      /\ \A i \in m + 1 .. m + n : i - m \in 1 .. n /\ ws[i] = ga[i - m]
  BY <1>2, <1>3, <1>4
<1>6. \A i \in 1 .. m : ta[i] \in WriteRecs /\ Takes(e, ta[i]) /\ ta[i].del = TRUE
  <2> TAKE i \in 1 .. m
  <2>1. ta[i] \in WriteRecs  BY <1>2, <1>5
  <2>2. /\ ta[i].key[2] \in o1 /\ ta[i].subj = e.prev.subj /\ ta[i].prev = p1
        /\ ta[i].del = TRUE /\ ta[i].key \in Keys
    BY <1>5, <2>1 DEF OnePer, WriteRecs
  <2> QED  BY <2>1, <2>2 DEF Takes
<1>7. \A i \in 1 .. n : ga[i] \in WriteRecs /\ Gives(e, ga[i]) /\ ga[i].del = FALSE
  <2> TAKE i \in 1 .. n
  <2>1. ga[i] \in WriteRecs  BY <1>2, <1>5
  <2>2. /\ ga[i].key[2] \in o2 /\ ga[i].subj = e.new.subj /\ ga[i].new = n2
        /\ ga[i].del = FALSE /\ ga[i].key \in Keys
    BY <1>5, <2>1 DEF OnePer, WriteRecs
  <2> QED  BY <2>1, <2>2 DEF Gives
<1>8. \A i \in DOMAIN ws : Takes(e, ws[i]) \/ Gives(e, ws[i])
  <2> TAKE i \in DOMAIN ws
  <2>1. i \in 1 .. m \/ i \in m + 1 .. m + n  BY <1>5
  <2> QED  BY <1>5, <1>6, <1>7, <2>1
<1>9. \A i, j \in DOMAIN ws : i < j /\ ws[i].key = ws[j].key => ws[i].del /\ ~ws[j].del
  <2> SUFFICES ASSUME NEW i \in 1 .. m + n, NEW j \in 1 .. m + n, i < j, ws[i].key = ws[j].key
               PROVE  ws[i].del /\ ~ws[j].del
    BY <1>5
  <2>1. CASE i \in 1 .. m /\ j \in 1 .. m
    <3>1. ta[i].key = ta[j].key  BY <1>5, <2>1
    <3> QED  BY <1>5, <2>1, <3>1 DEF OnePer
  <2>2. CASE i \in 1 .. m /\ j \in m + 1 .. m + n  BY <1>5, <1>6, <1>7, <2>2
  <2>3. CASE i \in m + 1 .. m + n /\ j \in m + 1 .. m + n
    <3>1. ga[i - m].key = ga[j - m].key /\ i - m \in DOMAIN ga /\ j - m \in DOMAIN ga  BY <1>5, <2>3
    <3>2. i - m = j - m  BY <3>1 DEF OnePer
    <3> QED  BY <1>5, <3>2
  <2> QED  BY <1>5, <2>1, <2>2, <2>3
<1>10. \A k \in Keys : ToDo(ws, k, TRUE) <=> About(e.prev, k)
  <2> TAKE k \in Keys
  <2>1. ASSUME NEW i \in 1 .. m + n, ws[i].key = k, ws[i].del = TRUE PROVE About(e.prev, k)
    <3>1. i \in 1 .. m  BY <1>5, <1>7, <2>1
    <3> QED  BY <1>5, <1>6, <2>1, <3>1 DEF Takes
  <2>2. ASSUME About(e.prev, k) PROVE ToDo(ws, k, TRUE)
    <3>1. PICK i \in 1 .. m : ta[i].key = k /\ ta[i].del = TRUE  BY <1>5, <2>2 DEF OnePer, ToDo
    <3>2. i \in 1 .. m + n /\ ws[i] = ta[i]  BY <1>5
    <3> QED  BY <1>5, <3>1, <3>2 DEF ToDo
  <2> QED  BY <1>5, <2>1, <2>2 DEF ToDo
<1>11. \A k \in Keys : ToDo(ws, k, FALSE) <=> About(e.new, k)
  <2> TAKE k \in Keys
  <2>1. ASSUME NEW i \in 1 .. m + n, ws[i].key = k, ws[i].del = FALSE PROVE About(e.new, k)
    <3>1. i \in m + 1 .. m + n  BY <1>5, <1>6, <2>1
    <3> QED  BY <1>5, <1>7, <2>1, <3>1 DEF Gives
  <2>2. ASSUME About(e.new, k) PROVE ToDo(ws, k, FALSE)
    <3>1. PICK i \in 1 .. n : ga[i].key = k /\ ga[i].del = FALSE  BY <1>5, <2>2 DEF OnePer, ToDo
    <3>2. i + m \in m + 1 .. m + n /\ (i + m) - m = i  BY <1>5
    <3>3. ws[i + m] = ga[i] /\ i + m \in 1 .. m + n  BY <1>5, <3>2
    <3> QED  BY <1>5, <3>1, <3>3 DEF ToDo
  <2> QED  BY <1>5, <2>1, <2>2 DEF ToDo
<1> QED  BY <1>1, <1>3, <1>8, <1>9, <1>10, <1>11 DEF TodoOK, Whole

(* No writes at all are a removal, or an addition, without resources.      *)
LEMMA EmptyWrites ==
    ASSUME NEW subj, NEW prev, NEW new, NEW del
    PROVE  OnePer(<<>>, {}, subj, prev, new, del)
BY DEF OnePer

(* index_right_sets takes the rights of the previous state and gives those *)
(* of the new one, in this order.                                          *)
LEMMA IndexedWhole ==
    ASSUME Ordinary, NEW e, ElementOK(e)
    PROVE  TodoOK(e, IndexRightSets(e)) /\ Whole(e, IndexRightSets(e))
<1> DEFINE p == AccessOf(e.prev)  n == AccessOf(e.new)  f == e.new.filter
           whole(del) == AddOrDelRightSets(e.new.obj, e.new.subj, e.prev.obj, e.prev.subj, f, p, n, del)
           old == AddOrDelRightSets(e.prev.obj, e.prev.subj, {}, {}, f, p, p, TRUE)
<1>1. /\ p \in SUBSET Letters /\ n \in SUBSET Letters /\ f \in Filters
      /\ e.prev.obj \in SUBSET Resources /\ e.prev.subj \in SUBSET Subjects
      /\ e.new.obj \in SUBSET Resources /\ e.new.subj \in SUBSET Subjects
      /\ e.prev.deleted \in BOOLEAN /\ e.new.deleted \in BOOLEAN
  BY AccessLetters DEF ElementOK, Statement
<1>2. PICK ws : ws = IndexRightSets(e)  OBVIOUS
<1>3. e.new.deleted /\ ~e.prev.deleted => ws = whole(TRUE)  BY <1>2 DEF IndexRightSets
<1>4. ~e.new.deleted /\ e.prev.deleted => ws = whole(FALSE)  BY <1>1, <1>2 DEF IndexRightSets
<1>5. ~e.new.deleted /\ ~e.prev.deleted => ws = (IF e.prev.obj = {} THEN <<>> ELSE old) \o whole(FALSE)
  BY <1>1, <1>2 DEF IndexRightSets
<1>6. e.new.deleted /\ e.prev.deleted => ws = <<>>  BY <1>1, <1>2 DEF IndexRightSets
<1>7. OnePer(whole(FALSE), e.new.obj, e.new.subj, p, n, FALSE)  BY <1>1, AddOrDel
<1>8. e.new.deleted /\ ~e.prev.deleted => OnePer(whole(TRUE), e.prev.obj, e.prev.subj, p, n, TRUE)
  <2>1. CASE e.new.obj = {} /\ e.new.subj = {}  BY <1>1, <2>1, AddOrDel
  <2>2. CASE ~(e.new.obj = {} /\ e.new.subj = {})
    <3>1. OnePer(whole(TRUE), e.new.obj, e.new.subj, p, n, TRUE)  BY <1>1, <2>2, AddOrDel
    <3> QED  BY <2>2, <3>1 DEF ElementOK
  <2> QED  BY <2>1, <2>2
<1>9. OnePer(IF e.prev.obj = {} THEN <<>> ELSE old, e.prev.obj, e.prev.subj, p, p, TRUE)
  <2>1. CASE e.prev.obj = {}  BY <2>1, EmptyWrites
  <2>2. CASE e.prev.obj # {}
    <3>1. OnePer(old, e.prev.obj, e.prev.subj, p, p, TRUE)  BY <1>1, <2>2, AddOrDel
    <3> QED  BY <2>2, <3>1
  <2> QED  BY <2>1, <2>2
<1>10. \A k : About(e.prev, k) <=> ~e.prev.deleted /\ k[2] \in e.prev.obj  BY DEF About
<1>11. \A k : About(e.new, k) <=> ~e.new.deleted /\ k[2] \in e.new.obj  BY DEF About
<1> HIDE DEF whole, old
<1>12. CASE e.new.deleted /\ ~e.prev.deleted
  <2>1. ws \in Seq(WriteRecs)  BY <1>3, <1>8, <1>12 DEF OnePer
  <2>2. ws = ws \o <<>>  BY <2>1, ConcatEmptySeq
  <2>3. OnePer(ws, e.prev.obj, e.prev.subj, p, n, TRUE)  BY <1>3, <1>8, <1>12
  <2>4. OnePer(<<>>, {}, e.new.subj, p, n, FALSE)  BY EmptyWrites
  <2>5. TodoOK(e, ws \o <<>>) /\ Whole(e, ws \o <<>>)
    <3>1. \A k \in Keys : (k[2] \in e.prev.obj <=> About(e.prev, k)) /\ (k[2] \in {} <=> About(e.new, k))
      BY <1>10, <1>11, <1>12
    <3>2. PICK o, no : o = {} /\ no = <<>>  OBVIOUS
    <3>3. /\ OnePer(no, o, e.new.subj, p, n, FALSE)
          /\ \A k \in Keys : (k[2] \in e.prev.obj <=> About(e.prev, k)) /\ (k[2] \in o <=> About(e.new, k))
      BY <2>4, <3>1, <3>2
    <3>4. TodoOK(e, ws \o no) /\ Whole(e, ws \o no)  BY <2>3, <3>3, TakeThenGive
    <3> QED  BY <3>2, <3>4
  <2> QED  BY <1>2, <2>2, <2>5
<1>13. CASE ~e.new.deleted /\ e.prev.deleted
  <2>1. ws \in Seq(WriteRecs)  BY <1>4, <1>7, <1>13 DEF OnePer
  <2>2. ws = <<>> \o ws  BY <2>1, ConcatEmptySeq
  <2>3. OnePer(ws, e.new.obj, e.new.subj, p, n, FALSE)  BY <1>4, <1>7, <1>13
  <2>4. OnePer(<<>>, {}, e.prev.subj, p, n, TRUE)  BY EmptyWrites
  <2>5. TodoOK(e, <<>> \o ws) /\ Whole(e, <<>> \o ws)
    <3>1. \A k \in Keys : (k[2] \in {} <=> About(e.prev, k)) /\ (k[2] \in e.new.obj <=> About(e.new, k))
      BY <1>10, <1>11, <1>13
    <3>2. PICK o, no : o = {} /\ no = <<>>  OBVIOUS
    <3>3. /\ OnePer(no, o, e.prev.subj, p, n, TRUE)
          /\ \A k \in Keys : (k[2] \in o <=> About(e.prev, k)) /\ (k[2] \in e.new.obj <=> About(e.new, k))
      BY <2>4, <3>1, <3>2
    <3>4. TodoOK(e, no \o ws) /\ Whole(e, no \o ws)  BY <2>3, <3>3, TakeThenGive
    <3> QED  BY <3>2, <3>4
  <2> QED  BY <1>2, <2>2, <2>5
<1>14. CASE ~e.new.deleted /\ ~e.prev.deleted
  <2>1. PICK ta, ga : ta = (IF e.prev.obj = {} THEN <<>> ELSE old) /\ ga = whole(FALSE)  OBVIOUS
  <2>2. OnePer(ta, e.prev.obj, e.prev.subj, p, p, TRUE) /\ OnePer(ga, e.new.obj, e.new.subj, p, n, FALSE)
    BY <1>7, <1>9, <2>1
  <2>3. TodoOK(e, ta \o ga) /\ Whole(e, ta \o ga)
    BY <1>10, <1>11, <1>14, <2>2, TakeThenGive
  <2> QED  BY <1>2, <1>5, <1>14, <2>1, <2>3
<1>15. CASE e.new.deleted /\ e.prev.deleted
  <2>1. OnePer(<<>>, {}, e.prev.subj, p, n, TRUE) /\ OnePer(<<>>, {}, e.new.subj, p, n, FALSE)
    BY EmptyWrites
  <2>2. TodoOK(e, <<>> \o <<>>) /\ Whole(e, <<>> \o <<>>)
    <3>1. \A k \in Keys : (k[2] \in {} <=> About(e.prev, k)) /\ (k[2] \in {} <=> About(e.new, k))
      BY <1>10, <1>11, <1>15
    <3>2. PICK o, no : o = {} /\ no = <<>>  OBVIOUS
    <3>3. /\ OnePer(no, o, e.prev.subj, p, n, TRUE) /\ OnePer(no, o, e.new.subj, p, n, FALSE)
          /\ \A k \in Keys : (k[2] \in o <=> About(e.prev, k)) /\ (k[2] \in o <=> About(e.new, k))
      BY <2>1, <3>1, <3>2
    <3>4. TodoOK(e, no \o no) /\ Whole(e, no \o no)  BY <3>3, TakeThenGive
    <3> QED  BY <3>2, <3>4
  <2>3. <<>> \o <<>> = <<>>  OBVIOUS
  <2> QED  BY <1>2, <1>6, <1>15, <2>2, <2>3
<1> QED  BY <1>1, <1>12, <1>13, <1>14, <1>15

-----------------------------------------------------------------------------
(* The queue: what is told last of a statement, and how elements follow.   *)

Elements == [perm : Perms, prev : Statement, new : Statement]

(* Told for any queue and any stored statements.                           *)
ToldOf(Q, P, p) ==
    LET mine == {i \in DOMAIN Q : Q[i].perm = p}
    IN  IF mine = {} THEN P[p]
        ELSE Q[CHOOSE i \in mine : \A j \in mine : i <= j].prev

(* Two states of a statement that give the same: after a removal by name   *)
(* the queue says "deleted" where the next element says there was nothing. *)
Alike(a, b) == a = b \/ (a.obj = {} /\ b.obj = {})

Linked(Q, P) ==
    /\ \A i, j \in DOMAIN Q :
          i < j /\ Q[i].perm = Q[j].perm /\ (\A m \in i + 1 .. j - 1 : Q[m].perm # Q[i].perm)
          => Alike(Q[i].new, Q[j].prev)
    /\ \A i \in DOMAIN Q : (\A j \in DOMAIN Q : i < j => Q[j].perm # Q[i].perm)
          => Alike(Q[i].new, P[Q[i].perm])

(* A set of places has a least one.                                        *)
LEMMA LeastPlace ==
    ASSUME NEW S \in SUBSET Nat, S # {}
    PROVE  \E i \in S : \A j \in S : i <= j
<1>1. IsWellFoundedOn(OpToRel(<, Nat), Nat)  BY NatLessThanWellFounded
<1>2. PICK i \in S : \A j \in S : ~(<<j, i>> \in OpToRel(<, Nat))  BY <1>1, WFMin
<1>3. \A j \in S : ~(j < i)  BY <1>2 DEF OpToRel
<1> QED  BY <1>3

FirstOf(Q, i, p) == i \in DOMAIN Q /\ Q[i].perm = p /\ \A j \in 1 .. i - 1 : Q[j].perm # p

LEMMA ToldFirst ==
    ASSUME NEW Q \in Seq(Elements), NEW P, NEW i, NEW p, FirstOf(Q, i, p)
    PROVE  ToldOf(Q, P, p) = Q[i].prev
<1> DEFINE mine == {k \in DOMAIN Q : Q[k].perm = p}
<1>1. DOMAIN Q = 1 .. Len(Q) /\ Len(Q) \in Nat  OBVIOUS
<1>2. i \in mine /\ \A j \in mine : i <= j  BY <1>1 DEF FirstOf
<1>3. \A k \in mine : (\A j \in mine : k <= j) => k = i  BY <1>1, <1>2
<1>4. (CHOOSE k \in mine : \A j \in mine : k <= j) = i  BY <1>2, <1>3
<1> QED  BY <1>2, <1>4 DEF ToldOf

LEMMA ToldNone ==
    ASSUME NEW Q, NEW P, NEW p, \A i \in DOMAIN Q : Q[i].perm # p
    PROVE  ToldOf(Q, P, p) = P[p]
BY DEF ToldOf

LEMMA HasFirst ==
    ASSUME NEW Q \in Seq(Elements), NEW p, \E i \in DOMAIN Q : Q[i].perm = p
    PROVE  \E i : FirstOf(Q, i, p)
<1> DEFINE mine == {k \in DOMAIN Q : Q[k].perm = p}
<1>1. DOMAIN Q = 1 .. Len(Q) /\ Len(Q) \in Nat  OBVIOUS
<1>2. mine \in SUBSET Nat /\ mine # {}  BY <1>1
<1>4. PICK i \in mine : \A j \in mine : i <= j  BY <1>2, LeastPlace
<1>3. \A j \in 1 .. i - 1 : j \in DOMAIN Q /\ ~(i <= j)  BY <1>1, <1>4
<1> QED  BY <1>3, <1>4 DEF FirstOf

(* The element e is stored, and it is the next of its statement or follows *)
(* another one.                                                            *)
Puts(P, P1, e) == \A q \in Perms : P1[q] = IF q = e.perm THEN e.new ELSE P[q]
Follows(Q, P, e) == e.prev = P[e.perm] \/ \E i \in DOMAIN Q : Q[i].perm = e.perm

(* A new element tells what was stored, or follows another of the same     *)
(* statement: what was told last stays.                                    *)
LEMMA AppendTold ==
    ASSUME NEW Q \in Seq(Elements), NEW e \in Elements, NEW P, NEW P1,
           Puts(P, P1, e), Follows(Q, P, e), NEW p \in Perms
    PROVE  ToldOf(Append(Q, e), P1, p) = ToldOf(Q, P, p)
<1>1. PICK R : R = Append(Q, e)  OBVIOUS
<1>2. PICK n \in Nat : n = Len(Q)  OBVIOUS
<1>3. /\ R \in Seq(Elements) /\ DOMAIN R = 1 .. n + 1 /\ DOMAIN Q = 1 .. n
      /\ R[n + 1] = e /\ \A i \in 1 .. n : R[i] = Q[i]
  BY <1>1, <1>2, AppendProperties
<1>4. CASE \E i \in DOMAIN Q : Q[i].perm = p
  <2>1. PICK i : FirstOf(Q, i, p)  BY <1>4, HasFirst
  <2>2. i \in DOMAIN R /\ R[i] = Q[i] /\ \A j \in 1 .. i - 1 : R[j] = Q[j]
    BY <1>3, <2>1 DEF FirstOf
  <2>3. ToldOf(Q, P, p) = Q[i].prev  BY <2>1, ToldFirst
  <2>4. ToldOf(R, P1, p) = R[i].prev
    <3>1. FirstOf(R, i, p)  BY <2>1, <2>2 DEF FirstOf
    <3> QED  BY <1>3, <3>1, ToldFirst
  <2> QED  BY <1>1, <2>2, <2>3, <2>4
<1>5. CASE ~(\E i \in DOMAIN Q : Q[i].perm = p)
  <2>1. ToldOf(Q, P, p) = P[p]  BY <1>5, ToldNone
  <2>2. CASE p = e.perm
    <3>1. FirstOf(R, n + 1, p)  BY <1>3, <1>5, <2>2 DEF FirstOf
    <3>2. ToldOf(R, P1, p) = R[n + 1].prev  BY <1>3, <3>1, ToldFirst
    <3> QED  BY <1>1, <1>3, <1>5, <2>1, <2>2, <3>2 DEF Follows
  <2>3. CASE p # e.perm
    <3>1. \A i \in DOMAIN R : R[i].perm # p
      <4> TAKE i \in DOMAIN R
      <4>1. i = n + 1 \/ i \in 1 .. n  BY <1>3
      <4> QED  BY <1>3, <1>5, <2>3, <4>1
    <3>2. ToldOf(R, P1, p) = P1[p]  BY <3>1, ToldNone
    <3> QED  BY <1>1, <2>1, <2>3, <3>2 DEF Puts
  <2> QED  BY <2>2, <2>3
<1> QED  BY <1>4, <1>5

LEMMA AppendLinked ==
    ASSUME NEW Q \in Seq(Elements), NEW P, Linked(Q, P), NEW e \in Elements,
           Alike(P[e.perm], e.prev), NEW P1, Puts(P, P1, e)
    PROVE  Linked(Append(Q, e), P1)
<1>1. PICK R : R = Append(Q, e)  OBVIOUS
<1>2. PICK n \in Nat : n = Len(Q)  OBVIOUS
<1>3. /\ R \in Seq(Elements) /\ DOMAIN R = 1 .. n + 1 /\ DOMAIN Q = 1 .. n
      /\ R[n + 1] = e /\ \A i \in 1 .. n : R[i] = Q[i] /\ Q[i].perm \in Perms
  <2>1. \A i \in 1 .. n : Q[i] \in Elements  BY <1>2
  <2>2. \A x \in Elements : x.perm \in Perms  BY DEF Elements
  <2> QED  BY <1>1, <1>2, <2>1, <2>2, AppendProperties
<1>4. ASSUME NEW i \in DOMAIN R, NEW j \in DOMAIN R, i < j, R[i].perm = R[j].perm,
             \A m \in i + 1 .. j - 1 : R[m].perm # R[i].perm
      PROVE  Alike(R[i].new, R[j].prev)
  <2>1. i \in DOMAIN Q /\ R[i] = Q[i]  BY <1>3, <1>4
  <2>2. \A m \in i + 1 .. j - 1 : m \in DOMAIN Q /\ R[m] = Q[m]  BY <1>3, <1>4
  <2>3. CASE j \in 1 .. n
    <3>1. R[j] = Q[j] /\ j \in DOMAIN Q  BY <1>3, <2>3
    <3> QED  BY <1>4, <2>1, <2>2, <3>1 DEF Linked
  <2>4. CASE j = n + 1
    <3>1. \A m \in DOMAIN Q : i < m => Q[m].perm # Q[i].perm
      <4> SUFFICES ASSUME NEW m \in 1 .. n, i < m PROVE Q[m].perm # Q[i].perm  BY <1>3
      <4>1. m \in i + 1 .. j - 1  BY <1>3, <1>4, <2>4
      <4> QED  BY <1>4, <2>1, <2>2, <4>1
    <3>2. Alike(Q[i].new, P[Q[i].perm])  BY <2>1, <3>1 DEF Linked
    <3>3. Q[i].perm = e.perm /\ R[j] = e  BY <1>3, <1>4, <2>1, <2>4
    <3> QED  BY <2>1, <3>2, <3>3 DEF Alike
  <2> QED  BY <1>3, <2>3, <2>4
<1>5. ASSUME NEW i \in DOMAIN R, \A j \in DOMAIN R : i < j => R[j].perm # R[i].perm
      PROVE  Alike(R[i].new, P1[R[i].perm])
  <2>1. CASE i = n + 1
    <3>1. e.perm \in Perms  BY DEF Elements
    <3> QED  BY <1>3, <2>1, <3>1 DEF Alike, Puts
  <2>2. CASE i \in 1 .. n
    <3>1. R[i].perm # e.perm /\ R[i] = Q[i] /\ Q[i].perm \in Perms  BY <1>3, <1>5, <2>2
    <3>2. \A j \in DOMAIN Q : i < j => Q[j].perm # Q[i].perm  BY <1>3, <1>5, <2>2
    <3>3. Alike(Q[i].new, P[Q[i].perm])  BY <1>3, <2>2, <3>2 DEF Linked
    <3> QED  BY <3>1, <3>3 DEF Puts
  <2> QED  BY <1>3, <2>1, <2>2
<1> QED  BY <1>1, <1>4, <1>5 DEF Linked

(* When the first element is past, its new state is what is told last of   *)
(* its statement, and nothing changes for the others.                      *)
LEMMA TailTold ==
    ASSUME NEW Q \in Seq(Elements), Q # <<>>, NEW P, Linked(Q, P), NEW p \in Perms
    PROVE  /\ p # Head(Q).perm => ToldOf(Tail(Q), P, p) = ToldOf(Q, P, p)
           /\ p = Head(Q).perm => /\ ToldOf(Q, P, p) = Head(Q).prev
                                  /\ Alike(Head(Q).new, ToldOf(Tail(Q), P, p))
<1>1. PICK R : R = Tail(Q)  OBVIOUS
<1>2. PICK n \in Nat : Len(Q) = n + 1  OBVIOUS
<1>3. /\ R \in Seq(Elements) /\ DOMAIN R = 1 .. n /\ DOMAIN Q = 1 .. n + 1 /\ Head(Q) = Q[1]
      /\ \A i \in 1 .. n : i + 1 \in 1 .. n + 1 /\ R[i] = Q[i + 1]
  BY <1>1, <1>2
<1>4. \A i \in 1 .. n + 1 : i = 1 \/ (i - 1 \in 1 .. n /\ R[i - 1] = Q[i])
  <2> TAKE i \in 1 .. n + 1
  <2>1. i # 1 => i - 1 \in 1 .. n /\ (i - 1) + 1 = i  OBVIOUS
  <2> QED  BY <1>3, <2>1
<1>5. CASE \E i \in DOMAIN R : R[i].perm = p
  <2>0. PICK i : FirstOf(R, i, p)  BY <1>3, <1>5, HasFirst
  <2>1. i \in 1 .. n /\ R[i].perm = p /\ \A j \in 1 .. i - 1 : R[j].perm # p
    BY <1>3, <2>0 DEF FirstOf
  <2>2. ToldOf(R, P, p) = R[i].prev  BY <1>3, <2>0, ToldFirst
  <2>3. i + 1 \in DOMAIN Q /\ Q[i + 1] = R[i]  BY <1>3, <2>1
  <2>4. \A m \in 2 .. i : Q[m].perm # p
    <3> TAKE m \in 2 .. i
    <3>1. m \in 1 .. n + 1 /\ m # 1 /\ m - 1 \in 1 .. i - 1  BY <2>1
    <3> QED  BY <1>4, <2>1, <3>1
  <2>5. CASE p # Head(Q).perm
    <3>1. \A m \in 1 .. (i + 1) - 1 : m = 1 \/ m \in 2 .. i  BY <2>1
    <3>2. \A m \in 1 .. (i + 1) - 1 : Q[m].perm # p  BY <1>3, <2>4, <2>5, <3>1
    <3>3. p = Q[i + 1].perm  BY <2>1, <2>3
    <3>4. FirstOf(Q, i + 1, p)  BY <2>3, <3>2, <3>3 DEF FirstOf
    <3>5. ToldOf(Q, P, p) = Q[i + 1].prev  BY <3>4, ToldFirst
    <3> QED  BY <1>1, <2>2, <2>3, <2>5, <3>5
  <2>6. CASE p = Head(Q).perm
    <3>1. 1 \in DOMAIN Q /\ p = Q[1].perm /\ \A j \in 1 .. 1 - 1 : Q[j].perm # p  BY <1>3, <2>6
    <3>2. ToldOf(Q, P, p) = Q[1].prev
      <4>1. FirstOf(Q, 1, p)  BY <3>1 DEF FirstOf
      <4> QED  BY <4>1, ToldFirst
    <3>3. \A m \in 1 + 1 .. (i + 1) - 1 : Q[m].perm # Q[1].perm
      <4>1. \A m \in 1 + 1 .. (i + 1) - 1 : m \in 2 .. i  BY <2>1
      <4> QED  BY <2>4, <3>1, <4>1
    <3>4. 1 < i + 1 /\ Q[1].perm = Q[i + 1].perm  BY <2>1, <2>3, <3>1
    <3>5. Alike(Q[1].new, Q[i + 1].prev)  BY <2>3, <3>1, <3>3, <3>4 DEF Linked
    <3> QED  BY <1>1, <1>3, <2>2, <2>3, <2>6, <3>2, <3>5
  <2> QED  BY <2>5, <2>6
<1>6. CASE ~(\E i \in DOMAIN R : R[i].perm = p)
  <2>1. ToldOf(R, P, p) = P[p]  BY <1>6, ToldNone
  <2>2. \A m \in DOMAIN Q : m # 1 => Q[m].perm # p  BY <1>3, <1>4, <1>6
  <2>3. CASE p # Head(Q).perm
    <3>1. \A m \in DOMAIN Q : Q[m].perm # p  BY <1>3, <2>2, <2>3
    <3> QED  BY <1>1, <2>1, <2>3, <3>1, ToldNone
  <2>4. CASE p = Head(Q).perm
    <3>1. 1 \in DOMAIN Q /\ p = Q[1].perm /\ \A j \in 1 .. 1 - 1 : Q[j].perm # p  BY <1>3, <2>4
    <3>2. ToldOf(Q, P, p) = Q[1].prev
      <4>1. FirstOf(Q, 1, p)  BY <3>1 DEF FirstOf
      <4> QED  BY <4>1, ToldFirst
    <3>3. \A j \in DOMAIN Q : 1 < j => Q[j].perm # Q[1].perm  BY <2>2, <3>1
    <3>4. Alike(Q[1].new, P[Q[1].perm])  BY <3>1, <3>3 DEF Linked
    <3> QED  BY <1>1, <1>3, <2>1, <2>4, <3>1, <3>2, <3>4
  <2> QED  BY <2>3, <2>4
<1> QED  BY <1>5, <1>6

LEMMA TailLinked ==
    ASSUME NEW Q \in Seq(Elements), Q # <<>>, NEW P, Linked(Q, P)
    PROVE  Linked(Tail(Q), P)
<1>1. PICK R : R = Tail(Q)  OBVIOUS
<1>2. PICK n \in Nat : Len(Q) = n + 1  OBVIOUS
<1>3. /\ R \in Seq(Elements) /\ DOMAIN R = 1 .. n /\ DOMAIN Q = 1 .. n + 1
      /\ \A i \in 1 .. n : i + 1 \in 1 .. n + 1 /\ R[i] = Q[i + 1]
  BY <1>1, <1>2
<1>4. ASSUME NEW i \in 1 .. n, NEW j \in 1 .. n, i < j, R[i].perm = R[j].perm,
             \A m \in i + 1 .. j - 1 : R[m].perm # R[i].perm
      PROVE  Alike(R[i].new, R[j].prev)
  <2>1. i + 1 \in DOMAIN Q /\ j + 1 \in DOMAIN Q /\ i + 1 < j + 1 /\ Q[i + 1].perm = Q[j + 1].perm
    BY <1>3, <1>4
  <2>2. \A m \in (i + 1) + 1 .. (j + 1) - 1 : Q[m].perm # Q[i + 1].perm
    <3> TAKE m \in (i + 1) + 1 .. (j + 1) - 1
    <3>1. m - 1 \in i + 1 .. j - 1 /\ m - 1 \in 1 .. n /\ (m - 1) + 1 = m  BY <1>4
    <3> QED  BY <1>3, <1>4, <3>1
  <2>3. Alike(Q[i + 1].new, Q[j + 1].prev)  BY <2>1, <2>2 DEF Linked
  <2> QED  BY <1>3, <2>3
<1>5. ASSUME NEW i \in 1 .. n, \A j \in 1 .. n : i < j => R[j].perm # R[i].perm
      PROVE  Alike(R[i].new, P[R[i].perm])
  <2>1. i + 1 \in DOMAIN Q  BY <1>3
  <2>2. \A j \in DOMAIN Q : i + 1 < j => Q[j].perm # Q[i + 1].perm
    <3> SUFFICES ASSUME NEW j \in 1 .. n + 1, i + 1 < j PROVE Q[j].perm # Q[i + 1].perm  BY <1>3
    <3>1. j - 1 \in 1 .. n /\ i < j - 1 /\ (j - 1) + 1 = j  BY <1>5
    <3> QED  BY <1>3, <1>5, <3>1
  <2>3. Alike(Q[i + 1].new, P[Q[i + 1].perm])  BY <2>1, <2>2 DEF Linked
  <2> QED  BY <1>3, <2>3
<1> QED  BY <1>1, <1>3, <1>4, <1>5 DEF Linked

-----------------------------------------------------------------------------
(* What the index shows of a statement while its element is in work.       *)

(* The rights of a key are those of the previous state until they are      *)
(* taken, then none until those of the new state are given.                *)
Standing(e, ws, k, s, c) ==
    IF ToDo(ws, k, TRUE) /\ s \in e.prev.subj THEN Grants(e.prev, k, s, c)
    ELSE IF ToDo(ws, k, FALSE) /\ s \in e.new.subj THEN FALSE
    ELSE Grants(e.new, k, s, c)

(* There is one filter: a statement gives what it names.                   *)
LEMMA GrantsOne ==
    ASSUME Ordinary, NEW st \in Statement, NEW k \in Keys, NEW s \in Subjects, NEW c \in Letters
    PROVE  Grants(st, k, s, c) <=> About(st, k) /\ s \in st.subj /\ c \in AccessOf(st)
<1>1. k[1] \in Filters /\ st.filter \in Filters  BY DEF Keys, Statement
<1>2. k[1] = st.filter  BY <1>1 DEF Ordinary
<1> QED  BY <1>2 DEF Grants, About

(* Before the first write the previous state is shown, after the last one  *)
(* the new.                                                                *)
LEMMA StandingEnds ==
    ASSUME Ordinary, NEW e, ElementOK(e), NEW k \in Keys, NEW s \in Subjects, NEW c \in Letters, NEW ws
    PROVE  /\ Whole(e, ws) => (Standing(e, ws, k, s, c) <=> Grants(e.prev, k, s, c))
           /\ Standing(e, <<>>, k, s, c) <=> Grants(e.new, k, s, c)
<1>1. e.prev \in Statement /\ e.new \in Statement  BY DEF ElementOK
<1>2. /\ Grants(e.prev, k, s, c) => About(e.prev, k) /\ s \in e.prev.subj
      /\ Grants(e.new, k, s, c) => About(e.new, k) /\ s \in e.new.subj
  BY <1>1, GrantsOne
<1>3. ~ToDo(<<>>, k, TRUE) /\ ~ToDo(<<>>, k, FALSE)  BY DEF ToDo
<1> QED  BY <1>2, <1>3 DEF Standing, Whole

(* A write that has been made is no longer to be made, and no other is     *)
(* gone; nothing is taken from a key that is given to.                     *)
Advanced(e, ws, w, us) ==
    /\ w \in WriteRecs /\ (Takes(e, w) \/ Gives(e, w))
    /\ ToDo(ws, w.key, w.del) /\ ~ToDo(us, w.key, w.del)
    /\ ~w.del => ~ToDo(ws, w.key, TRUE)
    /\ \A k, d : k # w.key \/ d # w.del => (ToDo(us, k, d) <=> ToDo(ws, k, d))
    /\ us \in Seq(WriteRecs)
    /\ \A i \in DOMAIN us : i + 1 \in DOMAIN ws /\ us[i] = ws[i + 1]

LEMMA TailToDo ==
    ASSUME NEW e, NEW ws, TodoOK(e, ws), ws # <<>>, NEW w, w = Head(ws), NEW us, us = Tail(ws)
    PROVE  Advanced(e, ws, w, us)
<1>1. PICK n \in Nat : Len(ws) = n + 1  BY DEF TodoOK
<1>2. /\ us \in Seq(WriteRecs) /\ DOMAIN us = 1 .. n /\ DOMAIN ws = 1 .. n + 1 /\ w = ws[1]
      /\ \A i \in 1 .. n : i + 1 \in 1 .. n + 1 /\ us[i] = ws[i + 1]
      /\ \A i \in 1 .. n + 1 : ws[i] \in WriteRecs
  BY <1>1 DEF TodoOK
<1>3. \A i \in 1 .. n + 1 : i # 1 => i - 1 \in 1 .. n /\ us[i - 1] = ws[i]
  <2> SUFFICES ASSUME NEW i \in 1 .. n + 1, i # 1 PROVE i - 1 \in 1 .. n /\ us[i - 1] = ws[i]
    OBVIOUS
  <2>1. i - 1 \in 1 .. n /\ (i - 1) + 1 = i  OBVIOUS
  <2> QED  BY <1>2, <2>1
<1>4. w \in WriteRecs /\ (Takes(e, w) \/ Gives(e, w)) /\ w.del \in BOOLEAN
  BY <1>2 DEF TodoOK, WriteRecs
<1>5. \A j \in 1 .. n + 1 : j # 1 /\ ws[j].key = w.key => w.del /\ ~ws[j].del
  BY <1>2 DEF TodoOK
<1>6. ToDo(ws, w.key, w.del)  BY <1>2 DEF ToDo
<1>7. ~ToDo(us, w.key, w.del)
  <2>1. \A i \in 1 .. n : us[i].key = w.key => w.del /\ ~us[i].del  BY <1>2, <1>5
  <2> QED  BY <1>2, <2>1 DEF ToDo
<1>8. ~w.del => ~ToDo(ws, w.key, TRUE)
  <2>1. ASSUME ~w.del, NEW j \in 1 .. n + 1, ws[j].key = w.key, ws[j].del = TRUE PROVE FALSE
    BY <1>2, <1>5, <2>1
  <2> QED  BY <1>2, <2>1 DEF ToDo
<1>9. ASSUME NEW k, NEW d, k # w.key \/ d # w.del PROVE ToDo(us, k, d) <=> ToDo(ws, k, d)
  <2>1. ASSUME ToDo(us, k, d) PROVE ToDo(ws, k, d)
    <3>1. PICK i \in 1 .. n : us[i].key = k /\ us[i].del = d  BY <1>2, <2>1 DEF ToDo
    <3>2. i + 1 \in 1 .. n + 1 /\ us[i] = ws[i + 1]  BY <1>2
    <3> QED  BY <1>2, <3>1, <3>2 DEF ToDo
  <2>2. ASSUME ToDo(ws, k, d) PROVE ToDo(us, k, d)
    <3>1. PICK i \in 1 .. n + 1 : ws[i].key = k /\ ws[i].del = d  BY <1>2, <2>2 DEF ToDo
    <3>2. i # 1  BY <1>2, <1>9, <3>1
    <3>3. i - 1 \in 1 .. n /\ us[i - 1] = ws[i]  BY <1>3, <3>2
    <3> QED  BY <1>2, <3>1, <3>3 DEF ToDo
  <2> QED  BY <2>1, <2>2
<1> QED  BY <1>2, <1>4, <1>6, <1>7, <1>8, <1>9 DEF Advanced

(* The rest of the writes is as ordered as the whole.                      *)
LEMMA TailTodoOK ==
    ASSUME NEW e, NEW ws, TodoOK(e, ws), ws # <<>>
    PROVE  TodoOK(e, Tail(ws))
<1>1. PICK w, us : w = Head(ws) /\ us = Tail(ws)  OBVIOUS
<1>2. /\ w \in WriteRecs
      /\ ToDo(ws, w.key, w.del) /\ ~ToDo(us, w.key, w.del)
      /\ ~w.del => ~ToDo(ws, w.key, TRUE)
      /\ \A k, d : k # w.key \/ d # w.del => (ToDo(us, k, d) <=> ToDo(ws, k, d))
      /\ us \in Seq(WriteRecs)
      /\ \A i \in DOMAIN us : i + 1 \in DOMAIN ws /\ us[i] = ws[i + 1]
  <2>1. Advanced(e, ws, w, us)  BY <1>1, TailToDo
  <2> QED  BY <2>1 DEF Advanced
<1>3. w.del \in BOOLEAN  BY <1>2 DEF WriteRecs
<1>4. \A i \in DOMAIN us : Takes(e, us[i]) \/ Gives(e, us[i])  BY <1>2 DEF TodoOK
<1>5. \A i, j \in DOMAIN us : i < j /\ us[i].key = us[j].key => us[i].del /\ ~us[j].del
  <2> SUFFICES ASSUME NEW i \in DOMAIN us, NEW j \in DOMAIN us, i < j, us[i].key = us[j].key
               PROVE  us[i].del /\ ~us[j].del
    OBVIOUS
  <2>1. i \in Nat /\ j \in Nat  BY <1>2
  <2>2. i + 1 < j + 1  BY <2>1
  <2> QED  BY <1>2, <2>2 DEF TodoOK
<1>6. \A k \in Keys : ToDo(us, k, TRUE) /\ About(e.new, k) => ToDo(us, k, FALSE)
  <2> SUFFICES ASSUME NEW k \in Keys, ToDo(us, k, TRUE), About(e.new, k) PROVE ToDo(us, k, FALSE)
    OBVIOUS
  <2>1. ToDo(ws, k, TRUE)  BY <1>2, <1>3
  <2>2. ToDo(ws, k, FALSE)  BY <2>1 DEF TodoOK
  <2>3. ~(k = w.key /\ ~w.del)  BY <1>2, <2>1
  <2> QED  BY <1>2, <1>3, <2>2, <2>3
<1> QED  BY <1>1, <1>2, <1>4, <1>5, <1>6 DEF TodoOK

(* A write takes what its key shows, or gives what it does not show yet;   *)
(* nothing else is shown differently after it.                             *)
LEMMA StandingWritten ==
    ASSUME Ordinary, NEW e, ElementOK(e), NEW ws, TodoOK(e, ws), ws # <<>>,
           NEW w, w = Head(ws), NEW us, us = Tail(ws),
           NEW k \in Keys, NEW s \in Subjects, NEW c \in Letters
    PROVE  /\ k = w.key /\ s \in w.subj /\ w.del =>
                 /\ Standing(e, ws, k, s, c) <=> c \in w.prev
                 /\ ~Standing(e, us, k, s, c)
           /\ k = w.key /\ s \in w.subj /\ ~w.del =>
                 /\ ~Standing(e, ws, k, s, c)
                 /\ Standing(e, us, k, s, c) <=> c \in w.new
           /\ ~(k = w.key /\ s \in w.subj) =>
                 (Standing(e, us, k, s, c) <=> Standing(e, ws, k, s, c))
<1>1. /\ w \in WriteRecs /\ (Takes(e, w) \/ Gives(e, w))
      /\ ToDo(ws, w.key, w.del) /\ ~ToDo(us, w.key, w.del)
      /\ ~w.del => ~ToDo(ws, w.key, TRUE)
      /\ \A j, d : j # w.key \/ d # w.del => (ToDo(us, j, d) <=> ToDo(ws, j, d))
  <2>1. Advanced(e, ws, w, us)  BY TailToDo
  <2> QED  BY <2>1 DEF Advanced
<1>2. w.del \in BOOLEAN  BY <1>1 DEF WriteRecs
<1>3. e.prev \in Statement /\ e.new \in Statement  BY DEF ElementOK
<1>4. /\ Grants(e.prev, k, s, c) <=> About(e.prev, k) /\ s \in e.prev.subj /\ c \in AccessOf(e.prev)
      /\ Grants(e.new, k, s, c) <=> About(e.new, k) /\ s \in e.new.subj /\ c \in AccessOf(e.new)
  BY <1>3, GrantsOne
<1>5. ToDo(ws, k, TRUE) /\ About(e.new, k) => ToDo(ws, k, FALSE)  BY DEF TodoOK
<1>6. CASE k # w.key  BY <1>1, <1>6 DEF Standing
<1>7. CASE k = w.key /\ w.del = TRUE
  <2>1. Takes(e, w)  BY <1>1, <1>7 DEF Gives
  <2>2. ToDo(ws, k, TRUE) /\ ~ToDo(us, k, TRUE) /\ (ToDo(us, k, FALSE) <=> ToDo(ws, k, FALSE))
    BY <1>1, <1>7
  <2>3. About(e.prev, k) /\ w.subj = e.prev.subj /\ w.prev = AccessOf(e.prev)
    BY <1>7, <2>1 DEF Takes
  <2>4. ToDo(us, k, FALSE) \/ ~About(e.new, k)  BY <1>5, <2>2
  <2>5. ~Standing(e, us, k, s, c)  BY <1>4, <2>2, <2>4 DEF Standing
  <2>6. CASE s \in w.subj
    <3>1. Standing(e, ws, k, s, c) <=> c \in w.prev  BY <1>4, <2>2, <2>3, <2>6 DEF Standing
    <3> QED  BY <1>7, <2>5, <2>6, <3>1
  <2>7. CASE s \notin w.subj
    <3>1. ~Standing(e, ws, k, s, c)  BY <1>4, <1>5, <2>2, <2>3, <2>7 DEF Standing
    <3> QED  BY <2>5, <2>7, <3>1
  <2> QED  BY <2>6, <2>7
<1>8. CASE k = w.key /\ w.del = FALSE
  <2>1. Gives(e, w)  BY <1>1, <1>8 DEF Takes
  <2>2. /\ ~ToDo(ws, k, TRUE) /\ ~ToDo(us, k, TRUE)
        /\ ToDo(ws, k, FALSE) /\ ~ToDo(us, k, FALSE)
    BY <1>1, <1>8
  <2>3. About(e.new, k) /\ w.subj = e.new.subj /\ w.new = AccessOf(e.new)
    BY <1>8, <2>1 DEF Gives
  <2>4. Standing(e, us, k, s, c) <=> s \in w.subj /\ c \in w.new  BY <1>4, <2>2, <2>3 DEF Standing
  <2>5. ~Standing(e, ws, k, s, c)  BY <1>4, <2>2, <2>3 DEF Standing
  <2> QED  BY <1>8, <2>4, <2>5
<1> QED  BY <1>2, <1>6, <1>7, <1>8

(* Rights an element does not name it does not show, before or after.      *)
LEMMA StandingUnnamed ==
    ASSUME Ordinary, NEW e, ElementOK(e), NEW ws, TodoOK(e, ws),
           NEW k \in Keys, NEW s \in Subjects, NEW c \in Letters, <<k, s>> \notin Named(e)
    PROVE  ~Standing(e, ws, k, s, c) /\ ~Grants(e.prev, k, s, c)
<1>1. e.prev \in Statement /\ e.new \in Statement  BY DEF ElementOK
<1>2. /\ Grants(e.prev, k, s, c) => k[2] \in e.prev.obj /\ s \in e.prev.subj
      /\ Grants(e.new, k, s, c) => k[2] \in e.new.obj /\ s \in e.new.subj
  BY <1>1, GrantsOne DEF About
<1>3. k = <<k[1], k[2]>> /\ k[1] \in Filters  BY DEF Keys
<1>4. ~(k[2] \in e.prev.obj \cup e.new.obj /\ s \in e.prev.subj \cup e.new.subj)
  BY <1>3 DEF Named
<1> QED  BY <1>2, <1>4 DEF Standing

-----------------------------------------------------------------------------
(* The invariant.                                                          *)

(* Does the index show that the statement gives this letter?               *)
Shown(p, k, s, c) ==
    IF handled /\ Head(pending).perm = p THEN Standing(Head(pending), todo, k, s, c)
    ELSE Grants(Told(p), k, s, c)

Showing(k, s, c) == {p \in Perms : Shown(p, k, s, c)}

QueueOK ==
    /\ perms \in [Perms -> Statement]
    /\ pending \in Seq(Elements)
    /\ \A i \in DOMAIN pending : ElementOK(pending[i])
    /\ Linked(pending, perms)

WorkOK ==
    /\ handled \in BOOLEAN
    /\ handled => pending # <<>> /\ TodoOK(Head(pending), todo)
    /\ ~handled => todo = <<>>

IndexOK ==
    /\ az \in [Keys -> [Subjects -> Rights]]
    /\ \A k \in Keys, s \in Subjects : RightOK(az[k][s])

(* Every letter is counted once for each statement that is shown to give   *)
(* it, at every moment, but where an element was begun twice.              *)
CountOK ==
    \A k \in Keys, s \in Subjects : <<k, s>> \notin again =>
        \A c \in Letters : az[k][s].counts[c] = Cardinality(Showing(k, s, c))

RightsInv == QueueOK /\ WorkOK /\ IndexOK /\ CountOK

(* What is told of a statement, and the element in work, are of their      *)
(* types.                                                                  *)
LEMMA ToldType ==
    ASSUME QueueOK, NEW p \in Perms
    PROVE  /\ Told(p) = ToldOf(pending, perms, p)
           /\ Told(p) \in Statement
<1>1. Told(p) = ToldOf(pending, perms, p)  BY DEF Told, ToldOf
<1>2. CASE \E i \in DOMAIN pending : pending[i].perm = p
  <2>1. PICK i : FirstOf(pending, i, p)  BY <1>2, HasFirst DEF QueueOK
  <2>2. ToldOf(pending, perms, p) = pending[i].prev  BY <2>1, ToldFirst DEF QueueOK
  <2>3. ElementOK(pending[i])  BY <2>1 DEF QueueOK, FirstOf
  <2> QED  BY <1>1, <2>2, <2>3 DEF ElementOK
<1>3. CASE ~(\E i \in DOMAIN pending : pending[i].perm = p)
  <2>1. ToldOf(pending, perms, p) = perms[p]  BY <1>3, ToldNone
  <2> QED  BY <1>1, <2>1 DEF QueueOK
<1> QED  BY <1>1, <1>2, <1>3

LEMMA ToldTypeNext ==
    ASSUME QueueOK', NEW p \in Perms
    PROVE  Told(p)' \in Statement
<1>1. Told(p)' = ToldOf(pending', perms', p)  BY DEF Told, ToldOf
<1>2. pending' \in Seq(Elements) /\ perms' \in [Perms -> Statement]  BY DEF QueueOK
<1>3. CASE \E i \in DOMAIN pending' : pending'[i].perm = p
  <2>1. PICK i : FirstOf(pending', i, p)  BY <1>2, <1>3, HasFirst
  <2>2. ToldOf(pending', perms', p) = pending'[i].prev  BY <1>2, <2>1, ToldFirst
  <2>3. ElementOK(pending'[i])  BY <2>1 DEF QueueOK, FirstOf
  <2> QED  BY <1>1, <2>2, <2>3 DEF ElementOK
<1>4. CASE ~(\E i \in DOMAIN pending' : pending'[i].perm = p)
  <2>1. ToldOf(pending', perms', p) = perms'[p]  BY <1>4, ToldNone
  <2> QED  BY <1>1, <1>2, <2>1
<1> QED  BY <1>3, <1>4

LEMMA HeadType ==
    ASSUME QueueOK, pending # <<>>
    PROVE  /\ ElementOK(Head(pending)) /\ Head(pending).perm \in Perms
           /\ Told(Head(pending).perm) = Head(pending).prev
<1>1. Len(pending) \in Nat /\ Len(pending) > 0 /\ Head(pending) = pending[1]  BY DEF QueueOK
<1>2. 1 \in DOMAIN pending  BY <1>1 DEF QueueOK
<1>3. ElementOK(Head(pending))  BY <1>1, <1>2 DEF QueueOK
<1>4. Head(pending).perm \in Perms  BY <1>3 DEF ElementOK
<1>5. FirstOf(pending, 1, Head(pending).perm)  BY <1>1, <1>2 DEF FirstOf
<1>6. ToldOf(pending, perms, Head(pending).perm) = pending[1].prev  BY <1>5, ToldFirst DEF QueueOK
<1> QED  BY <1>1, <1>3, <1>4, <1>6, ToldType

(* Counting statements.                                                    *)
LEMMA Counting ==
    ASSUME NEW S \in SUBSET Perms
    PROVE  /\ Cardinality(S) \in Nat
           /\ Cardinality(S) = 0 <=> S = {}
           /\ \A q \in Perms : q \notin S => Cardinality(S \cup {q}) = Cardinality(S) + 1
           /\ \A q \in S : Cardinality(S \ {q}) = Cardinality(S) - 1
<1>1. IsFiniteSet(S)  BY FiniteAssumption, FS_Subset
<1>2. Cardinality(S) \in Nat /\ (Cardinality(S) = 0 <=> S = {})
  BY <1>1, FS_CardinalityType, FS_EmptySet
<1>3. \A q \in Perms : q \notin S => Cardinality(S \cup {q}) = Cardinality(S) + 1
  BY <1>1, FS_AddElement
<1>4. \A q \in S : Cardinality(S \ {q}) = Cardinality(S) - 1  BY <1>1, FS_RemoveElement
<1> QED  BY <1>2, <1>3, <1>4

(* A step that neither writes nor changes what is shown keeps the counts   *)
(* right.                                                                  *)
LEMMA CountKept ==
    ASSUME CountOK, az' = az, again \subseteq again',
           \A p \in Perms, k \in Keys, s \in Subjects, c \in Letters :
               <<k, s>> \notin again' => (Shown(p, k, s, c)' <=> Shown(p, k, s, c))
    PROVE  CountOK'
<1> SUFFICES ASSUME NEW k \in Keys, NEW s \in Subjects, <<k, s>> \notin again', NEW c \in Letters
             PROVE  az'[k][s].counts[c] = Cardinality(Showing(k, s, c)')
  BY DEF CountOK
<1>1. Showing(k, s, c)' = Showing(k, s, c)  BY DEF Showing
<1>2. az[k][s].counts[c] = Cardinality(Showing(k, s, c))  BY DEF CountOK
<1> QED  BY <1>1, <1>2

LEMMA IndexKept ==
    ASSUME IndexOK, az' = az
    PROVE  IndexOK'
BY DEF IndexOK

(* Nothing is granted, and nothing counted, in the beginning.              *)
LEMMA NoPermType ==
    ASSUME Ordinary
    PROVE  /\ NoPerm \in Statement /\ [NoPerm EXCEPT !.deleted = TRUE] \in Statement
           /\ \A d \in BOOLEAN : [NoPerm EXCEPT !.deleted = d].obj = {}
<1>1. PICK f : Filters = {f}  BY DEF Ordinary
<1>2. NoFilter \in Filters
  <2>1. \E g \in Filters : \A h \in Filters : g = "" \/ h # ""  BY <1>1
  <2> QED  BY <2>1 DEF NoFilter
<1>3. {} \in Accesses  BY DEF Accesses
<1> QED  BY <1>2, <1>3 DEF NoPerm, Statement

LEMMA RightsInit ==
    ASSUME Ordinary, Init
    PROVE  RightsInv
<1>1. QueueOK
  <2>1. perms \in [Perms -> Statement]  BY NoPermType DEF Init
  <2>2. pending = <<>> /\ DOMAIN pending = {}  BY DEF Init
  <2> QED  BY <2>1, <2>2 DEF QueueOK, Linked
<1>2. WorkOK  BY DEF Init, WorkOK
<1>3. RightOK(NoRight) /\ NoRight \in Rights  BY DEF RightOK, NoRight, Rights, Counted
<1>4. \A k \in Keys, s \in Subjects : az[k][s] = NoRight  BY DEF Init
<1>5. IndexOK  BY <1>3, <1>4 DEF Init, IndexOK
<1>6. CountOK
  <2> SUFFICES ASSUME NEW k \in Keys, NEW s \in Subjects, NEW c \in Letters
               PROVE  az[k][s].counts[c] = Cardinality(Showing(k, s, c))
    BY DEF CountOK
  <2>1. az[k][s].counts[c] = 0  BY <1>4 DEF NoRight
  <2>2. \A p \in Perms : ~Shown(p, k, s, c)
    <3> TAKE p \in Perms
    <3>1. ToldOf(pending, perms, p) = perms[p]
      <4>1. \A i \in DOMAIN pending : pending[i].perm # p  BY DEF Init
      <4> QED  BY <4>1, ToldNone
    <3>2. Told(p) = NoPerm  BY <1>1, <3>1, ToldType DEF Init
    <3>3. ~Grants(NoPerm, k, s, c)  BY DEF Grants, NoPerm
    <3> QED  BY <3>2, <3>3 DEF Shown, Init
  <2>3. Showing(k, s, c) = {}  BY <2>2 DEF Showing
  <2> QED  BY <2>1, <2>3, FS_EmptySet
<1> QED  BY <1>1, <1>2, <1>5, <1>6 DEF RightsInv

-----------------------------------------------------------------------------
(* The steps of clients.                                                   *)

(* A queue that is linked, of elements as clients make them, stays so when *)
(* an element is appended that follows what is stored.                     *)
Fine(Q, P) ==
    /\ P \in [Perms -> Statement] /\ Q \in Seq(Elements)
    /\ \A i \in DOMAIN Q : ElementOK(Q[i])
    /\ Linked(Q, P)

Extends(R, P1, Q, P) ==
    /\ \A p \in Perms : ToldOf(R, P1, p) = ToldOf(Q, P, p)
    /\ Q # <<>> => R # <<>> /\ Head(R) = Head(Q)

LEMMA Appended ==
    ASSUME NEW Q, NEW P, Fine(Q, P), NEW e \in Elements, ElementOK(e), NEW P1, NEW R,
           P1 = [P EXCEPT ![e.perm] = e.new], R = Append(Q, e),
           Alike(P[e.perm], e.prev), Follows(Q, P, e)
    PROVE  /\ Fine(R, P1) /\ Extends(R, P1, Q, P)
           /\ \E i \in DOMAIN R : R[i].perm = e.perm
<1>0. P \in [Perms -> Statement] /\ Q \in Seq(Elements) /\ Linked(Q, P)  BY DEF Fine
<1>1. e.perm \in Perms /\ e.new \in Statement  BY DEF Elements
<1>2. P1 \in [Perms -> Statement] /\ Puts(P, P1, e)
  BY <1>0, <1>1 DEF Puts
<1>3. PICK n \in Nat : n = Len(Q)  BY <1>0
<1>4. /\ R \in Seq(Elements) /\ Len(R) = n + 1
      /\ DOMAIN R = 1 .. n + 1 /\ DOMAIN Q = 1 .. n
      /\ R[n + 1] = e /\ \A i \in 1 .. n : R[i] = Q[i]
  BY <1>0, <1>3, AppendProperties
<1>5. \A i \in DOMAIN R : ElementOK(R[i])
  <2> TAKE i \in DOMAIN R
  <2>1. i = n + 1 \/ i \in 1 .. n  BY <1>4
  <2> QED  BY <1>4, <2>1 DEF Fine
<1>6. Linked(R, P1)
  <2>1. Linked(Append(Q, e), P1)  BY <1>0, <1>2, AppendLinked
  <2> QED  BY <2>1
<1>7. \A p \in Perms : ToldOf(R, P1, p) = ToldOf(Q, P, p)
  <2> TAKE p \in Perms
  <2>1. ToldOf(Append(Q, e), P1, p) = ToldOf(Q, P, p)  BY <1>0, <1>2, AppendTold
  <2> QED  BY <2>1
<1>8. Q # <<>> => R # <<>> /\ Head(R) = Head(Q)
  <2> SUFFICES ASSUME Q # <<>> PROVE R # <<>> /\ Head(R) = Head(Q)  OBVIOUS
  <2>1. n > 0 /\ Head(Q) = Q[1]  BY <1>0, <1>3
  <2>2. R # <<>> /\ Head(R) = R[1]  BY <1>4
  <2> QED  BY <1>4, <2>1, <2>2
<1>9. n + 1 \in DOMAIN R /\ R[n + 1].perm = e.perm  BY <1>4
<1> QED  BY <1>2, <1>4, <1>5, <1>6, <1>7, <1>8, <1>9 DEF Fine, Extends

(* A step that only adds to the queue shows what was shown.                *)
LEMMA QueueGrown ==
    ASSUME RightsInv, UNCHANGED <<todo, handled, az, again>>,
           Fine(pending', perms'), Extends(pending', perms', pending, perms)
    PROVE  RightsInv'
<1>0. /\ QueueOK'
      /\ \A p \in Perms : ToldOf(pending', perms', p) = ToldOf(pending, perms, p)
      /\ pending # <<>> => pending' # <<>> /\ Head(pending') = Head(pending)
  BY DEF Fine, QueueOK, Extends
<1>1. WorkOK'
  BY <1>0 DEF RightsInv, WorkOK
<1>2. IndexOK'  BY IndexKept DEF RightsInv
<1>3. \A p \in Perms : Told(p)' = Told(p)
  <2> TAKE p \in Perms
  <2>1. Told(p) = ToldOf(pending, perms, p)  BY DEF Told, ToldOf
  <2>2. Told(p)' = ToldOf(pending', perms', p)  BY DEF Told, ToldOf
  <2> QED  BY <1>0, <2>1, <2>2
<1>4. handled => Head(pending') = Head(pending)  BY <1>0 DEF RightsInv, WorkOK
<1>5. \A p \in Perms, k \in Keys, s \in Subjects, c \in Letters :
          Shown(p, k, s, c)' <=> Shown(p, k, s, c)
  <2> TAKE p \in Perms, k \in Keys, s \in Subjects, c \in Letters
  <2>1. Told(p)' = Told(p)  BY <1>3
  <2>2. Grants(Told(p), k, s, c)' <=> Grants(Told(p), k, s, c)  BY <2>1 DEF Grants
  <2>3. handled => (Standing(Head(pending), todo, k, s, c)' <=> Standing(Head(pending), todo, k, s, c))
    BY <1>4 DEF Standing, ToDo, Grants
  <2> QED  BY <1>4, <2>2, <2>3 DEF Shown
<1>6. CountOK'  BY <1>5, CountKept DEF RightsInv
<1> QED  BY <1>0, <1>1, <1>2, <1>6 DEF RightsInv

LEMMA PutKeeps ==
    ASSUME Ordinary, RightsInv, Put
    PROVE  RightsInv'
<1>1. PICK p \in Perms, new \in Statement :
          /\ MayPut(perms[p], new)
          /\ perms' = [perms EXCEPT ![p] = new]
          /\ pending' = Append(pending, Element(p, perms[p], new))
  BY DEF Put
<1>2. UNCHANGED <<todo, handled, az, again>>  BY DEF Put
<1>3. QueueOK /\ perms[p] \in Statement  BY DEF RightsInv, QueueOK
<1>4. PICK e : e = Element(p, perms[p], new)  OBVIOUS
<1>5. /\ e \in Elements /\ e.perm = p /\ e.prev = perms[p] /\ e.new = new
  BY <1>3, <1>4 DEF Element, Elements
<1>6. ElementOK(e)
  <2>1. e.new.deleted /\ ~e.prev.deleted => e.new.obj = e.prev.obj /\ e.new.subj = e.prev.subj
    BY <1>1, <1>5 DEF MayPut, Ordinary
  <2>2. AccessOf(e.new) # {}  BY <1>1, <1>5 DEF MayPut, AccessOf, Ordinary
  <2> QED  BY <1>3, <1>5, <2>1, <2>2 DEF ElementOK
<1>7. Alike(perms[e.perm], e.prev) /\ Follows(pending, perms, e)  BY <1>5 DEF Alike, Follows
<1>8. perms' = [perms EXCEPT ![e.perm] = e.new] /\ pending' = Append(pending, e)  BY <1>1, <1>4, <1>5
<1>9. Fine(pending, perms)  BY <1>3 DEF QueueOK, Fine
<1>10. Fine(pending', perms') /\ Extends(pending', perms', pending, perms)
  BY <1>5, <1>6, <1>7, <1>8, <1>9, Appended
<1> QED  BY <1>2, <1>10, QueueGrown

LEMMA RemovePermKeeps ==
    ASSUME Ordinary, RightsInv, RemovePerm
    PROVE  RightsInv'
<1> DEFINE gone == [NoPerm EXCEPT !.deleted = TRUE]
<1>1. PICK p \in Perms :
          /\ perms' = [perms EXCEPT ![p] = NoPerm]
          /\ pending' = pending \o <<Element(p, perms[p], gone), Element(p, NoPerm, NoPerm)>>
  BY DEF RemovePerm
<1>2. UNCHANGED <<todo, handled, az, again>>  BY DEF RemovePerm
<1>3. QueueOK /\ perms[p] \in Statement /\ pending \in Seq(Elements)  BY DEF RightsInv, QueueOK
<1>4. /\ gone \in Statement /\ NoPerm \in Statement /\ gone.obj = {} /\ gone.subj = {}
      /\ NoPerm.obj = {} /\ NoPerm.subj = {} /\ NoPerm.deleted = FALSE
  BY NoPermType DEF NoPerm
<1> HIDE DEF gone
<1>5. PICK a, b : a = Element(p, perms[p], gone) /\ b = Element(p, NoPerm, NoPerm)  OBVIOUS
<1>6. /\ a \in Elements /\ a.perm = p /\ a.prev = perms[p] /\ a.new = gone
      /\ b \in Elements /\ b.perm = p /\ b.prev = NoPerm /\ b.new = NoPerm
  BY <1>3, <1>4, <1>5 DEF Element, Elements
<1>7. ElementOK(a) /\ ElementOK(b)  BY <1>3, <1>4, <1>6 DEF ElementOK
<1>8. PICK P, Q : P = [perms EXCEPT ![a.perm] = a.new] /\ Q = Append(pending, a)  OBVIOUS
<1>9. Alike(perms[a.perm], a.prev) /\ Follows(pending, perms, a)  BY <1>6 DEF Alike, Follows
<1>10. /\ Fine(Q, P) /\ Extends(Q, P, pending, perms)
       /\ \E i \in DOMAIN Q : Q[i].perm = p
  <2>1. Fine(pending, perms)  BY <1>3 DEF QueueOK, Fine
  <2>2. /\ P = [perms EXCEPT ![a.perm] = a.new] /\ Q = Append(pending, a)
        /\ Alike(perms[a.perm], a.prev) /\ Follows(pending, perms, a)
        /\ a \in Elements /\ ElementOK(a)
    BY <1>6, <1>7, <1>8, <1>9
  <2>3. Fine(Q, P) /\ Extends(Q, P, pending, perms)  BY <2>1, <2>2, Appended
  <2>4. \E i \in DOMAIN Q : Q[i] = a
    <3>1. PICK n \in Nat : n = Len(pending)  BY <1>3
    <3>2. DOMAIN Q = 1 .. n + 1 /\ Q[n + 1] = a  BY <1>3, <1>6, <2>2, <3>1, AppendProperties
    <3> QED  BY <3>2
  <2> QED  BY <1>6, <2>3, <2>4
<1>11. Alike(P[b.perm], b.prev) /\ Follows(Q, P, b)
  <2>1. P[p] = gone  BY <1>3, <1>6, <1>8 DEF QueueOK
  <2> QED  BY <1>4, <1>6, <1>10, <2>1 DEF Alike, Follows
<1>12. perms' = [P EXCEPT ![b.perm] = b.new]
  BY <1>1, <1>3, <1>6, <1>8 DEF QueueOK
<1>13. pending' = Append(Q, b)
  <2>1. pending' = pending \o <<a, b>>  BY <1>1, <1>5
  <2>2. pending \o <<a, b>> = Append(Append(pending, a), b)  BY <1>3, <1>6
  <2> QED  BY <1>8, <2>1, <2>2
<1>14. Fine(pending', perms') /\ Extends(pending', perms', Q, P)
  BY <1>6, <1>7, <1>10, <1>11, <1>12, <1>13, Appended
<1>15. Extends(pending', perms', pending, perms)  BY <1>10, <1>14 DEF Extends
<1> QED  BY <1>2, <1>14, <1>15, QueueGrown

-----------------------------------------------------------------------------
(* The steps of the indexer.                                               *)

(* As long as the queue stays, what is told stays.                         *)
LEMMA ToldStays ==
    ASSUME UNCHANGED <<perms, pending>>, NEW p, NEW k, NEW s, NEW c
    PROVE  /\ Told(p)' = Told(p)
           /\ Grants(Told(p), k, s, c)' <=> Grants(Told(p), k, s, c)
           /\ Head(pending)' = Head(pending)
<1>1. Told(p)' = Told(p)  BY DEF Told
<1> QED  BY <1>1 DEF Grants

LEMMA QueueStays ==
    ASSUME QueueOK, UNCHANGED <<perms, pending>>
    PROVE  QueueOK'
BY DEF QueueOK, Linked

(* When an element is begun, nothing is shown differently.                 *)
LEMMA PrepareKeeps ==
    ASSUME Ordinary, RightsInv, Prepare
    PROVE  RightsInv'
<1>1. /\ ~handled /\ pending # <<>> /\ todo' = IndexRightSets(Head(pending)) /\ handled' = TRUE
      /\ UNCHANGED <<perms, pending>> /\ az' = az /\ again' = again
  BY DEF Prepare
<1>2. PICK e : e = Head(pending)  OBVIOUS
<1>3. QueueOK /\ ElementOK(e) /\ e.perm \in Perms /\ Told(e.perm) = e.prev
  BY <1>1, <1>2, HeadType DEF RightsInv
<1>4. TodoOK(e, todo') /\ Whole(e, todo')  BY <1>1, <1>2, <1>3, IndexedWhole
<1>5. WorkOK'  BY <1>1, <1>2, <1>4 DEF WorkOK
<1>6. ASSUME NEW p \in Perms, NEW k \in Keys, NEW s \in Subjects, NEW c \in Letters
      PROVE  Shown(p, k, s, c)' <=> Shown(p, k, s, c)
  <2>1. Shown(p, k, s, c) <=> Grants(Told(p), k, s, c)  BY <1>1 DEF Shown
  <2>2. CASE p # e.perm
    <3>1. Shown(p, k, s, c)' <=> Grants(Told(p), k, s, c)'  BY <1>1, <1>2, <2>2 DEF Shown
    <3> QED  BY <1>1, <2>1, <3>1, ToldStays
  <2>3. CASE p = e.perm
    <3>1. Standing(e, todo', k, s, c) <=> Grants(e.prev, k, s, c)  BY <1>3, <1>4, StandingEnds
    <3>2. Shown(p, k, s, c)' <=> Standing(e, todo', k, s, c)
      BY <1>1, <1>2, <2>3 DEF Shown, Standing, ToDo, Grants
    <3> QED  BY <1>3, <2>1, <2>3, <3>1, <3>2
  <2> QED  BY <2>2, <2>3
<1>7. CountOK'  BY <1>1, <1>6, CountKept DEF RightsInv
<1> QED  BY <1>1, <1>5, <1>7, QueueStays, IndexKept DEF RightsInv

(* The cursor is committed: the new state is told and shown.               *)
LEMMA CommitKeeps ==
    ASSUME Ordinary, RightsInv, Commit
    PROVE  RightsInv'
<1>1. /\ handled /\ todo = <<>> /\ handled' = FALSE /\ pending' = Tail(pending)
      /\ UNCHANGED <<perms, todo>> /\ az' = az /\ again' = again
  BY DEF Commit
<1>2. PICK e : e = Head(pending)  OBVIOUS
<1>3. QueueOK /\ pending # <<>> /\ pending \in Seq(Elements) /\ Linked(pending, perms)
  BY <1>1 DEF RightsInv, WorkOK, QueueOK
<1>4. ElementOK(e) /\ e.perm \in Perms /\ e.new \in Statement  BY <1>2, <1>3, HeadType DEF ElementOK
<1>5. QueueOK'
  <2>1. PICK n \in Nat : Len(pending) = n + 1  BY <1>3
  <2>2. /\ pending' \in Seq(Elements) /\ DOMAIN pending' = 1 .. n /\ DOMAIN pending = 1 .. n + 1
        /\ \A i \in 1 .. n : i + 1 \in 1 .. n + 1 /\ pending'[i] = pending[i + 1]
    BY <1>1, <1>3, <2>1
  <2>3. \A i \in DOMAIN pending' : ElementOK(pending'[i])  BY <1>3, <2>2 DEF QueueOK
  <2>4. Linked(pending', perms)  BY <1>1, <1>3, TailLinked
  <2> QED  BY <1>1, <1>3, <2>2, <2>3, <2>4 DEF QueueOK
<1>6. WorkOK'  BY <1>1 DEF WorkOK
<1>7. ASSUME NEW p \in Perms, NEW k \in Keys, NEW s \in Subjects, NEW c \in Letters
      PROVE  Shown(p, k, s, c)' <=> Shown(p, k, s, c)
  <2>1. Shown(p, k, s, c)' <=> Grants(Told(p)', k, s, c)  BY <1>1 DEF Shown, Grants
  <2>2. Told(p)' = ToldOf(Tail(pending), perms, p)  BY <1>1 DEF Told, ToldOf
  <2>3. CASE p # e.perm
    <3>1. ToldOf(Tail(pending), perms, p) = ToldOf(pending, perms, p)
      BY <1>2, <1>3, <2>3, TailTold
    <3>2. Told(p)' = Told(p)  BY <1>3, <2>2, <3>1, ToldType
    <3> QED  BY <1>2, <2>1, <2>3, <3>2 DEF Shown
  <2>4. CASE p = e.perm
    <3>1. Alike(e.new, Told(p)')  BY <1>2, <1>3, <2>2, <2>4, TailTold
    <3>2. Told(p)' \in Statement  BY <1>5, ToldTypeNext
    <3>3. Grants(e.new, k, s, c) <=> Grants(Told(p)', k, s, c)
      BY <1>4, <3>1, <3>2, GrantsOne DEF Alike, About
    <3>4. Standing(e, <<>>, k, s, c) <=> Grants(e.new, k, s, c)  BY <1>4, StandingEnds
    <3>5. Shown(p, k, s, c) <=> Standing(e, <<>>, k, s, c)  BY <1>1, <1>2, <2>4 DEF Shown
    <3> QED  BY <2>1, <3>3, <3>4, <3>5
  <2> QED  BY <2>3, <2>4
<1>8. CountOK'  BY <1>1, <1>7, CountKept DEF RightsInv
<1> QED  BY <1>1, <1>5, <1>6, <1>8, IndexKept DEF RightsInv

(* The process dies and begins the element again: what it does not name is *)
(* shown as before.                                                        *)
LEMMA RestartKeeps ==
    ASSUME Ordinary, RightsInv, Restart
    PROVE  RightsInv'
<1>1. /\ todo' = <<>> /\ handled' = FALSE /\ UNCHANGED <<perms, pending>> /\ az' = az
      /\ again' = again \cup (IF handled THEN Named(Head(pending)) ELSE {})
  BY DEF Restart
<1>2. PICK e : e = Head(pending)  OBVIOUS
<1>3. WorkOK'  BY <1>1 DEF WorkOK
<1>4. ASSUME NEW p \in Perms, NEW k \in Keys, NEW s \in Subjects, NEW c \in Letters,
             <<k, s>> \notin again'
      PROVE  Shown(p, k, s, c)' <=> Shown(p, k, s, c)
  <2>1. Shown(p, k, s, c)' <=> Grants(Told(p), k, s, c)
    <3>1. Shown(p, k, s, c)' <=> Grants(Told(p), k, s, c)'  BY <1>1 DEF Shown
    <3> QED  BY <1>1, <3>1, ToldStays
  <2>2. CASE ~(handled /\ p = e.perm)  BY <1>2, <2>1, <2>2 DEF Shown
  <2>3. CASE handled /\ p = e.perm
    <3>1. /\ QueueOK /\ pending # <<>> /\ TodoOK(e, todo) /\ ElementOK(e) /\ Told(p) = e.prev
      BY <1>2, <2>3, HeadType DEF RightsInv, WorkOK
    <3>2. <<k, s>> \notin Named(e)  BY <1>1, <1>2, <1>4, <2>3
    <3>3. ~Standing(e, todo, k, s, c) /\ ~Grants(e.prev, k, s, c)  BY <3>1, <3>2, StandingUnnamed
    <3>4. Shown(p, k, s, c) <=> Standing(e, todo, k, s, c)  BY <1>2, <2>3 DEF Shown
    <3> QED  BY <2>1, <3>1, <3>3, <3>4
  <2> QED  BY <2>2, <2>3
<1>5. again \subseteq again'  BY <1>1
<1>6. CountOK'  BY <1>1, <1>4, <1>5, CountKept DEF RightsInv
<1> QED  BY <1>1, <1>3, <1>6, QueueStays, IndexKept DEF RightsInv

(* One record is written: what it takes or gives is what is no longer, or  *)
(* newly, shown of the element in work.                                    *)
LEMMA PutRightSetKeeps ==
    ASSUME Ordinary, RightsInv, PutRightSet
    PROVE  RightsInv'
<1>1. PICK w, e : w = Head(todo) /\ e = Head(pending)  OBVIOUS
<1>2. /\ todo # <<>> /\ todo' = Tail(todo) /\ UNCHANGED <<perms, pending, handled, again>>
      /\ az' = [az EXCEPT ![w.key] =
                  [s \in Subjects |-> IF s \in w.subj THEN Updated(@[s], w) ELSE @[s]]]
  BY <1>1 DEF PutRightSet
<1>3. handled /\ TodoOK(e, todo) /\ QueueOK /\ pending # <<>>  BY <1>1, <1>2 DEF RightsInv, WorkOK
<1>4. ElementOK(e) /\ e.perm \in Perms  BY <1>1, <1>3, HeadType
<1>5. w \in WriteRecs /\ (Takes(e, w) \/ Gives(e, w))
  <2>1. Advanced(e, todo, w, todo')  BY <1>1, <1>2, <1>3, TailToDo
  <2> QED  BY <2>1 DEF Advanced
<1>6. /\ w.key \in Keys /\ w.subj \in SUBSET Subjects /\ w.prev \in SUBSET Letters
      /\ w.new \in SUBSET Letters /\ w.del \in BOOLEAN
  BY <1>5 DEF WriteRecs
<1>7. az \in [Keys -> [Subjects -> Rights]] /\ \A k \in Keys, s \in Subjects : RightOK(az[k][s])
  BY DEF RightsInv, IndexOK
<1>8. \A k \in Keys, s \in Subjects :
          az'[k][s] = IF k = w.key /\ s \in w.subj THEN Updated(az[k][s], w) ELSE az[k][s]
  BY <1>2, <1>6, <1>7
<1>9. WorkOK'
  <2>1. TodoOK(e, todo')  BY <1>2, <1>3, TailTodoOK
  <2> QED  BY <1>1, <1>2, <1>3, <2>1 DEF RightsInv, WorkOK
<1>10. IndexOK'
  <2>1. \A k \in Keys, s \in Subjects : RightOK(az'[k][s])  BY <1>6, <1>7, <1>8, UpdatedType
  <2>2. \A s \in Subjects : Updated(az[w.key][s], w) \in Rights
    BY <1>6, <1>7, UpdatedType DEF RightOK
  <2>3. [s \in Subjects |-> IF s \in w.subj THEN Updated(az[w.key][s], w) ELSE az[w.key][s]]
            \in [Subjects -> Rights]
    BY <1>6, <1>7, <2>2
  <2>4. az' \in [Keys -> [Subjects -> Rights]]  BY <1>2, <1>6, <1>7, <2>3
  <2> QED  BY <2>1, <2>4 DEF IndexOK
<1>11. ASSUME NEW k \in Keys, NEW s \in Subjects, NEW c \in Letters
       PROVE  /\ \A p \in Perms : p # e.perm => (Shown(p, k, s, c)' <=> Shown(p, k, s, c))
              /\ Shown(e.perm, k, s, c) <=> Standing(e, todo, k, s, c)
              /\ Shown(e.perm, k, s, c)' <=> Standing(e, todo', k, s, c)
  <2>1. ASSUME NEW p \in Perms, p # e.perm PROVE Shown(p, k, s, c)' <=> Shown(p, k, s, c)
    <3>1. Shown(p, k, s, c) <=> Grants(Told(p), k, s, c)  BY <1>1, <2>1 DEF Shown
    <3>2. Shown(p, k, s, c)' <=> Grants(Told(p), k, s, c)'  BY <1>1, <1>2, <2>1 DEF Shown
    <3> QED  BY <1>2, <3>1, <3>2, ToldStays
  <2>2. Shown(e.perm, k, s, c) <=> Standing(e, todo, k, s, c)  BY <1>1, <1>3 DEF Shown
  <2>3. Shown(e.perm, k, s, c)' <=> Standing(e, todo', k, s, c)
    BY <1>1, <1>2, <1>3 DEF Shown, Standing, ToDo, Grants
  <2> QED  BY <2>1, <2>2, <2>3
<1>12. ASSUME NEW k \in Keys, NEW s \in Subjects, NEW c \in Letters
       PROVE  Showing(k, s, c)' = IF Standing(e, todo', k, s, c) THEN Showing(k, s, c) \cup {e.perm}
                                  ELSE Showing(k, s, c) \ {e.perm}
  <2>1. \A p \in Perms : p \in Showing(k, s, c)' <=> Shown(p, k, s, c)'  BY DEF Showing
  <2>2. \A p \in Perms : p \in Showing(k, s, c) <=> Shown(p, k, s, c)  BY DEF Showing
  <2>3. Showing(k, s, c) \subseteq Perms /\ Showing(k, s, c)' \subseteq Perms  BY DEF Showing
  <2>4. \A p \in Perms : p \in Showing(k, s, c)' <=>
            IF p = e.perm THEN Standing(e, todo', k, s, c) ELSE p \in Showing(k, s, c)
    BY <1>11, <2>1, <2>2
  <2> HIDE DEF Showing
  <2>5. CASE Standing(e, todo', k, s, c)  BY <1>4, <2>3, <2>4, <2>5
  <2>6. CASE ~Standing(e, todo', k, s, c)  BY <1>4, <2>3, <2>4, <2>6
  <2> QED  BY <2>5, <2>6
<1>13. CountOK'
  <2> SUFFICES ASSUME NEW k \in Keys, NEW s \in Subjects, <<k, s>> \notin again, NEW c \in Letters
               PROVE  az'[k][s].counts[c] = Cardinality(Showing(k, s, c)')
    BY <1>2 DEF CountOK
  <2> DEFINE r == az[k][s]
  <2>1. RightOK(r) /\ r.counts \in [Letters -> Nat]  BY <1>7 DEF RightOK, Rights
  <2>2. /\ \A x \in Letters : r.counts[x] = Cardinality(Showing(k, s, x))
    BY DEF RightsInv, CountOK
  <2>3. PICK S : S = Showing(k, s, c)  OBVIOUS
  <2>4. S \in SUBSET Perms /\ r.counts[c] = Cardinality(S)  BY <2>2, <2>3 DEF Showing
  <2>5. e.perm \in S <=> Standing(e, todo, k, s, c)  BY <1>4, <1>11, <2>3 DEF Showing
  <2>6. Showing(k, s, c)' = IF Standing(e, todo', k, s, c) THEN S \cup {e.perm} ELSE S \ {e.perm}
    BY <1>12, <2>3
  <2> HIDE DEF r
  <2>7. CASE k = w.key /\ s \in w.subj /\ w.del
    <3>1. \A x \in Letters : Standing(e, todo, k, s, x) <=> x \in w.prev
      BY <1>1, <1>2, <1>3, <1>4, <2>7, StandingWritten
    <3>2. ~Standing(e, todo', k, s, c)  BY <1>1, <1>2, <1>3, <1>4, <2>7, StandingWritten
    <3>3. w.prev \in SUBSET Counted(r.counts)
      <4>1. ASSUME NEW x \in Letters, x \in w.prev PROVE r.counts[x] > 0
        <5>1. e.perm \in Showing(k, s, x)  BY <1>4, <1>11, <3>1, <4>1 DEF Showing
        <5>2. Showing(k, s, x) \in SUBSET Perms  BY DEF Showing
        <5>3. PICK T : T = Showing(k, s, x)  OBVIOUS
        <5>4. Cardinality(T) \in Nat /\ Cardinality(T) # 0  BY <5>1, <5>2, <5>3, Counting
        <5> QED  BY <2>2, <5>3, <5>4
      <4> QED  BY <1>6, <4>1 DEF Counted
    <3>4. az'[k][s].counts = Lowered(r.counts, w.prev)
      <4>1. Updated(r, w).counts = Lowered(r.counts, w.prev)  BY <2>1, <2>7, <3>3, TakenOnce
      <4> QED  BY <1>8, <2>7, <4>1 DEF r
    <3>5. Showing(k, s, c)' = S \ {e.perm}  BY <2>6, <3>2
    <3>6. az'[k][s].counts[c] = IF c \in w.prev THEN r.counts[c] - 1 ELSE r.counts[c]
      BY <3>4 DEF Lowered
    <3>7. CASE c \in w.prev
      <4>1. e.perm \in S  BY <2>5, <3>1, <3>7
      <4> QED  BY <2>4, <3>5, <3>6, <3>7, <4>1, Counting
    <3>8. CASE c \notin w.prev
      <4>1. S \ {e.perm} = S  BY <2>5, <3>1, <3>8
      <4> QED  BY <2>4, <3>5, <3>6, <3>8, <4>1
    <3> QED  BY <3>7, <3>8
  <2>8. CASE k = w.key /\ s \in w.subj /\ ~w.del
    <3>1. ~Standing(e, todo, k, s, c) /\ (Standing(e, todo', k, s, c) <=> c \in w.new)
      BY <1>1, <1>2, <1>3, <1>4, <2>8, StandingWritten
    <3>2. w.new # {}
      BY <1>4, <1>5, <2>8 DEF Takes, Gives, About, ElementOK
    <3>3. az'[k][s].counts = Raised(r.counts, w.new)
      <4>1. Updated(r, w).counts = Raised(r.counts, w.new)  BY <1>6, <2>1, <2>8, <3>2, GivenOnce
      <4> QED  BY <1>8, <2>8, <4>1 DEF r
    <3>4. az'[k][s].counts[c] = IF c \in w.new THEN r.counts[c] + 1 ELSE r.counts[c]
      BY <3>3 DEF Raised
    <3>5. e.perm \notin S  BY <2>5, <3>1
    <3>6. CASE c \in w.new
      <4>1. Showing(k, s, c)' = S \cup {e.perm}  BY <2>6, <3>1, <3>6
      <4> QED  BY <1>4, <2>4, <3>4, <3>5, <3>6, <4>1, Counting
    <3>7. CASE c \notin w.new
      <4>1. Showing(k, s, c)' = S  BY <2>6, <3>1, <3>5, <3>7
      <4> QED  BY <2>4, <3>4, <3>7, <4>1
    <3> QED  BY <3>6, <3>7
  <2>9. CASE ~(k = w.key /\ s \in w.subj)
    <3>1. Standing(e, todo', k, s, c) <=> Standing(e, todo, k, s, c)
      BY <1>1, <1>2, <1>3, <1>4, <2>9, StandingWritten
    <3>2. Showing(k, s, c)' = S  BY <2>5, <2>6, <3>1
    <3>3. az'[k][s] = r  BY <1>8, <2>9 DEF r
    <3> QED  BY <2>4, <3>2, <3>3
  <2> QED  BY <1>6, <2>7, <2>8, <2>9
<1> QED  BY <1>2, <1>3, <1>9, <1>10, <1>13, QueueStays DEF RightsInv

-----------------------------------------------------------------------------
(* Theorems.                                                               *)

(* Whatever clients put, wherever the indexer dies, at every moment of the *)
(* work on an element each letter of each right is counted once for every  *)
(* statement that is shown to give it (index_right_sets and                *)
(* update_right_set, common.rs:53-152; update_counters, formats.rs:51-79). *)
THEOREM RightsInvariance ==
    ASSUME Ordinary
    PROVE  Spec => []RightsInv
<1>1. Init => RightsInv  BY RightsInit
<1>2. RightsInv /\ [Next]_vars => RightsInv'
  <2> SUFFICES ASSUME RightsInv, [Next]_vars PROVE RightsInv'  OBVIOUS
  <2>1. CASE Put  BY <2>1, PutKeeps
  <2>2. CASE RemovePerm  BY <2>2, RemovePermKeeps
  <2>3. CASE Prepare  BY <2>3, PrepareKeeps
  <2>4. CASE PutRightSet  BY <2>4, PutRightSetKeeps
  <2>5. CASE Commit  BY <2>5, CommitKeeps
  <2>6. CASE Restart  BY <2>6, RestartKeeps
  <2>7. CASE UNCHANGED vars
    <3>1. UNCHANGED <<perms, pending>> /\ UNCHANGED <<todo, handled, az, again>>  BY <2>7 DEF vars
    <3>2. /\ Fine(pending', perms') /\ Extends(pending', perms', pending, perms)
      BY <3>1 DEF RightsInv, QueueOK, Fine, Extends
    <3> QED  BY <3>1, <3>2, QueueGrown
  <2> QED  BY <2>1, <2>2, <2>3, <2>4, <2>5, <2>6, <2>7 DEF Next
<1> QED  BY <1>1, <1>2, PTL DEF Spec

(* The counters of a right are exact between two elements: each letter has *)
(* as many counts as statements give it, so that deleting one of several   *)
(* leaves the letter and deleting the last one takes it (formats.rs:51-79, *)
(* common.rs:100-107); none is ever below zero.                            *)
THEOREM CountsExactHolds ==
    ASSUME Ordinary
    PROVE  Spec => []CountsExact
<1>1. RightsInv => CountsExact
  <2> SUFFICES ASSUME RightsInv PROVE CountsExact  OBVIOUS
  <2>1. \A k \in Keys, s \in Subjects : az[k][s].counts \in [Letters -> Nat]
    BY DEF RightsInv, IndexOK, RightOK, Rights
  <2>2. ASSUME ~handled, NEW k \in Keys, NEW s \in Subjects, NEW c \in Letters, <<k, s>> \notin again
        PROVE  az[k][s].counts[c] = Cardinality({p \in Perms : Grants(Told(p), k, s, c)})
    <3>1. Showing(k, s, c) = {p \in Perms : Grants(Told(p), k, s, c)}  BY <2>2 DEF Showing, Shown
    <3> QED  BY <2>2, <3>1 DEF RightsInv, CountOK
  <2> QED  BY <2>1, <2>2 DEF CountsExact
<1> QED  BY <1>1, RightsInvariance, PTL

(* A letter is in a right as the index gives it exactly when some          *)
(* statement is shown to give it.                                          *)
LEMMA ReadAsShown ==
    ASSUME RightsInv, NEW k \in Keys, NEW s \in Subjects, NEW c \in Letters, <<k, s>> \notin again
    PROVE  c \in az[k][s].access <=> \E p \in Perms : Shown(p, k, s, c)
<1>1. /\ az[k][s].access = Counted(az[k][s].counts)
      /\ az[k][s].counts[c] = Cardinality(Showing(k, s, c))
  BY DEF RightsInv, IndexOK, RightOK, CountOK
<1>2. PICK S : S = Showing(k, s, c)  OBVIOUS
<1>3. S \in SUBSET Perms /\ (S = {} <=> ~(\E p \in Perms : Shown(p, k, s, c)))
  BY <1>2 DEF Showing
<1>4. Cardinality(S) \in Nat /\ (Cardinality(S) = 0 <=> S = {})  BY <1>3, Counting
<1>5. c \in az[k][s].access <=> Cardinality(S) > 0  BY <1>1, <1>2 DEF Counted
<1> QED  BY <1>3, <1>4, <1>5

(* Between two elements authorize reads exactly the rights the statements  *)
(* told give, after any history of additions, changes, deletions,          *)
(* restorations and removals by name (common.rs:53-109, formats.rs:51-79). *)
THEOREM RightsAsGrantedHolds ==
    ASSUME Ordinary
    PROVE  Spec => []RightsAsGranted
<1>1. RightsInv => RightsAsGranted
  <2> SUFFICES ASSUME RightsInv, ~handled, NEW k \in Keys, NEW s \in Subjects, <<k, s>> \notin again
               PROVE  az[k][s].access = Granted(k, s)
    BY DEF RightsAsGranted
  <2>1. az[k][s].access \subseteq Letters  BY DEF RightsInv, IndexOK, Rights
  <2>2. \A c \in Letters : c \in az[k][s].access <=> c \in Granted(k, s)
    <3> TAKE c \in Letters
    <3>1. \A p \in Perms : Shown(p, k, s, c) <=> Grants(Told(p), k, s, c)  BY DEF Shown
    <3> QED  BY <3>1, ReadAsShown DEF Granted
  <2>3. Granted(k, s) \subseteq Letters  BY DEF Granted
  <2> QED  BY <2>1, <2>2, <2>3
<1> QED  BY <1>1, RightsInvariance, PTL

(* Even while the writes of an element are being made nobody has a right   *)
(* that neither the statements told nor the element in work gives: every   *)
(* key is taken from before it is given to (common.rs:100-107), and        *)
(* authorize may read between any two writes.                              *)
THEOREM NothingUngrantedHolds ==
    ASSUME Ordinary
    PROVE  Spec => []NothingUngranted
<1>1. RightsInv => NothingUngranted
  <2> SUFFICES ASSUME RightsInv, NEW k \in Keys, NEW s \in Subjects, NEW c \in az[k][s].access,
                      <<k, s>> \notin again
               PROVE  c \in Granted(k, s) \/ (handled /\ Grants(Head(pending).new, k, s, c))
    BY DEF NothingUngranted
  <2>1. c \in Letters  BY DEF RightsInv, IndexOK, Rights
  <2>2. PICK p \in Perms : Shown(p, k, s, c)  BY <2>1, ReadAsShown
  <2>3. CASE Grants(Told(p), k, s, c)  BY <2>1, <2>3 DEF Granted
  <2>4. CASE ~Grants(Told(p), k, s, c)
    <3>1. handled /\ Head(pending).perm = p /\ Standing(Head(pending), todo, k, s, c)
      BY <2>2, <2>4 DEF Shown
    <3>2. Told(p) = Head(pending).prev  BY <3>1, HeadType DEF RightsInv, WorkOK
    <3>3. ~Grants(Head(pending).prev, k, s, c)  BY <2>4, <3>2
    <3> QED  BY <3>1, <3>3 DEF Standing
  <2> QED  BY <2>3, <2>4
<1> QED  BY <1>1, RightsInvariance, PTL

=============================================================================
