--------------------------- MODULE NumeratorProofs ---------------------------
(***************************************************************************)
(* Proofs about module Numerator, for every set of documents and every     *)
(* bound: a commit puts exactly the committed value into the intervals and *)
(* a revoke takes exactly the revoked one out, and while nothing spoils    *)
(* the numbers (Habits = {}) they are unique and committed.                *)
(*                                                                         *)
(* A transaction is stored one individual after the other.  What it comes  *)
(* to is said by Leads: there is a sequence of states, one after each      *)
(* write, from what is stored to the result.                               *)
(***************************************************************************)
EXTENDS Numerator, SequenceTheorems, NaturalsInduction, WellFoundedInduction, TLAPS

-----------------------------------------------------------------------------
(* States of the numbers, as what they have in the list and what each      *)
(* interval is.                                                            *)
NumberStates == [list : Seq(Nat), of : Seq(Nat \X Nat)]

Ordered(of) == \A i \in DOMAIN of : of[i][1] <= of[i][2]

(* Nothing is named that is not stored, and no interval is empty.          *)
Whole(s) == s \in NumberStates /\ ToSet(s.list) \subseteq DOMAIN s.of /\ Ordered(s.of)

(* The intervals i and j neither overlap nor meet.                         *)
Apart(of, i, j) == of[i][2] + 1 < of[j][1] \/ of[j][2] + 1 < of[i][1]

Sound(s) ==
    /\ Whole(s) /\ IsInjective(s.list)
    /\ \A i, j \in ToSet(s.list) : i # j => Apart(s.of, i, j)

(* The numbers in use.                                                     *)
CoveredBy(L, of) == {v \in Nat : \E i \in L : of[i][1] <= v /\ v <= of[i][2]}
Covered(s) == CoveredBy(ToSet(s.list), s.of)

-----------------------------------------------------------------------------
(* Writes, and what a sequence of them leads to.                           *)
DocRecords == [here : BOOLEAN, number : Nat, deleted : BOOLEAN]

WriteRecords ==
    [kind : {"interval"}, id : Nat, value : Nat \X Nat]
        \cup [kind : {"scope"}, id : {0}, value : Seq(Nat)]
        \cup [kind : {"doc"}, id : Docs, value : DocRecords]
        \cup [kind : {"end"}, id : {0}, value : {0}]

Written(s, w) == IF w.kind \in {"interval", "scope"} THEN With(s, w) ELSE s

Path(f, s, ws, t) ==
    /\ f[0] = s /\ f[Len(ws)] = t
    /\ \A k \in 1 .. Len(ws) : f[k] = Written(f[k - 1], ws[k]) /\ Whole(f[k])

Leads(s, ws, t) == \E f \in [0 .. Len(ws) -> NumberStates] : Path(f, s, ws, t)

(* A transaction ws that makes document d what r is: it writes the document *)
(* once, and the document has no number until then, or does not write it.  *)
Pending(D, ws, d, r) ==
    /\ \A k \in DOMAIN ws : ws[k].kind = "doc" => ws[k].id = d /\ ws[k].value = r
    /\ \A j, k \in DOMAIN ws : ws[j].kind = "doc" /\ ws[k].kind = "doc" => j = k
    /\ (\A k \in DOMAIN ws : ws[k].kind # "doc") => D[d] = r
    /\ (\E k \in DOMAIN ws : ws[k].kind = "doc") => D[d].number = 0

EndIsLast(ws) == \A k \in DOMAIN ws : ws[k].kind = "end" <=> k = Len(ws)

-----------------------------------------------------------------------------
(* When nobody spoils the numbers: what is said of documents D, numbers in *)
(* use C and changes Q that are not treated.                               *)
QueuedDocs(Q) == {Q[k].doc : k \in DOMAIN Q}
OneEach(Q) == \A j, k \in DOMAIN Q : Q[j].doc = Q[k].doc => j = k

(* A document as it was before a change that is not treated.               *)
Prior(D, Q, d) ==
    IF d \in QueuedDocs(Q) THEN Q[CHOOSE k \in DOMAIN Q : Q[k].doc = d].prev ELSE D[d]

InUse(r) == r.here /\ ~r.deleted

(* What a change is: an own number is entered when no other is waiting, so *)
(* that its change is the first.                                           *)
Entered(D, C, q) ==
    /\ InUse(D[q.doc]) /\ D[q.doc].number # 0 /\ D[q.doc].number \notin C
    /\ q.prev = NoDoc \/ InUse(q.prev)

Plain(D, q) ==
    \/ q.prev = NoDoc /\ InUse(D[q.doc]) /\ D[q.doc].number = 0
    \/ InUse(q.prev) /\ InUse(D[q.doc]) /\ D[q.doc].number = 0
    \/ /\ InUse(q.prev) /\ D[q.doc].here /\ D[q.doc].deleted
       /\ D[q.doc].number = q.prev.number

ChangeRecords == [doc : Docs, prev : DocRecords]

Settled(D, C, Q) ==
    /\ \A d \in Docs : D[d].here \/ D[d] = NoDoc
    /\ OneEach(Q)
    /\ \A k \in DOMAIN Q : Plain(D, Q[k]) \/ (k = 1 /\ Entered(D, C, Q[k]))
    /\ \A d \in Docs : InUse(Prior(D, Q, d)) =>
           Prior(D, Q, d).number # 0 /\ Prior(D, Q, d).number \in C
    /\ \A d, e \in Docs :
           d # e /\ InUse(Prior(D, Q, d)) /\ InUse(Prior(D, Q, e)) =>
               Prior(D, Q, d).number # Prior(D, Q, e).number

-----------------------------------------------------------------------------
(* What the operators on the list do.                                      *)
LEMMA WithoutFacts ==
    ASSUME NEW list \in Seq(Nat), IsInjective(list), NEW i \in ToSet(list)
    PROVE  /\ Without(list, i) \in Seq(Nat) /\ IsInjective(Without(list, i))
           /\ ToSet(Without(list, i)) = ToSet(list) \ {i}
<1>1. PICK at \in DOMAIN list : at = CHOOSE k \in DOMAIN list : list[k] = i  BY DEF ToSet
<1>2. list[at] = i  BY <1>1 DEF ToSet
<1>3. Len(list) \in Nat /\ DOMAIN list = 1 .. Len(list) /\ at \in 1 .. Len(list)  OBVIOUS
<1>0. PICK n : n = Len(list)  OBVIOUS
<1>4. PICK r, a, b : /\ r = a \o b
                     /\ a = SubSeq(list, 1, at - 1) /\ b = SubSeq(list, at + 1, n)
  OBVIOUS
<1>n. /\ n \in Nat /\ at \in 1 .. n /\ at \in Nat /\ DOMAIN list = 1 .. n
      /\ \A k \in 1 .. n : list[k] \in Nat
  BY <1>0, <1>3
<1>5. /\ a \in Seq(Nat) /\ Len(a) = at - 1
      /\ \A k \in 1 .. at - 1 : a[k] = list[k]
  <2>1. 1 \in Int /\ at - 1 \in Int /\ \A k \in 1 .. at - 1 : list[k] \in Nat  BY <1>3
  <2>2. /\ a \in Seq(Nat) /\ Len(a) = IF 1 <= at - 1 THEN at - 1 - 1 + 1 ELSE 0
        /\ \A k \in 1 .. at - 1 - 1 + 1 : a[k] = list[1 + k - 1]
    BY <1>4, <2>1, SubSeqProperties
  <2>3. at \in Nat \ {0}  BY <1>3
  <2>4. at - 1 - 1 + 1 = at - 1 /\ \A k \in 1 .. at - 1 : 1 + k - 1 = k  BY <2>3
  <2> QED  BY <2>2, <2>3, <2>4
<1>6. /\ b \in Seq(Nat) /\ Len(b) = n - at
      /\ \A k \in 1 .. n - at : b[k] = list[at + k]
  <2>1. at + 1 \in Int /\ n \in Int /\ \A k \in at + 1 .. n : list[k] \in Nat
    <3>1. \A k \in at + 1 .. n : k \in 1 .. n  BY <1>n
    <3> QED  BY <1>n, <3>1
  <2>2. /\ SubSeq(list, at + 1, n) \in Seq(Nat)
        /\ Len(SubSeq(list, at + 1, n)) = IF at + 1 <= n THEN n - (at + 1) + 1 ELSE 0
        /\ \A k \in 1 .. n - (at + 1) + 1 : SubSeq(list, at + 1, n)[k] = list[(at + 1) + k - 1]
    BY <2>1, SubSeqProperties
  <2>3. /\ n - (at + 1) + 1 = n - at
        /\ ~(at + 1 <= n) => n - at = 0
    BY <1>n
  <2>4. \A k \in 1 .. n - at : (at + 1) + k - 1 = at + k  BY <1>n
  <2> QED  BY <1>4, <2>2, <2>3, <2>4
<1>7. /\ r \in Seq(Nat) /\ Len(r) = n - 1
      /\ \A k \in 1 .. n - 1 : r[k] = IF k < at THEN list[k] ELSE list[k + 1]
  <2>0. a \in Seq(Nat) /\ b \in Seq(Nat) /\ r = a \o b  BY <1>4, <1>5, <1>6
  <2>1. /\ r \in Seq(Nat) /\ Len(r) = Len(a) + Len(b)
        /\ \A k \in 1 .. Len(a) + Len(b) : r[k] = IF k <= Len(a) THEN a[k] ELSE b[k - Len(a)]
    <3> HIDE <1>4
    <3> QED  BY <2>0, ConcatProperties
  <2>2. n \in Nat /\ at \in 1 .. n  BY <1>n
  <2>3. Len(a) + Len(b) = n - 1  BY <1>5, <1>6, <2>2
  <2>4. ASSUME NEW k \in 1 .. n - 1
        PROVE  r[k] = IF k < at THEN list[k] ELSE list[k + 1]
    <3>1. CASE k < at
      <4>1. k \in 1 .. at - 1 /\ k <= Len(a)  BY <1>5, <2>2, <3>1
      <4>2. r[k] = a[k]  BY <2>1, <2>3, <4>1
      <4> QED  BY <1>5, <3>1, <4>1, <4>2
    <3>2. CASE ~(k < at)
      <4>1. k - (at - 1) \in 1 .. n - at /\ ~(k <= at - 1) /\ at + (k - (at - 1)) = k + 1
        BY <2>2, <3>2
      <4>2. r[k] = b[k - (at - 1)]  BY <1>5, <2>1, <2>3, <4>1
      <4> QED  BY <1>6, <3>2, <4>1, <4>2
    <3> QED  BY <3>1, <3>2
  <2>5. Len(r) = n - 1  BY <2>1, <2>3
  <2> QED  BY <2>1, <2>4, <2>5
<1>8. Without(list, i) = r  BY <1>0, <1>1, <1>4 DEF Without, RemoveAt
<1>9. DOMAIN r = 1 .. n - 1 /\ DOMAIN list = 1 .. n /\ at \in 1 .. n /\ n \in Nat
  BY <1>n, <1>7
<1>10. \A j, k \in DOMAIN list : list[j] = list[k] => j = k  BY DEF IsInjective
<1>11. IsInjective(r)
  <2> SUFFICES ASSUME NEW j \in 1 .. n - 1, NEW k \in 1 .. n - 1, r[j] = r[k]
               PROVE  j = k
    BY <1>9 DEF IsInjective
  <2>1. PICK i1, i2 : /\ i1 = IF j < at THEN j ELSE j + 1
                      /\ i2 = IF k < at THEN k ELSE k + 1
    OBVIOUS
  <2>2. r[j] = list[i1] /\ r[k] = list[i2]  BY <1>7, <2>1
  <2>3. i1 \in 1 .. n /\ i2 \in 1 .. n  BY <1>9, <2>1
  <2>4. i1 = i2  BY <1>9, <1>10, <2>2, <2>3
  <2> QED  BY <1>9, <2>1, <2>4
<1>12. \A x : x \in ToSet(r) <=> x \in ToSet(list) /\ x # i
  <2>1. ASSUME NEW k \in 1 .. n - 1 PROVE r[k] \in ToSet(list) /\ r[k] # i
    <3>1. PICK j : j = IF k < at THEN k ELSE k + 1  OBVIOUS
    <3>2. j \in 1 .. n /\ j # at /\ r[k] = list[j]  BY <1>7, <1>9, <3>1
    <3> QED  BY <1>2, <1>9, <1>10, <3>2 DEF ToSet
  <2>2. ASSUME NEW j \in 1 .. n, list[j] # i PROVE list[j] \in ToSet(r)
    <3>1. PICK k : k = IF j < at THEN j ELSE j - 1  OBVIOUS
    <3>2. j # at  BY <1>2, <2>2
    <3>3. k \in 1 .. n - 1 /\ (IF k < at THEN k ELSE k + 1) = j  BY <1>9, <3>1, <3>2
    <3>4. r[k] = list[j]  BY <1>7, <3>3
    <3> QED  BY <1>9, <3>3, <3>4 DEF ToSet
  <2> QED  BY <1>9, <2>1, <2>2 DEF ToSet
<1> QED  BY <1>7, <1>8, <1>11, <1>12

LEMMA AppendFacts ==
    ASSUME NEW list \in Seq(Nat), IsInjective(list), NEW i \in Nat, i \notin ToSet(list)
    PROVE  /\ Append(list, i) \in Seq(Nat) /\ IsInjective(Append(list, i))
           /\ ToSet(Append(list, i)) = ToSet(list) \cup {i}
<1>1. PICK r : r = Append(list, i)  OBVIOUS
<1>2. /\ r \in Seq(Nat) /\ Len(list) \in Nat /\ DOMAIN list = 1 .. Len(list)
      /\ DOMAIN r = 1 .. Len(list) + 1 /\ r[Len(list) + 1] = i
      /\ \A k \in 1 .. Len(list) : r[k] = list[k]
  BY <1>1
<1>3. \A k \in 1 .. Len(list) : list[k] # i  BY <1>2 DEF ToSet
<1>4. \A j, k \in 1 .. Len(list) : list[j] = list[k] => j = k  BY <1>2 DEF IsInjective
<1>5. IsInjective(r)
  <2> SUFFICES ASSUME NEW j \in 1 .. Len(list) + 1, NEW k \in 1 .. Len(list) + 1, r[j] = r[k]
               PROVE  j = k
    BY <1>2 DEF IsInjective
  <2>1. j \in 1 .. Len(list) \/ j = Len(list) + 1  BY <1>2
  <2>2. k \in 1 .. Len(list) \/ k = Len(list) + 1  BY <1>2
  <2> QED  BY <1>2, <1>3, <1>4, <2>1, <2>2
<1>6. ToSet(r) = ToSet(list) \cup {i}
  <2>1. 1 .. Len(list) + 1 = (1 .. Len(list)) \cup {Len(list) + 1}  BY <1>2
  <2> QED  BY <1>2, <2>1 DEF ToSet
<1> QED  BY <1>1, <1>2, <1>5, <1>6

(* A set of numbers has a least one.                                       *)
LEMMA LeastNumber ==
    ASSUME NEW S \in SUBSET Nat, S # {}
    PROVE  \E m \in S : \A k \in S : m <= k
<1> DEFINE R == {ss \in Nat \X Nat : ss[1] < ss[2]}
<1>1. IsWellFoundedOn(R, Nat)  BY NatLessThanWellFounded DEF OpToRel
<1>2. PICK m \in S : \A y \in S : ~(<<y, m>> \in R)
  <2> HIDE DEF R
  <2> QED  BY <1>1, WFMin
<1>3. \A y \in S : ~(y < m)  BY <1>2
<1> QED  BY <1>3

(* A list of numbers is bounded: a shortest prefix that is not would be    *)
(* one element longer than one that is.                                    *)
LEMMA ListBounded ==
    ASSUME NEW n \in Nat, NEW g \in [1 .. n -> Nat]
    PROVE  \E b \in Nat : \A k \in 1 .. n : g[k] <= b
<1> DEFINE Bound(m) == \E b \in Nat : \A k \in 1 .. m : g[k] <= b
           S == {m \in 0 .. n : ~Bound(m)}
<1>1. Bound(0)  OBVIOUS
<1>2. ASSUME NEW m \in 0 .. n - 1, Bound(m) PROVE Bound(m + 1)
  <2>1. PICK b \in Nat : \A k \in 1 .. m : g[k] <= b  BY <1>2
  <2>2. g[m + 1] \in Nat  OBVIOUS
  <2>3. PICK c \in Nat : b <= c /\ g[m + 1] <= c
    <3>1. CASE b <= g[m + 1]  BY <2>2, <3>1
    <3>2. CASE ~(b <= g[m + 1])  BY <2>2, <3>2
    <3> QED  BY <3>1, <3>2
  <2>4. \A k \in 1 .. m + 1 : g[k] <= c
    <3> SUFFICES ASSUME NEW k \in 1 .. m + 1 PROVE g[k] <= c  OBVIOUS
    <3>1. k \in 1 .. m \/ k = m + 1  OBVIOUS
    <3>2. g[k] \in Nat  OBVIOUS
    <3> QED  BY <2>1, <2>3, <3>1, <3>2
  <2> QED  BY <2>4
<1>3. ASSUME S # {} PROVE FALSE
  <2>1. S \in SUBSET Nat  OBVIOUS
  <2> HIDE DEF Bound
  <2>2. PICK m \in S : \A k \in S : m <= k
    <3> HIDE DEF S
    <3> QED  BY <1>3, <2>1, LeastNumber
  <2>3. m \in 0 .. n /\ ~Bound(m) /\ m # 0  BY <1>1, <2>2
  <2>4. m - 1 \in 0 .. n - 1 /\ m - 1 \notin S  BY <2>2, <2>3
  <2>5. Bound(m - 1)  BY <2>4
  <2>6. Bound((m - 1) + 1)  BY <1>2, <2>4, <2>5
  <2>7. (m - 1) + 1 = m  BY <2>3
  <2> QED  BY <2>3, <2>6, <2>7
<1>4. n \notin S  BY <1>3
<1> QED  BY <1>4

-----------------------------------------------------------------------------
(* What a write does to the numbers.                                       *)
LEMMA IntervalWritten ==
    ASSUME NEW s, Whole(s), NEW i \in DOMAIN s.of, NEW b \in Nat, NEW e \in Nat, b <= e,
           NEW t, t = Written(s, PutInterval(i, b, e))
    PROVE  /\ Whole(t) /\ t.list = s.list /\ NewId(t) = NewId(s)
           /\ DOMAIN t.of = DOMAIN s.of /\ t.of[i][1] = b /\ t.of[i][2] = e
           /\ \A j \in DOMAIN s.of \ {i} : t.of[j] = s.of[j]
<1>1. s \in NumberStates /\ s.of \in Seq(Nat \X Nat)  BY DEF Whole, NumberStates
<1>2. Len(s.of) \in Nat /\ DOMAIN s.of = 1 .. Len(s.of)  BY <1>1
<1>3. i # NewId(s)  BY <1>2 DEF NewId
<1>4. t = [s EXCEPT !.of[i] = <<b, e>>]  BY <1>3 DEF Written, PutInterval, With
<1>5. t.list = s.list /\ t.of = [s.of EXCEPT ![i] = <<b, e>>] /\ t = [list |-> t.list, of |-> t.of]
  BY <1>1, <1>4 DEF NumberStates
<1>6. t.of \in Seq(Nat \X Nat) /\ DOMAIN t.of = DOMAIN s.of /\ Len(t.of) = Len(s.of)
  BY <1>1, <1>5
<1>7. \A j \in DOMAIN s.of : t.of[j] = IF j = i THEN <<b, e>> ELSE s.of[j]  BY <1>1, <1>5
<1>8. Ordered(t.of)
  <2> SUFFICES ASSUME NEW j \in DOMAIN s.of PROVE t.of[j][1] <= t.of[j][2]  BY <1>6 DEF Ordered
  <2>1. CASE j = i
    <3>1. t.of[j] = <<b, e>>  BY <1>7, <2>1
    <3> QED  BY <3>1
  <2>2. CASE j # i
    <3>1. t.of[j] = s.of[j]  BY <1>7, <2>2
    <3> QED  BY <3>1 DEF Whole, Ordered
  <2> QED  BY <2>1, <2>2
<1>9. t \in NumberStates  BY <1>1, <1>5, <1>6 DEF NumberStates
<1>10. t.of[i] = <<b, e>> /\ \A j \in DOMAIN s.of \ {i} : t.of[j] = s.of[j]  BY <1>7
<1> QED  BY <1>5, <1>6, <1>8, <1>9, <1>10 DEF Whole, NewId

(* t is s with a new interval n, from b to e.                              *)
Added(s, n, b, e, t) ==
    /\ Whole(t) /\ t.list = s.list
    /\ n \in Nat /\ n \notin DOMAIN s.of
    /\ DOMAIN t.of = DOMAIN s.of \cup {n}
    /\ t.of[n][1] = b /\ t.of[n][2] = e
    /\ \A j \in DOMAIN s.of : t.of[j] = s.of[j]

LEMMA IntervalAdded ==
    ASSUME NEW s, Whole(s), NEW b \in Nat, NEW e \in Nat, b <= e,
           NEW n, n = NewId(s), NEW t, t = Written(s, PutInterval(n, b, e))
    PROVE  Added(s, n, b, e, t)
<1>1. s \in NumberStates /\ s.of \in Seq(Nat \X Nat)  BY DEF Whole, NumberStates
<1>2. Len(s.of) \in Nat /\ DOMAIN s.of = 1 .. Len(s.of) /\ NewId(s) = Len(s.of) + 1
  BY <1>1 DEF NewId
<1>3. t = [s EXCEPT !.of = Append(s.of, <<b, e>>)]  BY DEF Written, PutInterval, With
<1>4. t.list = s.list /\ t.of = Append(s.of, <<b, e>>) /\ t = [list |-> t.list, of |-> t.of]
  BY <1>1, <1>3 DEF NumberStates
<1>5. /\ t.of \in Seq(Nat \X Nat) /\ DOMAIN t.of = 1 .. Len(s.of) + 1
      /\ t.of[Len(s.of) + 1] = <<b, e>> /\ \A j \in DOMAIN s.of : t.of[j] = s.of[j]
  <2>1. PICK o, q : o = s.of /\ q = <<b, e>>  OBVIOUS
  <2>2. o \in Seq(Nat \X Nat) /\ q \in Nat \X Nat /\ t.of = Append(o, q)  BY <1>1, <1>4, <2>1
  <2>3. /\ Append(o, q) \in Seq(Nat \X Nat) /\ DOMAIN Append(o, q) = 1 .. Len(o) + 1
        /\ Append(o, q)[Len(o) + 1] = q
        /\ \A j \in 1 .. Len(o) : Append(o, q)[j] = o[j]
    BY <2>2, AppendProperties
  <2> QED  BY <1>2, <2>1, <2>2, <2>3
<1>6. DOMAIN t.of = DOMAIN s.of \cup {NewId(s)}
  <2>1. \A m \in Nat : 1 .. m + 1 = (1 .. m) \cup {m + 1}  OBVIOUS
  <2> QED  BY <1>2, <1>5, <2>1
<1>7. Ordered(t.of)
  <2> SUFFICES ASSUME NEW j \in DOMAIN t.of PROVE t.of[j][1] <= t.of[j][2]  BY DEF Ordered
  <2>1. CASE j \in DOMAIN s.of  BY <1>5, <2>1 DEF Ordered, Whole
  <2>2. CASE j = NewId(s)  BY <1>2, <1>5, <2>2
  <2> QED  BY <1>6, <2>1, <2>2
<1>8. t \in NumberStates  BY <1>1, <1>4, <1>5 DEF NumberStates
<1>9. ToSet(t.list) \subseteq DOMAIN t.of  BY <1>4, <1>6 DEF Whole
<1>10. NewId(s) \in Nat /\ NewId(s) \notin DOMAIN s.of  BY <1>2
<1> QED  BY <1>2, <1>4, <1>5, <1>6, <1>7, <1>8, <1>9, <1>10 DEF Whole, Added

LEMMA ListWritten ==
    ASSUME NEW s, Whole(s), NEW list \in Seq(Nat), ToSet(list) \subseteq DOMAIN s.of,
           NEW t, t = Written(s, PutScope(list))
    PROVE  Whole(t) /\ t.list = list /\ t.of = s.of
<1>1. s \in NumberStates  BY DEF Whole
<1>2. t = [s EXCEPT !.list = list]  BY DEF Written, PutScope, With
<1>3. t = [list |-> list, of |-> s.of]  BY <1>1, <1>2 DEF NumberStates
<1> QED  BY <1>1, <1>3 DEF Whole, NumberStates

-----------------------------------------------------------------------------
(* Where writes lead.                                                      *)
LEMMA LeadsNone ==
    ASSUME NEW s \in NumberStates
    PROVE  Leads(s, <<>>, s)
<1> DEFINE f == [k \in 0 .. 0 |-> s]
<1>1. f \in [0 .. Len(<<>>) -> NumberStates] /\ Path(f, s, <<>>, s)  BY DEF Path
<1> QED  BY <1>1 DEF Leads

LEMMA LeadsOne ==
    ASSUME NEW s \in NumberStates, NEW w, NEW t, t = Written(s, w), Whole(t)
    PROVE  Leads(s, <<w>>, t)
<1> DEFINE f == [k \in 0 .. 1 |-> IF k = 0 THEN s ELSE t]
<1>1. Len(<<w>>) = 1 /\ <<w>>[1] = w  OBVIOUS
<1>2. t \in NumberStates  BY DEF Whole
<1>3. f \in [0 .. 1 -> NumberStates]  BY <1>2
<1>4. f[0] = s /\ f[1] = t  OBVIOUS
<1>5. ASSUME NEW k \in 1 .. 1 PROVE f[k] = Written(f[k - 1], <<w>>[k]) /\ Whole(f[k])
  <2>1. k = 1 /\ k - 1 = 0  OBVIOUS
  <2> HIDE DEF f
  <2> QED  BY <1>1, <1>4, <2>1
<1> HIDE DEF f
<1>6. Path(f, s, <<w>>, t)  BY <1>1, <1>4, <1>5 DEF Path
<1> QED  BY <1>1, <1>3, <1>6 DEF Leads

LEMMA LeadsBoth ==
    ASSUME NEW W, NEW a \in Seq(W), NEW b \in Seq(W), NEW s, NEW t, NEW u,
           Leads(s, a, t), Leads(t, b, u)
    PROVE  Leads(s, a \o b, u)
<1>1. PICK f \in [0 .. Len(a) -> NumberStates] : Path(f, s, a, t)  BY DEF Leads
<1>2. PICK g \in [0 .. Len(b) -> NumberStates] : Path(g, t, b, u)  BY DEF Leads
<1>3. PICK m, n, c : m = Len(a) /\ n = Len(b) /\ c = a \o b  OBVIOUS
<1>4. /\ m \in Nat /\ n \in Nat /\ Len(c) = m + n
      /\ \A k \in 1 .. m + n : c[k] = IF k <= m THEN a[k] ELSE b[k - m]
  <2>1. Len(a) \in Nat /\ Len(b) \in Nat  OBVIOUS
  <2>2. /\ Len(a \o b) = Len(a) + Len(b)
        /\ \A k \in 1 .. Len(a) + Len(b) : (a \o b)[k] = IF k <= Len(a) THEN a[k] ELSE b[k - Len(a)]
    BY ConcatProperties
  <2> QED  BY <1>3, <2>1, <2>2
<1>5. /\ f[0] = s /\ f[m] = t
      /\ \A k \in 1 .. m : f[k] = Written(f[k - 1], a[k]) /\ Whole(f[k])
  BY <1>1, <1>3 DEF Path
<1>6. /\ g[0] = t /\ g[n] = u
      /\ \A k \in 1 .. n : g[k] = Written(g[k - 1], b[k]) /\ Whole(g[k])
  BY <1>2, <1>3 DEF Path
<1> DEFINE h == [k \in 0 .. m + n |-> IF k <= m THEN f[k] ELSE g[k - m]]
<1>7. h \in [0 .. m + n -> NumberStates]
  <2> SUFFICES ASSUME NEW k \in 0 .. m + n
               PROVE  (IF k <= m THEN f[k] ELSE g[k - m]) \in NumberStates
    OBVIOUS
  <2>1. CASE k <= m
    <3>1. k \in 0 .. m  BY <1>4, <2>1
    <3> QED  BY <1>3, <2>1, <3>1
  <2>2. CASE ~(k <= m)
    <3>1. k - m \in 0 .. n  BY <1>4, <2>2
    <3> QED  BY <1>3, <2>2, <3>1
  <2> QED  BY <2>1, <2>2
<1>8. \A k \in 0 .. m : h[k] = f[k]  BY <1>4
<1>9. \A k \in 0 .. n : h[m + k] = g[k]
  <2> SUFFICES ASSUME NEW k \in 0 .. n PROVE h[m + k] = g[k]  OBVIOUS
  <2>1. CASE k = 0  BY <1>4, <1>5, <1>6, <2>1
  <2>2. CASE k # 0
    <3>1. m + k \in 0 .. m + n /\ ~(m + k <= m) /\ (m + k) - m = k  BY <1>4, <2>2
    <3> QED  BY <3>1
  <2> QED  BY <2>1, <2>2
<1> HIDE DEF h
<1>10. h[0] = s /\ h[m + n] = u  BY <1>4, <1>5, <1>6, <1>8, <1>9
<1>11. ASSUME NEW k \in 1 .. m + n PROVE h[k] = Written(h[k - 1], c[k]) /\ Whole(h[k])
  <2>1. CASE k <= m
    <3>1. k \in 1 .. m /\ k \in 0 .. m /\ k - 1 \in 0 .. m  BY <1>4, <2>1
    <3>2. c[k] = a[k]  BY <1>4, <2>1
    <3>3. h[k] = f[k] /\ h[k - 1] = f[k - 1]  BY <1>8, <3>1
    <3> QED  BY <1>5, <3>1, <3>2, <3>3
  <2>2. CASE ~(k <= m)
    <3>1. PICK j \in 1 .. n : k = m + j
      <4>1. k - m \in 1 .. n /\ k = m + (k - m)  BY <1>4, <2>2
      <4> QED  BY <4>1
    <3>2. j \in 0 .. n /\ j - 1 \in 0 .. n /\ k - 1 = m + (j - 1) /\ k - m = j  BY <1>4, <3>1
    <3>3. c[k] = b[j]  BY <1>4, <2>2, <3>2
    <3>4. h[k] = g[j] /\ h[k - 1] = g[j - 1]  BY <1>9, <3>1, <3>2
    <3> QED  BY <1>6, <3>1, <3>3, <3>4
  <2> QED  BY <2>1, <2>2
<1>12. Path(h, s, c, u)  BY <1>4, <1>10, <1>11 DEF Path
<1> QED  BY <1>3, <1>4, <1>7, <1>12 DEF Leads

(* Two writes, one after the other.                                        *)
LEMMA LeadsTwo ==
    ASSUME NEW s \in NumberStates, NEW x, NEW y,
           NEW u, u = Written(s, x), Whole(u), NEW t, t = Written(u, y), Whole(t)
    PROVE  Leads(s, <<x, y>>, t)
<1>1. u \in NumberStates  BY DEF Whole
<1>2. Leads(s, <<x>>, u)  BY LeadsOne
<1>3. Leads(u, <<y>>, t)  BY <1>1, LeadsOne
<1>4. PICK a, b : a = <<x>> /\ b = <<y>>  OBVIOUS
<1>5. a \in Seq({x, y}) /\ b \in Seq({x, y}) /\ a \o b = <<x, y>>
  <2>1. <<x>> \in Seq({x, y}) /\ <<y>> \in Seq({x, y})  OBVIOUS
  <2>2. a \o b \in Seq({x, y}) /\ Len(a \o b) = 2 /\ (a \o b)[1] = x /\ (a \o b)[2] = y
    BY <1>4, <2>1, ConcatProperties
  <2>3. \A c \in Seq({x, y}) : Len(c) = 2 => c = <<c[1], c[2]>>  OBVIOUS
  <2> QED  BY <1>4, <2>1, <2>2, <2>3
<1>6. Leads(s, a, u) /\ Leads(u, b, t)  BY <1>2, <1>3, <1>4
<1>7. Leads(s, a \o b, t)  BY <1>5, <1>6, LeadsBoth
<1> QED  BY <1>5, <1>7

(* The first write is made.                                                *)
LEMMA LeadsTail ==
    ASSUME NEW W, NEW ws \in Seq(W), ws # <<>>, NEW s, NEW t, Leads(s, ws, t)
    PROVE  Leads(Written(s, Head(ws)), Tail(ws), t) /\ Whole(Written(s, Head(ws)))
<1>1. PICK f \in [0 .. Len(ws) -> NumberStates] : Path(f, s, ws, t)  BY DEF Leads
<1>2. PICK n, r : n = Len(ws) /\ r = Tail(ws)  OBVIOUS
<1>3. n \in Nat /\ n >= 1 /\ Len(r) = n - 1 /\ ws[1] = Head(ws)
  BY <1>2
<1>4. \A k \in 1 .. n - 1 : r[k] = ws[k + 1]  BY <1>2
<1>5. /\ f[0] = s /\ f[n] = t
      /\ \A k \in 1 .. n : f[k] = Written(f[k - 1], ws[k]) /\ Whole(f[k])
  BY <1>1, <1>2 DEF Path
<1>6. f[1] = Written(s, Head(ws)) /\ Whole(f[1])
  <2>1. 1 \in 1 .. n /\ 1 - 1 = 0  BY <1>3
  <2> QED  BY <1>3, <1>5, <2>1
<1> DEFINE h == [k \in 0 .. n - 1 |-> f[k + 1]]
<1>7. \A k \in 0 .. n - 1 : h[k] = f[k + 1] /\ k + 1 \in 0 .. n  BY <1>3
<1>8. h \in [0 .. n - 1 -> NumberStates]  BY <1>2, <1>7
<1> HIDE DEF h
<1>9. h[0] = f[1] /\ h[n - 1] = t
  <2>1. 0 \in 0 .. n - 1 /\ n - 1 \in 0 .. n - 1 /\ (n - 1) + 1 = n /\ 0 + 1 = 1  BY <1>3
  <2>2. h[0] = f[0 + 1] /\ h[n - 1] = f[(n - 1) + 1]  BY <1>7, <2>1
  <2> QED  BY <1>5, <2>1, <2>2
<1>10. ASSUME NEW k \in 1 .. n - 1 PROVE h[k] = Written(h[k - 1], r[k]) /\ Whole(h[k])
  <2>1. k \in 0 .. n - 1 /\ k - 1 \in 0 .. n - 1 /\ k + 1 \in 1 .. n /\ (k - 1) + 1 = k
        /\ (k + 1) - 1 = k
    BY <1>3
  <2>2. h[k] = f[k + 1] /\ h[k - 1] = f[k]
    <3>1. h[k - 1] = f[(k - 1) + 1]  BY <1>7, <2>1
    <3> QED  BY <1>7, <2>1, <3>1
  <2>3. f[k + 1] = Written(f[(k + 1) - 1], ws[k + 1]) /\ Whole(f[k + 1])  BY <1>5, <2>1
  <2> QED  BY <1>4, <2>1, <2>2, <2>3
<1>11. Path(h, f[1], r, t)  BY <1>3, <1>9, <1>10 DEF Path
<1>12. Leads(f[1], r, t)  BY <1>3, <1>8, <1>11 DEF Leads
<1> QED  BY <1>2, <1>6, <1>12

-----------------------------------------------------------------------------
(* Commit and revoke.                                                      *)
LEMMA TheIn == ASSUME NEW S, S # {} PROVE The(S) \in S
BY DEF The

(* What is known of the intervals that are looked at.                      *)
LEMMA Looked ==
    ASSUME NEW s, Sound(s)
    PROVE  /\ s.list \in Seq(Nat) /\ s.of \in Seq(Nat \X Nat) /\ ToSet(s.list) \subseteq Nat
           /\ \A i \in ToSet(s.list) :
                  /\ i \in DOMAIN s.of /\ s.of[i] = <<s.of[i][1], s.of[i][2]>>
                  /\ s.of[i][1] \in Nat /\ s.of[i][2] \in Nat /\ s.of[i][1] <= s.of[i][2]
           /\ \A i, j \in ToSet(s.list) : i # j => Apart(s.of, i, j)
<1>1. s.list \in Seq(Nat) /\ s.of \in Seq(Nat \X Nat)  BY DEF Sound, Whole, NumberStates
<1>2. ToSet(s.list) \subseteq Nat  BY <1>1 DEF ToSet
<1>3. ASSUME NEW i \in ToSet(s.list)
      PROVE  /\ i \in DOMAIN s.of /\ s.of[i] \in Nat \X Nat /\ s.of[i][1] <= s.of[i][2]
  <2>1. i \in DOMAIN s.of  BY DEF Sound, Whole
  <2>2. s.of[i] \in Nat \X Nat  BY <1>1, <2>1
  <2> QED  BY <2>1, <2>2 DEF Sound, Whole, Ordered
<1>4. \A p \in Nat \X Nat : p = <<p[1], p[2]>> /\ p[1] \in Nat /\ p[2] \in Nat  OBVIOUS
<1> QED  BY <1>1, <1>2, <1>3, <1>4 DEF Sound

(* A state that has the intervals L, each as of says, is sound.            *)
LEMMA SoundFrom ==
    ASSUME NEW t, Whole(t), IsInjective(t.list),
           \A i, j \in ToSet(t.list) : i # j => Apart(t.of, i, j)
    PROVE  Sound(t)
BY DEF Sound

LEMMA CommitMerges ==
    ASSUME NEW s, Sound(s), NEW v \in Nat,
           NEW a \in ToSet(s.list), s.of[a][1] = v + 1,
           NEW b \in ToSet(s.list), s.of[b][2] = v - 1
    PROVE  LET ws == <<PutInterval(b, s.of[b][1], s.of[a][2]), PutScope(Without(s.list, a))>>
           IN  \E t : Leads(s, ws, t) /\ Sound(t) /\ Covered(t) = Covered(s) \cup {v}
<1> DEFINE L == ToSet(s.list)  lo == s.of[b][1]  hi == s.of[a][2]
           w == PutInterval(b, lo, hi)  u == Written(s, w)
           list == Without(s.list, a)  t == Written(u, PutScope(list))
<1>1. /\ s.list \in Seq(Nat) /\ IsInjective(s.list) /\ Whole(s) /\ s \in NumberStates
      /\ \A i \in L : /\ i \in DOMAIN s.of /\ s.of[i][1] \in Nat /\ s.of[i][2] \in Nat
                      /\ s.of[i][1] <= s.of[i][2]
      /\ \A i, j \in L : i # j => Apart(s.of, i, j)
  BY Looked DEF Sound, Whole
<1>2. lo \in Nat /\ hi \in Nat /\ lo <= v - 1 /\ v + 1 <= hi /\ lo <= hi /\ a # b
  BY <1>1
<1>3. /\ Whole(u) /\ u.list = s.list /\ DOMAIN u.of = DOMAIN s.of
      /\ u.of[b][1] = lo /\ u.of[b][2] = hi
      /\ \A j \in DOMAIN s.of \ {b} : u.of[j] = s.of[j]
  <2>1. b \in DOMAIN s.of  BY <1>1
  <2>2. PICK x, y : x = lo /\ y = hi  OBVIOUS
  <2>3. x \in Nat /\ y \in Nat /\ x <= y  BY <1>2, <2>2
  <2>4. u = Written(s, PutInterval(b, x, y))  BY <2>2
  <2> HIDE DEF u, lo, hi
  <2>5. /\ Whole(u) /\ u.list = s.list /\ DOMAIN u.of = DOMAIN s.of
        /\ u.of[b][1] = x /\ u.of[b][2] = y
        /\ \A j \in DOMAIN s.of \ {b} : u.of[j] = s.of[j]
    BY <1>1, <2>1, <2>3, <2>4, IntervalWritten
  <2> QED  BY <2>2, <2>5
<1>4. list \in Seq(Nat) /\ IsInjective(list) /\ ToSet(list) = L \ {a}  BY <1>1, WithoutFacts
<1>5. ToSet(list) \subseteq DOMAIN u.of  BY <1>1, <1>3, <1>4
<1>6. Whole(t) /\ t.list = list /\ t.of = u.of  BY <1>3, <1>4, <1>5, ListWritten
<1>7. /\ \A i \in L \ {a, b} : t.of[i] = s.of[i]
      /\ t.of[b][1] = lo /\ t.of[b][2] = hi
  BY <1>1, <1>3, <1>6
<1>8. \A i \in L \ {a, b} : hi + 1 < s.of[i][1] \/ s.of[i][2] + 1 < lo
  BY <1>1, <1>2 DEF Apart
<1> HIDE DEF t, list, u
<1>9. Sound(t)
  <2> SUFFICES ASSUME NEW i \in L \ {a}, NEW j \in L \ {a}, i # j PROVE Apart(t.of, i, j)
    BY <1>4, <1>6, SoundFrom
  <2>1. CASE i = b  BY <1>7, <1>8, <2>1 DEF Apart
  <2>2. CASE j = b  BY <1>7, <1>8, <2>2 DEF Apart
  <2>3. CASE i # b /\ j # b  BY <1>1, <1>7, <2>3 DEF Apart
  <2> QED  BY <2>1, <2>2, <2>3
<1>10. Covered(t) = Covered(s) \cup {v}
  <2>1. ASSUME NEW x \in Nat
        PROVE  (\E i \in L \ {a} : t.of[i][1] <= x /\ x <= t.of[i][2])
                   <=> x = v \/ \E i \in L : s.of[i][1] <= x /\ x <= s.of[i][2]
    <3>1. ASSUME NEW i \in L \ {a}, t.of[i][1] <= x /\ x <= t.of[i][2]
          PROVE  x = v \/ \E j \in L : s.of[j][1] <= x /\ x <= s.of[j][2]
      <4>1. CASE i # b  BY <1>7, <3>1, <4>1
      <4>2. CASE i = b
        <5>1. lo <= x /\ x <= hi  BY <1>7, <3>1, <4>2
        <5>2. x <= v - 1 \/ x = v \/ v + 1 <= x  OBVIOUS
        <5> QED  BY <5>1, <5>2
      <4> QED  BY <4>1, <4>2
    <3>2. ASSUME x = v PROVE t.of[b][1] <= x /\ x <= t.of[b][2]  BY <1>2, <1>7, <3>2
    <3>3. ASSUME NEW i \in L, s.of[i][1] <= x /\ x <= s.of[i][2]
          PROVE  \E j \in L \ {a} : t.of[j][1] <= x /\ x <= t.of[j][2]
      <4>1. CASE i \notin {a, b}  BY <1>7, <3>3, <4>1
      <4>2. CASE i \in {a, b}
        <5>1. lo <= x /\ x <= hi  BY <1>1, <1>2, <3>3, <4>2
        <5> QED  BY <1>2, <1>7, <5>1
      <4> QED  BY <4>1, <4>2
    <3> QED  BY <1>2, <3>1, <3>2, <3>3
  <2>2. Covered(t) = {x \in Nat : \E i \in L \ {a} : t.of[i][1] <= x /\ x <= t.of[i][2]}
    BY <1>4, <1>6 DEF Covered, CoveredBy
  <2>3. Covered(s) = {x \in Nat : \E i \in L : s.of[i][1] <= x /\ x <= s.of[i][2]}
    BY DEF Covered, CoveredBy
  <2> QED  BY <2>1, <2>2, <2>3
<1>11. Leads(s, <<w, PutScope(list)>>, t)  BY <1>1, <1>3, <1>6, LeadsTwo DEF t, u
<1> QED  BY <1>9, <1>10, <1>11 DEF list

(* The numbers in use, those of one interval apart.                        *)
Elsewhere(s, i) == {x \in Nat : \E j \in ToSet(s.list) \ {i} : s.of[j][1] <= x /\ x <= s.of[j][2]}

LEMMA CoveredSplit ==
    ASSUME NEW s, Sound(s), NEW i \in ToSet(s.list)
    PROVE  /\ Covered(s) = Elsewhere(s, i) \cup s.of[i][1] .. s.of[i][2]
           /\ Elsewhere(s, i) \cap s.of[i][1] .. s.of[i][2] = {}
<1>1. /\ s.of[i][1] \in Nat /\ s.of[i][2] \in Nat
      /\ \A j \in ToSet(s.list) : s.of[j][1] \in Nat /\ s.of[j][2] \in Nat
      /\ \A j \in ToSet(s.list) \ {i} : s.of[j][2] + 1 < s.of[i][1] \/ s.of[i][2] + 1 < s.of[j][1]
  BY Looked DEF Apart
<1>2. \A x \in Nat : x \in Covered(s) <=> x \in Elsewhere(s, i) \/ (s.of[i][1] <= x /\ x <= s.of[i][2])
  BY DEF Covered, CoveredBy, Elsewhere
<1>3. Covered(s) \subseteq Nat /\ Elsewhere(s, i) \subseteq Nat  BY DEF Covered, CoveredBy, Elsewhere
<1>4. \A x : x \in s.of[i][1] .. s.of[i][2] <=> x \in Nat /\ s.of[i][1] <= x /\ x <= s.of[i][2]
  BY <1>1
<1>5. ASSUME NEW x \in Elsewhere(s, i), x \in s.of[i][1] .. s.of[i][2] PROVE FALSE
  <2>1. x \in Nat /\ s.of[i][1] <= x /\ x <= s.of[i][2]  BY <1>1, <1>5
  <2> QED  BY <1>1, <2>1 DEF Elsewhere
<1> QED  BY <1>2, <1>3, <1>4, <1>5

(* An interval grows or shrinks, and stays apart from the others.          *)
LEMMA Resized ==
    ASSUME NEW s, Sound(s), NEW i \in ToSet(s.list), NEW b \in Nat, NEW e \in Nat, b <= e,
           \A j \in ToSet(s.list) \ {i} : e + 1 < s.of[j][1] \/ s.of[j][2] + 1 < b,
           NEW t, t = Written(s, PutInterval(i, b, e))
    PROVE  /\ Sound(t) /\ t.list = s.list /\ NewId(t) = NewId(s)
           /\ Covered(t) = Elsewhere(s, i) \cup b .. e
           /\ Elsewhere(t, i) = Elsewhere(s, i)
           /\ t.of[i][1] = b /\ t.of[i][2] = e
<1>1. Whole(s) /\ i \in DOMAIN s.of /\ ToSet(s.list) \subseteq DOMAIN s.of
      /\ IsInjective(s.list) /\ \A j, k \in ToSet(s.list) : j # k => Apart(s.of, j, k)
  BY DEF Sound, Whole
<1>2. /\ Whole(t) /\ t.list = s.list /\ NewId(t) = NewId(s)
      /\ t.of[i][1] = b /\ t.of[i][2] = e
      /\ \A j \in DOMAIN s.of \ {i} : t.of[j] = s.of[j]
  BY <1>1, IntervalWritten
<1>3. \A j \in ToSet(s.list) \ {i} : t.of[j] = s.of[j]  BY <1>1, <1>2
<1>4. Sound(t)
  <2> SUFFICES ASSUME NEW j \in ToSet(s.list), NEW k \in ToSet(s.list), j # k PROVE Apart(t.of, j, k)
    BY <1>1, <1>2, SoundFrom
  <2>1. CASE j = i  BY <1>2, <1>3, <2>1 DEF Apart
  <2>2. CASE k = i  BY <1>2, <1>3, <2>2 DEF Apart
  <2>3. CASE j # i /\ k # i  BY <1>1, <1>3, <2>3 DEF Apart
  <2> QED  BY <2>1, <2>2, <2>3
<1>5. Elsewhere(t, i) = Elsewhere(s, i)  BY <1>2, <1>3 DEF Elsewhere
<1>6. Covered(t) = Elsewhere(t, i) \cup b .. e  BY <1>2, <1>4, CoveredSplit
<1> QED  BY <1>2, <1>4, <1>5, <1>6

LEMMA CommitGrows ==
    ASSUME NEW s, Sound(s), NEW v \in Nat, In(s, v) = {}, BeginsAt(s, v + 1) = {},
           NEW b \in ToSet(s.list), s.of[b][2] = v - 1
    PROVE  \E t : /\ Leads(s, <<PutInterval(b, s.of[b][1], v)>>, t)
                  /\ Sound(t) /\ Covered(t) = Covered(s) \cup {v}
<1>1. /\ s \in NumberStates /\ s.of[b][1] \in Nat /\ s.of[b][1] <= v - 1
      /\ \A j \in ToSet(s.list) : s.of[j][1] \in Nat /\ s.of[j][2] \in Nat
      /\ \A j \in ToSet(s.list) \ {b} : s.of[j][2] + 1 < s.of[b][1] \/ s.of[b][2] + 1 < s.of[j][1]
  BY Looked DEF Sound, Whole, Apart
<1>2. \A j \in ToSet(s.list) : s.of[j][1] # v + 1  BY DEF BeginsAt
<1>3. PICK lo : lo = s.of[b][1]  OBVIOUS
<1>4. \A j \in ToSet(s.list) \ {b} : v + 1 < s.of[j][1] \/ s.of[j][2] + 1 < lo
  BY <1>1, <1>2, <1>3
<1>5. PICK t : t = Written(s, PutInterval(b, lo, v))  OBVIOUS
<1>6. lo \in Nat /\ lo <= v /\ lo <= v - 1  BY <1>1, <1>3
<1>7. Sound(t) /\ Covered(t) = Elsewhere(s, b) \cup lo .. v  BY <1>4, <1>5, <1>6, Resized
<1>8. Covered(s) = Elsewhere(s, b) \cup lo .. (v - 1)  BY <1>3, CoveredSplit
<1>9. lo .. v = lo .. (v - 1) \cup {v}  BY <1>6
<1>10. Leads(s, <<PutInterval(b, lo, v)>>, t)  BY <1>1, <1>5, <1>7, LeadsOne DEF Sound
<1> QED  BY <1>3, <1>7, <1>8, <1>9, <1>10

LEMMA CommitPrecedes ==
    ASSUME NEW s, Sound(s), NEW v \in Nat, In(s, v) = {}, EndsAt(s, v - 1) = {},
           NEW a \in ToSet(s.list), s.of[a][1] = v + 1
    PROVE  \E t : /\ Leads(s, <<PutInterval(a, v, s.of[a][2])>>, t)
                  /\ Sound(t) /\ Covered(t) = Covered(s) \cup {v}
<1>1. /\ s \in NumberStates /\ s.of[a][2] \in Nat /\ v + 1 <= s.of[a][2]
      /\ \A j \in ToSet(s.list) : s.of[j][1] \in Nat /\ s.of[j][2] \in Nat
      /\ \A j \in ToSet(s.list) \ {a} : s.of[j][2] + 1 < s.of[a][1] \/ s.of[a][2] + 1 < s.of[j][1]
  BY Looked DEF Sound, Whole, Apart
<1>2. \A j \in ToSet(s.list) : s.of[j][2] # v - 1  BY DEF EndsAt
<1>3. PICK hi : hi = s.of[a][2]  OBVIOUS
<1>4. \A j \in ToSet(s.list) \ {a} : hi + 1 < s.of[j][1] \/ s.of[j][2] + 1 < v
  BY <1>1, <1>2, <1>3
<1>5. PICK t : t = Written(s, PutInterval(a, v, hi))  OBVIOUS
<1>6. hi \in Nat /\ v <= hi /\ v + 1 <= hi  BY <1>1, <1>3
<1>7. Sound(t) /\ Covered(t) = Elsewhere(s, a) \cup v .. hi  BY <1>4, <1>5, <1>6, Resized
<1>8. Covered(s) = Elsewhere(s, a) \cup (v + 1) .. hi  BY <1>3, CoveredSplit
<1>9. v .. hi = (v + 1) .. hi \cup {v}  BY <1>6
<1>10. Leads(s, <<PutInterval(a, v, hi)>>, t)  BY <1>1, <1>5, <1>7, LeadsOne DEF Sound
<1> QED  BY <1>3, <1>7, <1>8, <1>9, <1>10

(* A new interval, apart from all others, is stored and entered in the list.*)
LEMMA NewInterval ==
    ASSUME NEW s, Sound(s), NEW b \in Nat, NEW e \in Nat, b <= e,
           \A j \in ToSet(s.list) : e + 1 < s.of[j][1] \/ s.of[j][2] + 1 < b
    PROVE  \E t : /\ Leads(s, <<PutInterval(NewId(s), b, e), PutScope(Append(s.list, NewId(s)))>>, t)
                  /\ Sound(t) /\ Covered(t) = Covered(s) \cup b .. e
<1>1. PICK n : n = NewId(s)  OBVIOUS
<1>2. PICK u : u = Written(s, PutInterval(n, b, e))  OBVIOUS
<1>3. /\ Whole(s) /\ s \in NumberStates /\ ToSet(s.list) \subseteq DOMAIN s.of /\ s.list \in Seq(Nat)
      /\ IsInjective(s.list) /\ \A j, k \in ToSet(s.list) : j # k => Apart(s.of, j, k)
  BY Looked DEF Sound, Whole
<1>4. /\ Whole(u) /\ u.list = s.list /\ n \in Nat /\ n \notin DOMAIN s.of
      /\ DOMAIN u.of = DOMAIN s.of \cup {n}
      /\ u.of[n][1] = b /\ u.of[n][2] = e
      /\ \A j \in DOMAIN s.of : u.of[j] = s.of[j]
  <2>1. Added(s, n, b, e, u)  BY <1>1, <1>2, <1>3, IntervalAdded
  <2> QED  BY <2>1 DEF Added
<1>5. PICK list : list = Append(s.list, n)  OBVIOUS
<1>6. list \in Seq(Nat) /\ IsInjective(list) /\ ToSet(list) = ToSet(s.list) \cup {n}
  BY <1>3, <1>4, <1>5, AppendFacts
<1>7. PICK t : t = Written(u, PutScope(list))  OBVIOUS
<1>8. Whole(t) /\ t.list = list /\ t.of = u.of  BY <1>3, <1>4, <1>6, <1>7, ListWritten
<1>9. \A j \in ToSet(s.list) : t.of[j] = s.of[j]  BY <1>3, <1>4, <1>8
<1>10. t.of[n][1] = b /\ t.of[n][2] = e  BY <1>4, <1>8
<1>11. Sound(t)
  <2> SUFFICES ASSUME NEW j \in ToSet(list), NEW k \in ToSet(list), j # k PROVE Apart(t.of, j, k)
    BY <1>6, <1>8, SoundFrom
  <2>1. CASE j = n  BY <1>6, <1>9, <1>10, <2>1 DEF Apart
  <2>2. CASE k = n  BY <1>6, <1>9, <1>10, <2>2 DEF Apart
  <2>3. CASE j # n /\ k # n  BY <1>3, <1>6, <1>9, <2>3 DEF Apart
  <2> QED  BY <2>1, <2>2, <2>3
<1>12. Covered(t) = Covered(s) \cup b .. e
  <2>1. Elsewhere(t, n) = Covered(s)
    <3>1. ToSet(t.list) \ {n} = ToSet(s.list)  BY <1>3, <1>4, <1>6, <1>8
    <3> QED  BY <1>9, <3>1 DEF Elsewhere, Covered, CoveredBy
  <2>2. n \in ToSet(t.list)  BY <1>6, <1>8
  <2> QED  BY <1>10, <1>11, <2>1, <2>2, CoveredSplit
<1>13. Leads(s, <<PutInterval(n, b, e), PutScope(list)>>, t)
  BY <1>2, <1>3, <1>4, <1>7, <1>8, LeadsTwo
<1> QED  BY <1>1, <1>5, <1>11, <1>12, <1>13

(* commitValue: exactly the value is added to the numbers in use           *)
(* (numerator.js:129-221).                                                 *)
LEMMA CommitAdds ==
    ASSUME NEW s, Sound(s), NEW v \in Nat
    PROVE  \E t : Leads(s, CommitValue(s, v), t) /\ Sound(t) /\ Covered(t) = Covered(s) \cup {v}
<1> DEFINE before == EndsAt(s, v - 1)  after == BeginsAt(s, v + 1)
<1>1. s \in NumberStates  BY DEF Sound, Whole
<1>2. CASE In(s, v) # {}
  <2>1. CommitValue(s, v) = <<>>  BY <1>2 DEF CommitValue
  <2>2. v \in Covered(s)  BY <1>2 DEF In, Covered, CoveredBy
  <2> QED  BY <1>1, <2>1, <2>2, LeadsNone
<1>3. CASE In(s, v) = {} /\ before # {} /\ after # {}
  <2>1. PICK a, b : a = The(after) /\ b = The(before)  OBVIOUS
  <2>2. a \in after /\ b \in before  BY <1>3, <2>1, TheIn
  <2>3. /\ a \in ToSet(s.list) /\ s.of[a][1] = v + 1
        /\ b \in ToSet(s.list) /\ s.of[b][2] = v - 1
    BY <2>2 DEF EndsAt, BeginsAt
  <2>4. CommitValue(s, v) = <<PutInterval(b, s.of[b][1], s.of[a][2]), PutScope(Without(s.list, a))>>
    BY <1>3, <2>1 DEF CommitValue
  <2> QED  BY <2>3, <2>4, CommitMerges
<1>4. CASE In(s, v) = {} /\ before # {} /\ after = {}
  <2>1. PICK b : b = The(before)  OBVIOUS
  <2>2. b \in before  BY <1>4, <2>1, TheIn
  <2>3. b \in ToSet(s.list) /\ s.of[b][2] = v - 1  BY <2>2 DEF EndsAt
  <2>4. CommitValue(s, v) = <<PutInterval(b, s.of[b][1], v)>>  BY <1>4, <2>1 DEF CommitValue
  <2> QED  BY <1>4, <2>3, <2>4, CommitGrows
<1>5. CASE In(s, v) = {} /\ before = {} /\ after # {}
  <2>1. PICK a : a = The(after)  OBVIOUS
  <2>2. a \in after  BY <1>5, <2>1, TheIn
  <2>3. a \in ToSet(s.list) /\ s.of[a][1] = v + 1  BY <2>2 DEF BeginsAt
  <2>4. CommitValue(s, v) = <<PutInterval(a, v, s.of[a][2])>>  BY <1>5, <2>1 DEF CommitValue
  <2> QED  BY <1>5, <2>3, <2>4, CommitPrecedes
<1>6. CASE In(s, v) = {} /\ before = {} /\ after = {}
  <2>1. \A j \in ToSet(s.list) : s.of[j][1] \in Nat /\ s.of[j][2] \in Nat  BY Looked
  <2>2. \A j \in ToSet(s.list) : /\ ~(s.of[j][1] <= v /\ v <= s.of[j][2])
                                /\ s.of[j][2] # v - 1 /\ s.of[j][1] # v + 1
    BY <1>6 DEF In, EndsAt, BeginsAt
  <2>3. \A j \in ToSet(s.list) : v + 1 < s.of[j][1] \/ s.of[j][2] + 1 < v  BY <2>1, <2>2
  <2>4. CommitValue(s, v) =
            <<PutInterval(NewId(s), v, v), PutScope(Append(s.list, NewId(s)))>>
    BY <1>6 DEF CommitValue
  <2>5. v .. v = {v} /\ v <= v  OBVIOUS
  <2> QED  BY <2>3, <2>4, <2>5, NewInterval
<1> QED  BY <1>2, <1>3, <1>4, <1>5, <1>6

(* What is behind the value goes: the rest becomes an interval by itself.  *)
LEMMA RevokeCuts ==
    ASSUME NEW s, Sound(s), NEW v \in Nat,
           NEW i \in ToSet(s.list), s.of[i][1] < v, v < s.of[i][2]
    PROVE  LET ws == <<PutInterval(i, s.of[i][1], v - 1),
                       PutInterval(NewId(s), v + 1, s.of[i][2]),
                       PutScope(Append(s.list, NewId(s)))>>
           IN  \E t : Leads(s, ws, t) /\ Sound(t) /\ Covered(t) = Covered(s) \ {v}
<1>1. PICK lo, hi, n : lo = s.of[i][1] /\ hi = s.of[i][2] /\ n = NewId(s)  OBVIOUS
<1>2. /\ s \in NumberStates
      /\ \A j \in ToSet(s.list) : s.of[j][1] \in Nat /\ s.of[j][2] \in Nat /\ s.of[j][1] <= s.of[j][2]
      /\ \A j \in ToSet(s.list) \ {i} : s.of[j][2] + 1 < lo \/ hi + 1 < s.of[j][1]
  BY <1>1, Looked DEF Sound, Whole, Apart
<1>3. lo \in Nat /\ hi \in Nat /\ lo < v /\ v < hi  BY <1>1, <1>2
<1>4. PICK x, y, z, u : /\ x = PutInterval(i, lo, v - 1)
                        /\ y = PutInterval(n, v + 1, hi) /\ z = PutScope(Append(s.list, n))
                        /\ u = Written(s, x)
  OBVIOUS
<1>5. v - 1 \in Nat /\ v + 1 \in Nat /\ lo <= v - 1 /\ v + 1 <= hi  BY <1>3
<1>6. \A j \in ToSet(s.list) \ {i} : (v - 1) + 1 < s.of[j][1] \/ s.of[j][2] + 1 < lo
  BY <1>2, <1>3
<1>7. /\ Sound(u) /\ u.list = s.list /\ NewId(u) = NewId(s)
      /\ Covered(u) = Elsewhere(s, i) \cup lo .. (v - 1)
      /\ u.of[i][1] = lo /\ u.of[i][2] = v - 1
      /\ Elsewhere(u, i) = Elsewhere(s, i)
  BY SMTT(60), <1>3, <1>4, <1>5, <1>6, Resized
<1>8. Leads(s, <<x>>, u)  BY <1>2, <1>4, <1>7, LeadsOne DEF Sound
<1>9. \A j \in ToSet(s.list) \ {i} : u.of[j] = s.of[j]
  <2>1. Whole(s) /\ i \in DOMAIN s.of /\ ToSet(s.list) \subseteq DOMAIN s.of  BY DEF Sound, Whole
  <2>2. \A j \in DOMAIN s.of \ {i} : u.of[j] = s.of[j]  BY <1>3, <1>4, <1>5, <2>1, IntervalWritten
  <2> QED  BY <2>1, <2>2
<1>10. \A j \in ToSet(u.list) : hi + 1 < u.of[j][1] \/ u.of[j][2] + 1 < v + 1
  <2> SUFFICES ASSUME NEW j \in ToSet(s.list)
               PROVE  hi + 1 < u.of[j][1] \/ u.of[j][2] + 1 < v + 1
    BY <1>7
  <2>1. CASE j = i  BY <1>3, <1>7, <2>1
  <2>2. CASE j # i
    <3>1. u.of[j][1] = s.of[j][1] /\ u.of[j][2] = s.of[j][2]  BY <1>9, <2>2
    <3>2. s.of[j][2] + 1 < lo \/ hi + 1 < s.of[j][1]  BY <1>2, <2>2
    <3>3. s.of[j][2] \in Nat  BY <1>2
    <3> QED  BY <1>3, <3>1, <3>2, <3>3
  <2> QED  BY <2>1, <2>2
<1>11. PICK t : /\ Leads(u, <<PutInterval(NewId(u), v + 1, hi), PutScope(Append(u.list, NewId(u)))>>, t)
                /\ Sound(t) /\ Covered(t) = Covered(u) \cup (v + 1) .. hi
  BY SMTT(60), <1>3, <1>5, <1>7, <1>10, NewInterval
<1>12. Leads(u, <<y, z>>, t)  BY <1>1, <1>4, <1>7, <1>11
<1>13. PICK a, b : a = <<x>> /\ b = <<y, z>>  OBVIOUS
<1>14. a \in Seq({x, y, z}) /\ b \in Seq({x, y, z}) /\ a \o b = <<x, y, z>>
  <2>1. <<x>> \in Seq({x, y, z}) /\ <<y, z>> \in Seq({x, y, z})  OBVIOUS
  <2>2. /\ a \o b \in Seq({x, y, z}) /\ Len(a \o b) = 3
        /\ (a \o b)[1] = x /\ (a \o b)[2] = y /\ (a \o b)[3] = z
    BY <1>13, <2>1, ConcatProperties
  <2>3. \A c \in Seq({x, y, z}) : Len(c) = 3 => c = <<c[1], c[2], c[3]>>  OBVIOUS
  <2> QED  BY <1>13, <2>1, <2>2, <2>3
<1>15. Leads(s, a, u) /\ Leads(u, b, t)  BY <1>8, <1>12, <1>13
<1>16. Leads(s, a \o b, t)  BY <1>14, <1>15, LeadsBoth
<1>17. Covered(t) = Covered(s) \ {v}
  <2>1. Covered(s) = Elsewhere(s, i) \cup lo .. hi /\ Elsewhere(s, i) \cap lo .. hi = {}
    BY <1>1, CoveredSplit
  <2>2. (lo .. (v - 1)) \cup ((v + 1) .. hi) = (lo .. hi) \ {v} /\ v \in lo .. hi  BY <1>3
  <2> QED  BY <1>7, <1>11, <2>1, <2>2
<1> QED  BY <1>1, <1>4, <1>11, <1>14, <1>16, <1>17

(* An interval that is cut at one end.                                     *)
LEMMA RevokeTrims ==
    ASSUME NEW s, Sound(s), NEW v \in Nat, NEW i \in ToSet(s.list),
           NEW b \in Nat, NEW e \in Nat, b <= e, s.of[i][1] <= b, e <= s.of[i][2],
           s.of[i][1] .. s.of[i][2] = b .. e \cup {v}, v \notin b .. e
    PROVE  \E t : /\ Leads(s, <<PutInterval(i, b, e), PutScope(s.list)>>, t)
                  /\ Sound(t) /\ Covered(t) = Covered(s) \ {v}
<1>1. /\ s \in NumberStates /\ s.list \in Seq(Nat)
      /\ \A j \in ToSet(s.list) : s.of[j][1] \in Nat /\ s.of[j][2] \in Nat /\ s.of[j][1] <= s.of[j][2]
      /\ \A j \in ToSet(s.list) \ {i} : s.of[j][2] + 1 < s.of[i][1] \/ s.of[i][2] + 1 < s.of[j][1]
  BY Looked DEF Sound, Whole, Apart
<1>2. PICK u : u = Written(s, PutInterval(i, b, e))  OBVIOUS
<1>3. \A j \in ToSet(s.list) \ {i} : e + 1 < s.of[j][1] \/ s.of[j][2] + 1 < b
  <2> SUFFICES ASSUME NEW j \in ToSet(s.list) \ {i}
               PROVE  e + 1 < s.of[j][1] \/ s.of[j][2] + 1 < b
    OBVIOUS
  <2>1. PICK lo, hi, first, last : /\ lo = s.of[i][1] /\ hi = s.of[i][2]
                                   /\ first = s.of[j][1] /\ last = s.of[j][2]
    OBVIOUS
  <2>2. /\ lo \in Nat /\ hi \in Nat /\ first \in Nat /\ last \in Nat
        /\ last + 1 < lo \/ hi + 1 < first
        /\ lo <= b /\ e <= hi
    BY <1>1, <2>1
  <2> QED  BY <2>1, <2>2
<1>4. Sound(u) /\ u.list = s.list /\ Covered(u) = Elsewhere(s, i) \cup b .. e
  BY <1>2, <1>3, Resized
<1>5. PICK list : list = s.list  OBVIOUS
<1>6. PICK t : t = Written(u, PutScope(list))  OBVIOUS
<1>7. Whole(u) /\ list \in Seq(Nat) /\ ToSet(list) \subseteq DOMAIN u.of
  BY <1>1, <1>4, <1>5 DEF Sound, Whole
<1>8. Whole(t) /\ t.list = u.list /\ t.of = u.of  BY <1>4, <1>5, <1>6, <1>7, ListWritten
<1>9. Sound(t) /\ Covered(t) = Covered(u)  BY <1>4, <1>8 DEF Sound, Covered
<1>10. Leads(s, <<PutInterval(i, b, e), PutScope(list)>>, t)  BY <1>1, <1>2, <1>6, <1>7, <1>8, LeadsTwo
<1>11. /\ Covered(s) = Elsewhere(s, i) \cup s.of[i][1] .. s.of[i][2]
       /\ Elsewhere(s, i) \cap s.of[i][1] .. s.of[i][2] = {}
  BY CoveredSplit
<1>12. Covered(t) = Covered(s) \ {v}
  <2>1. v \notin Elsewhere(s, i)  BY <1>11
  <2> QED  BY <1>4, <1>9, <1>11, <2>1
<1> QED  BY <1>5, <1>9, <1>10, <1>12

(* revokeValue: exactly the value is taken out of the numbers in use       *)
(* (numerator.js:223-319).                                                 *)
LEMMA RevokeTakes ==
    ASSUME NEW s, Sound(s), NEW v \in Nat
    PROVE  \E t : Leads(s, RevokeValue(s, v), t) /\ Sound(t) /\ Covered(t) = Covered(s) \ {v}
<1>1. /\ s \in NumberStates /\ Whole(s) /\ s.list \in Seq(Nat) /\ IsInjective(s.list)
      /\ ToSet(s.list) \subseteq DOMAIN s.of
  BY Looked DEF Sound, Whole
<1>2. CASE In(s, v) = {}
  <2>1. PICK list : list = s.list  OBVIOUS
  <2>2. PICK t : t = Written(s, PutScope(list))  OBVIOUS
  <2>3. Whole(t) /\ t.list = s.list /\ t.of = s.of  BY <1>1, <2>1, <2>2, ListWritten
  <2>4. Sound(t) /\ Covered(t) = Covered(s)  BY <2>3 DEF Sound, Covered
  <2>5. v \notin Covered(s)  BY <1>2 DEF In, Covered, CoveredBy
  <2>6. Leads(s, <<PutScope(list)>>, t)  BY <1>1, <2>2, <2>3, LeadsOne
  <2>7. RevokeValue(s, v) = <<PutScope(list)>>  BY <1>2, <2>1 DEF RevokeValue
  <2> QED  BY <2>4, <2>5, <2>6, <2>7
<1>3. CASE In(s, v) # {}
  <2>1. PICK i : i = The(In(s, v))  OBVIOUS
  <2>2. i \in ToSet(s.list) /\ s.of[i][1] <= v /\ v <= s.of[i][2]
    <3>1. i \in In(s, v)  BY <1>3, <2>1, TheIn
    <3> QED  BY <3>1 DEF In
  <2>3. PICK lo, hi : lo = s.of[i][1] /\ hi = s.of[i][2]  OBVIOUS
  <2>4. lo \in Nat /\ hi \in Nat /\ lo <= v /\ v <= hi  BY <2>2, <2>3, Looked
  <2>5. CASE lo = hi
    <3>1. PICK list : list = Without(s.list, i)  OBVIOUS
    <3>2. /\ list \in Seq(Nat) /\ IsInjective(list) /\ ToSet(list) = ToSet(s.list) \ {i}
      BY <1>1, <2>2, <3>1, WithoutFacts
    <3>3. PICK t : t = Written(s, PutScope(list))  OBVIOUS
    <3>4. ToSet(list) \subseteq DOMAIN s.of  BY <1>1, <3>2
    <3>5. Whole(t) /\ t.list = list /\ t.of = s.of  BY <1>1, <3>2, <3>3, <3>4, ListWritten
    <3>6. Sound(t)  BY <3>2, <3>5 DEF Sound
    <3>7. Covered(t) = Elsewhere(s, i)  BY <3>2, <3>5 DEF Covered, CoveredBy, Elsewhere
    <3>8. Covered(s) = Elsewhere(s, i) \cup lo .. hi /\ Elsewhere(s, i) \cap lo .. hi = {}
      BY <2>2, <2>3, CoveredSplit
    <3>9. lo .. hi = {v}  BY <2>4, <2>5
    <3>10. Leads(s, <<PutScope(list)>>, t)  BY <1>1, <3>3, <3>5, LeadsOne
    <3>11. RevokeValue(s, v) = <<PutScope(list)>>  BY <1>3, <2>1, <2>3, <2>5, <3>1 DEF RevokeValue
    <3> QED  BY <3>6, <3>7, <3>8, <3>9, <3>10, <3>11
  <2>6. CASE lo # hi /\ lo = v
    <3>1. RevokeValue(s, v) = <<PutInterval(i, v + 1, hi), PutScope(s.list)>>
      BY <1>3, <2>1, <2>3, <2>6 DEF RevokeValue
    <3>2. PICK b : b = v + 1  OBVIOUS
    <3>3. /\ b \in Nat /\ b <= hi /\ lo <= b
          /\ lo .. hi = (b .. hi) \cup {v} /\ v \notin b .. hi
      BY <2>4, <2>6, <3>2
    <3> QED  BY SMTT(60), <2>2, <2>3, <2>4, <3>1, <3>2, <3>3, RevokeTrims
  <2>7. CASE lo # hi /\ lo # v /\ hi = v
    <3>1. RevokeValue(s, v) = <<PutInterval(i, lo, v - 1), PutScope(s.list)>>
      BY <1>3, <2>1, <2>3, <2>7 DEF RevokeValue
    <3>2. PICK e : e = v - 1  OBVIOUS
    <3>3. /\ e \in Nat /\ lo <= e /\ e <= hi
          /\ lo .. hi = (lo .. e) \cup {v} /\ v \notin lo .. e
      BY <2>4, <2>7, <3>2
    <3> QED  BY SMTT(60), <2>2, <2>3, <2>4, <3>1, <3>2, <3>3, RevokeTrims
  <2>8. CASE lo # hi /\ lo # v /\ hi # v
    <3>1. RevokeValue(s, v) = <<PutInterval(i, lo, v - 1), PutInterval(NewId(s), v + 1, hi),
                                PutScope(Append(s.list, NewId(s)))>>
      BY <1>3, <2>1, <2>3, <2>8 DEF RevokeValue
    <3>2. s.of[i][1] < v /\ v < s.of[i][2]  BY <2>3, <2>4, <2>8
    <3> QED  BY <2>2, <2>3, <3>1, <3>2, RevokeCuts
  <2> QED  BY <2>5, <2>6, <2>7, <2>8
<1> QED  BY <1>2, <1>3

-----------------------------------------------------------------------------
(* The next number.                                                        *)
LEMMA MaxIs ==
    ASSUME NEW S \in SUBSET Nat, S # {}, NEW b \in Nat, \A x \in S : x <= b
    PROVE  Max(S) \in S /\ \A x \in S : x <= Max(S)
<1> DEFINE U == {c \in Nat : \A x \in S : x <= c}
<1>1. U \in SUBSET Nat /\ b \in U  OBVIOUS
<1>2. PICK m \in U : \A c \in U : m <= c
  <2> HIDE DEF U
  <2> QED  BY <1>1, LeastNumber
<1>3. m \in Nat /\ \A x \in S : x <= m  BY <1>2
<1>4. m \in S
  <2> SUFFICES ASSUME m \notin S PROVE FALSE  OBVIOUS
  <2>1. \A x \in S : x \in Nat /\ x < m  BY <1>3
  <2>2. m >= 1 /\ m - 1 \in Nat /\ \A x \in S : x <= m - 1
    <3>1. PICK x \in S : x \in Nat /\ x < m  BY <2>1
    <3>2. m >= 1 /\ m - 1 \in Nat  BY <1>3, <3>1
    <3>3. \A y \in Nat : y < m => y <= m - 1  BY <1>3
    <3> QED  BY <2>1, <3>2, <3>3
  <2>3. m - 1 \in U  BY <2>2
  <2>4. m <= m - 1  BY <1>2, <2>3
  <2> QED  BY <1>3, <2>4
<1>5. \E x \in S : \A y \in S : x >= y  BY <1>3, <1>4
<1>6. Max(S) \in S /\ \A y \in S : Max(S) >= y  BY <1>5 DEF Max
<1> QED  BY <1>6

(* getNextValueSimple: a number that is not in use (numerator.js:329-370). *)
LEMMA NextFree ==
    ASSUME NEW s, Sound(s)
    PROVE  GetNextValue(s) \in Nat \ {0} /\ GetNextValue(s) \notin Covered(s)
<1>1. /\ s.list \in Seq(Nat) /\ ToSet(s.list) \subseteq Nat
      /\ \A i \in ToSet(s.list) : s.of[i][1] \in Nat /\ s.of[i][2] \in Nat
  BY Looked
<1>2. CASE s.list = <<>>
  <2>1. ToSet(s.list) = {}  BY <1>2 DEF ToSet
  <2>2. GetNextValue(s) = 1  BY <1>2 DEF GetNextValue
  <2> QED  BY <2>1, <2>2 DEF Covered, CoveredBy
<1>3. CASE s.list # <<>>
  <2>1. PICK n, S : n = Len(s.list) /\ S = {s.of[i][2] : i \in ToSet(s.list)}  OBVIOUS
  <2>2. n \in Nat /\ n >= 1 /\ \A k \in 1 .. n : s.list[k] \in ToSet(s.list)
    BY <1>1, <1>3, <2>1 DEF ToSet
  <2>3. \A i \in ToSet(s.list) : \E k \in 1 .. n : i = s.list[k]  BY <1>1, <2>1 DEF ToSet
  <2>4. S \in SUBSET Nat  BY <1>1, <2>1
  <2>5. S # {}
    <3>1. 1 \in 1 .. n  BY <2>2
    <3> QED  BY <2>1, <2>2, <3>1
  <2>6. PICK g : g = [k \in 1 .. n |-> s.of[s.list[k]][2]]  OBVIOUS
  <2>7. g \in [1 .. n -> Nat]  BY <1>1, <2>2, <2>6
  <2>8. PICK b \in Nat : \A k \in 1 .. n : g[k] <= b  BY <2>2, <2>7, ListBounded
  <2>9. \A x \in S : x <= b
    <3> SUFFICES ASSUME NEW i \in ToSet(s.list) PROVE s.of[i][2] <= b  BY <2>1
    <3>1. PICK k \in 1 .. n : i = s.list[k]  BY <2>3
    <3>2. g[k] = s.of[i][2]  BY <2>6, <3>1
    <3> QED  BY <2>8, <3>2
  <2>10. Max(S) \in S /\ \A x \in S : x <= Max(S)  BY <2>4, <2>5, <2>9, MaxIs
  <2>11. GetNextValue(s) = Max(S) + 1  BY <1>3, <2>1 DEF GetNextValue
  <2>12. PICK m : m = Max(S)  OBVIOUS
  <2>13. m \in Nat /\ \A i \in ToSet(s.list) : s.of[i][2] <= m  BY <2>1, <2>4, <2>10, <2>12
  <2>14. m + 1 \notin Covered(s)
    <3>1. \A i \in ToSet(s.list) : ~(m + 1 <= s.of[i][2])  BY <1>1, <2>13
    <3> QED  BY <3>1 DEF Covered, CoveredBy
  <2> QED  BY <2>11, <2>12, <2>13, <2>14
<1> QED  BY <1>2, <1>3

-----------------------------------------------------------------------------
(* What kind of writes a commit and a revoke make.                         *)
NumberWrites ==
    [kind : {"interval"}, id : Nat, value : Nat \X Nat]
        \cup [kind : {"scope"}, id : {0}, value : Seq(Nat)]

LEMMA WriteTyped ==
    /\ \A i, b, e \in Nat : PutInterval(i, b, e) \in NumberWrites
    /\ \A list \in Seq(Nat) : PutScope(list) \in NumberWrites
    /\ \A w \in NumberWrites : w \in WriteRecords /\ w.kind \in {"interval", "scope"}
<1>1. \A i, b, e \in Nat : PutInterval(i, b, e) \in NumberWrites
  <2> SUFFICES ASSUME NEW i \in Nat, NEW b \in Nat, NEW e \in Nat
               PROVE  PutInterval(i, b, e) \in [kind : {"interval"}, id : Nat, value : Nat \X Nat]
    BY DEF NumberWrites
  <2>1. PICK p : p = <<b, e>>  OBVIOUS
  <2>2. p \in Nat \X Nat  BY <2>1
  <2>3. PutInterval(i, b, e) = [kind |-> "interval", id |-> i, value |-> p]
    BY <2>1 DEF PutInterval
  <2> QED  BY <2>2, <2>3
<1>2. \A list \in Seq(Nat) : PutScope(list) \in NumberWrites  BY DEF PutScope, NumberWrites
<1>3. \A w \in NumberWrites : w \in WriteRecords /\ w.kind \in {"interval", "scope"}
  BY DEF NumberWrites, WriteRecords
<1> QED  BY <1>1, <1>2, <1>3

LEMMA CommitTyped ==
    ASSUME NEW s, Sound(s), NEW v \in Nat
    PROVE  CommitValue(s, v) \in Seq(NumberWrites) /\ Len(CommitValue(s, v)) <= 2
<1>1. /\ s.list \in Seq(Nat) /\ IsInjective(s.list) /\ ToSet(s.list) \subseteq Nat
      /\ \A i \in ToSet(s.list) : i \in Nat /\ s.of[i][1] \in Nat /\ s.of[i][2] \in Nat
      /\ NewId(s) \in Nat
  <2>1. s.of \in Seq(Nat \X Nat)  BY Looked
  <2>2. NewId(s) \in Nat  BY <2>1 DEF NewId
  <2>3. IsInjective(s.list)  BY DEF Sound
  <2> QED  BY <2>2, <2>3, Looked
<1> DEFINE before == EndsAt(s, v - 1)  after == BeginsAt(s, v + 1)
<1>2. /\ before # {} => The(before) \in ToSet(s.list)
      /\ after # {} => The(after) \in ToSet(s.list)
  <2>1. before \subseteq ToSet(s.list) /\ after \subseteq ToSet(s.list)  BY DEF EndsAt, BeginsAt
  <2> HIDE DEF before, after
  <2> QED  BY <2>1, TheIn
<1>3. PICK a, b : a = The(after) /\ b = The(before)  OBVIOUS
<1> HIDE DEF before, after
<1>4. \/ CommitValue(s, v) = <<>>
      \/ /\ before # {} /\ after # {}
         /\ CommitValue(s, v) = <<PutInterval(b, s.of[b][1], s.of[a][2]), PutScope(Without(s.list, a))>>
      \/ before # {} /\ CommitValue(s, v) = <<PutInterval(b, s.of[b][1], v)>>
      \/ after # {} /\ CommitValue(s, v) = <<PutInterval(a, v, s.of[a][2])>>
      \/ CommitValue(s, v) = <<PutInterval(NewId(s), v, v), PutScope(Append(s.list, NewId(s)))>>
  BY <1>3 DEF CommitValue, before, after
<1>5. \A x, y \in NumberWrites :
          /\ <<>> \in Seq(NumberWrites) /\ Len(<<>>) <= 2
          /\ <<x>> \in Seq(NumberWrites) /\ Len(<<x>>) <= 2
          /\ <<x, y>> \in Seq(NumberWrites) /\ Len(<<x, y>>) <= 2
  OBVIOUS
<1>6. CASE CommitValue(s, v) = <<>>  BY <1>6
<1>7. CASE /\ before # {} /\ after # {}
           /\ CommitValue(s, v) = <<PutInterval(b, s.of[b][1], s.of[a][2]), PutScope(Without(s.list, a))>>
  <2>1. a \in ToSet(s.list) /\ b \in ToSet(s.list)  BY <1>2, <1>3, <1>7
  <2>2. Without(s.list, a) \in Seq(Nat)  BY <1>1, <2>1, WithoutFacts
  <2>3. PutInterval(b, s.of[b][1], s.of[a][2]) \in NumberWrites  BY <1>1, <2>1, WriteTyped
  <2>4. PutScope(Without(s.list, a)) \in NumberWrites  BY <2>2, WriteTyped
  <2> QED  BY <1>5, <1>7, <2>3, <2>4
<1>8. CASE before # {} /\ CommitValue(s, v) = <<PutInterval(b, s.of[b][1], v)>>
  <2>1. b \in ToSet(s.list)  BY <1>2, <1>3, <1>8
  <2>2. PutInterval(b, s.of[b][1], v) \in NumberWrites  BY <1>1, <2>1, WriteTyped
  <2> QED  BY <1>5, <1>8, <2>2
<1>9. CASE after # {} /\ CommitValue(s, v) = <<PutInterval(a, v, s.of[a][2])>>
  <2>1. a \in ToSet(s.list)  BY <1>2, <1>3, <1>9
  <2>2. PutInterval(a, v, s.of[a][2]) \in NumberWrites  BY <1>1, <2>1, WriteTyped
  <2> QED  BY <1>5, <1>9, <2>2
<1>10. CASE CommitValue(s, v) = <<PutInterval(NewId(s), v, v), PutScope(Append(s.list, NewId(s)))>>
  <2>1. PutInterval(NewId(s), v, v) \in NumberWrites  BY <1>1, WriteTyped
  <2>2. Append(s.list, NewId(s)) \in Seq(Nat)  BY <1>1
  <2>3. PutScope(Append(s.list, NewId(s))) \in NumberWrites  BY <2>2, WriteTyped
  <2> QED  BY <1>5, <1>10, <2>1, <2>3
<1> QED  BY <1>4, <1>6, <1>7, <1>8, <1>9, <1>10

LEMMA RevokeTyped ==
    ASSUME NEW s, Sound(s), NEW v \in Nat
    PROVE  RevokeValue(s, v) \in Seq(NumberWrites)
<1>1. /\ s.list \in Seq(Nat) /\ IsInjective(s.list) /\ ToSet(s.list) \subseteq Nat
      /\ \A j \in ToSet(s.list) : j \in Nat /\ s.of[j][1] \in Nat /\ s.of[j][2] \in Nat
      /\ NewId(s) \in Nat
  <2>1. s.of \in Seq(Nat \X Nat)  BY Looked
  <2>2. NewId(s) \in Nat  BY <2>1 DEF NewId
  <2>3. IsInjective(s.list)  BY DEF Sound
  <2> QED  BY <2>2, <2>3, Looked
<1>2. PutScope(s.list) \in NumberWrites  BY <1>1, WriteTyped
<1>3. \A x, y, z \in NumberWrites :
          <<x>> \in Seq(NumberWrites) /\ <<x, y>> \in Seq(NumberWrites) /\ <<x, y, z>> \in Seq(NumberWrites)
  OBVIOUS
<1>4. CASE In(s, v) = {}
  <2>1. RevokeValue(s, v) = <<PutScope(s.list)>>  BY <1>4 DEF RevokeValue
  <2> QED  BY <1>2, <1>3, <2>1
<1>5. CASE In(s, v) # {}
  <2>1. PICK i : i = The(In(s, v))  OBVIOUS
  <2>2. i \in ToSet(s.list) /\ s.of[i][1] <= v /\ v <= s.of[i][2]
    <3>1. i \in In(s, v)  BY <1>5, <2>1, TheIn
    <3> QED  BY <3>1 DEF In
  <2>3. PICK lo, hi, n : lo = s.of[i][1] /\ hi = s.of[i][2] /\ n = NewId(s)  OBVIOUS
  <2>4. lo \in Nat /\ hi \in Nat /\ lo <= v /\ v <= hi /\ i \in Nat /\ n \in Nat
    BY <1>1, <2>2, <2>3
  <2>5. PICK gone : gone = Without(s.list, i)  OBVIOUS
  <2>6. gone \in Seq(Nat)  BY <1>1, <2>2, <2>5, WithoutFacts
  <2>7. \/ RevokeValue(s, v) = <<PutScope(gone)>>
        \/ lo = v /\ RevokeValue(s, v) = <<PutInterval(i, v + 1, hi), PutScope(s.list)>>
        \/ lo # v /\ RevokeValue(s, v) = <<PutInterval(i, lo, v - 1), PutScope(s.list)>>
        \/ lo # v /\ RevokeValue(s, v) = <<PutInterval(i, lo, v - 1), PutInterval(n, v + 1, hi),
                                           PutScope(Append(s.list, n))>>
    BY <1>5, <2>1, <2>3, <2>5 DEF RevokeValue
  <2>8. /\ v + 1 \in Nat /\ lo # v => v - 1 \in Nat
        /\ PutScope(gone) \in NumberWrites
        /\ PutInterval(i, v + 1, hi) \in NumberWrites /\ PutInterval(n, v + 1, hi) \in NumberWrites
    BY <2>4, <2>6, WriteTyped
  <2>9. lo # v => PutInterval(i, lo, v - 1) \in NumberWrites
    <3> SUFFICES ASSUME lo # v PROVE PutInterval(i, lo, v - 1) \in NumberWrites  OBVIOUS
    <3>1. v - 1 \in Nat  BY <2>4
    <3> QED  BY <2>4, <3>1, WriteTyped
  <2>10. PutScope(Append(s.list, n)) \in NumberWrites
    <3>1. Append(s.list, n) \in Seq(Nat)  BY <1>1, <2>4
    <3> QED  BY <3>1, WriteTyped
  <2> QED  BY <1>2, <1>3, <2>7, <2>8, <2>9, <2>10
<1> QED  BY <1>4, <1>5

(* What the script computes with after a commit is what is stored then.    *)
LEMMA AfterLeads ==
    ASSUME NEW s, NEW ws \in Seq(NumberWrites), Len(ws) <= 2, NEW t, Leads(s, ws, t)
    PROVE  After(s, ws) = t
<1>1. PICK f \in [0 .. Len(ws) -> NumberStates] : Path(f, s, ws, t)  BY DEF Leads
<1>2. PICK n : n = Len(ws)  OBVIOUS
<1>3. n \in {0, 1, 2} /\ (n = 0 <=> ws = <<>>)  BY <1>2
<1>4. /\ f[0] = s /\ f[n] = t
      /\ \A k \in 1 .. n : f[k] = Written(f[k - 1], ws[k])
  BY <1>1, <1>2 DEF Path
<1>5. \A k \in 1 .. n : ws[k] \in NumberWrites  BY <1>2
<1>6. \A k \in 1 .. n : f[k] = With(f[k - 1], ws[k])  BY <1>4, <1>5, WriteTyped DEF Written
<1>7. CASE n = 0  BY <1>2, <1>3, <1>4, <1>7 DEF After
<1>8. CASE n = 1
  <2>1. f[1] = With(f[1 - 1], ws[1]) /\ 1 - 1 = 0  BY <1>6, <1>8
  <2> QED  BY <1>2, <1>3, <1>4, <1>8, <2>1 DEF After
<1>9. CASE n = 2
  <2>1. f[1] = With(f[1 - 1], ws[1]) /\ 1 - 1 = 0 /\ f[2] = With(f[2 - 1], ws[2]) /\ 2 - 1 = 1
    BY <1>6, <1>9
  <2>2. f[1] = With(s, ws[1]) /\ f[2] = With(f[1], ws[2])  BY <1>4, <2>1
  <2> QED  BY <1>2, <1>3, <1>4, <1>9, <2>2 DEF After
<1> QED  BY <1>3, <1>7, <1>8, <1>9

-----------------------------------------------------------------------------
(* What the script writes for a change: to the numbers, and then to the    *)
(* document, which is r in the end.                                        *)
LEMMA LeadsAppend ==
    ASSUME NEW s, NEW t, NEW ws \in Seq(WriteRecords), Leads(s, ws, t), Whole(t),
           NEW w \in WriteRecords, w.kind \in {"doc", "end"}
    PROVE  Leads(s, Append(ws, w), t)
<1>1. Written(t, w) = t  BY DEF Written
<1>2. t \in NumberStates  BY DEF Whole
<1>3. Leads(t, <<w>>, t)  BY <1>1, <1>2, LeadsOne
<1>4. PICK b : b = <<w>>  OBVIOUS
<1>5. b \in Seq(WriteRecords) /\ ws \o b = Append(ws, w)
  <2>1. <<w>> \in Seq(WriteRecords)  OBVIOUS
  <2>2. \A a \in Seq(WriteRecords) : a \o <<w>> = Append(a, w)  OBVIOUS
  <2> QED  BY <1>4, <2>1, <2>2
<1>6. Leads(t, b, t)  BY <1>3, <1>4
<1>7. Leads(s, ws \o b, t)  BY <1>5, <1>6, LeadsBoth
<1> QED  BY <1>5, <1>7

(* Writes that leave C in use.                                             *)
Brings(s, ws, C) ==
    /\ ws \in Seq(NumberWrites)
    /\ \E t : Leads(s, ws, t) /\ Sound(t) /\ Covered(t) = C

(* A commit and then a revoke of another number.                           *)
LEMMA CommitRevoke ==
    ASSUME NEW s, Sound(s), NEW v \in Nat, NEW x \in Nat,
           NEW ws, ws = CommitValue(s, v) \o RevokeValue(After(s, CommitValue(s, v)), x)
    PROVE  Brings(s, ws, (Covered(s) \cup {v}) \ {x})
<1>1. PICK a : a = CommitValue(s, v)  OBVIOUS
<1>2. a \in Seq(NumberWrites) /\ Len(a) <= 2  BY <1>1, CommitTyped
<1>3. PICK u : Leads(s, a, u) /\ Sound(u) /\ Covered(u) = Covered(s) \cup {v}
  BY <1>1, CommitAdds
<1>4. After(s, a) = u  BY <1>2, <1>3, AfterLeads
<1>5. PICK b : b = RevokeValue(u, x)  OBVIOUS
<1>6. b \in Seq(NumberWrites)  BY <1>3, <1>5, RevokeTyped
<1>7. PICK t : Leads(u, b, t) /\ Sound(t) /\ Covered(t) = Covered(u) \ {x}
  BY <1>3, <1>5, RevokeTakes
<1>8. Leads(s, a \o b, t)  BY <1>2, <1>3, <1>6, <1>7, LeadsBoth
<1>9. a \o b \in Seq(NumberWrites)  BY <1>2, <1>6, ConcatProperties
<1> QED  BY <1>1, <1>3, <1>4, <1>5, <1>7, <1>8, <1>9 DEF Brings

LEMMA WritesTyped == Seq(NumberWrites) \subseteq Seq(WriteRecords)
<1>1. NumberWrites \subseteq WriteRecords  BY WriteTyped
<1> QED  BY <1>1

(* Treating makes writes to the numbers, and one at most to the document.  *)
Drafted(d, prev, s, ns, t, r) ==
    /\ ns \in Seq(NumberWrites) /\ Leads(s, ns, t) /\ Sound(t) /\ r \in DocRecords
    /\ \/ Numerate(d, prev) = ns /\ r = doc[d]
       \/ Numerate(d, prev) = Append(ns, PutDoc(d, r)) /\ doc[d].number = 0

(* What numerate does, by what the document is and was; C is in use.  The  *)
(* document becomes r, and C2 is in use then.                              *)
Drafts(d, prev, r, C2) ==
    \E ns, t : Drafted(d, prev, Numbers, ns, t, r) /\ Covered(t) = C2

DraftCases(d, prev, C) ==
    \/ /\ doc[d].number # 0 /\ doc[d].number = prev.number /\ doc[d].deleted = prev.deleted
       /\ Drafts(d, prev, doc[d], C)
    \/ /\ doc[d].number = 0 /\ prev.number = 0
       /\ \E v \in Nat \ {0} : v \notin C /\ Drafts(d, prev, [doc[d] EXCEPT !.number = v], C \cup {v})
    \/ /\ doc[d].number = 0 /\ prev.number # 0
       /\ Drafts(d, prev, [doc[d] EXCEPT !.number = prev.number], C)
    \/ /\ doc[d].number # 0 /\ ~prev.here
       /\ Drafts(d, prev, doc[d], C \cup {doc[d].number})
    \/ /\ doc[d].number # 0 /\ prev.here /\ doc[d].deleted
       /\ Drafts(d, prev, doc[d], C \ {doc[d].number})
    \/ /\ doc[d].number # 0 /\ prev.here /\ ~doc[d].deleted
       /\ prev.number # 0 /\ doc[d].number # prev.number
       /\ Drafts(d, prev, doc[d], (C \cup {doc[d].number}) \ {prev.number})
    \/ /\ doc[d].number # 0 /\ prev.here /\ ~doc[d].deleted
       /\ prev.number = 0 \/ doc[d].number = prev.number
       /\ Drafts(d, prev, doc[d], C)

LEMMA NumerateDrafts ==
    ASSUME doc \in [Docs -> DocRecords], NEW d \in Docs, NEW prev \in DocRecords, Sound(Numbers)
    PROVE  DraftCases(d, prev, Covered(Numbers))
<1>1. PICK now, n, s, C : /\ now = doc[d] /\ n = doc[d].number
                          /\ s = Numbers /\ C = Covered(Numbers)
  OBVIOUS
<1>2. /\ Sound(s) /\ s \in NumberStates /\ now \in DocRecords /\ n \in Nat /\ n = now.number
      /\ prev.number \in Nat
  BY <1>1 DEF Sound, Whole, DocRecords
<1>3. Leads(s, <<>>, s) /\ <<>> \in Seq(NumberWrites)  BY <1>2, LeadsNone
<1>4. CASE n # 0 /\ n = prev.number /\ now.deleted = prev.deleted
  <2>1. Numerate(d, prev) = <<>>  BY <1>1, <1>4 DEF Numerate
  <2>2. Drafted(d, prev, s, <<>>, s, now)  BY <1>1, <1>2, <1>3, <2>1 DEF Drafted
  <2>3. Drafts(d, prev, now, C)  BY <1>1, <2>2 DEF Drafts
  <2> QED  BY <1>1, <1>4, <2>3 DEF DraftCases
<1>5. CASE n = 0 /\ prev.number = 0
  <2>1. PICK v : v = GetNextValue(s)  OBVIOUS
  <2>2. v \in Nat \ {0} /\ v \notin C  BY <1>1, <1>2, <2>1, NextFree
  <2>3. PICK ns, r : ns = CommitValue(s, v) /\ r = [now EXCEPT !.number = v]  OBVIOUS
  <2>4. ns \in Seq(NumberWrites)  BY <1>2, <2>2, <2>3, CommitTyped
  <2>5. PICK t : Leads(s, ns, t) /\ Sound(t) /\ Covered(t) = C \cup {v}
    BY <1>1, <1>2, <2>2, <2>3, CommitAdds
  <2>6. Numerate(d, prev) = Append(ns, PutDoc(d, r))
    BY <1>1, <1>5, <2>1, <2>3 DEF Numerate
  <2>7. r \in DocRecords  BY <1>2, <2>2, <2>3 DEF DocRecords
  <2>8. Drafted(d, prev, s, ns, t, r)  BY <1>1, <1>5, <2>4, <2>5, <2>6, <2>7 DEF Drafted
  <2>9. Drafts(d, prev, r, C \cup {v})  BY <1>1, <2>5, <2>8 DEF Drafts
  <2> QED  BY <1>1, <1>5, <2>2, <2>3, <2>9 DEF DraftCases
<1>6. CASE n = 0 /\ prev.number # 0
  <2>1. PICK r : r = [now EXCEPT !.number = prev.number]  OBVIOUS
  <2>2. Numerate(d, prev) = <<PutDoc(d, r)>>  BY <1>1, <1>6, <2>1 DEF Numerate
  <2>3. <<PutDoc(d, r)>> = Append(<<>>, PutDoc(d, r))  OBVIOUS
  <2>4. r \in DocRecords  BY <1>2, <2>1 DEF DocRecords
  <2>5. Drafted(d, prev, s, <<>>, s, r)  BY <1>1, <1>2, <1>3, <1>6, <2>2, <2>3, <2>4 DEF Drafted
  <2>6. Drafts(d, prev, r, C)  BY <1>1, <2>5 DEF Drafts
  <2> QED  BY <1>1, <1>6, <2>1, <2>6 DEF DraftCases
<1>7. CASE n # 0 /\ ~(n = prev.number /\ now.deleted = prev.deleted) /\ ~prev.here
  <2>1. PICK ns : ns = CommitValue(s, n)  OBVIOUS
  <2>2. ns \in Seq(NumberWrites)  BY <1>2, <2>1, CommitTyped
  <2>3. PICK t : Leads(s, ns, t) /\ Sound(t) /\ Covered(t) = C \cup {n}
    BY <1>1, <1>2, <2>1, CommitAdds
  <2>4. Numerate(d, prev) = ns  BY <1>1, <1>7, <2>1 DEF Numerate
  <2>5. Drafted(d, prev, s, ns, t, now)  BY <1>1, <1>2, <2>2, <2>3, <2>4 DEF Drafted
  <2>6. Drafts(d, prev, now, C \cup {n})  BY <1>1, <2>3, <2>5 DEF Drafts
  <2> QED  BY <1>1, <1>7, <2>6 DEF DraftCases
<1>8. CASE n # 0 /\ ~(n = prev.number /\ now.deleted = prev.deleted) /\ prev.here /\ now.deleted
  <2>1. PICK ns : ns = RevokeValue(s, n)  OBVIOUS
  <2>2. ns \in Seq(NumberWrites)  BY <1>2, <2>1, RevokeTyped
  <2>3. PICK t : Leads(s, ns, t) /\ Sound(t) /\ Covered(t) = C \ {n}
    BY <1>1, <1>2, <2>1, RevokeTakes
  <2>4. Numerate(d, prev) = ns  BY <1>1, <1>8, <2>1 DEF Numerate
  <2>5. Drafted(d, prev, s, ns, t, now)  BY <1>1, <1>2, <2>2, <2>3, <2>4 DEF Drafted
  <2>6. Drafts(d, prev, now, C \ {n})  BY <1>1, <2>3, <2>5 DEF Drafts
  <2> QED  BY <1>1, <1>8, <2>6 DEF DraftCases
<1>9. CASE /\ n # 0 /\ ~(n = prev.number /\ now.deleted = prev.deleted) /\ prev.here /\ ~now.deleted
           /\ prev.number # 0 /\ n # prev.number
  <2>1. PICK ns : ns = CommitValue(s, n) \o RevokeValue(After(s, CommitValue(s, n)), prev.number)
    OBVIOUS
  <2>2. /\ ns \in Seq(NumberWrites)
        /\ \E t : Leads(s, ns, t) /\ Sound(t) /\ Covered(t) = (C \cup {n}) \ {prev.number}
    <3>1. PICK p : p = prev.number  OBVIOUS
    <3>2. p \in Nat /\ n \in Nat /\ Sound(s)  BY <1>2, <3>1
    <3>3. ns = CommitValue(s, n) \o RevokeValue(After(s, CommitValue(s, n)), p)  BY <2>1, <3>1
    <3>4. Brings(s, ns, (Covered(s) \cup {n}) \ {p})  BY <3>2, <3>3, CommitRevoke
    <3> QED  BY <1>1, <3>1, <3>4 DEF Brings
  <2>3. PICK t : Leads(s, ns, t) /\ Sound(t) /\ Covered(t) = (C \cup {n}) \ {prev.number}
    BY <2>2
  <2>4. Numerate(d, prev) = ns  BY <1>1, <1>9, <2>1 DEF Numerate
  <2>5. Drafted(d, prev, s, ns, t, now)  BY <1>1, <1>2, <2>2, <2>3, <2>4 DEF Drafted
  <2>6. Drafts(d, prev, now, (C \cup {n}) \ {prev.number})  BY <1>1, <2>3, <2>5 DEF Drafts
  <2> QED  BY <1>1, <1>9, <2>6 DEF DraftCases
<1>10. CASE /\ n # 0 /\ ~(n = prev.number /\ now.deleted = prev.deleted) /\ prev.here /\ ~now.deleted
            /\ prev.number = 0 \/ n = prev.number
  <2>1. Numerate(d, prev) = <<>>  BY <1>1, <1>10 DEF Numerate
  <2>2. Drafted(d, prev, s, <<>>, s, now)  BY <1>1, <1>2, <1>3, <2>1 DEF Drafted
  <2>3. Drafts(d, prev, now, C)  BY <1>1, <2>2 DEF Drafts
  <2> QED  BY <1>1, <1>10, <2>3 DEF DraftCases
<1> QED  BY <1>1, <1>4, <1>5, <1>6, <1>7, <1>8, <1>9, <1>10

-----------------------------------------------------------------------------
(* What is settled stays settled.                                          *)
Waits(Q, d, p) == \E k \in DOMAIN Q : Q[k].doc = d /\ Q[k].prev = p

LEMMA PriorQueued ==
    ASSUME NEW D, NEW Q \in Seq(ChangeRecords), OneEach(Q), NEW d, NEW p, Waits(Q, d, p)
    PROVE  Prior(D, Q, d) = p
<1>1. PICK k \in DOMAIN Q : Q[k].doc = d /\ Q[k].prev = p  BY DEF Waits
<1>2. d \in QueuedDocs(Q)  BY <1>1 DEF QueuedDocs
<1>3. PICK i \in DOMAIN Q : i = CHOOSE j \in DOMAIN Q : Q[j].doc = d  BY <1>1
<1>4. Q[i].doc = d  BY <1>1, <1>3
<1>5. i = k  BY <1>1, <1>4 DEF OneEach
<1> QED  BY <1>1, <1>2, <1>3, <1>5 DEF Prior

(* A user makes a change.                                                  *)
LEMMA ChangeSettles ==
    ASSUME NEW D \in [Docs -> DocRecords], NEW C, NEW Q \in Seq(ChangeRecords), Settled(D, C, Q),
           NEW d \in Docs, d \notin QueuedDocs(Q), NEW r \in DocRecords, r.here,
           NEW E, E = [D EXCEPT ![d] = r], NEW q, q = [doc |-> d, prev |-> D[d]],
           Plain(E, q) \/ (Q = <<>> /\ Entered(E, C, q))
    PROVE  Settled(E, C, Append(Q, q))
<1>1. PICK n, R : n = Len(Q) /\ R = Append(Q, q)  OBVIOUS
<1>2. q \in ChangeRecords /\ q.doc = d /\ q.prev = D[d]  BY DEF ChangeRecords
<1>3. /\ n \in Nat /\ DOMAIN Q = 1 .. n /\ DOMAIN R = 1 .. n + 1 /\ R \in Seq(ChangeRecords)
      /\ R[n + 1] = q /\ \A k \in 1 .. n : R[k] = Q[k] /\ Q[k] \in ChangeRecords
  BY <1>1, <1>2
<1>4. \A k \in 1 .. n : Q[k].doc # d  BY <1>3 DEF QueuedDocs
<1>5. 1 .. n + 1 = (1 .. n) \cup {n + 1}  BY <1>3
<1>6. OneEach(Q) /\ \A j, k \in 1 .. n : Q[j].doc = Q[k].doc => j = k
  BY <1>3 DEF Settled, OneEach
<1>7. OneEach(R)
  <2> SUFFICES ASSUME NEW j \in 1 .. n + 1, NEW k \in 1 .. n + 1, R[j].doc = R[k].doc PROVE j = k
    BY <1>3 DEF OneEach
  <2>1. CASE j = n + 1  BY <1>2, <1>3, <1>4, <1>5, <2>1
  <2>2. CASE k = n + 1  BY <1>2, <1>3, <1>4, <1>5, <2>2
  <2>3. CASE j \in 1 .. n /\ k \in 1 .. n  BY <1>3, <1>6, <2>3
  <2> QED  BY <1>5, <2>1, <2>2, <2>3
<1>8. E \in [Docs -> DocRecords] /\ E[d] = r /\ \A e \in Docs \ {d} : E[e] = D[e]  OBVIOUS
<1>9. \A k \in DOMAIN R : Plain(E, R[k]) \/ (k = 1 /\ Entered(E, C, R[k]))
  <2> SUFFICES ASSUME NEW k \in 1 .. n + 1 PROVE Plain(E, R[k]) \/ (k = 1 /\ Entered(E, C, R[k]))
    BY <1>3
  <2>1. CASE k = n + 1
    <3>1. Q = <<>> => n + 1 = 1  BY <1>1
    <3> QED  BY <1>3, <2>1, <3>1
  <2>2. CASE k \in 1 .. n
    <3>1. E[Q[k].doc] = D[Q[k].doc]  BY <1>3, <1>4, <1>8, <2>2 DEF ChangeRecords
    <3>2. Plain(D, Q[k]) \/ (k = 1 /\ Entered(D, C, Q[k]))  BY <1>3, <2>2 DEF Settled
    <3>3. Plain(D, Q[k]) => Plain(E, Q[k])  BY <3>1 DEF Plain
    <3>4. Entered(D, C, Q[k]) => Entered(E, C, Q[k])  BY <3>1 DEF Entered
    <3> QED  BY <1>3, <2>2, <3>2, <3>3, <3>4
  <2> QED  BY <1>5, <2>1, <2>2
<1>10. \A e \in Docs : Prior(E, R, e) = Prior(D, Q, e)
  <2> SUFFICES ASSUME NEW e \in Docs PROVE Prior(E, R, e) = Prior(D, Q, e)  OBVIOUS
  <2>1. CASE e = d
    <3>1. PICK p : p = D[d]  OBVIOUS
    <3>2. Waits(R, d, p)  BY <1>2, <1>3, <1>5, <3>1 DEF Waits
    <3>4. Prior(E, R, d) = p  BY <1>3, <1>7, <3>2, PriorQueued
    <3>3. Prior(D, Q, d) = D[d]  BY DEF Prior
    <3> QED  BY <2>1, <3>1, <3>3, <3>4
  <2>2. CASE \E k \in 1 .. n : Q[k].doc = e
    <3>1. PICK k \in 1 .. n : Q[k].doc = e  BY <2>2
    <3>2. PICK p : p = Q[k].prev  OBVIOUS
    <3>3. Waits(Q, e, p)  BY <1>3, <3>1, <3>2 DEF Waits
    <3>4. Waits(R, e, p)  BY <1>3, <1>5, <3>1, <3>2 DEF Waits
    <3>5. Prior(D, Q, e) = p  BY <1>6, <3>3, PriorQueued
    <3>6. Prior(E, R, e) = p  BY <1>3, <1>7, <3>4, PriorQueued
    <3> QED  BY <3>5, <3>6
  <2>3. CASE e # d /\ \A k \in 1 .. n : Q[k].doc # e
    <3>1. e \notin QueuedDocs(Q)  BY <1>3, <2>3 DEF QueuedDocs
    <3>2. e \notin QueuedDocs(R)  BY <1>2, <1>3, <1>5, <2>3 DEF QueuedDocs
    <3> QED  BY <1>8, <2>3, <3>1, <3>2 DEF Prior
  <2> QED  BY <2>1, <2>2, <2>3
<1>11. \A e \in Docs : E[e].here \/ E[e] = NoDoc  BY <1>8 DEF Settled
<1>12. /\ \A e \in Docs : InUse(Prior(E, R, e)) => Prior(E, R, e).number # 0 /\ Prior(E, R, e).number \in C
       /\ \A e, f \in Docs : e # f /\ InUse(Prior(E, R, e)) /\ InUse(Prior(E, R, f)) =>
              Prior(E, R, e).number # Prior(E, R, f).number
  BY ZenonT(60), <1>10 DEF Settled
<1> QED  BY <1>1, <1>7, <1>9, <1>11, <1>12 DEF Settled

(* The script has treated a change: the document is r, and C2 is in use.   *)
LEMMA TakenSettles ==
    ASSUME NEW D \in [Docs -> DocRecords], NEW C, NEW Q \in Seq(ChangeRecords), Q # <<>>,
           Settled(D, C, Q), NEW d \in Docs, d = Head(Q).doc,
           NEW r \in DocRecords, r.here, NEW C2,
           InUse(r) => r.number # 0 /\ r.number \in C2,
           \A e \in Docs \ {d} : InUse(Prior(D, Q, e)) =>
               /\ Prior(D, Q, e).number \in C2
               /\ InUse(r) => Prior(D, Q, e).number # r.number,
           NEW E, E = [D EXCEPT ![d] = r]
    PROVE  Settled(E, C2, Tail(Q))
<1>1. PICK n, R : n = Len(Q) /\ R = Tail(Q)  OBVIOUS
<1>2. /\ n \in Nat /\ n >= 1 /\ DOMAIN Q = 1 .. n /\ DOMAIN R = 1 .. n - 1 /\ R \in Seq(ChangeRecords)
      /\ Q[1] = Head(Q) /\ \A k \in 1 .. n : Q[k] \in ChangeRecords
  BY <1>1
<1>3. \A k \in 1 .. n - 1 : R[k] = Q[k + 1] /\ k + 1 \in 1 .. n /\ k + 1 # 1  BY <1>1, <1>2
<1>4. OneEach(Q) /\ \A j, k \in 1 .. n : Q[j].doc = Q[k].doc => j = k
  BY <1>2 DEF Settled, OneEach
<1>5. \A k \in 1 .. n - 1 : R[k].doc # d
  <2> SUFFICES ASSUME NEW k \in 1 .. n - 1 PROVE R[k].doc # d  OBVIOUS
  <2>1. 1 \in 1 .. n  BY <1>2
  <2> QED  BY <1>2, <1>3, <1>4, <2>1
<1>6. OneEach(R)
  <2> SUFFICES ASSUME NEW j \in 1 .. n - 1, NEW k \in 1 .. n - 1, R[j].doc = R[k].doc PROVE j = k
    BY <1>2 DEF OneEach
  <2>1. j + 1 = k + 1  BY <1>3, <1>4
  <2> QED  BY <2>1
<1>7. E \in [Docs -> DocRecords] /\ E[d] = r /\ \A e \in Docs \ {d} : E[e] = D[e]  OBVIOUS
<1>8. \A k \in DOMAIN R : Plain(E, R[k])
  <2> SUFFICES ASSUME NEW k \in 1 .. n - 1 PROVE Plain(E, R[k])  BY <1>2
  <2>1. Plain(D, Q[k + 1])  BY <1>2, <1>3 DEF Settled
  <2>2. R[k].doc \in Docs \ {d}  BY <1>2, <1>3, <1>5 DEF ChangeRecords
  <2>3. E[R[k].doc] = D[R[k].doc]  BY <1>7, <2>2
  <2> QED  BY <1>3, <2>1, <2>3 DEF Plain
<1>9. Prior(E, R, d) = r
  <2>1. d \notin QueuedDocs(R)  BY <1>2, <1>5 DEF QueuedDocs
  <2> QED  BY <1>7, <2>1 DEF Prior
<1>10. \A e \in Docs \ {d} : Prior(E, R, e) = Prior(D, Q, e)
  <2> SUFFICES ASSUME NEW e \in Docs \ {d} PROVE Prior(E, R, e) = Prior(D, Q, e)  OBVIOUS
  <2>1. CASE \E k \in 1 .. n - 1 : R[k].doc = e
    <3>1. PICK k \in 1 .. n - 1 : R[k].doc = e  BY <2>1
    <3>2. PICK p : p = R[k].prev  OBVIOUS
    <3>3. Waits(R, e, p)  BY <1>2, <3>1, <3>2 DEF Waits
    <3>4. Waits(Q, e, p)
      <4>1. PICK j \in 1 .. n : j = k + 1 /\ Q[j] = R[k]  BY <1>3
      <4> QED  BY <1>2, <3>1, <3>2, <4>1 DEF Waits
    <3>5. Prior(D, Q, e) = p  BY <1>4, <3>4, PriorQueued
    <3>6. Prior(E, R, e) = p  BY <1>2, <1>6, <3>3, PriorQueued
    <3> QED  BY <3>5, <3>6
  <2>2. CASE \A k \in 1 .. n - 1 : R[k].doc # e
    <3>1. e \notin QueuedDocs(R)  BY <1>2, <2>2 DEF QueuedDocs
    <3>2. ASSUME NEW j \in 1 .. n, Q[j].doc = e PROVE FALSE
      <4>1. j # 1  BY <1>2, <3>2
      <4>2. j - 1 \in 1 .. n - 1 /\ (j - 1) + 1 = j  BY <1>2, <4>1
      <4>3. R[j - 1] = Q[j]  BY <1>3, <4>2
      <4> QED  BY <2>2, <3>2, <4>2, <4>3
    <3>3. e \notin QueuedDocs(Q)  BY <1>2, <3>2 DEF QueuedDocs
    <3> QED  BY <1>7, <3>1, <3>3 DEF Prior
  <2> QED  BY <2>1, <2>2
<1>11. \A e \in Docs : E[e].here \/ E[e] = NoDoc  BY <1>7 DEF Settled
<1>12. \A e \in Docs : InUse(Prior(E, R, e)) => Prior(E, R, e).number # 0 /\ Prior(E, R, e).number \in C2
  <2> SUFFICES ASSUME NEW e \in Docs, InUse(Prior(E, R, e))
               PROVE  Prior(E, R, e).number # 0 /\ Prior(E, R, e).number \in C2
    OBVIOUS
  <2>1. CASE e = d  BY <1>9, <2>1
  <2>2. CASE e # d  BY <1>10, <2>2 DEF Settled
  <2> QED  BY <2>1, <2>2
<1>13. \A e, f \in Docs : e # f /\ InUse(Prior(E, R, e)) /\ InUse(Prior(E, R, f)) =>
           Prior(E, R, e).number # Prior(E, R, f).number
  <2> SUFFICES ASSUME NEW e \in Docs, NEW f \in Docs, e # f, InUse(Prior(E, R, e)), InUse(Prior(E, R, f))
               PROVE  Prior(E, R, e).number # Prior(E, R, f).number
    OBVIOUS
  <2>1. CASE e = d  BY <1>9, <1>10, <2>1
  <2>2. CASE f = d
    <3>1. e \in Docs \ {d} /\ InUse(Prior(D, Q, e)) /\ InUse(r)  BY <1>9, <1>10, <2>2
    <3>2. Prior(D, Q, e).number # r.number  BY <3>1
    <3> QED  BY <1>9, <1>10, <2>2, <3>1, <3>2
  <2>3. CASE e # d /\ f # d  BY ZenonT(60), <1>10, <2>3 DEF Settled
  <2> QED  BY <2>1, <2>2, <2>3
<1> QED  BY <1>1, <1>6, <1>8, <1>11, <1>12, <1>13 DEF Settled

(* The script takes the first change, and what it writes settles it.       *)
LEMMA TreatSettles ==
    ASSUME doc \in [Docs -> DocRecords], queue \in Seq(ChangeRecords), queue # <<>>,
           Sound(Numbers), Settled(doc, Covered(Numbers), queue),
           NEW d, d = Head(queue).doc, NEW prev, prev = Head(queue).prev
    PROVE  \E r, C2 : /\ Drafts(d, prev, r, C2)
                      /\ Settled([doc EXCEPT ![d] = r], C2, Tail(queue))
<1>1. PICK C, q, now, n : C = Covered(Numbers) /\ q = Head(queue) /\ now = doc[d] /\ n = doc[d].number
  OBVIOUS
<1>2. /\ q \in ChangeRecords /\ d = q.doc /\ prev = q.prev /\ 1 \in DOMAIN queue /\ queue[1] = q
  BY <1>1
<1>3. /\ d \in Docs /\ prev \in DocRecords /\ now \in DocRecords /\ n \in Nat /\ n = now.number
      /\ prev.number \in Nat
  BY <1>1, <1>2 DEF ChangeRecords, DocRecords
<1>4. Prior(doc, queue, d) = prev
  <2>1. Waits(queue, d, prev)  BY <1>2 DEF Waits
  <2>2. OneEach(queue)  BY DEF Settled
  <2> QED  BY <2>1, <2>2, PriorQueued
<1>5. Plain(doc, q) \/ Entered(doc, C, q)  BY <1>1, <1>2 DEF Settled
<1>6. InUse(prev) => prev.number # 0 /\ prev.number \in C  BY <1>1, <1>3, <1>4 DEF Settled
<1>7. \A e \in Docs \ {d} : InUse(Prior(doc, queue, e)) =>
          /\ Prior(doc, queue, e).number # 0 /\ Prior(doc, queue, e).number \in C
          /\ InUse(prev) => Prior(doc, queue, e).number # prev.number
  <2>1. \A e \in Docs : InUse(Prior(doc, queue, e)) =>
            Prior(doc, queue, e).number # 0 /\ Prior(doc, queue, e).number \in C
    BY <1>1 DEF Settled
  <2>2. \A e \in Docs : e # d /\ InUse(Prior(doc, queue, e)) /\ InUse(Prior(doc, queue, d)) =>
            Prior(doc, queue, e).number # Prior(doc, queue, d).number
    BY <1>3 DEF Settled
  <2> QED  BY <1>4, <2>1, <2>2
<1>8. ASSUME NEW r \in DocRecords, r.here, NEW C2,
             InUse(r) => r.number # 0 /\ r.number \in C2,
             \A e \in Docs \ {d} : InUse(Prior(doc, queue, e)) =>
                 /\ Prior(doc, queue, e).number \in C2
                 /\ InUse(r) => Prior(doc, queue, e).number # r.number
      PROVE  Settled([doc EXCEPT ![d] = r], C2, Tail(queue))
  <2>1. PICK E : E = [doc EXCEPT ![d] = r]  OBVIOUS
  <2>2. Settled(doc, C, queue)  BY <1>1
  <2>3. Settled(E, C2, Tail(queue))  BY <1>3, <1>8, <2>1, <2>2, TakenSettles
  <2> QED  BY <2>1, <2>3
<1>9. now.here  BY <1>1, <1>2, <1>5 DEF Plain, Entered, InUse
<1>10. DraftCases(d, prev, C)  BY <1>1, <1>3, NumerateDrafts
<1>11. ASSUME NEW v \in Nat
       PROVE  /\ [now EXCEPT !.number = v] \in DocRecords /\ [now EXCEPT !.number = v].number = v
              /\ [now EXCEPT !.number = v].here = now.here
              /\ [now EXCEPT !.number = v].deleted = now.deleted
  BY <1>3 DEF DocRecords
<1>12. CASE n = 0 /\ prev.number = 0
  <2>1. PICK v \in Nat \ {0} : v \notin C /\ Drafts(d, prev, [now EXCEPT !.number = v], C \cup {v})
    BY <1>1, <1>10, <1>12 DEF DraftCases
  <2>2. PICK r : r = [now EXCEPT !.number = v]  OBVIOUS
  <2>3. r \in DocRecords /\ r.here /\ r.number = v  BY <1>9, <1>11, <2>2
  <2>4. Settled([doc EXCEPT ![d] = r], C \cup {v}, Tail(queue))
    <3>1. \A e \in Docs \ {d} : InUse(Prior(doc, queue, e)) =>
              /\ Prior(doc, queue, e).number \in C \cup {v}
              /\ InUse(r) => Prior(doc, queue, e).number # r.number
      BY <1>7, <2>1, <2>3
    <3> QED  BY <1>8, <2>1, <2>3, <3>1
  <2> QED  BY <2>1, <2>2, <2>4
<1>13. CASE n = 0 /\ prev.number # 0
  <2>1. InUse(prev)
    <3>1. prev # NoDoc  BY <1>13 DEF NoDoc
    <3> QED  BY <1>1, <1>2, <1>5, <1>13, <3>1 DEF Plain, Entered
  <2>2. PICK v, r : v = prev.number /\ r = [now EXCEPT !.number = v]  OBVIOUS
  <2>3. Drafts(d, prev, r, C)  BY <1>1, <1>10, <1>13, <2>2 DEF DraftCases
  <2>4. r \in DocRecords /\ r.here /\ r.number = v  BY <1>3, <1>9, <1>11, <2>2
  <2>5. \A e \in Docs \ {d} : InUse(Prior(doc, queue, e)) =>
            /\ Prior(doc, queue, e).number \in C
            /\ InUse(r) => Prior(doc, queue, e).number # r.number
    BY <1>7, <2>1, <2>2, <2>4
  <2>6. Settled([doc EXCEPT ![d] = r], C, Tail(queue))  BY <1>6, <1>8, <2>1, <2>2, <2>4, <2>5
  <2> QED  BY <2>3, <2>6
<1>14. CASE n # 0 /\ Plain(doc, q)
  <2>1. InUse(prev) /\ now.deleted /\ n = prev.number /\ prev.here /\ ~prev.deleted
    BY <1>1, <1>2, <1>14 DEF Plain, InUse
  <2>2. Drafts(d, prev, now, C \ {n})
    BY <1>1, <1>10, <1>14, <2>1 DEF DraftCases
  <2>3. ~InUse(now)  BY <2>1 DEF InUse
  <2>4. \A e \in Docs \ {d} : InUse(Prior(doc, queue, e)) =>
            /\ Prior(doc, queue, e).number \in C \ {n}
            /\ InUse(now) => Prior(doc, queue, e).number # now.number
    BY <1>7, <2>1, <2>3
  <2>5. Settled([doc EXCEPT ![d] = now], C \ {n}, Tail(queue))  BY <1>3, <1>8, <1>9, <2>3, <2>4
  <2> QED  BY <2>2, <2>5
<1>15. CASE n # 0 /\ Entered(doc, C, q)
  <2>1. n \notin C /\ InUse(now) /\ ~now.deleted /\ (prev = NoDoc \/ InUse(prev))
    BY <1>1, <1>2, <1>15 DEF Entered, InUse
  <2>2. CASE prev = NoDoc
    <3>1. ~prev.here /\ prev.number = 0  BY <2>2 DEF NoDoc
    <3>2. Drafts(d, prev, now, C \cup {n})  BY <1>1, <1>10, <1>15, <3>1 DEF DraftCases
    <3>3. \A e \in Docs \ {d} : InUse(Prior(doc, queue, e)) =>
              /\ Prior(doc, queue, e).number \in C \cup {n}
              /\ InUse(now) => Prior(doc, queue, e).number # now.number
      BY <1>3, <1>7, <2>1
    <3>4. Settled([doc EXCEPT ![d] = now], C \cup {n}, Tail(queue))
      BY <1>3, <1>8, <1>9, <1>15, <3>3
    <3> QED  BY <3>2, <3>4
  <2>3. CASE InUse(prev)
    <3>1. prev.here /\ prev.number # 0 /\ prev.number \in C /\ n # prev.number
      BY <1>6, <2>1, <2>3 DEF InUse
    <3>2. Drafts(d, prev, now, (C \cup {n}) \ {prev.number})
      BY <1>1, <1>10, <1>15, <2>1, <3>1 DEF DraftCases
    <3>3. \A e \in Docs \ {d} : InUse(Prior(doc, queue, e)) =>
              /\ Prior(doc, queue, e).number \in (C \cup {n}) \ {prev.number}
              /\ InUse(now) => Prior(doc, queue, e).number # now.number
      BY <1>3, <1>7, <2>1, <2>3
    <3>4. Settled([doc EXCEPT ![d] = now], (C \cup {n}) \ {prev.number}, Tail(queue))
      BY <1>3, <1>8, <1>9, <1>15, <3>1, <3>3
    <3> QED  BY <3>2, <3>4
  <2> QED  BY <2>1, <2>2, <2>3
<1> QED  BY <1>5, <1>12, <1>13, <1>14, <1>15

-----------------------------------------------------------------------------
(* The inductive invariant.                                                *)
NumeratorTypeOK ==
    /\ doc \in [Docs -> DocRecords] /\ queue \in Seq(ChangeRecords)
    /\ writes \in Seq(WriteRecords) /\ stored \in Nat

(* The numbers are sound when no transaction is stored in part, and what   *)
(* is left of a transaction makes them sound.                              *)
NumbersSound ==
    /\ Whole(Numbers)
    /\ (writes = <<>> \/ stored = 0) => Sound(Numbers)
    /\ writes # <<>> => \E t : Leads(Numbers, writes, t) /\ Sound(t)

(* A transaction belongs to the first change, which it takes away last.    *)
ChangeTreated == writes # <<>> => queue # <<>> /\ EndIsLast(writes)

SoundInv == NumeratorTypeOK /\ NumbersSound /\ ChangeTreated

(* The same for the documents: what is left of a transaction settles the   *)
(* change it belongs to.                                                   *)
ToSettle(r, t) ==
    /\ Leads(Numbers, writes, t) /\ r \in DocRecords
    /\ Pending(doc, writes, Head(queue).doc, r)
    /\ Settled([doc EXCEPT ![Head(queue).doc] = r], Covered(t), Tail(queue))

SettledInv ==
    /\ SoundInv
    /\ (writes = <<>> \/ stored = 0) => Settled(doc, Covered(Numbers), queue)
    /\ writes # <<>> => \E r, t : ToSettle(r, t)

(* Treating: what numerate wrote, and the end of the transaction.          *)
EndWrite == [kind |-> "end", id |-> 0, value |-> 0]

LEMMA DraftedWrites ==
    ASSUME NEW d \in Docs, NEW prev, NEW s, NEW ns, NEW t, NEW r, Drafted(d, prev, s, ns, t, r),
           NEW ws, ws = Append(Numerate(d, prev), EndWrite)
    PROVE  /\ ws \in Seq(WriteRecords) /\ ws # <<>> /\ EndIsLast(ws)
           /\ Leads(s, ws, t) /\ Pending(doc, ws, d, r)
<1>1. /\ ns \in Seq(NumberWrites) /\ ns \in Seq(WriteRecords) /\ r \in DocRecords
      /\ Leads(s, ns, t) /\ Sound(t) /\ Whole(t)
      /\ \/ Numerate(d, prev) = ns /\ r = doc[d]
         \/ Numerate(d, prev) = Append(ns, PutDoc(d, r)) /\ doc[d].number = 0
  BY WritesTyped DEF Drafted, Sound
<1>2. PICK e, p, n : e = EndWrite /\ p = PutDoc(d, r) /\ n = Len(ns)  OBVIOUS
<1>3. /\ e \in WriteRecords /\ e.kind = "end"
      /\ p \in WriteRecords /\ p.kind = "doc" /\ p.id = d /\ p.value = r
  BY <1>1, <1>2 DEF EndWrite, PutDoc, WriteRecords
<1>4. /\ n \in Nat /\ DOMAIN ns = 1 .. n
      /\ \A k \in 1 .. n : ns[k] \in NumberWrites /\ ns[k].kind \in {"interval", "scope"}
  BY <1>1, <1>2, WriteTyped
<1>5. CASE Numerate(d, prev) = ns /\ r = doc[d]
  <2>1. ws = Append(ns, e)  BY <1>2, <1>5
  <2>2. /\ ws \in Seq(WriteRecords) /\ DOMAIN ws = 1 .. n + 1 /\ Len(ws) = n + 1 /\ ws[n + 1] = e
        /\ \A k \in 1 .. n : ws[k] = ns[k]
    BY <1>1, <1>2, <1>3, <2>1
  <2>3. 1 .. n + 1 = (1 .. n) \cup {n + 1}  BY <1>4
  <2>4. EndIsLast(ws)
    <3> SUFFICES ASSUME NEW k \in 1 .. n + 1 PROVE ws[k].kind = "end" <=> k = n + 1
      BY <2>2 DEF EndIsLast
    <3>1. CASE k = n + 1  BY <1>3, <2>2, <3>1
    <3>2. CASE k \in 1 .. n  BY <1>4, <2>2, <3>2
    <3> QED  BY <2>3, <3>1, <3>2
  <2>5. \A k \in DOMAIN ws : ws[k].kind # "doc"
    <3> SUFFICES ASSUME NEW k \in 1 .. n + 1 PROVE ws[k].kind # "doc"  BY <2>2
    <3>1. CASE k = n + 1  BY <1>3, <2>2, <3>1
    <3>2. CASE k \in 1 .. n
      <4>1. ns[k].kind \in {"interval", "scope"}  BY <1>4, <3>2
      <4> QED  BY <2>2, <3>2, <4>1
    <3> QED  BY <2>3, <3>1, <3>2
  <2>6. Pending(doc, ws, d, r)  BY <1>5, <2>5 DEF Pending
  <2>7. Leads(s, ws, t)  BY <1>1, <1>3, <2>1, LeadsAppend
  <2>8. ws # <<>>  BY <1>4, <2>2
  <2> QED  BY <2>2, <2>4, <2>6, <2>7, <2>8
<1>6. CASE Numerate(d, prev) = Append(ns, PutDoc(d, r)) /\ doc[d].number = 0
  <2>1. PICK m : m = Append(ns, p)  OBVIOUS
  <2>2. ws = Append(m, e)  BY <1>2, <1>6, <2>1
  <2>3. /\ m \in Seq(WriteRecords) /\ Len(m) = n + 1 /\ m[n + 1] = p
        /\ \A k \in 1 .. n : m[k] = ns[k]
    BY <1>1, <1>2, <1>3, <2>1
  <2>4. /\ ws \in Seq(WriteRecords) /\ DOMAIN ws = 1 .. n + 2 /\ Len(ws) = n + 2 /\ ws[n + 2] = e
        /\ \A k \in 1 .. n + 1 : ws[k] = m[k]
    BY <1>3, <1>4, <2>2, <2>3
  <2>5. 1 .. n + 2 = (1 .. n) \cup {n + 1, n + 2}  BY <1>4
  <2>6. ws[n + 1] = p /\ \A k \in 1 .. n : ws[k] = ns[k]  BY <1>4, <2>3, <2>4
  <2>7. \A k \in 1 .. n + 2 : /\ ws[k].kind = "end" <=> k = n + 2
                              /\ ws[k].kind = "doc" <=> k = n + 1
    <3> SUFFICES ASSUME NEW k \in 1 .. n + 2
                 PROVE  /\ ws[k].kind = "end" <=> k = n + 2
                        /\ ws[k].kind = "doc" <=> k = n + 1
      OBVIOUS
    <3>1. CASE k = n + 2
      <4>1. ws[k].kind = "end" /\ k # n + 1  BY <1>3, <1>4, <2>4, <3>1
      <4> QED  BY <3>1, <4>1
    <3>2. CASE k = n + 1
      <4>1. k # n + 2  BY <1>4, <3>2
      <4>2. ws[k] = p  BY <2>6, <3>2
      <4>3. ws[k].kind = "doc"  BY <1>3, <4>2
      <4> QED  BY <3>2, <4>1, <4>3
    <3>3. CASE k \in 1 .. n
      <4>1. ns[k].kind \in {"interval", "scope"} /\ ws[k] = ns[k]  BY <1>4, <2>6, <3>3
      <4>2. k # n + 1 /\ k # n + 2  BY <1>4, <3>3
      <4> QED  BY <4>1, <4>2
    <3> QED  BY <2>5, <3>1, <3>2, <3>3
  <2>8. EndIsLast(ws)  BY <2>4, <2>7 DEF EndIsLast
  <2>9. Pending(doc, ws, d, r)
    <3>1. n + 1 \in DOMAIN ws  BY <1>4, <2>4
    <3>2. \A k \in DOMAIN ws : ws[k].kind = "doc" => ws[k].id = d /\ ws[k].value = r
      BY <1>3, <2>4, <2>6, <2>7
    <3> QED  BY SMTT(60), <1>6, <2>4, <2>7, <3>1, <3>2 DEF Pending
  <2>10. Leads(s, m, t)  BY <1>1, <1>3, <2>1, LeadsAppend
  <2>11. Leads(s, ws, t)  BY <1>1, <1>3, <2>2, <2>3, <2>10, LeadsAppend
  <2>12. ws # <<>>  BY <1>4, <2>4
  <2> QED  BY <2>4, <2>8, <2>9, <2>11, <2>12
<1> QED  BY <1>1, <1>5, <1>6

(* Storing: the numbers are as the write leaves them.                      *)
LEMMA LeadsNowhere ==
    ASSUME NEW s, NEW t, Leads(s, <<>>, t)
    PROVE  s = t
<1>1. PICK f : Path(f, s, <<>>, t)  BY DEF Leads
<1>2. f[0] = s /\ f[Len(<<>>)] = t  BY <1>1 DEF Path
<1>3. Len(<<>>) = 0  OBVIOUS
<1> QED  BY <1>2, <1>3

LEMMA StoreStep ==
    ASSUME NumeratorTypeOK, Whole(Numbers), ChangeTreated, Store
    PROVE  /\ Numbers' = Written(Numbers, Head(writes)) /\ NumeratorTypeOK' /\ ChangeTreated'
           /\ writes # <<>> /\ writes' = Tail(writes)
           /\ writes' = <<>> => queue' = Tail(queue)
           /\ writes' # <<>> => stored' # 0 /\ queue' = queue
           /\ doc' = IF Head(writes).kind = "doc"
                     THEN [doc EXCEPT ![Head(writes).id] = Head(writes).value] ELSE doc
<1>1. PICK w, ws, n : w = Head(writes) /\ ws = Tail(writes) /\ n = Len(writes)  OBVIOUS
<1>2. /\ writes # <<>> /\ writes' = ws
      /\ doc' = (IF w.kind = "doc" THEN [doc EXCEPT ![w.id] = w.value] ELSE doc)
      /\ scope' = (IF w.kind = "scope" THEN w.value ELSE scope)
      /\ interval' = (IF w.kind = "interval" THEN With(Numbers, w).of ELSE interval)
      /\ queue' = (IF w.kind = "end" THEN Tail(queue) ELSE queue)
      /\ stored' = IF n = 1 THEN 0 ELSE stored + 1
  BY <1>1 DEF Store
<1>3. /\ n \in Nat /\ n >= 1 /\ writes[1] = w /\ w \in WriteRecords
      /\ ws \in Seq(WriteRecords) /\ Len(ws) = n - 1 /\ DOMAIN writes = 1 .. n
      /\ DOMAIN ws = 1 .. n - 1 /\ \A k \in 1 .. n - 1 : ws[k] = writes[k + 1]
      /\ ws = <<>> <=> n = 1
  <2>1. writes \in Seq(WriteRecords) /\ writes # <<>>  BY <1>2 DEF NumeratorTypeOK
  <2>2. n \in Nat /\ n >= 1 /\ writes[1] = w /\ DOMAIN writes = 1 .. n  BY <1>1, <2>1
  <2>3. w \in WriteRecords  BY <2>1, <2>2
  <2>4. /\ ws \in Seq(WriteRecords) /\ Len(ws) = n - 1 /\ DOMAIN ws = 1 .. n - 1
        /\ \A k \in 1 .. n - 1 : ws[k] = writes[k + 1]
    BY <1>1, <2>1
  <2>5. ws = <<>> <=> n = 1  BY <2>2, <2>4
  <2> QED  BY <2>2, <2>3, <2>4, <2>5
<1>4. queue # <<>> /\ \A k \in 1 .. n : writes[k].kind = "end" <=> k = n
  BY <1>1, <1>2, <1>3 DEF ChangeTreated, EndIsLast
<1>5. w.kind = "end" <=> n = 1  BY <1>3, <1>4
<1>6. w.kind = "doc" => w.id \in Docs /\ w.value \in DocRecords  BY <1>3 DEF WriteRecords
<1>7. NumeratorTypeOK'
  <2>1. doc' \in [Docs -> DocRecords]  BY <1>2, <1>6 DEF NumeratorTypeOK
  <2>2. queue' \in Seq(ChangeRecords)  BY <1>2, <1>4 DEF NumeratorTypeOK
  <2>3. stored' \in Nat  BY <1>2 DEF NumeratorTypeOK
  <2> QED  BY <1>2, <1>3, <2>1, <2>2, <2>3 DEF NumeratorTypeOK
<1>8. ChangeTreated'
  <2>1. writes' # <<>> => queue' # <<>>  BY <1>2, <1>3, <1>4, <1>5
  <2>2. EndIsLast(ws)
    <3> SUFFICES ASSUME NEW k \in 1 .. n - 1 PROVE ws[k].kind = "end" <=> k = n - 1
      BY <1>3 DEF EndIsLast
    <3>1. k + 1 \in 1 .. n /\ (k + 1 = n <=> k = n - 1)  BY <1>3
    <3> QED  BY <1>3, <1>4, <3>1
  <2> QED  BY <1>2, <2>1, <2>2 DEF ChangeTreated
<1>9. Numbers' = Written(Numbers, w)
  <2>1. Numbers' = [list |-> scope', of |-> interval'] /\ Numbers = [list |-> scope, of |-> interval]
    BY DEF Numbers
  <2>2. CASE w.kind = "interval"
    <3>1. scope' = scope /\ interval' = With(Numbers, w).of  BY <1>2, <2>2
    <3>2. With(Numbers, w) = [list |-> scope, of |-> With(Numbers, w).of]
      BY <2>1, <2>2 DEF With
    <3> QED  BY <2>1, <2>2, <3>1, <3>2 DEF Written
  <2>3. CASE w.kind = "scope"
    <3>1. With(Numbers, w) = [list |-> w.value, of |-> interval]  BY <2>1, <2>3 DEF With
    <3> QED  BY <1>2, <2>1, <2>3, <3>1 DEF Written
  <2>4. CASE w.kind \notin {"interval", "scope"}  BY <1>2, <2>1, <2>4 DEF Written
  <2> QED  BY <2>2, <2>3, <2>4
<1>10. n # 1 => stored' # 0  BY <1>2 DEF NumeratorTypeOK
<1> QED  BY <1>1, <1>2, <1>3, <1>5, <1>7, <1>8, <1>9, <1>10

(* The numbers stay sound, whatever users do, when no transaction is left  *)
(* half stored.                                                            *)
LEMMA SoundInit == ASSUME Init PROVE SoundInv
<1>1. /\ doc = [d \in Docs |-> NoDoc] /\ scope = <<>> /\ interval = <<>> /\ queue = <<>>
      /\ writes = <<>> /\ stored = 0
  BY DEF Init
<1>2. NumeratorTypeOK
  <2>1. NoDoc \in DocRecords  BY DEF NoDoc, DocRecords
  <2> QED  BY <1>1, <2>1 DEF NumeratorTypeOK
<1>3. Sound(Numbers)
  <2>1. Numbers.list = <<>> /\ Numbers.of = <<>> /\ Numbers \in NumberStates
    BY <1>1 DEF Numbers, NumberStates
  <2>2. ToSet(<<>>) = {} /\ IsInjective(<<>>)  BY DEF ToSet, IsInjective
  <2> QED  BY <2>1, <2>2 DEF Sound, Whole, Ordered
<1> QED  BY <1>1, <1>2, <1>3 DEF SoundInv, NumbersSound, ChangeTreated, Sound

LEMMA UserKeeps ==
    ASSUME NumeratorTypeOK, ChangeTreated, NEW d \in Docs, NEW r \in DocRecords, Change(d, r)
    PROVE  /\ NumeratorTypeOK' /\ ChangeTreated' /\ Numbers' = Numbers
           /\ writes' = writes /\ stored' = stored
           /\ doc' = [doc EXCEPT ![d] = r] /\ queue' = Append(queue, [doc |-> d, prev |-> doc[d]])
<1>1. /\ doc' = [doc EXCEPT ![d] = r] /\ queue' = Append(queue, [doc |-> d, prev |-> doc[d]])
      /\ writes' = writes /\ stored' = stored /\ scope' = scope /\ interval' = interval
  BY DEF Change
<1>2. NumeratorTypeOK'
  <2>1. [doc |-> d, prev |-> doc[d]] \in ChangeRecords  BY DEF NumeratorTypeOK, ChangeRecords
  <2> QED  BY <1>1, <2>1 DEF NumeratorTypeOK
<1>3. ChangeTreated'
  <2>1. queue' # <<>>  BY <1>1 DEF NumeratorTypeOK
  <2> QED  BY <1>1, <2>1 DEF ChangeTreated
<1> QED  BY <1>1, <1>2, <1>3 DEF Numbers

(* A user's change is one of Change.                                       *)
LEMMA UserChanges ==
    ASSUME NumeratorTypeOK, NEW d \in Docs, User(d)
    PROVE  \E r \in DocRecords : /\ Change(d, r) /\ r.here
                                 /\ \/ ~doc[d].here /\ InUse(r) /\ r.number = 0
                                    \/ InUse(doc[d]) /\ InUse(r) /\ r.number = 0
                                    \/ /\ doc[d].here /\ r.number = doc[d].number
                                       /\ "restore" \notin Habits => r.deleted /\ ~doc[d].deleted
                                    \/ /\ InUse(r) /\ r.number # 0 /\ Available(r.number)
                                       /\ ~doc[d].here \/ InUse(doc[d])
<1>1. doc[d] \in DocRecords  BY DEF NumeratorTypeOK
<1>2. \A v \in 1 .. MaxOwn : v \in Nat /\ v # 0  BY NumeratorBounds
<1>3. CASE Create(d)
  <2>1. PICK r : r = [NoDoc EXCEPT !.here = TRUE]  OBVIOUS
  <2>2. r \in DocRecords /\ r.here /\ r.number = 0 /\ ~r.deleted  BY <2>1 DEF NoDoc, DocRecords
  <2> QED  BY <1>3, <2>1, <2>2 DEF Create, InUse
<1>4. CASE CreateNumbered(d)
  <2>1. PICK v \in 1 .. MaxOwn : Available(v) /\ Change(d, [NoDoc EXCEPT !.here = TRUE, !.number = v])
    BY <1>4 DEF CreateNumbered
  <2>2. PICK r : r = [NoDoc EXCEPT !.here = TRUE, !.number = v]  OBVIOUS
  <2>3. r \in DocRecords /\ r.here /\ r.number = v /\ ~r.deleted
    BY <1>2, <2>2 DEF NoDoc, DocRecords
  <2> QED  BY <1>2, <1>4, <2>1, <2>2, <2>3 DEF CreateNumbered, InUse
<1>5. CASE Renumber(d)
  <2>1. PICK v \in 1 .. MaxOwn : Available(v) /\ Change(d, [doc[d] EXCEPT !.number = v])
    BY <1>5 DEF Renumber
  <2>2. PICK r : r = [doc[d] EXCEPT !.number = v]  OBVIOUS
  <2>3. doc[d].here /\ ~doc[d].deleted  BY <1>5 DEF Renumber, Live
  <2>4. r \in DocRecords /\ r.here /\ r.number = v /\ ~r.deleted
    BY <1>1, <1>2, <2>2, <2>3 DEF DocRecords
  <2> QED  BY <1>2, <2>1, <2>2, <2>3, <2>4 DEF InUse
<1>6. CASE ClearNumber(d)
  <2>1. PICK r : r = [doc[d] EXCEPT !.number = 0]  OBVIOUS
  <2>2. doc[d].here /\ ~doc[d].deleted /\ Change(d, r)  BY <1>6, <2>1 DEF ClearNumber, Live
  <2>3. r \in DocRecords /\ r.here /\ r.number = 0 /\ ~r.deleted
    BY <1>1, <2>1, <2>2 DEF DocRecords
  <2> QED  BY <2>2, <2>3 DEF InUse
<1>7. CASE Mark(d)
  <2>1. PICK b \in BOOLEAN : /\ Change(d, [doc[d] EXCEPT !.deleted = b])
                             /\ "restore" \notin Habits => b = TRUE
    BY <1>7 DEF Mark
  <2>2. PICK r : r = [doc[d] EXCEPT !.deleted = b]  OBVIOUS
  <2>3. doc[d].here  BY <1>7 DEF Mark
  <2>4. r \in DocRecords /\ r.here /\ r.number = doc[d].number /\ r.deleted = b
    BY <1>1, <2>2, <2>3 DEF DocRecords
  <2>5. Change(d, r) /\ r # doc[d]  BY <2>1, <2>2 DEF Change
  <2>6. "restore" \notin Habits => r.deleted /\ ~doc[d].deleted
    <3> SUFFICES ASSUME "restore" \notin Habits PROVE r.deleted /\ ~doc[d].deleted  OBVIOUS
    <3>1. b = TRUE  BY <2>1
    <3>2. ASSUME doc[d].deleted PROVE FALSE
      <4>1. doc[d].deleted = TRUE  BY <1>1, <3>2 DEF DocRecords
      <4>2. r = doc[d]  BY <1>1, <2>2, <3>1, <4>1 DEF DocRecords
      <4> QED  BY <2>5, <4>2
    <3> QED  BY <2>4, <3>1, <3>2
  <2> QED  BY <2>3, <2>4, <2>5, <2>6
<1> QED  BY <1>3, <1>4, <1>5, <1>6, <1>7 DEF User

LEMMA TreatStep ==
    ASSUME SoundInv, Treat
    PROVE  /\ queue # <<>> /\ writes = <<>> /\ Sound(Numbers)
           /\ writes' = Append(Numerate(Head(queue).doc, Head(queue).prev), EndWrite)
           /\ doc' = doc /\ queue' = queue /\ Numbers' = Numbers /\ stored' = stored
           /\ Head(queue) \in ChangeRecords
<1>1. queue # <<>> /\ writes = <<>> /\ doc' = doc /\ queue' = queue /\ Numbers' = Numbers /\ stored' = stored
  BY DEF Treat, Numbers
<1>2. Sound(Numbers)  BY <1>1 DEF SoundInv, NumbersSound
<1>3. writes' = Append(Numerate(Head(queue).doc, Head(queue).prev), EndWrite)  BY DEF Treat, EndWrite
<1>4. Head(queue) \in ChangeRecords  BY <1>1 DEF SoundInv, NumeratorTypeOK
<1> QED  BY <1>1, <1>2, <1>3, <1>4

LEMMA SoundStep ==
    ASSUME "die" \notin Habits, SoundInv, [Next]_vars
    PROVE  SoundInv'
<1>1. NumeratorTypeOK /\ NumbersSound /\ ChangeTreated  BY DEF SoundInv
<1>2. CASE Treat
  <2>1. /\ queue # <<>> /\ writes = <<>> /\ Sound(Numbers)
        /\ writes' = Append(Numerate(Head(queue).doc, Head(queue).prev), EndWrite)
        /\ doc' = doc /\ queue' = queue /\ Numbers' = Numbers /\ stored' = stored
        /\ Head(queue) \in ChangeRecords
    BY <1>2, TreatStep
  <2>2. PICK d, prev : d = Head(queue).doc /\ prev = Head(queue).prev  OBVIOUS
  <2>3. d \in Docs /\ prev \in DocRecords  BY <2>1, <2>2 DEF ChangeRecords
  <2>4. DraftCases(d, prev, Covered(Numbers))  BY <1>1, <2>1, <2>3, NumerateDrafts DEF NumeratorTypeOK
  <2>5. \E r, C2 : Drafts(d, prev, r, C2)  BY <2>4 DEF DraftCases
  <2>6. PICK ns, t, r : Drafted(d, prev, Numbers, ns, t, r)  BY <2>5 DEF Drafts
  <2>7. PICK ws, s : ws = Append(Numerate(d, prev), EndWrite) /\ s = Numbers  OBVIOUS
  <2>8. Drafted(d, prev, s, ns, t, r)  BY <2>6, <2>7
  <2>9. ws \in Seq(WriteRecords) /\ ws # <<>> /\ EndIsLast(ws) /\ Leads(s, ws, t)
    BY <2>3, <2>7, <2>8, DraftedWrites
  <2>10. writes' = ws /\ Sound(t)  BY <2>1, <2>2, <2>6, <2>7 DEF Drafted
  <2>11. NumeratorTypeOK'  BY <1>1, <2>1, <2>9, <2>10 DEF NumeratorTypeOK
  <2>12. NumbersSound'  BY <1>1, <2>1, <2>7, <2>9, <2>10 DEF NumbersSound
  <2>13. ChangeTreated'  BY <2>1, <2>9, <2>10 DEF ChangeTreated
  <2> QED  BY <2>11, <2>12, <2>13 DEF SoundInv
<1>3. CASE Store
  <2>1. /\ Numbers' = Written(Numbers, Head(writes)) /\ NumeratorTypeOK' /\ ChangeTreated'
        /\ writes # <<>> /\ writes' = Tail(writes)
        /\ writes' # <<>> => stored' # 0
    BY <1>1, <1>3, StoreStep DEF NumbersSound
  <2>2. PICK t : Leads(Numbers, writes, t) /\ Sound(t)  BY <1>1, <2>1 DEF NumbersSound
  <2>3. writes \in Seq(WriteRecords)  BY <1>1 DEF NumeratorTypeOK
  <2>4. PICK s, ws : s = Numbers /\ ws = writes  OBVIOUS
  <2>5. Leads(Written(s, Head(ws)), Tail(ws), t) /\ Whole(Written(s, Head(ws)))
    BY <2>1, <2>2, <2>3, <2>4, LeadsTail
  <2>6. Leads(Numbers', writes', t) /\ Whole(Numbers')  BY <2>1, <2>4, <2>5
  <2>7. writes' = <<>> => Sound(Numbers')
    <3> SUFFICES ASSUME writes' = <<>> PROVE Sound(Numbers')  OBVIOUS
    <3>1. Numbers' = t  BY <2>6, LeadsNowhere
    <3> QED  BY <2>2, <3>1
  <2>8. NumbersSound'  BY <2>1, <2>2, <2>6, <2>7 DEF NumbersSound
  <2> QED  BY <2>1, <2>8 DEF SoundInv
<1>4. CASE Dies
  <2>1. /\ writes # <<>> /\ stored = 0 /\ writes' = <<>> /\ stored' = 0
        /\ Numbers' = Numbers /\ doc' = doc /\ queue' = queue
    BY <1>4 DEF Dies, Numbers
  <2>2. Sound(Numbers) /\ Whole(Numbers)  BY <1>1, <2>1 DEF NumbersSound
  <2>3. NumeratorTypeOK'  BY <1>1, <2>1 DEF NumeratorTypeOK
  <2>4. NumbersSound'  BY <2>1, <2>2 DEF NumbersSound
  <2>5. ChangeTreated'  BY <2>1 DEF ChangeTreated
  <2> QED  BY <2>3, <2>4, <2>5 DEF SoundInv
<1>5. ASSUME NEW d \in Docs, User(d) PROVE SoundInv'
  <2>1. PICK r \in DocRecords : Change(d, r)  BY <1>1, <1>5, UserChanges
  <2>2. /\ NumeratorTypeOK' /\ ChangeTreated' /\ Numbers' = Numbers
        /\ writes' = writes /\ stored' = stored
    BY <1>1, <2>1, UserKeeps
  <2>3. NumbersSound'  BY <1>1, <2>2 DEF NumbersSound
  <2> QED  BY <2>2, <2>3 DEF SoundInv
<1>6. CASE UNCHANGED vars
  <2>1. /\ doc' = doc /\ Numbers' = Numbers /\ queue' = queue /\ writes' = writes /\ stored' = stored
    BY <1>6 DEF vars, Numbers
  <2>2. NumeratorTypeOK'  BY <1>1, <2>1 DEF NumeratorTypeOK
  <2>3. NumbersSound'  BY <1>1, <2>1 DEF NumbersSound
  <2>4. ChangeTreated'  BY <1>1, <2>1 DEF ChangeTreated
  <2> QED  BY <2>2, <2>3, <2>4 DEF SoundInv
<1> QED  BY <1>2, <1>3, <1>4, <1>5, <1>6 DEF Next

-----------------------------------------------------------------------------
(* What the theorems say follows from the invariant.                       *)
LEMMA SoundApart == ASSUME SoundInv PROVE IntervalsApart
<1>1. Numbers.list = scope /\ Numbers.of = interval  BY DEF Numbers
<1>2. /\ Whole(Numbers)
      /\ writes = <<>> => Sound(Numbers)
  BY DEF SoundInv, NumbersSound
<1>3. ToSet(scope) \subseteq DOMAIN interval /\ \A i \in DOMAIN interval : interval[i][1] <= interval[i][2]
  <2>1. ToSet(Numbers.list) \subseteq DOMAIN Numbers.of /\ Ordered(Numbers.of)  BY <1>2 DEF Whole
  <2>2. ToSet(scope) \subseteq DOMAIN interval /\ Ordered(interval)  BY <1>1, <2>1
  <2> QED  BY <2>2 DEF Ordered
<1>4. ASSUME writes = <<>>
      PROVE  /\ IsInjective(scope)
             /\ \A i, j \in ToSet(scope) : i # j =>
                    interval[i][2] + 1 < interval[j][1] \/ interval[j][2] + 1 < interval[i][1]
  <2>1. /\ IsInjective(Numbers.list)
        /\ \A i, j \in ToSet(Numbers.list) : i # j => Apart(Numbers.of, i, j)
    BY <1>2, <1>4 DEF Sound
  <2>2. IsInjective(scope) /\ \A i, j \in ToSet(scope) : i # j => Apart(interval, i, j)
    BY <1>1, <2>1
  <2> QED  BY <2>2 DEF Apart
<1> QED  BY <1>3, <1>4 DEF IntervalsApart

(* A document that waits for the script has no number, is deleted, or      *)
(* entered a number that is not in use.                                    *)
LEMMA SettledUnique ==
    ASSUME NEW D \in [Docs -> DocRecords], NEW C, NEW Q \in Seq(ChangeRecords), Settled(D, C, Q),
           NEW d \in Docs, NEW e \in Docs, d # e, InUse(D[d]), InUse(D[e]),
           D[d].number # 0, D[e].number # 0
    PROVE  D[d].number # D[e].number
<1>1. \A f \in Docs : f \notin QueuedDocs(Q) => Prior(D, Q, f) = D[f]  BY DEF Prior
<1>2. ASSUME NEW f \in Docs, InUse(D[f]), D[f].number # 0, f \in QueuedDocs(Q)
      PROVE  D[f].number \notin C /\ 1 \in DOMAIN Q /\ Q[1].doc = f
  <2>1. PICK k \in DOMAIN Q : Q[k].doc = f  BY <1>2 DEF QueuedDocs
  <2>2. ~Plain(D, Q[k])  BY <1>2, <2>1 DEF Plain, InUse
  <2>3. k = 1 /\ Entered(D, C, Q[k])  BY <2>2 DEF Settled
  <2> QED  BY <2>1, <2>3 DEF Entered
<1>3. ASSUME NEW f \in Docs, InUse(D[f]), f \notin QueuedDocs(Q)
      PROVE  D[f].number \in C
  BY <1>1, <1>3 DEF Settled
<1>4. CASE d \in QueuedDocs(Q) /\ e \in QueuedDocs(Q)  BY <1>2, <1>4
<1>5. CASE d \in QueuedDocs(Q) /\ e \notin QueuedDocs(Q)  BY <1>2, <1>3, <1>5
<1>6. CASE d \notin QueuedDocs(Q) /\ e \in QueuedDocs(Q)  BY <1>2, <1>3, <1>6
<1>7. CASE d \notin QueuedDocs(Q) /\ e \notin QueuedDocs(Q)  BY <1>1, <1>7 DEF Settled
<1> QED  BY <1>4, <1>5, <1>6, <1>7

LEMMA SettledNumbers == ASSUME SettledInv PROVE UniqueNumbers
<1>1. /\ doc \in [Docs -> DocRecords] /\ queue \in Seq(ChangeRecords)
      /\ writes # <<>> => queue # <<>>
  BY DEF SettledInv, SoundInv, NumeratorTypeOK, ChangeTreated
<1> SUFFICES ASSUME NEW d \in Docs, NEW e \in Docs, d # e, InUse(doc[d]), InUse(doc[e]),
                    doc[d].number # 0, doc[e].number # 0
             PROVE  doc[d].number # doc[e].number
  <2>1. \A f \in Docs : Live(f) <=> InUse(doc[f])  BY DEF Live, InUse
  <2>2. \A f, g \in Docs : doc[f].number = 0 /\ doc[g].number # 0 => doc[f].number # doc[g].number
    OBVIOUS
  <2> QED  BY <2>1, <2>2 DEF UniqueNumbers
<1>2. CASE writes = <<>>
  <2>1. PICK C : C = Covered(Numbers)  OBVIOUS
  <2>2. Settled(doc, C, queue)  BY <1>2, <2>1 DEF SettledInv
  <2> QED  BY <1>1, <2>2, SettledUnique
<1>3. CASE writes # <<>>
  <2>1. PICK r, t : ToSettle(r, t)  BY <1>3 DEF SettledInv
  <2>2. PICK h, D, Q, C : /\ h = Head(queue).doc /\ D = [doc EXCEPT ![h] = r]
                          /\ Q = Tail(queue) /\ C = Covered(t)
    OBVIOUS
  <2>3. Head(queue) \in ChangeRecords /\ Q \in Seq(ChangeRecords)  BY <1>1, <1>3, <2>2
  <2>4. /\ h \in Docs /\ r \in DocRecords /\ Settled(D, C, Q) /\ Pending(doc, writes, h, r)
    BY <2>1, <2>2, <2>3 DEF ToSettle, ChangeRecords
  <2>5. D \in [Docs -> DocRecords] /\ D[h] = r /\ \A f \in Docs \ {h} : D[f] = doc[f]
    BY <1>1, <2>2, <2>4
  <2>6. doc[h].number = 0 \/ doc[h] = r  BY <2>4 DEF Pending
  <2>7. D[d] = doc[d] /\ D[e] = doc[e]  BY <2>5, <2>6
  <2>8. D[d].number # D[e].number  BY <2>3, <2>4, <2>5, <2>7, SettledUnique
  <2> QED  BY <2>7, <2>8
<1> QED  BY <1>2, <1>3

LEMMA SettledCommitted == ASSUME SettledInv PROVE NumbersCommitted
<1> SUFFICES ASSUME queue = <<>>, NEW d \in Docs, Live(d) PROVE In(Numbers, doc[d].number) # {}
  BY DEF NumbersCommitted
<1>1. writes = <<>>  BY DEF SettledInv, SoundInv, ChangeTreated
<1>2. Settled(doc, Covered(Numbers), queue)  BY <1>1 DEF SettledInv
<1>3. Prior(doc, queue, d) = doc[d]
  <2>1. QueuedDocs(queue) = {}  BY DEF QueuedDocs
  <2> QED  BY <2>1 DEF Prior
<1>4. doc[d].number \in Covered(Numbers)  BY <1>2, <1>3 DEF Settled, Live, InUse
<1> QED  BY <1>4 DEF Covered, CoveredBy, In

-----------------------------------------------------------------------------
LEMMA SettledInit == ASSUME Init PROVE SettledInv
<1>1. doc = [d \in Docs |-> NoDoc] /\ queue = <<>> /\ writes = <<>>  BY DEF Init
<1>2. \A d \in Docs : Prior(doc, queue, d) = NoDoc
  <2>1. QueuedDocs(queue) = {}  BY <1>1 DEF QueuedDocs
  <2> QED  BY <1>1, <2>1 DEF Prior
<1>3. ~InUse(NoDoc)  BY DEF NoDoc, InUse
<1>4. Settled(doc, Covered(Numbers), queue)  BY <1>1, <1>2, <1>3 DEF Settled, OneEach
<1> QED  BY <1>1, <1>4, SoundInit DEF SettledInv

(* What a change of a user is to the documents D and the changes Q, where  *)
(* its document is as it is stored.                                        *)
LEMMA UserSettles ==
    ASSUME Habits = {}, NumeratorTypeOK, NEW d \in Docs, User(d),
           NEW D \in [Docs -> DocRecords], NEW C, NEW Q \in Seq(ChangeRecords), Settled(D, C, Q),
           D[d] = doc[d], QueuedDocs(Q) \subseteq QueuedDocs(queue),
           queue = <<>> => Q = <<>> /\ C = Covered(Numbers)
    PROVE  \E r \in DocRecords : /\ Change(d, r) /\ d \notin QueuedDocs(queue)
                                 /\ Settled([D EXCEPT ![d] = r], C, Append(Q, [doc |-> d, prev |-> doc[d]]))
<1>1. PICK r \in DocRecords : /\ Change(d, r) /\ r.here
                              /\ \/ ~doc[d].here /\ InUse(r) /\ r.number = 0
                                 \/ InUse(doc[d]) /\ InUse(r) /\ r.number = 0
                                 \/ /\ doc[d].here /\ r.number = doc[d].number
                                    /\ r.deleted /\ ~doc[d].deleted
                                 \/ /\ InUse(r) /\ r.number # 0 /\ Available(r.number)
                                    /\ ~doc[d].here \/ InUse(doc[d])
  BY UserChanges
<1>2. \A i \in DOMAIN queue : queue[i].doc # d  BY <1>1 DEF Change
<1>3. d \notin QueuedDocs(queue)  BY <1>2 DEF QueuedDocs
<1>4. PICK E, q : E = [D EXCEPT ![d] = r] /\ q = [doc |-> d, prev |-> D[d]]  OBVIOUS
<1>5. E[d] = r /\ q.doc = d /\ q.prev = doc[d]  BY <1>4
<1>6. ~doc[d].here => doc[d] = NoDoc  BY DEF Settled
<1>7. Plain(E, q) \/ (Q = <<>> /\ Entered(E, C, q))
  <2>1. CASE (~doc[d].here \/ InUse(doc[d])) /\ InUse(r) /\ r.number = 0
    BY <1>5, <1>6, <2>1 DEF Plain
  <2>2. CASE doc[d].here /\ r.number = doc[d].number /\ r.deleted /\ ~doc[d].deleted
    BY <1>1, <1>5, <2>2 DEF Plain, InUse
  <2>3. CASE InUse(r) /\ r.number # 0 /\ Available(r.number) /\ (~doc[d].here \/ InUse(doc[d]))
    <3>1. In(Numbers, r.number) = {} /\ queue = <<>>  BY <2>3 DEF Available
    <3>2. r.number \notin Covered(Numbers)  BY <3>1 DEF In, Covered, CoveredBy
    <3> QED  BY <1>5, <1>6, <2>3, <3>1, <3>2 DEF Entered
  <2> QED  BY <1>1, <2>1, <2>2, <2>3
<1>8. Settled(E, C, Append(Q, q))  BY <1>1, <1>3, <1>4, <1>7, ChangeSettles
<1> QED  BY <1>1, <1>3, <1>4, <1>8

LEMMA SettledUser ==
    ASSUME Habits = {}, SettledInv, NEW d \in Docs, User(d), SoundInv'
    PROVE  SettledInv'
<1>1. /\ NumeratorTypeOK /\ ChangeTreated /\ doc \in [Docs -> DocRecords]
      /\ queue \in Seq(ChangeRecords)
  BY DEF SettledInv, SoundInv, NumeratorTypeOK
<1>2. ASSUME writes = <<>> \/ stored = 0
      PROVE  Settled(doc', Covered(Numbers'), queue')
  <2>1. PICK C : C = Covered(Numbers)  OBVIOUS
  <2>2. Settled(doc, C, queue)  BY <1>2, <2>1 DEF SettledInv
  <2>3. PICK D, Q : D = doc /\ Q = queue  OBVIOUS
  <2>4. PICK r \in DocRecords :
            /\ Change(d, r)
            /\ Settled([D EXCEPT ![d] = r], C, Append(Q, [doc |-> d, prev |-> doc[d]]))
    BY <1>1, <2>1, <2>2, <2>3, UserSettles
  <2>5. /\ doc' = [doc EXCEPT ![d] = r] /\ Numbers' = Numbers
        /\ queue' = Append(queue, [doc |-> d, prev |-> doc[d]])
    BY <1>1, <2>4, UserKeeps
  <2> QED  BY <2>1, <2>3, <2>4, <2>5
<1>3. ASSUME writes # <<>> PROVE \E r, t : ToSettle(r, t)'
  <2>1. PICK r, t : ToSettle(r, t)  BY <1>3 DEF SettledInv
  <2>2. PICK h, D, Q, C : /\ h = Head(queue).doc /\ D = [doc EXCEPT ![h] = r]
                          /\ Q = Tail(queue) /\ C = Covered(t)
    OBVIOUS
  <2>3. queue # <<>> /\ Head(queue) \in ChangeRecords /\ Q \in Seq(ChangeRecords)
    BY <1>1, <1>3, <2>2 DEF ChangeTreated
  <2>4. /\ h \in Docs /\ r \in DocRecords /\ Settled(D, C, Q) /\ Pending(doc, writes, h, r)
        /\ Leads(Numbers, writes, t)
    BY <2>1, <2>2, <2>3 DEF ToSettle, ChangeRecords
  <2>5. D \in [Docs -> DocRecords] /\ D[h] = r /\ \A f \in Docs \ {h} : D[f] = doc[f]
    BY <1>1, <2>2, <2>4
  <2>6. h \in QueuedDocs(queue) /\ QueuedDocs(Q) \subseteq QueuedDocs(queue)
    <3>1. PICK n : n = Len(queue)  OBVIOUS
    <3>2. /\ n \in Nat /\ n >= 1 /\ DOMAIN queue = 1 .. n /\ DOMAIN Q = 1 .. n - 1
          /\ queue[1] = Head(queue) /\ \A k \in 1 .. n - 1 : Q[k] = queue[k + 1] /\ k + 1 \in 1 .. n
      BY <1>1, <2>2, <2>3, <3>1
    <3>3. 1 \in DOMAIN queue  BY <3>2
    <3> QED  BY <2>2, <3>2, <3>3 DEF QueuedDocs
  <2>7. PICK x \in DocRecords : Change(d, x) /\ d \notin QueuedDocs(queue)
    <3>1. \E y \in DocRecords : Change(d, y)  BY <1>1, UserChanges
    <3>2. PICK y \in DocRecords : Change(d, y)  BY <3>1
    <3>3. \A i \in DOMAIN queue : queue[i].doc # d  BY <3>2 DEF Change
    <3> QED  BY <3>2, <3>3 DEF QueuedDocs
  <2>8. D[d] = doc[d] /\ d # h  BY <2>5, <2>6, <2>7
  <2>9. PICK y \in DocRecords :
            /\ Change(d, y)
            /\ Settled([D EXCEPT ![d] = y], C, Append(Q, [doc |-> d, prev |-> doc[d]]))
    BY <1>1, <2>3, <2>4, <2>5, <2>6, <2>8, UserSettles
  <2>10. /\ doc' = [doc EXCEPT ![d] = y] /\ Numbers' = Numbers /\ writes' = writes
         /\ queue' = Append(queue, [doc |-> d, prev |-> doc[d]])
    BY <1>1, <2>9, UserKeeps
  <2>11. Head(queue') = Head(queue) /\ Tail(queue') = Append(Q, [doc |-> d, prev |-> doc[d]])
    <3>1. PICK q : q = [doc |-> d, prev |-> doc[d]]  OBVIOUS
    <3>2. q \in ChangeRecords  BY <1>1, <3>1 DEF ChangeRecords
    <3>3. Head(Append(queue, q)) = Head(queue) /\ Tail(Append(queue, q)) = Append(Tail(queue), q)
      BY <1>1, <2>3, <3>2
    <3> QED  BY <2>2, <2>10, <3>1, <3>3
  <2>12. [doc' EXCEPT ![h] = r] = [D EXCEPT ![d] = y]
    BY <1>1, <2>2, <2>4, <2>8, <2>10
  <2>13. Pending(doc', writes', h, r)
    <3>1. doc'[h] = doc[h]  BY <1>1, <2>4, <2>8, <2>10
    <3> QED  BY <2>4, <2>10, <3>1 DEF Pending
  <2>14. Settled([doc' EXCEPT ![h] = r], Covered(t), Tail(queue'))
    BY <2>2, <2>9, <2>11, <2>12
  <2>15. Leads(Numbers', writes', t) /\ Head(queue').doc = h  BY <2>2, <2>4, <2>10, <2>11
  <2>16. ToSettle(r, t)'  BY <2>4, <2>13, <2>14, <2>15 DEF ToSettle
  <2> QED  BY <2>16
<1>4. writes' = writes /\ stored' = stored
  <2>1. \E r \in DocRecords : Change(d, r)  BY <1>1, UserChanges
  <2> QED  BY <2>1 DEF Change
<1>5. (writes' = <<>> \/ stored' = 0) => Settled(doc', Covered(Numbers'), queue')  BY <1>2, <1>4
<1>6. writes' # <<>> => \E r, t : ToSettle(r, t)'  BY <1>3, <1>4
<1> QED  BY <1>5, <1>6 DEF SettledInv

LEMMA SettledTreat ==
    ASSUME SettledInv, Treat, SoundInv'
    PROVE  SettledInv'
<1>1. /\ queue # <<>> /\ writes = <<>> /\ Sound(Numbers)
      /\ writes' = Append(Numerate(Head(queue).doc, Head(queue).prev), EndWrite)
      /\ doc' = doc /\ queue' = queue /\ Numbers' = Numbers
      /\ Head(queue) \in ChangeRecords
  BY TreatStep DEF SettledInv
<1>2. doc \in [Docs -> DocRecords] /\ queue \in Seq(ChangeRecords)
  BY DEF SettledInv, SoundInv, NumeratorTypeOK
<1>3. Settled(doc, Covered(Numbers), queue)  BY <1>1 DEF SettledInv
<1>4. PICK d, prev : d = Head(queue).doc /\ prev = Head(queue).prev  OBVIOUS
<1>5. d \in Docs  BY <1>1, <1>4 DEF ChangeRecords
<1>6. PICK r, C2 : Drafts(d, prev, r, C2) /\ Settled([doc EXCEPT ![d] = r], C2, Tail(queue))
  BY <1>1, <1>2, <1>3, <1>4, TreatSettles
<1>7. PICK ns, t : Drafted(d, prev, Numbers, ns, t, r) /\ Covered(t) = C2  BY <1>6 DEF Drafts
<1>8. PICK ws, s : ws = Append(Numerate(d, prev), EndWrite) /\ s = Numbers  OBVIOUS
<1>9. Drafted(d, prev, s, ns, t, r)  BY <1>7, <1>8
<1>10. Leads(s, ws, t) /\ Pending(doc, ws, d, r) /\ ws # <<>>
  BY <1>5, <1>8, <1>9, DraftedWrites
<1>11. writes' = ws /\ r \in DocRecords  BY <1>1, <1>4, <1>8, <1>9 DEF Drafted
<1>12. ToSettle(r, t)'
  <2>1. Leads(Numbers', writes', t) /\ Pending(doc', writes', Head(queue').doc, r)
    BY <1>1, <1>4, <1>8, <1>10, <1>11
  <2>2. Settled([doc' EXCEPT ![Head(queue').doc] = r], Covered(t), Tail(queue'))
    BY <1>1, <1>4, <1>6, <1>7
  <2> QED  BY <1>11, <2>1, <2>2 DEF ToSettle
<1>13. Settled(doc', Covered(Numbers'), queue')  BY <1>1, <1>3
<1> QED  BY <1>12, <1>13 DEF SettledInv

(* E is what a write makes of the documents D.                             *)
DocStored(D, w, E) == E = IF w.kind = "doc" THEN [D EXCEPT ![w.id] = w.value] ELSE D

Finally(D, E, d, r) == [E EXCEPT ![d] = r] = [D EXCEPT ![d] = r]

LEMMA PendingTail ==
    ASSUME NEW D \in [Docs -> DocRecords], NEW ws \in Seq(WriteRecords), ws # <<>>, NEW d \in Docs,
           NEW r \in DocRecords, Pending(D, ws, d, r),
           NEW E, DocStored(D, Head(ws), E)
    PROVE  /\ Pending(E, Tail(ws), d, r) /\ Finally(D, E, d, r)
           /\ Tail(ws) = <<>> => E[d] = r
<1>1. PICK n, R, w : n = Len(ws) /\ R = Tail(ws) /\ w = Head(ws)  OBVIOUS
<1>2. /\ n \in Nat /\ n >= 1 /\ DOMAIN ws = 1 .. n /\ DOMAIN R = 1 .. n - 1 /\ ws[1] = w
      /\ \A k \in 1 .. n - 1 : R[k] = ws[k + 1]
  BY <1>1
<1>3. \A k \in 1 .. n - 1 : k + 1 \in 1 .. n /\ k + 1 # 1  BY <1>2
<1>4. 1 \in 1 .. n /\ \A k \in 1 .. n : k # 1 => k - 1 \in 1 .. n - 1 /\ (k - 1) + 1 = k  BY <1>2
<1>5. /\ \A k \in 1 .. n : ws[k].kind = "doc" => ws[k].id = d /\ ws[k].value = r
      /\ \A j, k \in 1 .. n : ws[j].kind = "doc" /\ ws[k].kind = "doc" => j = k
      /\ (\A k \in 1 .. n : ws[k].kind # "doc") => D[d] = r
      /\ (\E k \in 1 .. n : ws[k].kind = "doc") => D[d].number = 0
  BY <1>2 DEF Pending
<1>6. \A k \in 1 .. n - 1 : R[k].kind = "doc" => R[k].id = d /\ R[k].value = r
  BY <1>2, <1>3, <1>5
<1>7. \A j, k \in 1 .. n - 1 : R[j].kind = "doc" /\ R[k].kind = "doc" => j = k
  <2> SUFFICES ASSUME NEW j \in 1 .. n - 1, NEW k \in 1 .. n - 1, R[j].kind = "doc", R[k].kind = "doc"
               PROVE  j = k
    OBVIOUS
  <2>1. j + 1 = k + 1  BY <1>2, <1>3, <1>5
  <2> QED  BY <2>1
<1>8. CASE w.kind = "doc"
  <2>1. w.id = d /\ w.value = r  BY <1>2, <1>4, <1>5, <1>8
  <2>2. E = [D EXCEPT ![d] = r] /\ E[d] = r  BY <1>1, <1>8, <2>1 DEF DocStored
  <2>3. \A k \in 1 .. n - 1 : R[k].kind # "doc"  BY <1>2, <1>3, <1>4, <1>5, <1>8
  <2>4. Pending(E, R, d, r)  BY <1>2, <1>6, <1>7, <2>2, <2>3 DEF Pending
  <2> QED  BY <1>1, <2>2, <2>4 DEF Finally
<1>9. CASE w.kind # "doc"
  <2>1. E = D  BY <1>1, <1>9 DEF DocStored
  <2>2. ASSUME \A k \in 1 .. n - 1 : R[k].kind # "doc" PROVE D[d] = r
    <3>1. ASSUME NEW k \in 1 .. n PROVE ws[k].kind # "doc"
      <4>1. CASE k = 1  BY <1>2, <1>9, <4>1
      <4>2. CASE k # 1  BY ZenonT(60), <1>2, <1>4, <2>2, <4>2
      <4> QED  BY <4>1, <4>2
    <3> QED  BY <1>5, <3>1
  <2>3. ASSUME NEW k \in 1 .. n - 1, R[k].kind = "doc" PROVE D[d].number = 0
    BY <1>2, <1>3, <1>5, <2>3
  <2>4. Pending(E, R, d, r)  BY <1>2, <1>6, <1>7, <2>1, <2>2, <2>3 DEF Pending
  <2>5. R = <<>> => D[d] = r
    <3>1. R = <<>> => 1 .. n - 1 = {}  BY <1>2
    <3> QED  BY <2>2, <3>1
  <2> QED  BY <1>1, <2>1, <2>4, <2>5 DEF Finally
<1> QED  BY <1>8, <1>9

LEMMA SettledStore ==
    ASSUME SettledInv, Store, SoundInv'
    PROVE  SettledInv'
<1>1. /\ NumeratorTypeOK /\ Whole(Numbers) /\ ChangeTreated
      /\ doc \in [Docs -> DocRecords] /\ queue \in Seq(ChangeRecords) /\ writes \in Seq(WriteRecords)
  BY DEF SettledInv, SoundInv, NumbersSound, NumeratorTypeOK
<1>2. /\ Numbers' = Written(Numbers, Head(writes))
      /\ writes # <<>> /\ writes' = Tail(writes)
      /\ writes' = <<>> => queue' = Tail(queue)
      /\ writes' # <<>> => stored' # 0 /\ queue' = queue
      /\ doc' = IF Head(writes).kind = "doc"
                THEN [doc EXCEPT ![Head(writes).id] = Head(writes).value] ELSE doc
  BY <1>1, StoreStep
<1>3. PICK r, t : ToSettle(r, t)  BY <1>2 DEF SettledInv
<1>4. PICK h, s, ws : h = Head(queue).doc /\ s = Numbers /\ ws = writes  OBVIOUS
<1>5. h \in Docs
  <2>1. Head(queue) \in ChangeRecords  BY <1>1, <1>2 DEF ChangeTreated
  <2> QED  BY <1>4, <2>1 DEF ChangeRecords
<1>6. /\ Leads(s, ws, t) /\ r \in DocRecords /\ Pending(doc, ws, h, r)
      /\ Settled([doc EXCEPT ![h] = r], Covered(t), Tail(queue))
  BY <1>3, <1>4 DEF ToSettle
<1>7. Leads(Written(s, Head(ws)), Tail(ws), t)  BY <1>1, <1>2, <1>4, <1>6, LeadsTail
<1>8. Leads(Numbers', writes', t)  BY <1>2, <1>4, <1>7
<1>9. PICK E : E = doc'  OBVIOUS
<1>10. /\ Pending(E, Tail(ws), h, r) /\ [E EXCEPT ![h] = r] = [doc EXCEPT ![h] = r]
       /\ Tail(ws) = <<>> => E = [doc EXCEPT ![h] = r]
  <2>1. PICK D : D = doc  OBVIOUS
  <2>2. D \in [Docs -> DocRecords] /\ ws \in Seq(WriteRecords) /\ ws # <<>>  BY <1>1, <1>2, <1>4, <2>1
  <2>3. DocStored(D, Head(ws), E)  BY <1>2, <1>4, <1>9, <2>1 DEF DocStored
  <2>4. Pending(D, ws, h, r) /\ r \in DocRecords  BY <1>6, <2>1
  <2>5. Pending(E, Tail(ws), h, r) /\ Finally(D, E, h, r) /\ (Tail(ws) = <<>> => E[h] = r)
    BY <1>5, <2>2, <2>3, <2>4, PendingTail
  <2>6. E \in [Docs -> DocRecords]
    <3>1. NumeratorTypeOK'  BY DEF SoundInv
    <3> QED  BY <1>9, <3>1 DEF NumeratorTypeOK
  <2>7. E[h] = r => E = [E EXCEPT ![h] = r]  BY <2>6
  <2> QED  BY <2>1, <2>5, <2>7 DEF Finally
<1>11. CASE writes' = <<>>
  <2>1. Numbers' = t  BY <1>8, <1>11, LeadsNowhere
  <2>2. doc' = [doc EXCEPT ![h] = r] /\ queue' = Tail(queue)  BY <1>2, <1>4, <1>9, <1>10, <1>11
  <2>3. Settled(doc', Covered(Numbers'), queue')  BY <1>6, <2>1, <2>2
  <2> QED  BY <1>11, <2>3 DEF SettledInv
<1>12. CASE writes' # <<>>
  <2>1. stored' # 0 /\ queue' = queue  BY <1>2, <1>12
  <2>2. Pending(doc', writes', Head(queue').doc, r)  BY <1>2, <1>4, <1>9, <1>10, <2>1
  <2>3. Settled([doc' EXCEPT ![Head(queue').doc] = r], Covered(t), Tail(queue'))
    BY <1>4, <1>6, <1>9, <1>10, <2>1
  <2>4. ToSettle(r, t)'  BY <1>6, <1>8, <2>2, <2>3 DEF ToSettle
  <2> QED  BY <1>12, <2>1, <2>4 DEF SettledInv
<1> QED  BY <1>11, <1>12

LEMMA SettledStep ==
    ASSUME Habits = {}, SettledInv, [Next]_vars
    PROVE  SettledInv'
<1>1. SoundInv'  BY SoundStep DEF SettledInv
<1>2. CASE Treat  BY <1>1, <1>2, SettledTreat
<1>3. CASE Store  BY <1>1, <1>3, SettledStore
<1>4. CASE Dies
  <2>1. /\ stored = 0 /\ writes' = <<>> /\ Numbers' = Numbers /\ doc' = doc /\ queue' = queue
    BY <1>4 DEF Dies, Numbers
  <2>2. Settled(doc, Covered(Numbers), queue)  BY <2>1 DEF SettledInv
  <2> QED  BY <1>1, <2>1, <2>2 DEF SettledInv
<1>5. ASSUME NEW d \in Docs, User(d) PROVE SettledInv'  BY <1>1, <1>5, SettledUser
<1>6. CASE UNCHANGED vars
  <2>1. /\ doc' = doc /\ Numbers' = Numbers /\ queue' = queue /\ writes' = writes /\ stored' = stored
    BY <1>6 DEF vars, Numbers
  <2>2. \A r, t : ToSettle(r, t) => ToSettle(r, t)'  BY <2>1 DEF ToSettle
  <2> QED  BY <1>1, <2>1, <2>2 DEF SettledInv
<1> QED  BY <1>2, <1>3, <1>4, <1>5, <1>6 DEF Next

-----------------------------------------------------------------------------
(* Unless the machine dies with half of a transaction stored, the          *)
(* intervals of the scope are apart, whatever users enter, clear, delete   *)
(* or restore (commitValue and revokeValue, numerator.js:129-319).         *)
THEOREM IntervalsApartHolds ==
    ASSUME "die" \notin Habits
    PROVE  Spec => []IntervalsApart
<1>1. Init => SoundInv  BY SoundInit
<1>2. SoundInv /\ [Next]_vars => SoundInv'  BY SoundStep
<1>3. SoundInv => IntervalsApart  BY SoundApart
<1> QED  BY <1>1, <1>2, <1>3, PTL DEF Spec

(* What every proof about the documents rests on.                          *)
THEOREM SettledInvariance ==
    ASSUME Habits = {}
    PROVE  Spec => []SettledInv
<1>1. Init => SettledInv  BY SettledInit
<1>2. SettledInv /\ [Next]_vars => SettledInv'  BY SettledStep
<1> QED  BY <1>1, <1>2, PTL DEF Spec

(* While nothing spoils the numbers, no two documents that are not deleted *)
(* have the same number, at any moment of any transaction                  *)
(* (numerate, numerator.js:32-94).                                         *)
THEOREM UniqueNumbersHolds ==
    ASSUME Habits = {}
    PROVE  Spec => []UniqueNumbers
<1>1. SettledInv => UniqueNumbers  BY SettledNumbers
<1> QED  BY <1>1, SettledInvariance, PTL

(* When all changes are treated, every document that is not deleted has a  *)
(* number that is in use (numerate, numerator.js:32-94).                   *)
THEOREM NumbersCommittedHolds ==
    ASSUME Habits = {}
    PROVE  Spec => []NumbersCommitted
<1>1. SettledInv => NumbersCommitted  BY SettledCommitted
<1> QED  BY <1>1, SettledInvariance, PTL
=============================================================================
