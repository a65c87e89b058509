--------------------------- MODULE QueueFlowProofs ---------------------------
(***************************************************************************)
(* The producer and the reader of a file queue implement EventFlow.        *)
(***************************************************************************)
EXTENDS QueueFlow, QueueConsumerProofs, SequenceTheorems, NaturalsInduction,
        WellFoundedInduction

-----------------------------------------------------------------------------
(* Flattening a sequence of sequences.                                     *)

(* A set of numbers that is not empty has a least one.                     *)
LEMMA LeastNumber ==
    ASSUME NEW S \in SUBSET Nat, S # {}
    PROVE  \E i \in S : \A j \in S : i <= j
<1>1. IsWellFoundedOn(OpToRel(<, Nat), Nat)  BY NatLessThanWellFounded
<1>2. PICK i \in S : \A j \in S : ~(<<j, i>> \in OpToRel(<, Nat))  BY <1>1, WFMin
<1>3. \A j \in S : ~(j < i)  BY <1>2 DEF OpToRel
<1> QED  BY <1>3

(* The recurrence of FlattenSeq, over the first n of the sequences ss.     *)
Flattens(f, ss, n) == f = [i \in 1 .. n |-> IF i = 1 THEN ss[i] ELSE f[i - 1] \o ss[i]]

(* It has a solution, a sequence at each place.                            *)
LEMMA FlattensExists ==
    ASSUME NEW S, NEW N \in Nat, NEW ss \in [1 .. N -> Seq(S)], NEW n \in 1 .. N
    PROVE  \E f : Flattens(f, ss, n) /\ \A i \in 1 .. n : f[i] \in Seq(S)
<1> DEFINE Solved(k) == \E f : Flattens(f, ss, k) /\ \A i \in 1 .. k : f[i] \in Seq(S)
           bad == {k \in 1 .. N : ~Solved(k)}
<1>1. SUFFICES ASSUME bad # {} PROVE FALSE
  OBVIOUS
<1>2. PICK k \in bad : \A j \in bad : k <= j
  <2>1. bad \in SUBSET Nat  OBVIOUS
  <2> HIDE DEF bad
  <2>2. QED  BY <1>1, <2>1, LeastNumber
<1>3. CASE k = 1
  <2>1. PICK f : f = [i \in 1 .. 1 |-> ss[i]]  OBVIOUS
  <2>2. f[1] \in Seq(S) /\ Flattens(f, ss, 1)  BY <2>1 DEF Flattens
  <2>3. QED  BY <1>2, <1>3, <2>2
<1>4. CASE k # 1
  <2>1. k - 1 \in 1 .. N /\ k \in 1 .. N  BY <1>2, <1>4
  <2>2. k - 1 \notin bad  BY <1>2, <2>1
  <2>3. PICK f : Flattens(f, ss, k - 1) /\ \A i \in 1 .. k - 1 : f[i] \in Seq(S)
    BY <2>1, <2>2
  <2>4. PICK g : g = [i \in 1 .. k |-> IF i = k THEN f[k - 1] \o ss[k] ELSE f[i]]  OBVIOUS
  <2>5. f[k - 1] \in Seq(S) /\ ss[k] \in Seq(S)  BY <2>1, <2>3
  <2>6. \A i \in 1 .. k - 1 : f[i] = IF i = 1 THEN ss[i] ELSE f[i - 1] \o ss[i]
    BY <2>3 DEF Flattens
  <2>7. g[k] = f[k - 1] \o ss[k] /\ g[k] \in Seq(S) /\ \A i \in 1 .. k - 1 : g[i] = f[i]
    BY <2>1, <2>4, <2>5, ConcatProperties
  <2>8. \A i \in 1 .. k : i = k \/ i \in 1 .. k - 1
    BY <2>1
  <2>9. \A i \in 1 .. k - 1 : i # 1 => i - 1 \in 1 .. k - 1
    BY <2>1
  <2>10. \A i \in 1 .. k : g[i] \in Seq(S)
    BY <2>3, <2>7, <2>8
  <2>11. \A i \in 1 .. k : g[i] = IF i = 1 THEN ss[i] ELSE g[i - 1] \o ss[i]
    <3>1. ASSUME NEW i \in 1 .. k - 1
          PROVE  g[i] = IF i = 1 THEN ss[i] ELSE g[i - 1] \o ss[i]
      BY <2>6, <2>7, <2>9
    <3>2. g[k] = g[k - 1] \o ss[k]
      <4>1. k - 1 \in 1 .. k - 1  BY <2>1
      <4>2. QED  BY <2>7, <4>1
    <3>3. QED  BY <1>4, <2>8, <3>1, <3>2
  <2>12. Flattens(g, ss, k)
    BY <2>4, <2>11 DEF Flattens
  <2>13. QED
    BY <1>2, <2>1, <2>10, <2>12
<1>5. QED  BY <1>3, <1>4

\* The first m values of f and g are the same.
Agree(f, g, m) == \A i \in 1 .. m : f[i] = g[i]

(* And one solution only, whatever longer row it is a part of.             *)
LEMMA FlattensUnique ==
    ASSUME NEW f, NEW g, NEW s, NEW t, NEW m \in Nat, NEW n \in Nat, m <= n,
           Flattens(f, s, m), Flattens(g, t, n), Agree(s, t, m)
    PROVE  Agree(f, g, m)
<1> DEFINE bad == {i \in 1 .. m : f[i] # g[i]}
<1>1. SUFFICES ASSUME bad # {} PROVE FALSE
  BY DEF Agree
<1>2. PICK i \in bad : \A j \in bad : i <= j
  <2>1. bad \in SUBSET Nat  OBVIOUS
  <2> HIDE DEF bad
  <2>2. QED  BY <1>1, <2>1, LeastNumber
<1>3. i \in 1 .. m /\ i \in 1 .. n /\ s[i] = t[i]  BY <1>2 DEF Agree
<1>4. /\ f[i] = IF i = 1 THEN s[i] ELSE f[i - 1] \o s[i]
      /\ g[i] = IF i = 1 THEN t[i] ELSE g[i - 1] \o t[i]
  BY <1>3 DEF Flattens
<1>5. CASE i = 1  BY <1>2, <1>3, <1>4, <1>5
<1>6. CASE i # 1
  <2>1. i - 1 \in 1 .. m /\ i - 1 \notin bad  BY <1>2, <1>3, <1>6
  <2>2. f[i - 1] = g[i - 1]  BY <2>1
  <2>3. QED  BY <1>2, <1>3, <1>4, <1>6, <2>2
<1>7. QED  BY <1>5, <1>6

(* FlattenSeq is the last value of the solution.                           *)
LEMMA FlattenIs ==
    ASSUME NEW S, NEW n \in Nat, NEW ss \in [1 .. n -> Seq(S)]
    PROVE  /\ n = 0 => FlattenSeq(ss) = <<>>
           /\ n > 0 => \E f : /\ Flattens(f, ss, n) /\ FlattenSeq(ss) = f[n]
                              /\ \A i \in 1 .. n : f[i] \in Seq(S)
<1>1. ss \in Seq(Seq(S)) /\ Len(ss) = n
  OBVIOUS
<1>2. CASE n = 0
  <2>1. ss = <<>>  BY <1>1, <1>2, EmptySeq
  <2>2. QED  BY <1>1, <1>2, <2>1 DEF FlattenSeq
<1>3. CASE n > 0
  <2>1. n \in 1 .. n  BY <1>3
  <2>2. PICK f : Flattens(f, ss, n) /\ \A i \in 1 .. n : f[i] \in Seq(S)
    BY <2>1, FlattensExists
  <2>3. PICK g : g = CHOOSE h : h = [i \in 1 .. n |-> IF i = 1 THEN ss[i] ELSE h[i - 1] \o ss[i]]
    OBVIOUS
  <2>4. Flattens(g, ss, n)
    BY <2>2, <2>3 DEF Flattens
  <2>5. FlattenSeq(ss) = g[n]
    BY <1>1, <1>3, <2>3 DEF FlattenSeq
  <2>6. Agree(ss, ss, n)  BY DEF Agree
  <2>7. Agree(f, g, n)
    BY <2>2, <2>4, <2>6, FlattensUnique
  <2>8. QED
    BY <1>3, <2>1, <2>2, <2>4, <2>5, <2>7 DEF Agree
<1>4. QED  BY <1>2, <1>3

-----------------------------------------------------------------------------
(* The log of a row of parts.                                              *)

\* The messages of the first n parts, one part after the other.
Joined(P, n) == FlattenSeq([i \in 1 .. n |-> P[i - 1]])

LEMMA JoinedNone == \A P : Joined(P, 0) = <<>>
<1> SUFFICES ASSUME NEW P PROVE Joined(P, 0) = <<>>
  OBVIOUS
<1>1. PICK ss : ss = [i \in 1 .. 0 |-> P[i - 1]]
  OBVIOUS
<1>2. ss \in [1 .. 0 -> Seq({})]
  BY <1>1
<1>3. QED
  BY <1>1, <1>2, FlattenIs DEF Joined

JoinsPart(S, P, n) ==
    /\ Joined(P, n) \in Seq(S) /\ Joined(P, n + 1) \in Seq(S)
    /\ Joined(P, n + 1) = Joined(P, n) \o P[n]

(* One part more appends its messages.                                     *)
LEMMA JoinedNext ==
    ASSUME NEW S, NEW M \in Nat, NEW P \in [0 .. M -> Seq(S)], NEW n \in 0 .. M
    PROVE  JoinsPart(S, P, n)
<1>1. PICK s : s = [i \in 1 .. n |-> P[i - 1]]  OBVIOUS
<1>2. PICK t : t = [i \in 1 .. n + 1 |-> P[i - 1]]  OBVIOUS
<1>3. /\ n \in Nat /\ n + 1 \in Nat /\ n + 1 > 0 /\ n <= n + 1
      /\ \A i \in 1 .. n + 1 : i - 1 \in 0 .. M
  OBVIOUS
<1>4. \A i \in 1 .. n + 1 : P[i - 1] \in Seq(S)
  BY <1>3
<1>5. s \in [1 .. n -> Seq(S)] /\ t \in [1 .. n + 1 -> Seq(S)]
  BY <1>1, <1>2, <1>4
<1>6. Agree(s, t, n)
  BY <1>1, <1>2 DEF Agree
<1>7. PICK g : Flattens(g, t, n + 1) /\ FlattenSeq(t) = g[n + 1] /\ \A i \in 1 .. n + 1 : g[i] \in Seq(S)
  BY <1>3, <1>5, FlattenIs
<1>8. FlattenSeq(t) \in Seq(S) /\ t[n + 1] = P[n] /\ P[n] \in Seq(S)
  BY <1>2, <1>3, <1>7
<1>9. CASE n = 0
  <2>1. g[1] = t[1]
    BY <1>7, <1>9 DEF Flattens
  <2>2. Joined(P, 0) = <<>>
    BY JoinedNone
  <2>3. FlattenSeq(t) = <<>> \o P[n] /\ <<>> \in Seq(S)
    BY <1>7, <1>8, <1>9, <2>1, ConcatEmptySeq
  <2>4. QED
    BY <1>2, <1>8, <1>9, <2>2, <2>3 DEF Joined, JoinsPart
<1>10. CASE n > 0
  <2>1. PICK f : Flattens(f, s, n) /\ FlattenSeq(s) = f[n] /\ \A i \in 1 .. n : f[i] \in Seq(S)
    BY <1>3, <1>5, <1>10, FlattenIs
  <2>2. n \in 1 .. n
    BY <1>10
  <2>3. g[n] = f[n] /\ f[n] \in Seq(S)
    <3>1. PICK o \in Nat : o = n + 1
      BY <1>3
    <3>2. n <= o /\ Flattens(g, t, o)
      BY <1>3, <1>7, <3>1
    <3>3. Agree(f, g, n)
      BY <1>3, <1>6, <2>1, <3>1, <3>2, FlattensUnique
    <3>4. QED
      BY <2>1, <2>2, <3>3 DEF Agree
  <2>4. g[n + 1] = g[n] \o t[n + 1]
    <3>1. n + 1 \in 1 .. n + 1 /\ n + 1 # 1 /\ n + 1 - 1 = n
      BY <1>10
    <3>2. \A i \in 1 .. n + 1 : g[i] = IF i = 1 THEN t[i] ELSE g[i - 1] \o t[i]
      BY <1>7 DEF Flattens
    <3>3. PICK o \in 1 .. n + 1 : o = n + 1 /\ o # 1 /\ o - 1 = n
      BY <3>1
    <3>4. g[o] = g[o - 1] \o t[o]
      BY <3>2, <3>3
    <3>5. QED
      BY <3>3, <3>4
  <2>5. QED
    BY <1>1, <1>2, <1>7, <1>8, <2>1, <2>3, <2>4 DEF Joined, JoinsPart
<1>11. QED
  BY <1>9, <1>10

SameParts(P, Q, n) == \A i \in 0 .. n - 1 : P[i] = Q[i]

(* The first parts are enough to know the messages of the first parts.     *)
LEMMA JoinedSame ==
    ASSUME NEW P, NEW Q, NEW n \in Nat, SameParts(P, Q, n)
    PROVE  Joined(P, n) = Joined(Q, n)
<1>1. \A i \in 1 .. n : i - 1 \in 0 .. n - 1
  OBVIOUS
<1>2. [i \in 1 .. n |-> P[i - 1]] = [i \in 1 .. n |-> Q[i - 1]]
  BY <1>1 DEF SameParts
<1>3. QED
  BY <1>2 DEF Joined

\* The sequence s begins with the sequence r.
Begins(r, s) == Len(r) <= Len(s) /\ \A i \in 1 .. Len(r) : s[i] = r[i]

(* More parts only append messages.                                        *)
LEMMA JoinedBegins ==
    ASSUME NEW S, NEW M \in Nat, NEW P \in [0 .. M -> Seq(S)], NEW m \in 0 .. M + 1, NEW n \in m .. M + 1
    PROVE  Begins(Joined(P, m), Joined(P, n))
<1> DEFINE bad == {k \in m .. M + 1 : ~Begins(Joined(P, m), Joined(P, k))}
<1>1. SUFFICES ASSUME bad # {} PROVE FALSE
  OBVIOUS
<1>2. PICK k \in bad : \A j \in bad : k <= j
  <2>1. bad \in SUBSET Nat  OBVIOUS
  <2> HIDE DEF bad
  <2>2. QED  BY <1>1, <2>1, LeastNumber
<1>3. k # m
  BY <1>2 DEF Begins
<1>4. k - 1 \in m .. M + 1 /\ k - 1 \in 0 .. M /\ k - 1 + 1 = k /\ k - 1 \notin bad
  BY <1>2, <1>3
<1>5. Begins(Joined(P, m), Joined(P, k - 1))
  BY <1>4
<1>6. /\ Joined(P, k - 1) \in Seq(S) /\ P[k - 1] \in Seq(S)
      /\ Joined(P, k) = Joined(P, k - 1) \o P[k - 1]
  <2>1. PICK o \in 0 .. M : o = k - 1 /\ o + 1 = k /\ P[o] = P[k - 1] /\ P[o] \in Seq(S)
    BY <1>4
  <2>2. JoinsPart(S, P, o)  BY JoinedNext
  <2>3. QED  BY <2>1, <2>2 DEF JoinsPart
<1>7. Joined(P, m) \in Seq(S)
  <2>1. CASE m \in 0 .. M  BY <2>1, JoinedNext DEF JoinsPart
  <2>2. CASE m = M + 1  BY <1>2, <1>3, <2>2
  <2>3. QED  BY <2>1, <2>2
<1>8. Begins(Joined(P, m), Joined(P, k))
  <2>1. PICK a \in Seq(S) : a = Joined(P, m)  BY <1>7
  <2>2. PICK b \in Seq(S) : b = Joined(P, k - 1)  BY <1>6
  <2>3. PICK c \in Seq(S) : c = P[k - 1]  BY <1>6
  <2>4. Begins(a, b) => Begins(a, b \o c)
    BY ConcatProperties DEF Begins
  <2>5. QED
    BY <1>5, <1>6, <2>1, <2>2, <2>3, <2>4
<1>9. QED
  BY <1>2, <1>8

\* Record k + 1 of part p comes after the k before it and those of the parts before.
StandsAt(P, M, p, k) ==
    /\ Len(Joined(P, p)) + k < Len(Joined(P, M + 1))
    /\ Joined(P, M + 1)[Len(Joined(P, p)) + k + 1] = P[p][k + 1]

(* Record k + 1 of part p in the log of all parts.                         *)
LEMMA JoinedAt ==
    ASSUME NEW S, NEW M \in Nat, NEW P \in [0 .. M -> Seq(S)], NEW p \in 0 .. M,
           NEW k \in Nat, k < Len(P[p])
    PROVE  StandsAt(P, M, p, k)
<1>1. PICK a \in Seq(S) : a = Joined(P, p)  BY JoinedNext DEF JoinsPart
<1>2. PICK b \in Seq(S) : b = P[p]  OBVIOUS
<1>3. Joined(P, p + 1) = a \o b
  <2>1. JoinsPart(S, P, p)  BY JoinedNext
  <2>2. QED  BY <1>1, <1>2, <2>1 DEF JoinsPart
<1>4. Begins(a \o b, Joined(P, M + 1))
  <2>1. PICK o \in 0 .. M + 1 : o = p + 1  OBVIOUS
  <2>2. PICK e \in o .. M + 1 : e = M + 1  BY <2>1
  <2>3. Begins(Joined(P, o), Joined(P, e))  BY JoinedBegins
  <2>4. QED  BY <1>3, <2>1, <2>2, <2>3
<1>5. PICK n \in Nat : n = Len(a)  OBVIOUS
<1>6. PICK l \in Nat : l = Len(b)  OBVIOUS
<1>7. k < l
  BY <1>2, <1>6
<1>8. Len(a \o b) = n + l /\ n + k + 1 \in 1 .. n + l /\ (a \o b)[n + k + 1] = b[k + 1]
  BY <1>5, <1>6, <1>7, ConcatProperties
<1>9. Joined(P, M + 1) \in Seq(S)
  <2>1. M \in 0 .. M  OBVIOUS
  <2>2. QED  BY <2>1, JoinedNext DEF JoinsPart
<1>10. Len(Joined(P, M + 1)) \in Nat /\ n + l <= Len(Joined(P, M + 1))
  BY <1>4, <1>8, <1>9 DEF Begins
<1>11. Joined(P, M + 1)[n + k + 1] = b[k + 1]
  BY <1>4, <1>8 DEF Begins
<1>12. QED
  BY <1>1, <1>2, <1>5, <1>7, <1>10, <1>11 DEF StandsAt

(* Empty parts add nothing.                                                *)
LEMMA JoinedEmpty ==
    ASSUME NEW S, NEW M \in Nat, NEW P \in [0 .. M -> Seq(S)], NEW m \in 0 .. M + 1,
           \A q \in m .. M : P[q] = <<>>
    PROVE  Joined(P, M + 1) = Joined(P, m)
<1> DEFINE bad == {k \in m .. M + 1 : Joined(P, k) # Joined(P, m)}
<1>1. SUFFICES ASSUME bad # {} PROVE FALSE
  OBVIOUS
<1>2. PICK k \in bad : \A j \in bad : k <= j
  <2>1. bad \in SUBSET Nat  OBVIOUS
  <2> HIDE DEF bad
  <2>2. QED  BY <1>1, <2>1, LeastNumber
<1>3. k # m
  BY <1>2
<1>4. k - 1 \in m .. M + 1 /\ k - 1 \in m .. M /\ k - 1 \in 0 .. M /\ k - 1 + 1 = k /\ k - 1 \notin bad
  BY <1>2, <1>3
<1>5. Joined(P, k) = Joined(P, k - 1) \o <<>> /\ Joined(P, k - 1) \in Seq(S)
  <2>1. PICK o \in 0 .. M : o = k - 1 /\ P[o] = <<>> /\ o + 1 = k  BY <1>4
  <2>2. QED  BY <2>1, JoinedNext DEF JoinsPart
<1>6. Joined(P, k) = Joined(P, m)
  BY <1>4, <1>5, ConcatEmptySeq
<1>7. QED
  BY <1>2, <1>6

\* Q is P with the message m in part p, the last that holds any.
PutsLast(P, Q, M, p, m) ==
    /\ Q[p] = Append(P[p], m)
    /\ \A q \in 0 .. M : q # p => Q[q] = P[q]
    /\ \A q \in p + 1 .. M : P[q] = <<>>

(* A message appended to the last part that holds one is appended to the   *)
(* log, and leaves the log of the parts before as it was.                  *)
LEMMA JoinedAppend ==
    ASSUME NEW S, NEW M \in Nat, NEW P \in [0 .. M -> Seq(S)], NEW Q \in [0 .. M -> Seq(S)],
           NEW p \in 0 .. M, NEW m \in S, PutsLast(P, Q, M, p, m)
    PROVE  Joined(Q, M + 1) = Append(Joined(P, M + 1), m)
<1>1. /\ Q[p] = Append(P[p], m)
      /\ \A q \in 0 .. M : q # p => Q[q] = P[q]
      /\ \A q \in p + 1 .. M : P[q] = <<>>
  BY DEF PutsLast
<1>2. \A q \in p + 1 .. M : Q[q] = <<>>
  BY <1>1
<1>3. /\ p + 1 \in 0 .. M + 1
      /\ Joined(P, M + 1) = Joined(P, p + 1) /\ Joined(Q, M + 1) = Joined(Q, p + 1)
  <2>1. PICK o \in 0 .. M + 1 : o = p + 1  OBVIOUS
  <2>2. /\ \A q \in o .. M : P[q] = <<>>
        /\ \A q \in o .. M : Q[q] = <<>>
    BY <1>1, <1>2, <2>1
  <2>3. Joined(P, M + 1) = Joined(P, o)  BY <2>2, JoinedEmpty
  <2>4. Joined(Q, M + 1) = Joined(Q, o)  BY <2>2, JoinedEmpty
  <2>5. QED  BY <2>1, <2>3, <2>4
<1>4. Joined(Q, p) = Joined(P, p)
  <2>1. SameParts(Q, P, p)  BY <1>1 DEF SameParts
  <2>2. QED  BY <2>1, JoinedSame
<1>5. PICK a \in Seq(S) : a = Joined(P, p)  BY JoinedNext DEF JoinsPart
<1>6. PICK b \in Seq(S) : b = P[p]  OBVIOUS
<1>7. Joined(P, p + 1) = a \o b /\ Joined(Q, p + 1) = a \o Append(b, m)
  <2>1. JoinsPart(S, P, p)  BY JoinedNext
  <2>2. JoinsPart(S, Q, p)  BY JoinedNext
  <2>3. QED  BY <1>1, <1>4, <1>5, <1>6, <2>1, <2>2 DEF JoinsPart
<1>8. a \o Append(b, m) = Append(a \o b, m)
  BY SMTT(60)
<1>9. QED
  BY <1>3, <1>7, <1>8

-----------------------------------------------------------------------------
(* The files as a log.                                                     *)

USE DEF Parts, RecordLen

Contents == [p \in Parts |-> Published(p)]

NoneTorn == torn = {}

NoBodyFault == Faults \cap {"body", "short_body"} = {}

(* Without a fault in a body write no part is torn.                        *)
LEMMA NeverTorn ==
    ASSUME NoBodyFault
    PROVE  FlowSpec => []NoneTorn
<1>1. FlowInit => NoneTorn
  BY DEF NoneTorn, FlowInit, Init
<1>2. NoneTorn /\ [FlowNext]_vars => NoneTorn'
  BY DEF NoneTorn, NoBodyFault, FlowNext, Next, OpenPart, PutInfoQueue, PutInfoQueueFails, WriteHeader, WriteBody,
     WriteBodyFails, PutInfoPush, PutInfoPushFails, ProducerCrash, ProducerDies, historyVars,
     queueVars, vars
<1>3. QED
  BY <1>1, <1>2, PTL DEF FlowSpec

(* A published record carries the message of a push.                       *)
LEMMA PublishedSeq ==
    ASSUME FilesInv, NoneTorn, NEW p \in Parts
    PROVE  /\ Published(p) \in Seq(Pushes) /\ Len(Published(p)) = Visible(p) /\ Visible(p) \in Nat
           /\ \A k \in 1 .. Visible(p) : Published(p)[k] = MsgAt(p, k)
<1>1. Visible(p) \in Nat /\ rec[p] \in Seq(Cell)
  BY VisibleNat DEF FilesInv, IInv, TypeOK
<1>2. \A k \in 1 .. Visible(p) : MsgAt(p, k) \in Pushes
  <2> SUFFICES ASSUME NEW k \in 1 .. Visible(p) PROVE MsgAt(p, k) \in Pushes
    OBVIOUS
  <2>1. RecordLen * k \in 1 .. Len(rec[p])
    BY PublishedMsg DEF NoneTorn
  <2>2. rec[p][RecordLen * k] \in Cell
    BY <1>1, <2>1
  <2>3. QED
    BY <2>2, HeaderKinds DEF MsgAt
<1>3. Published(p) = [k \in 1 .. Visible(p) |-> MsgAt(p, k)]
  BY DEF Published
<1>4. QED
  BY <1>1, <1>2, <1>3

(* The log and the positions in it, in terms of the parts.                 *)
LogOfParts ==
    /\ Contents \in [0 .. MaxPart -> Seq(Pushes)]
    /\ \A p \in Parts : Len(Contents[p]) = Visible(p)
    /\ FlowLog = Joined(Contents, MaxPart + 1)
    /\ FlowCommitted = Len(Joined(Contents, info_pop.id)) + info_pop.count
    /\ FlowNextPos = IF cpc = "down" THEN FlowCommitted
                                     ELSE Len(Joined(Contents, c_id)) + count_popped

LEMMA LogIs ==
    ASSUME FlowInv, NoneTorn
    PROVE  LogOfParts
<1>1. /\ Contents \in [0 .. MaxPart -> Seq(Pushes)]
      /\ \A p \in Parts : Len(Contents[p]) = Visible(p)
  BY PublishedSeq DEF Contents, FlowInv
<1>2. ASSUME NEW n \in 0 .. MaxPart + 1
      PROVE  [i \in 1 .. n |-> Published(i - 1)] = [i \in 1 .. n |-> Contents[i - 1]]
  <2>1. \A i \in 1 .. n : i - 1 \in Parts
    BY MaxPartAssumption
  <2>2. QED
    BY <2>1 DEF Contents
<1>3. FlowLog = Joined(Contents, MaxPart + 1)
  <2>1. PICK n \in 0 .. MaxPart + 1 : n = MaxPart + 1
    BY MaxPartAssumption
  <2>2. QED
    BY <1>2, <2>1 DEF FlowLog, Joined
<1>4. \A i \in Parts : \A n : Position(i, n) = Len(Joined(Contents, i)) + n
  BY <1>2, MaxPartAssumption DEF Position, Joined
<1>5. info_pop.id \in Parts /\ c_id \in Parts
  BY DEF FlowInv, ReaderInv, ConsumerTypeOK
<1>6. QED
  BY <1>1, <1>3, <1>4, <1>5 DEF LogOfParts, FlowCommitted, FlowNextPos

(* The record in hand is the next one of the log.                          *)
LEMMA InHandIsNext ==
    ASSUME FlowInv, NoneTorn, cpc \in InRecord
    PROVE  /\ FlowNextPos < Len(FlowLog) /\ FlowNextPos \in Nat
           /\ FlowLog[FlowNextPos + 1] = header.msg
<1>1. LogOfParts /\ FilesInv /\ CountersRead /\ HeaderRead /\ c_id \in Parts /\ count_popped \in Nat
  BY LogIs DEF FlowInv, ReaderInv, ConsumerTypeOK
<1>2. PICK k \in Nat : k = count_popped
  BY <1>1
<1>3. PICK p \in 0 .. MaxPart : p = c_id
  BY <1>1
<1>4. q_count_pushed <= Visible(p) /\ q_count_pushed \in Nat /\ k < q_count_pushed /\ Visible(p) \in Nat
  BY <1>1, <1>2, <1>3, PublishedSeq DEF CountersRead, InRecord, Up, FlowInv, ReaderInv, ConsumerTypeOK
<1>5. k < Visible(p) /\ k + 1 \in 1 .. Visible(p)
  BY <1>4
<1>6. header = rec[p][RecordLen * k + 1]
  BY <1>1, <1>2, <1>3 DEF HeaderRead, NoneTorn, InRecord
<1>7. Contents[p][k + 1] = MsgAt(p, k + 1)
  BY <1>1, <1>5, PublishedSeq DEF Contents
<1>8. rec[p][RecordLen * k + 1].msg = MsgAt(p, k + 1)
  <2>1. PICK o \in 1 .. Visible(p) : o = k + 1 /\ o - 1 = k
    BY <1>5
  <2>2. p \notin torn
    BY DEF NoneTorn
  <2>3. QED
    BY <1>1, <2>1, <2>2, PublishedMsg
<1>9. PICK P \in [0 .. MaxPart -> Seq(Pushes)] : P = Contents
  BY <1>1 DEF LogOfParts
<1>10. k < Len(P[p])
  BY <1>1, <1>5, <1>9 DEF LogOfParts
<1>11. StandsAt(P, MaxPart, p, k)
  BY <1>10, MaxPartAssumption, JoinedAt
<1>12. Joined(P, p) \in Seq(Pushes)
  BY MaxPartAssumption, JoinedNext DEF JoinsPart
<1>13. FlowNextPos = Len(Joined(P, p)) + k
  BY <1>1, <1>2, <1>3, <1>9 DEF LogOfParts, InRecord
<1>14. QED
  BY <1>1, <1>6, <1>7, <1>8, <1>9, <1>11, <1>12, <1>13, SMTT(60)
  DEF LogOfParts, StandsAt

(* No record is published in a part beyond the newest.                     *)
LEMMA FutureEmpty ==
    ASSUME FilesInv, NEW p \in Parts, p > info_queue
    PROVE  Visible(p) = 0
BY DEF FilesInv, IInv, FutureParts, Visible, Exists, Absent, EmptyInfo, PushInfo

(* A published record stays, with its message.                             *)
LEMMA PublishedStays ==
    ASSUME FilesInv, NoneTorn, [Next]_queueVars, NEW p \in Parts, NEW k \in 1 .. Visible(p)
    PROVE  MsgAt(p, k)' = MsgAt(p, k)
<1>1. RecordLen * k \in 1 .. Len(rec[p])
  BY PublishedMsg DEF NoneTorn
<1>2. QED
  BY <1>1, FilesGrow DEF Grows, MsgAt

(* A step of the producer publishes one message at the end of the log, or  *)
(* changes nothing there.                                                  *)
LEMMA ProducerFlow ==
    ASSUME FlowInv, NoneTorn, NoneTorn', LogOfParts, LogOfParts', [Next]_queueVars, UNCHANGED consumerVars
    PROVE  [Flow!Next]_Flow!flowVars
<1>1. /\ FilesInv /\ FilesInv' /\ PartsNamed /\ CountersRead
      /\ info_pop.id \in Parts /\ info_pop.count \in Nat /\ c_id \in Parts /\ count_popped \in Nat
  BY FilesStep DEF FlowInv, ReaderInv, ConsumerTypeOK
<1>2. UNCHANGED <<cpc, c_id, count_popped, info_pop, handled>>
  BY DEF consumerVars, cursorVars, seenVars
<1>3. \A p \in Parts : Visible(p) \in Nat /\ Visible(p)' \in Nat /\ Visible(p) <= Visible(p)'
  BY <1>1, FilesGrow
<1>4. \A p \in Parts : Visible(p)' = Visible(p) => Contents'[p] = Contents[p]
  <2> SUFFICES ASSUME NEW p \in Parts, Visible(p)' = Visible(p) PROVE Contents'[p] = Contents[p]
    OBVIOUS
  <2>1. \A k \in 1 .. Visible(p) : MsgAt(p, k)' = MsgAt(p, k)
    BY <1>1, PublishedStays
  <2>2. Published(p)' = Published(p)
    BY <2>1 DEF Published
  <2>3. QED
    BY <2>2 DEF Contents
<1>5. CASE \A p \in Parts : Visible(p)' = Visible(p)
  <2>1. Contents' = Contents
    BY <1>4, <1>5 DEF Contents
  <2>2. QED
    BY <1>2, <2>1 DEF LogOfParts, Flow!flowVars
<1>6. CASE \E p \in Parts : Visible(p)' # Visible(p)
  <2>1. PICK p \in Parts : Visible(p)' # Visible(p)
    BY <1>6
  <2>2. p = info_queue /\ PutInfoPush /\ Visible(p)' = Visible(p) + 1 /\ p = id
    BY <1>1, <2>1, StepVisible DEF FilesInv
  <2>3. \A q \in Parts : q # p => Visible(q)' = Visible(q)
    BY <1>1, <2>1, <2>2, StepVisible DEF FilesInv
  <2>4. PICK P \in [0 .. MaxPart -> Seq(Pushes)] : P = Contents
    BY DEF LogOfParts
  <2>5. PICK Q \in [0 .. MaxPart -> Seq(Pushes)] : Q = Contents'
    BY DEF LogOfParts
  <2>6. PICK m : m = Q[p][Visible(p) + 1]
    OBVIOUS
  <2>7. /\ Len(P[p]) = Visible(p) /\ Len(Q[p]) = Visible(p) + 1
        /\ \A k \in 1 .. Visible(p) : Q[p][k] = P[p][k]
    <3>1. Len(P[p]) = Visible(p) /\ Len(Q[p]) = Visible(p) + 1
      BY <2>2, <2>4, <2>5 DEF LogOfParts
    <3>2. \A k \in 1 .. Visible(p) : MsgAt(p, k)' = MsgAt(p, k) /\ k \in 1 .. Visible(p)'
      BY <1>1, <1>3, <2>2, PublishedStays
    <3>3. QED
      BY <2>4, <2>5, <3>1, <3>2 DEF Contents, Published
  <2>8. Q[p] = Append(P[p], m) /\ m \in Pushes
    <3>1. PICK n \in Nat : n = Visible(p)
      BY <1>3
    <3>2. P[p] \in Seq(Pushes) /\ Q[p] \in Seq(Pushes) /\ n + 1 \in 1 .. Len(Q[p])
      BY <2>7, <3>1
    <3>3. m \in Pushes
      BY <2>6, <3>1, <3>2
    <3>4. QED
      BY <2>6, <2>7, <3>1, <3>2, <3>3
  <2>9. \A q \in 0 .. MaxPart : q # p => Q[q] = P[q]
    BY <1>4, <2>3, <2>4, <2>5
  <2>10. \A q \in p + 1 .. MaxPart : P[q] = <<>>
    <3> SUFFICES ASSUME NEW q \in p + 1 .. MaxPart PROVE P[q] = <<>>
      OBVIOUS
    <3>1. q \in Parts /\ q > info_queue
      BY <2>2
    <3>2. Len(P[q]) = 0
      BY <1>1, <2>4, <3>1, FutureEmpty DEF LogOfParts
    <3>3. QED
      BY <3>1, <3>2
  <2>11. Joined(Q, MaxPart + 1) = Append(Joined(P, MaxPart + 1), m)
    <3>1. PutsLast(P, Q, MaxPart, p, m)
      BY <2>8, <2>9, <2>10 DEF PutsLast
    <3>2. MaxPart \in Nat /\ p \in 0 .. MaxPart
      BY <2>2, MaxPartAssumption
    <3>3. QED
      BY <2>8, <3>1, <3>2, JoinedAppend, ZenonT(60)
  <2>12. FlowLog' = Append(FlowLog, m)
    BY <2>4, <2>5, <2>11 DEF LogOfParts
  <2>13. ASSUME NEW i \in Parts, i <= p PROVE Joined(Q, i) = Joined(P, i)
    <3>1. \A j \in 0 .. i - 1 : j \in 0 .. MaxPart /\ j # p
      <4>1. i \in 0 .. MaxPart /\ p \in 0 .. MaxPart /\ i <= p
        BY <2>13
      <4>2. QED
        BY <4>1, MaxPartAssumption
    <3>2. SameParts(Q, P, i)
      BY <2>9, <3>1 DEF SameParts
    <3>3. QED
      BY <3>2, JoinedSame
  <2>14. info_pop.id <= p /\ (cpc # "down" => c_id <= p)
    BY <1>1, <2>2, MaxPartAssumption, FilesGrow DEF PartsNamed, Up, NoPart, FlowInv, ReaderInv, ConsumerTypeOK
  <2>15. FlowCommitted' = FlowCommitted /\ FlowNextPos' = FlowNextPos
    BY <1>1, <1>2, <2>4, <2>5, <2>13, <2>14 DEF LogOfParts
  <2>16. Flow!Publish
    BY <1>2, <2>8, <2>12, <2>15 DEF Flow!Publish
  <2>17. QED
    BY <2>16 DEF Flow!Next
<1>7. QED
  BY <1>5, <1>6

(* A step of the reader handles the next message, moves over it, saves its *)
(* cursor or truncates the file of it, starts again at the saved one, or   *)
(* changes nothing there.                                                  *)
LEMMA ReaderFlow ==
    ASSUME FlowInv, UnlimitedInv, NoneTorn, LogOfParts, LogOfParts', ConsumerNext, UNCHANGED queueVars
    PROVE  [Flow!Next]_Flow!flowVars
<1> USE DEF cursorVars, readVars, loopVars, seenVars
<1>1. /\ PartsNamed /\ CountersRead /\ LastBefore /\ BatchVouched
      /\ info_pop.id \in Parts /\ info_pop.count \in Nat /\ c_id \in Parts /\ count_popped \in Nat
  BY DEF FlowInv, ReaderInv, ConsumerTypeOK, UnlimitedInv
<1>2. Contents' = Contents
  BY DEF Contents, Published, Visible, Exists, MsgAt, queueVars, diskVars
<1>3. FlowLog' = FlowLog
  BY <1>2 DEF LogOfParts
<1> DEFINE At(i, n) == Len(Joined(Contents, i)) + n
<1>4. /\ FlowCommitted = At(info_pop.id, info_pop.count)
      /\ cpc = "down" => FlowNextPos = FlowCommitted
      /\ cpc # "down" => FlowNextPos = At(c_id, count_popped)
  BY DEF LogOfParts
<1>5. /\ FlowCommitted' = At(info_pop'.id, info_pop'.count)
      /\ cpc' = "down" => FlowNextPos' = FlowCommitted'
      /\ cpc' # "down" => FlowNextPos' = At(c_id', count_popped')
  BY <1>2 DEF LogOfParts
<1>6. \A i \in Parts : Joined(Contents, i) \in Seq(Pushes) /\ At(i, 0) \in Nat
  <2> SUFFICES ASSUME NEW i \in 0 .. MaxPart
               PROVE  Joined(Contents, i) \in Seq(Pushes) /\ At(i, 0) \in Nat
    OBVIOUS
  <2>1. PICK P \in [0 .. MaxPart -> Seq(Pushes)] : P = Contents
    BY DEF LogOfParts
  <2>2. JoinsPart(Pushes, P, i)
    BY MaxPartAssumption, JoinedNext
  <2>3. QED
    BY <2>1, <2>2 DEF JoinsPart
<1> HIDE DEF At
<1>7. CASE Start
  <2>1. FlowCommitted' = FlowCommitted /\ FlowNextPos' = FlowNextPos /\ handled' = handled
    BY <1>4, <1>5, <1>7 DEF Start
  <2>2. QED
    BY <1>3, <2>1 DEF Flow!flowVars
<1>8. CASE Prepare
  <2>1. FlowCommitted' = FlowCommitted /\ FlowNextPos' = FlowNextPos
    BY <1>4, <1>5, <1>8 DEF Prepare
  <2>2. FlowNextPos < Len(FlowLog) /\ FlowLog[FlowNextPos + 1] = header.msg
    BY <1>8, InHandIsNext DEF Prepare, InRecord
  <2>3. Flow!Handle
    BY <1>3, <1>8, <2>1, <2>2 DEF Prepare, Flow!Handle
  <2>4. QED
    BY <2>3 DEF Flow!Next
<1>9. CASE NextRecord
  <2>1. FlowNextPos < Len(FlowLog) /\ FlowNextPos \in Nat /\ FlowLog[FlowNextPos + 1] = header.msg
    BY <1>9, InHandIsNext DEF NextRecord, InRecord
  <2>2. header.msg \in handled /\ handled' = handled
    BY <1>1, <1>9 DEF LastBefore, NextRecord
  <2>3. FlowNextPos' = FlowNextPos + 1
    BY <1>1, <1>4, <1>5, <1>6, <1>9 DEF NextRecord, At
  <2>4. FlowCommitted' \in {FlowCommitted, FlowNextPos'}
    BY <1>4, <1>5, <1>9 DEF NextRecord, PopInfo
  <2>5. Flow!Advance
    BY <1>3, <2>1, <2>2, <2>3, <2>4 DEF Flow!Advance
  <2>6. QED
    BY <2>5 DEF Flow!Next
<1>10. CASE EnterNextPart
  <2>1. c_id + 1 \in Parts /\ count_popped = Visible(c_id) /\ c_id' = c_id + 1 /\ count_popped' = 0
    <3>1. c_id < q_id /\ count_popped = Visible(c_id) /\ c_id' = c_id + 1 /\ count_popped' = 0
      BY <1>1, <1>10 DEF PartsNamed, BatchVouched, EnterNextPart, Up
    <3>2. q_id \in Parts
      BY DEF FlowInv, ReaderInv, ConsumerTypeOK
    <3>3. QED
      BY <1>1, <3>1, <3>2, MaxPartAssumption
  <2>2. At(c_id + 1, 0) = At(c_id, count_popped)
    <3>1. PICK P \in [0 .. MaxPart -> Seq(Pushes)] : P = Contents
      BY DEF LogOfParts
    <3>2. PICK p \in 0 .. MaxPart : p = c_id
      BY <1>1
    <3>3. JoinsPart(Pushes, P, p)
      BY MaxPartAssumption, JoinedNext
    <3>4. Len(Joined(P, p + 1)) = Len(Joined(P, p)) + Len(P[p]) /\ Len(P[p]) = count_popped
      BY <2>1, <3>1, <3>2, <3>3 DEF JoinsPart, LogOfParts
    <3>5. Len(Joined(P, p + 1)) \in Nat
      BY <3>3 DEF JoinsPart
    <3>6. QED
      BY <3>1, <3>2, <3>4, <3>5 DEF At
  <2>3. FlowNextPos' = FlowNextPos
    BY <1>4, <1>5, <1>10, <2>1, <2>2 DEF EnterNextPart
  <2>4. FlowCommitted' = 0
    <3>1. FlowCommitted' = At(0, 0)
      BY <1>5, <1>10 DEF EnterNextPart, EmptyPop, PopInfo
    <3>2. QED
      BY <3>1, JoinedNone DEF At
  <2>5. Flow!Commit
    BY <1>3, <1>10, <2>3, <2>4 DEF Flow!Commit, EnterNextPart
  <2>6. QED
    BY <2>5 DEF Flow!Next
<1>11. CASE SaveCursor /\ cpc # "down" /\ cpc' # "down" /\ UNCHANGED <<c_id, count_popped, handled>>
  <2>1. FlowNextPos' = FlowNextPos /\ FlowCommitted' = FlowNextPos
    BY <1>4, <1>5, <1>11 DEF SaveCursor, PopInfo
  <2>2. Flow!Commit
    BY <1>3, <1>11, <2>1 DEF Flow!Commit
  <2>3. QED
    BY <2>2 DEF Flow!Next
<1>12. CASE Dies /\ UNCHANGED <<info_pop, handled>>
  <2>1. FlowCommitted' = FlowCommitted /\ FlowNextPos' = FlowCommitted
    BY <1>4, <1>5, <1>12 DEF Dies
  <2>2. Flow!Restart
    BY <1>3, <1>12, <2>1 DEF Flow!Restart
  <2>3. QED
    BY <2>2 DEF Flow!Next
<1>13. CASE cpc # "down" /\ cpc' # "down" /\ UNCHANGED <<info_pop, c_id, count_popped, handled>>
  <2>1. FlowCommitted' = FlowCommitted /\ FlowNextPos' = FlowNextPos
    BY <1>4, <1>5, <1>13
  <2>2. QED
    BY <1>3, <1>13, <2>1 DEF Flow!flowVars
<1>14. QED
  BY <1>7, <1>8, <1>9, <1>10, <1>11, <1>12, <1>13
     DEF ConsumerNext, ConsumerStep, ReadPartInfo, GetBatchSize, RefreshPart, LookForNextPart,
     CommitPart, ReadHeader, AcceptHeader, RejectHeader, BodyRefused, BodyShort, ReadBody,
     ChecksumFails, EndOfBatch, AfterBatch, Receive, PrepareFatal, ConsumerCrash

(* The empty queue is the empty log.                                       *)
LEMMA EmptyFlow == FlowInit /\ FlowInv /\ LogOfParts => Flow!Init
<1> SUFFICES ASSUME FlowInit, FlowInv, LogOfParts PROVE Flow!Init
  OBVIOUS
<1>1. /\ cpc = "down" /\ info_pop.id = 0 /\ info_pop.count = 0 /\ handled = {}
      /\ \A p \in Parts : Visible(p) = 0
  BY DEF FlowInit, Init, ConsumerInit, Visible, Exists, EmptyPop, PopInfo
<1>2. \A q \in 0 .. MaxPart : Contents[q] = <<>>
  <2> SUFFICES ASSUME NEW q \in 0 .. MaxPart PROVE Contents[q] = <<>>
    OBVIOUS
  <2>1. Len(Contents[q]) = 0 /\ Contents[q] \in Seq(Pushes)
    BY <1>1 DEF LogOfParts
  <2>2. QED
    BY <2>1, EmptySeq
<1>3. Joined(Contents, MaxPart + 1) = Joined(Contents, 0)
  <2>1. PICK P \in [0 .. MaxPart -> Seq(Pushes)] : P = Contents
    BY DEF LogOfParts
  <2>2. PICK o \in 0 .. MaxPart + 1 : o = 0
    BY MaxPartAssumption
  <2>3. \A q \in o .. MaxPart : P[q] = <<>>
    BY <1>2, <2>1, <2>2
  <2>4. QED
    BY <2>1, <2>2, <2>3, MaxPartAssumption, JoinedEmpty
<1>4. FlowLog = <<>> /\ FlowCommitted = 0 /\ FlowNextPos = 0
  BY <1>1, <1>3, JoinedNone DEF LogOfParts
<1>5. QED
  BY <1>1, <1>4 DEF Flow!Init

(* A module whose before_batch answers None and whose queue loses no body  *)
(* write sees what EventFlow promises: one growing log, read in order,     *)
(* each message handled before a cursor passes it (consumer.rs, queue.rs,  *)
(* module.rs).                                                             *)
THEOREM ImplementsFlowHolds ==
    ASSUME BatchLimit = 0, NoBodyFault
    PROVE  FlowSpec => ImplementsFlow
<1>1. FlowInv /\ NoneTorn => LogOfParts
  BY LogIs
<1>2. FlowInit /\ FlowInv /\ LogOfParts => Flow!Init
  BY EmptyFlow
<1>3. FlowInv /\ UnlimitedInv /\ NoneTorn /\ NoneTorn' /\ LogOfParts /\ LogOfParts' /\ [FlowNext]_vars
        => [Flow!Next]_Flow!flowVars
  <2> SUFFICES ASSUME FlowInv, UnlimitedInv, NoneTorn, NoneTorn', LogOfParts, LogOfParts', [FlowNext]_vars
               PROVE  [Flow!Next]_Flow!flowVars
    OBVIOUS
  <2>1. CASE [Next]_queueVars /\ UNCHANGED consumerVars
    BY <2>1, ProducerFlow
  <2>2. CASE ConsumerNext /\ UNCHANGED queueVars
    BY <2>2, ReaderFlow
  <2>3. QED
    BY <2>1, <2>2 DEF FlowNext, vars
<1>4. QED
  BY <1>1, <1>2, <1>3, FlowInvariance, UnlimitedInvariance, NeverTorn, PTL
     DEF FlowSpec, ImplementsFlow, Flow!Spec
=============================================================================
