------------------------- MODULE QueueConsumerProofs ------------------------
(***************************************************************************)
(* Theorems about a file queue, for every number of parts and pushes and   *)
(* every set of write faults: first about the writing side alone, then     *)
(* about the reader beside its producer, for every answer of prepare and   *)
(* any number of deaths of either process.                                 *)
(***************************************************************************)
EXTENDS QueueConsumer, TLAPS

Running == {"ready", "body", "put_info_push"}

(* Parts after the newest one are untouched, but for an empty info file    *)
(* that a start which died before put_info_queue leaves behind.            *)
FutureParts ==
    \A p \in Parts : p > info_queue =>
        /\ rec[p] = <<>>
        /\ acked[p] = <<>>
        /\ info_push[p] \in {Absent, EmptyInfo}

(* Every part up to the newest one has its files.                          *)
NamedPartsExist == \A p \in Parts : p <= info_queue => Exists(p)

(* The struct of a producer that is still opening its part.                *)
OpeningState ==
    ppc = "put_info_queue" =>
        /\ id = NextPart
        /\ right_edge = 0 /\ count_pushed = 0 /\ offset = 0
        /\ info_push[id] = EmptyInfo
        /\ is_ready

(* The struct of a running producer: its part is the newest one, its       *)
(* handle is at the end of the file, and between pushes its counters are   *)
(* those of the info file.                                                 *)
RunningState ==
    ppc \in Running =>
        /\ id = info_queue
        /\ offset = Len(rec[id])
        /\ ppc # "put_info_push" => info_push[id] = PushInfo(right_edge, count_pushed)
        /\ ppc = "put_info_push" =>
              info_push[id] = PushInfo(right_edge - RecordLen, count_pushed - 1)
        /\ ppc # "ready" => is_ready /\ pushed \in Pushes

(* The end of the record file of a sound part at each point of push.       *)
TailState ==
    ppc \in Running /\ id \notin torn =>
        /\ ppc = "ready" /\ is_ready => Len(rec[id]) = right_edge
        /\ ppc = "body" =>
              /\ Len(rec[id]) = right_edge + 1
              /\ rec[id][right_edge + 1] = HeaderCell(pushed, right_edge, count_pushed + 1)
        /\ ppc = "put_info_push" =>
              /\ Len(rec[id]) = right_edge
              /\ right_edge = RecordLen * count_pushed
              /\ RecordAt(id, count_pushed, pushed)
        /\ is_ready => Len(acked[id]) = info_push[id].count_pushed

IInv ==
    /\ TypeOK
    /\ FutureParts
    /\ NamedPartsExist
    /\ OpeningState
    /\ RunningState
    /\ TailState
    /\ PublishedWhole
    /\ AckedPublished

USE DEF Parts, NoPart, Pushes, RecordLen

-----------------------------------------------------------------------------
(* The initial files and struct satisfy the invariant.                     *)
LEMMA InitInv == Init => IInv
<1> SUFFICES ASSUME Init PROVE IInv
  OBVIOUS
<1> USE MaxPartAssumption, MaxPushAssumption DEF Init, Absent, EmptyInfo, PushInfo
<1>1. TypeOK
  BY SMTT(60) DEF TypeOK
<1>2. FutureParts
  BY DEF FutureParts
<1>3. NamedPartsExist
  BY DEF NamedPartsExist
<1>4. OpeningState /\ RunningState /\ TailState
  BY DEF OpeningState, RunningState, TailState, Running
<1>5. \A p \in Parts : ~Exists(p) /\ Visible(p) = 0
  BY DEF Exists, Visible
<1>6. PublishedWhole
  BY <1>5 DEF PublishedWhole
<1>7. AckedPublished
  BY <1>5 DEF AckedPublished
<1>8. QED
  BY <1>1, <1>2, <1>3, <1>4, <1>6, <1>7 DEF IInv

-----------------------------------------------------------------------------
(* Appending a cell at the end of the open part.                           *)

\* No part loses or changes a cell in this step.
Grows ==
    \A p \in Parts :
        /\ Len(rec[p]) <= Len(rec'[p])
        /\ \A i \in 1 .. Len(rec[p]) : rec'[p][i] = rec[p][i]

(* A record that was whole stays whole when record files only grow.        *)
LEMMA RecordKept ==
    ASSUME TypeOK, Grows, NEW p \in Parts, NEW k \in Nat \ {0}, NEW m, RecordAt(p, k, m)
    PROVE  RecordAt(p, k, m)'
BY DEF TypeOK, Grows, RecordAt

(* What the write of one cell by the producer does to the record files.    *)
LEMMA WriteCell ==
    ASSUME TypeOK, offset = Len(rec[id]), NEW c \in Cell,
           rec' = [rec EXCEPT ![id] = WriteAt(@, offset, c)]
    PROVE  /\ rec' \in [Parts -> Seq(Cell)]
           /\ Grows
           /\ Len(rec'[id]) = Len(rec[id]) + 1
           /\ rec'[id][Len(rec[id]) + 1] = c
           /\ \A p \in Parts : p # id => rec'[p] = rec[p]
<1>1. rec[id] \in Seq(Cell) /\ rec \in [Parts -> Seq(Cell)] /\ id \in Parts
  BY DEF TypeOK
<1>2. rec'[id] = Append(rec[id], c)
  BY <1>1 DEF WriteAt
<1>3. \A p \in Parts : p # id => rec'[p] = rec[p]
  BY <1>1
<1>4. Append(rec[id], c) \in Seq(Cell)
  BY <1>1
<1>5. rec' \in [Parts -> Seq(Cell)]
  BY <1>1, <1>2, <1>4
<1>6. /\ Len(rec'[id]) = Len(rec[id]) + 1
      /\ rec'[id][Len(rec[id]) + 1] = c
      /\ \A i \in 1 .. Len(rec[id]) : rec'[id][i] = rec[id][i]
  BY <1>1, <1>2
<1>7. \A p \in Parts : Len(rec[p]) \in Nat
  BY <1>1
<1>8. Grows
  BY <1>1, <1>3, <1>6, <1>7 DEF Grows
<1>9. QED
  BY <1>3, <1>5, <1>6, <1>8

(* A step that grows record files and leaves info files, the history and   *)
(* the set of torn parts alone keeps what is published.                    *)
LEMMA PublishedKept ==
    ASSUME IInv, Grows, UNCHANGED info_push, UNCHANGED acked, torn \subseteq torn'
    PROVE  PublishedWhole' /\ AckedPublished'
<1>1. TypeOK /\ PublishedWhole /\ AckedPublished
  BY DEF IInv
<1>2. \A p \in Parts : Exists(p)' = Exists(p) /\ Visible(p)' = Visible(p)
  BY DEF Exists, Visible
<1>3. \A p \in Parts : Visible(p) \in Nat /\ (Exists(p) => info_push[p].count_pushed \in Nat)
  BY <1>1 DEF TypeOK, Exists, Visible
<1>4. PublishedWhole'
  <2> SUFFICES ASSUME NEW p \in Parts \ torn', Exists(p)
               PROVE  /\ info_push[p].right_edge = RecordLen * info_push[p].count_pushed
                      /\ \A k \in 1 .. info_push[p].count_pushed :
                             \E m \in Pushes : RecordAt(p, k, m)'
    BY <1>2 DEF PublishedWhole
  <2>1. p \in Parts \ torn
    OBVIOUS
  <2>2. info_push[p].right_edge = RecordLen * info_push[p].count_pushed
    BY <1>1, <2>1 DEF PublishedWhole
  <2>3. ASSUME NEW k \in 1 .. info_push[p].count_pushed
        PROVE  \E m \in Pushes : RecordAt(p, k, m)'
    <3>1. PICK m \in Pushes : RecordAt(p, k, m)
      BY <1>1, <2>1 DEF PublishedWhole
    <3>2. k \in Nat \ {0}
      BY <1>3
    <3>3. RecordAt(p, k, m)'
      BY <1>1, <3>1, <3>2, RecordKept
    <3>4. QED
      BY <3>3
  <2>4. QED
    BY <2>2, <2>3
<1>5. AckedPublished'
  <2> SUFFICES ASSUME NEW p \in Parts \ torn'
               PROVE  /\ Visible(p) <= Len(acked[p])
                      /\ Len(acked[p]) <= Visible(p) + (IF "info_push" \in Faults THEN 1 ELSE 0)
                      /\ \A k \in 1 .. Visible(p) : RecordAt(p, k, acked[p][k])'
    BY <1>2 DEF AckedPublished
  <2>1. p \in Parts \ torn
    OBVIOUS
  <2>2. /\ Visible(p) <= Len(acked[p])
        /\ Len(acked[p]) <= Visible(p) + (IF "info_push" \in Faults THEN 1 ELSE 0)
        /\ \A k \in 1 .. Visible(p) : RecordAt(p, k, acked[p][k])
    BY <1>1, <2>1 DEF AckedPublished
  <2>3. ASSUME NEW k \in 1 .. Visible(p)
        PROVE  RecordAt(p, k, acked[p][k])'
    <3>1. PICK m : m = acked[p][k]
      OBVIOUS
    <3>2. RecordAt(p, k, m) /\ k \in Nat \ {0}
      BY <1>3, <2>2, <3>1
    <3>3. RecordAt(p, k, m)'
      BY <1>1, <3>2, RecordKept
    <3>4. m = acked'[p][k]
      BY <3>1
    <3>5. QED
      BY <3>3, <3>4 DEF RecordAt
  <2>4. QED
    BY <2>2, <2>3
<1>6. QED
  BY <1>4, <1>5

-----------------------------------------------------------------------------
(* One lemma per action: it preserves the inductive invariant.             *)

(* A start opens a part beyond the newest one.                             *)
LEMMA OpenPartInv == IInv /\ OpenPart => IInv'
<1> SUFFICES ASSUME IInv, OpenPart PROVE IInv'
  OBVIOUS
<1>1. TypeOK /\ FutureParts /\ NamedPartsExist /\ PublishedWhole /\ AckedPublished
  BY DEF IInv
<1>2. PICK p0 \in Parts : p0 = NextPart
  BY DEF OpenPart
<1>3. p0 > info_queue
  BY <1>1, <1>2, MaxPartAssumption DEF NextPart, TypeOK
<1>4. rec[p0] = <<>> /\ acked[p0] = <<>> /\ info_push[p0] \in {Absent, EmptyInfo}
  BY <1>1, <1>3 DEF FutureParts
<1>5. /\ info_push' = [info_push EXCEPT ![p0] = EmptyInfo]
      /\ id' = p0 /\ right_edge' = 0 /\ count_pushed' = 0
  <2>1. (IF Exists(p0) THEN info_push[p0] ELSE EmptyInfo) = EmptyInfo
    BY <1>4 DEF Exists
  <2>2. EmptyInfo.right_edge = 0 /\ EmptyInfo.count_pushed = 0
    BY DEF EmptyInfo, PushInfo
  <2>3. QED
    BY <1>2, <2>1, <2>2 DEF OpenPart
<1>6. /\ offset' = 0 /\ is_ready' = TRUE /\ ppc' = "put_info_queue"
      /\ UNCHANGED <<info_queue, rec, pushed, acked, torn>>
  BY DEF OpenPart, historyVars
<1>7. /\ \A p \in Parts : p # p0 => info_push'[p] = info_push[p]
      /\ info_push'[p0] = EmptyInfo
      /\ info_push' \in [Parts -> [right_edge : Nat, count_pushed : Nat] \cup {Absent}]
  BY <1>1, <1>2, <1>5 DEF TypeOK, EmptyInfo, PushInfo
<1>8. TypeOK'
  BY <1>1, <1>2, <1>5, <1>6, <1>7 DEF TypeOK
<1>9. FutureParts'
  BY <1>1, <1>6, <1>7 DEF FutureParts
<1>10. NamedPartsExist'
  BY <1>1, <1>6, <1>7 DEF NamedPartsExist, Exists, EmptyInfo, Absent, PushInfo
<1>11. OpeningState'
  BY <1>2, <1>5, <1>6, <1>7 DEF OpeningState, NextPart
<1>12. RunningState' /\ TailState'
  BY <1>6 DEF RunningState, TailState, Running
<1>13. \A p \in Parts : \A k, m : RecordAt(p, k, m)' = RecordAt(p, k, m)
  BY <1>6 DEF RecordAt
<1>14. /\ \A p \in Parts : p # p0 => Exists(p)' = Exists(p) /\ Visible(p)' = Visible(p)
       /\ Visible(p0)' = 0 /\ info_push'[p0].right_edge = 0 /\ info_push'[p0].count_pushed = 0
  BY <1>7 DEF Exists, Visible, EmptyInfo, Absent, PushInfo
<1>15. PublishedWhole'
  <2> SUFFICES ASSUME NEW p \in Parts \ torn, Exists(p)'
               PROVE  /\ info_push'[p].right_edge = RecordLen * info_push'[p].count_pushed
                      /\ \A k \in 1 .. info_push'[p].count_pushed :
                             \E m \in Pushes : RecordAt(p, k, m)'
    BY <1>6 DEF PublishedWhole
  <2>1. CASE p = p0
    BY <1>14, <2>1
  <2>2. CASE p # p0
    BY <1>1, <1>7, <1>13, <1>14, <2>2 DEF PublishedWhole
  <2>3. QED
    BY <2>1, <2>2
<1>16. AckedPublished'
  <2> SUFFICES ASSUME NEW p \in Parts \ torn
               PROVE  /\ Visible(p)' <= Len(acked[p])
                      /\ Len(acked[p]) <= Visible(p)' + (IF "info_push" \in Faults THEN 1 ELSE 0)
                      /\ \A k \in 1 .. Visible(p)' : RecordAt(p, k, acked[p][k])'
    BY <1>6 DEF AckedPublished
  <2>1. CASE p = p0
    BY <1>4, <1>14, <2>1
  <2>2. CASE p # p0
    BY <1>1, <1>6, <1>13, <1>14, <2>2 DEF AckedPublished
  <2>3. QED
    BY <2>1, <2>2
<1>17. QED
  BY <1>8, <1>9, <1>10, <1>11, <1>12, <1>15, <1>16 DEF IInv

(* Naming the part makes it the newest; nothing else changes.              *)
LEMMA PutInfoQueueInv == IInv /\ PutInfoQueue => IInv'
<1> SUFFICES ASSUME IInv, PutInfoQueue PROVE IInv'
  OBVIOUS
<1> USE MaxPartAssumption DEF PutInfoQueue, PushInfo, Absent, EmptyInfo, historyVars
<1>1. TypeOK /\ FutureParts /\ NamedPartsExist /\ OpeningState
  BY DEF IInv
<1>2. /\ id = NextPart /\ right_edge = 0 /\ count_pushed = 0 /\ offset = 0
      /\ info_push[id] = EmptyInfo /\ is_ready
  BY <1>1 DEF OpeningState
<1>3. id > info_queue /\ id \in Parts /\ info_queue \in Int
      /\ \A p \in Parts : p <= id => p <= info_queue \/ p = id
  BY <1>1, <1>2 DEF NextPart, TypeOK
<1>4. rec[id] = <<>> /\ acked[id] = <<>>
  BY <1>1, <1>3 DEF FutureParts
<1>5. TypeOK'
  BY <1>1 DEF TypeOK
<1>6. FutureParts'
  BY <1>1, <1>3 DEF FutureParts
<1>7. NamedPartsExist'
  BY <1>1, <1>2, <1>3 DEF NamedPartsExist, Exists
<1>8. OpeningState' /\ RunningState'
  BY <1>2, <1>4 DEF OpeningState, RunningState, Running
<1>9. TailState'
  BY <1>2, <1>4 DEF TailState, Running
<1>10. Grows
  BY <1>1 DEF Grows, TypeOK
<1>11. PublishedWhole' /\ AckedPublished'
  BY <1>10, PublishedKept
<1>12. QED
  BY <1>5, <1>6, <1>7, <1>8, <1>9, <1>11 DEF IInv

(* A header lands behind everything the info file admits to.               *)
LEMMA WriteHeaderInv == IInv /\ WriteHeader => IInv'
<1> SUFFICES ASSUME IInv, WriteHeader PROVE IInv'
  OBVIOUS
<1> USE MaxPartAssumption, MaxPushAssumption DEF WriteHeader
<1>1. TypeOK /\ FutureParts /\ NamedPartsExist /\ RunningState /\ TailState
  BY DEF IInv
<1>2. /\ id = info_queue /\ offset = Len(rec[id])
      /\ info_push[id] = PushInfo(right_edge, count_pushed)
  BY <1>1 DEF RunningState, Running
<1>3. pushed + 1 \in Pushes
  BY <1>1 DEF TypeOK
<1> DEFINE c == HeaderCell(pushed + 1, right_edge, count_pushed + 1)
<1>4. c \in Cell
  BY <1>1, <1>3 DEF Cell, HeaderCell, TypeOK
<1>5. CASE /\ rec' = [rec EXCEPT ![id] = WriteAt(@, offset, c)]
           /\ offset' = offset + 1
           /\ ppc' = "body"
  <2> HIDE DEF c
  <2>1. /\ rec' \in [Parts -> Seq(Cell)]
        /\ Grows
        /\ Len(rec'[id]) = Len(rec[id]) + 1
        /\ rec'[id][Len(rec[id]) + 1] = c
        /\ \A p \in Parts : p # id => rec'[p] = rec[p]
    BY <1>1, <1>2, <1>4, <1>5, WriteCell
  <2>2. TypeOK'
    BY SMTT(60), <1>1, <1>3, <1>5, <2>1 DEF TypeOK, historyVars
  <2>3. FutureParts'
    BY SMTT(60), <1>1, <1>2, <2>1 DEF FutureParts, historyVars, TypeOK
  <2>4. NamedPartsExist'
    BY <1>1 DEF NamedPartsExist, Exists
  <2>5. OpeningState' /\ RunningState'
    BY <1>1, <1>2, <1>3, <1>5, <2>1 DEF OpeningState, RunningState, Running, PushInfo
  <2>6. TailState'
    <3> SUFFICES ASSUME id \notin torn
                 PROVE  /\ Len(rec'[id]) = right_edge + 1
                        /\ rec'[id][right_edge + 1]
                             = HeaderCell(pushed + 1, right_edge, count_pushed + 1)
                        /\ Len(acked[id]) = info_push[id].count_pushed
      BY <1>5 DEF TailState, Running, historyVars
    <3>1. Len(rec[id]) = right_edge /\ Len(acked[id]) = info_push[id].count_pushed
      BY <1>1 DEF TailState, Running
    <3>2. QED
      BY <2>1, <3>1 DEF c
  <2>7. PublishedWhole' /\ AckedPublished'
    BY <2>1, PublishedKept DEF historyVars
  <2>8. QED
    BY <2>2, <2>3, <2>4, <2>5, <2>6, <2>7 DEF IInv
<1>6. CASE UNCHANGED <<rec, offset, ppc>>
  <2>1. TypeOK'
    BY <1>1, <1>3, <1>6 DEF TypeOK, historyVars
  <2>2. FutureParts' /\ NamedPartsExist'
    BY <1>1, <1>6 DEF FutureParts, NamedPartsExist, Exists, historyVars
  <2>3. OpeningState' /\ RunningState'
    BY <1>2, <1>6 DEF OpeningState, RunningState, Running
  <2>4. TailState'
    BY <1>1, <1>6 DEF TailState, Running, historyVars
  <2>5. Grows
    BY <1>1, <1>6 DEF Grows, TypeOK
  <2>6. PublishedWhole' /\ AckedPublished'
    BY <2>5, PublishedKept DEF historyVars
  <2>7. QED
    BY <2>1, <2>2, <2>3, <2>4, <2>6 DEF IInv
<1>7. QED
  BY <1>5, <1>6

(* A body, or its loss, completes the record in the file.                  *)
LEMMA WriteBodyInv == IInv /\ WriteBody => IInv'
<1> SUFFICES ASSUME IInv, WriteBody PROVE IInv'
  OBVIOUS
<1> USE MaxPartAssumption, MaxPushAssumption DEF WriteBody
<1>1. TypeOK /\ FutureParts /\ NamedPartsExist /\ RunningState /\ TailState /\ PublishedWhole
  BY DEF IInv
<1>2. /\ id = info_queue /\ offset = Len(rec[id]) /\ is_ready /\ pushed \in Pushes
      /\ info_push[id] = PushInfo(right_edge, count_pushed)
  BY <1>1 DEF RunningState, Running
<1> DEFINE c == BodyCell(pushed)
<1>3. c \in Cell
  BY <1>2 DEF Cell, BodyCell
<1>4. CASE /\ rec' = [rec EXCEPT ![id] = WriteAt(@, offset, c)]
           /\ offset' = offset + 1
           /\ UNCHANGED torn
  <2> HIDE DEF c
  <2>1. /\ rec' \in [Parts -> Seq(Cell)]
        /\ Grows
        /\ Len(rec'[id]) = Len(rec[id]) + 1
        /\ rec'[id][Len(rec[id]) + 1] = c
        /\ \A p \in Parts : p # id => rec'[p] = rec[p]
    BY <1>1, <1>2, <1>3, <1>4, WriteCell
  <2>2. TypeOK'
    BY SMTT(60), <1>1, <1>4, <2>1 DEF TypeOK
  <2>3. FutureParts'
    BY SMTT(60), <1>1, <1>2, <2>1 DEF FutureParts, TypeOK
  <2>4. NamedPartsExist'
    BY <1>1 DEF NamedPartsExist, Exists
  <2>5. OpeningState' /\ RunningState'
    BY <1>1, <1>2, <1>4, <2>1 DEF OpeningState, RunningState, Running, PushInfo, TypeOK
  <2>6. TailState'
    <3> SUFFICES ASSUME id \notin torn
                 PROVE  /\ Len(rec'[id]) = right_edge + RecordLen
                        /\ right_edge + RecordLen = RecordLen * (count_pushed + 1)
                        /\ RecordAt(id, count_pushed, pushed)'
                        /\ Len(acked[id]) = info_push[id].count_pushed
      BY <1>4 DEF TailState, Running, RecordAt
    <3>1. /\ Len(rec[id]) = right_edge + 1
          /\ rec[id][right_edge + 1] = HeaderCell(pushed, right_edge, count_pushed + 1)
          /\ Len(acked[id]) = info_push[id].count_pushed
      BY <1>1, <1>2 DEF TailState, Running
    <3>2. right_edge = RecordLen * count_pushed /\ right_edge \in Nat /\ count_pushed \in Nat
      <4>1. Exists(id) /\ id \in Parts
        BY <1>1, <1>2 DEF NamedPartsExist, TypeOK
      <4>2. info_push[id].right_edge = RecordLen * info_push[id].count_pushed
        BY <1>1, <4>1 DEF PublishedWhole
      <4>3. QED
        BY <1>1, <1>2, <4>2 DEF PushInfo, TypeOK
    <3>3. Len(rec'[id]) = right_edge + RecordLen
      BY <2>1, <3>1, <3>2
    <3>4. rec'[id][right_edge + 1] = HeaderCell(pushed, right_edge, count_pushed + 1)
      <4>1. id \in Parts /\ right_edge + 1 \in 1 .. Len(rec[id])
        BY <1>1, <3>1, <3>2 DEF TypeOK
      <4>2. QED
        BY <2>1, <3>1, <4>1 DEF Grows
    <3>5. rec'[id][right_edge + RecordLen] = BodyCell(pushed)
      BY <2>1, <3>1, <3>2 DEF c
    <3>6. RecordAt(id, count_pushed, pushed)'
      <4>1. /\ RecordLen * (count_pushed + 1) = right_edge + RecordLen
            /\ RecordLen * (count_pushed + 1) - 1 = right_edge + 1
            /\ RecordLen * ((count_pushed + 1) - 1) = right_edge
        BY <3>2
      <4>2. QED
        BY <3>3, <3>4, <3>5, <4>1 DEF RecordAt
    <3>7. QED
      BY <3>1, <3>2, <3>3, <3>6
  <2>7. PublishedWhole' /\ AckedPublished'
    BY <1>4, <2>1, PublishedKept
  <2>8. QED
    BY <2>2, <2>3, <2>4, <2>5, <2>6, <2>7 DEF IInv
<1>5. CASE /\ torn' = torn \cup {id}
           /\ UNCHANGED <<rec, offset>>
  <2>1. TypeOK'
    BY <1>1, <1>5 DEF TypeOK
  <2>2. FutureParts' /\ NamedPartsExist'
    BY <1>1, <1>5 DEF FutureParts, NamedPartsExist, Exists
  <2>3. OpeningState' /\ RunningState'
    BY <1>1, <1>2, <1>5 DEF OpeningState, RunningState, Running, PushInfo, TypeOK
  <2>4. TailState'
    BY <1>5 DEF TailState
  <2>5. Grows
    BY <1>1, <1>5 DEF Grows, TypeOK
  <2>6. PublishedWhole' /\ AckedPublished'
    BY <1>5, <2>5, PublishedKept
  <2>7. QED
    BY <2>1, <2>2, <2>3, <2>4, <2>6 DEF IInv
<1>6. QED
  BY <1>4, <1>5

(* A failed body write marks the part torn.                                *)
LEMMA WriteBodyFailsInv == IInv /\ WriteBodyFails => IInv'
<1> SUFFICES ASSUME IInv, WriteBodyFails PROVE IInv'
  OBVIOUS
<1> USE DEF WriteBodyFails, diskVars
<1>1. TypeOK /\ FutureParts /\ NamedPartsExist /\ RunningState
  BY DEF IInv
<1>2. TypeOK'
  BY <1>1 DEF TypeOK
<1>3. FutureParts' /\ NamedPartsExist'
  BY <1>1 DEF FutureParts, NamedPartsExist, Exists
<1>4. OpeningState' /\ RunningState'
  BY <1>1 DEF OpeningState, RunningState, Running
<1>5. TailState'
  BY DEF TailState
<1>6. Grows
  BY <1>1 DEF Grows, TypeOK
<1>7. PublishedWhole' /\ AckedPublished'
  BY <1>6, PublishedKept
<1>8. QED
  BY <1>2, <1>3, <1>4, <1>5, <1>7 DEF IInv

(* Publishing admits readers to exactly the record that was just written.  *)
LEMMA PutInfoPushInv == IInv /\ PutInfoPush => IInv'
<1> SUFFICES ASSUME IInv, PutInfoPush PROVE IInv'
  OBVIOUS
<1>1. TypeOK /\ FutureParts /\ NamedPartsExist /\ RunningState /\ TailState
      /\ PublishedWhole /\ AckedPublished
  BY DEF IInv
<1>2. /\ ppc = "put_info_push" /\ ppc' = "ready"
      /\ info_push' = [info_push EXCEPT ![id] = PushInfo(right_edge, count_pushed)]
      /\ acked' = [acked EXCEPT ![id] = Append(@, pushed)]
      /\ UNCHANGED <<info_queue, rec, id, right_edge, count_pushed, is_ready, offset,
                     pushed, torn>>
  BY DEF PutInfoPush
<1>3. /\ id = info_queue /\ id \in Parts /\ offset = Len(rec[id]) /\ is_ready /\ pushed \in Pushes
      /\ info_push[id] = PushInfo(right_edge - RecordLen, count_pushed - 1)
      /\ right_edge \in Nat /\ count_pushed \in Nat
  BY <1>1, <1>2 DEF RunningState, Running, TypeOK
<1>4. Exists(id)
  BY <1>1, <1>3 DEF NamedPartsExist, TypeOK
<1>5. count_pushed - 1 \in Nat /\ info_push[id].count_pushed = count_pushed - 1
  BY <1>1, <1>3, <1>4 DEF TypeOK, PushInfo, Exists, Absent
<1>6. /\ \A p \in Parts : p # id => info_push'[p] = info_push[p] /\ acked'[p] = acked[p]
      /\ info_push'[id] = PushInfo(right_edge, count_pushed)
      /\ acked'[id] = Append(acked[id], pushed)
      /\ acked[id] \in Seq(Pushes)
  BY <1>1, <1>2, <1>3 DEF TypeOK
<1>7. PushInfo(right_edge, count_pushed) \in [right_edge : Nat, count_pushed : Nat]
  BY <1>3 DEF PushInfo
<1>8. TypeOK'
  <2>1. info_push' \in [Parts -> [right_edge : Nat, count_pushed : Nat] \cup {Absent}]
    BY <1>1, <1>2, <1>7 DEF TypeOK
  <2>2. acked' \in [Parts -> Seq(Pushes)]
    BY <1>1, <1>2, <1>3, <1>6 DEF TypeOK
  <2>3. QED
    BY <1>1, <1>2, <2>1, <2>2 DEF TypeOK
<1>9. FutureParts'
  BY <1>1, <1>2, <1>3, <1>6 DEF FutureParts, TypeOK
<1>10. \A p \in Parts : p # id => Exists(p)' = Exists(p) /\ Visible(p)' = Visible(p)
  BY <1>6 DEF Exists, Visible
<1>11. Exists(id)' /\ Visible(id)' = count_pushed /\ info_push'[id].count_pushed = count_pushed
       /\ info_push'[id].right_edge = right_edge
  <2>1. /\ PushInfo(right_edge, count_pushed).right_edge = right_edge
        /\ PushInfo(right_edge, count_pushed).count_pushed = count_pushed
        /\ Absent.right_edge = -1
    BY DEF PushInfo, Absent
  <2>2. info_push'[id] # Absent
    BY <1>3, <1>6, <2>1
  <2>3. QED
    BY <1>2, <1>6, <2>1, <2>2 DEF Exists, Visible
<1>12. NamedPartsExist'
  BY <1>1, <1>2, <1>10, <1>11 DEF NamedPartsExist
<1>13. OpeningState' /\ RunningState'
  BY <1>2, <1>3, <1>6 DEF OpeningState, RunningState, Running
<1>14. \A p \in Parts : \A k, m : RecordAt(p, k, m)' = RecordAt(p, k, m)
  BY <1>2 DEF RecordAt
<1>15. id \notin torn =>
          /\ right_edge = RecordLen * count_pushed /\ RecordAt(id, count_pushed, pushed)
          /\ Len(rec[id]) = right_edge
          /\ Len(acked[id]) = count_pushed - 1
  BY <1>1, <1>2, <1>3, <1>5 DEF TailState, Running
<1>16. Len(acked'[id]) = Len(acked[id]) + 1 /\ acked'[id][Len(acked[id]) + 1] = pushed
       /\ \A k \in 1 .. Len(acked[id]) : acked'[id][k] = acked[id][k]
  BY <1>3, <1>6
<1>17. TailState'
  <2>1. id \notin torn => Len(acked'[id]) = info_push'[id].count_pushed
    BY <1>3, <1>11, <1>15, <1>16
  <2>2. QED
    BY <1>2, <1>15, <2>1 DEF TailState, Running
<1>18. PublishedWhole'
  <2> SUFFICES ASSUME NEW p \in Parts \ torn, Exists(p)'
               PROVE  /\ info_push'[p].right_edge = RecordLen * info_push'[p].count_pushed
                      /\ \A k \in 1 .. info_push'[p].count_pushed :
                             \E m \in Pushes : RecordAt(p, k, m)'
    BY <1>2 DEF PublishedWhole
  <2>1. CASE p # id
    BY <1>1, <1>6, <1>10, <1>14, <2>1 DEF PublishedWhole
  <2>2. CASE p = id
    <3>1. \A k \in 1 .. count_pushed - 1 : \E m \in Pushes : RecordAt(p, k, m)
      BY <1>1, <1>4, <1>5, <2>2 DEF PublishedWhole
    <3>2. \A k \in 1 .. count_pushed : k \in 1 .. count_pushed - 1 \/ k = count_pushed
      BY <1>3
    <3>3. QED
      BY <1>3, <1>11, <1>14, <1>15, <2>2, <3>1, <3>2
  <2>3. QED
    BY <2>1, <2>2
<1>19. AckedPublished'
  <2> SUFFICES ASSUME NEW p \in Parts \ torn
               PROVE  /\ Visible(p)' <= Len(acked'[p])
                      /\ Len(acked'[p]) <= Visible(p)' + (IF "info_push" \in Faults THEN 1 ELSE 0)
                      /\ \A k \in 1 .. Visible(p)' : RecordAt(p, k, acked[p][k])'
    BY <1>2 DEF AckedPublished
  <2>1. CASE p # id
    <3>1. /\ Visible(p)' = Visible(p) /\ acked'[p] = acked[p]
          /\ Visible(p) <= Len(acked[p])
          /\ Len(acked[p]) <= Visible(p) + (IF "info_push" \in Faults THEN 1 ELSE 0)
          /\ \A k \in 1 .. Visible(p) : RecordAt(p, k, acked[p][k])
      BY <1>1, <1>6, <1>10, <2>1 DEF AckedPublished
    <3>2. \A k \in 1 .. Visible(p) : RecordAt(p, k, acked[p][k])'
      BY <1>2, <3>1 DEF RecordAt
    <3>3. QED
      BY <3>1, <3>2
  <2>2. CASE p = id
    <3>1. \A k \in 1 .. count_pushed - 1 : RecordAt(p, k, acked[p][k])
      BY <1>1, <1>4, <1>5, <2>2 DEF AckedPublished, Visible
    <3>2. \A k \in 1 .. count_pushed : k \in 1 .. count_pushed - 1 \/ k = count_pushed
      BY <1>3
    <3>3. /\ \A k \in 1 .. count_pushed - 1 : acked'[p][k] = acked[p][k]
          /\ acked'[p][count_pushed] = pushed
          /\ Len(acked'[p]) = count_pushed
      BY <1>3, <1>5, <1>15, <1>16, <2>2
    <3>4. ASSUME NEW k \in 1 .. count_pushed
          PROVE  RecordAt(p, k, acked[p][k])'
      <4>1. PICK m : m = acked'[p][k]
        OBVIOUS
      <4>2. RecordAt(p, k, m)
        BY <1>15, <2>2, <3>1, <3>2, <3>3, <4>1
      <4>3. QED
        BY <1>2, <4>1, <4>2 DEF RecordAt
    <3>5. QED
      <4>1. Visible(p)' = count_pushed
        BY <1>2, <1>11, <2>2
      <4>2. QED
        BY <1>3, <2>2, <3>3, <3>4, <4>1
  <2>3. QED
    BY <2>1, <2>2
<1>20. QED
  BY <1>8, <1>9, <1>12, <1>13, <1>17, <1>18, <1>19 DEF IInv

(* A failed info write closes the part with its last record unpublished.   *)
LEMMA PutInfoPushFailsInv == IInv /\ PutInfoPushFails => IInv'
<1> SUFFICES ASSUME IInv, PutInfoPushFails PROVE IInv'
  OBVIOUS
<1>1. TypeOK /\ FutureParts /\ NamedPartsExist /\ RunningState /\ TailState
      /\ PublishedWhole /\ AckedPublished
  BY DEF IInv
<1>2. /\ ppc = "put_info_push" /\ ppc' = "ready" /\ "info_push" \in Faults
      /\ right_edge' = right_edge - RecordLen /\ count_pushed' = count_pushed - 1
      /\ is_ready' = FALSE
      /\ acked' = [acked EXCEPT ![id] = Append(@, pushed)]
      /\ UNCHANGED <<info_queue, rec, info_push, id, offset, pushed, torn>>
  BY DEF PutInfoPushFails, diskVars
<1>3. /\ id = info_queue /\ id \in Parts /\ offset = Len(rec[id]) /\ is_ready /\ pushed \in Pushes
      /\ info_push[id] = PushInfo(right_edge - RecordLen, count_pushed - 1)
  BY <1>1, <1>2 DEF RunningState, Running, TypeOK
<1>4. Exists(id)
  BY <1>1, <1>3 DEF NamedPartsExist, TypeOK
<1>5. right_edge - RecordLen \in Nat /\ count_pushed - 1 \in Nat
      /\ info_push[id].count_pushed = count_pushed - 1
  BY <1>1, <1>3, <1>4 DEF TypeOK, PushInfo, Exists, Absent
<1>6. /\ \A p \in Parts : p # id => acked'[p] = acked[p]
      /\ acked'[id] = Append(acked[id], pushed)
      /\ acked[id] \in Seq(Pushes)
      /\ acked' \in [Parts -> Seq(Pushes)]
  BY <1>1, <1>2, <1>3 DEF TypeOK
<1>7. TypeOK'
  BY <1>1, <1>2, <1>5, <1>6 DEF TypeOK
<1>8. FutureParts' /\ NamedPartsExist'
  BY <1>1, <1>2, <1>3, <1>6 DEF FutureParts, NamedPartsExist, Exists, TypeOK
<1>9. OpeningState' /\ RunningState'
  BY <1>2, <1>3 DEF OpeningState, RunningState, Running
<1>10. TailState'
  BY <1>2 DEF TailState, Running
<1>11. \A p \in Parts : Exists(p)' = Exists(p) /\ Visible(p)' = Visible(p)
  BY <1>2 DEF Exists, Visible
<1>12. PublishedWhole'
  BY <1>1, <1>2, <1>11 DEF PublishedWhole, RecordAt
<1>13. id \notin torn => Len(acked[id]) = Visible(id)
  BY <1>1, <1>2, <1>3, <1>4 DEF TailState, Running, Visible
<1>14. Len(acked'[id]) = Len(acked[id]) + 1
       /\ \A k \in 1 .. Len(acked[id]) : acked'[id][k] = acked[id][k]
  BY <1>3, <1>6
<1>15. AckedPublished'
  <2> SUFFICES ASSUME NEW p \in Parts \ torn
               PROVE  /\ Visible(p) <= Len(acked'[p])
                      /\ Len(acked'[p]) <= Visible(p) + 1
                      /\ \A k \in 1 .. Visible(p) : RecordAt(p, k, acked[p][k])'
    BY <1>2, <1>11 DEF AckedPublished
  <2>1. /\ Visible(p) <= Len(acked[p])
        /\ Len(acked[p]) <= Visible(p) + 1
        /\ \A k \in 1 .. Visible(p) : RecordAt(p, k, acked[p][k])
    BY <1>1, <1>2 DEF AckedPublished
  <2>2. Visible(p) \in Nat /\ Len(acked[p]) \in Nat
    BY <1>1 DEF TypeOK, Visible, Exists
  <2>3. \A k \in 1 .. Visible(p) : acked'[p][k] = acked[p][k]
    BY <1>6, <1>13, <1>14
  <2>4. \A k \in 1 .. Visible(p) : RecordAt(p, k, acked[p][k])'
    BY <1>2, <2>1, <2>3 DEF RecordAt
  <2>5. Visible(p) <= Len(acked'[p]) /\ Len(acked'[p]) <= Visible(p) + 1
    BY <1>6, <1>13, <1>14, <2>1, <2>2
  <2>6. QED
    BY <2>4, <2>5
<1>16. QED
  BY <1>7, <1>8, <1>9, <1>10, <1>12, <1>15 DEF IInv

(* A death leaves the files as they are.                                   *)
LEMMA ProducerDiesInv == IInv /\ ProducerDies => IInv'
<1> SUFFICES ASSUME IInv, ProducerDies PROVE IInv'
  OBVIOUS
<1>1. TypeOK /\ FutureParts /\ NamedPartsExist
  BY DEF IInv
<1>2. /\ ppc' = "down" /\ id' = 0 /\ right_edge' = 0 /\ count_pushed' = 0
      /\ is_ready' = FALSE /\ offset' = 0
      /\ UNCHANGED <<info_queue, rec, info_push, pushed, acked, torn>>
  BY DEF ProducerDies, diskVars, historyVars
<1>3. TypeOK'
  <2>1. 0 \in Parts
    BY MaxPartAssumption
  <2>2. id' \in Parts /\ right_edge' \in Nat /\ count_pushed' \in Nat /\ offset' \in Nat
    BY <1>2, <2>1
  <2>3. is_ready' \in BOOLEAN
    BY <1>2
  <2>4. QED
    BY <1>1, <1>2, <2>2, <2>3 DEF TypeOK
<1>4. FutureParts' /\ NamedPartsExist'
  BY <1>1, <1>2 DEF FutureParts, NamedPartsExist, Exists
<1>5. OpeningState' /\ RunningState' /\ TailState'
  BY <1>2 DEF OpeningState, RunningState, TailState, Running
<1>6. Grows
  BY <1>1, <1>2 DEF Grows, TypeOK
<1>7. PublishedWhole' /\ AckedPublished'
  BY <1>2, <1>6, PublishedKept
<1>8. QED
  BY <1>3, <1>4, <1>5, <1>7 DEF IInv

(* A stuttering step changes nothing the invariant speaks of.              *)
LEMMA StutterInv == IInv /\ UNCHANGED queueVars => IInv'
<1> SUFFICES ASSUME IInv, UNCHANGED queueVars PROVE IInv'
  OBVIOUS
<1>1. TypeOK
  BY DEF IInv
<1>2. /\ UNCHANGED <<info_queue, rec, info_push, ppc, id, right_edge, count_pushed>>
      /\ UNCHANGED <<is_ready, offset, pushed, acked, torn>>
  BY DEF queueVars, diskVars, producerVars, historyVars
<1>3. TypeOK'
  BY <1>1, <1>2 DEF TypeOK
<1>4. FutureParts' /\ NamedPartsExist'
  BY <1>2 DEF IInv, FutureParts, NamedPartsExist, Exists
<1>5. OpeningState' /\ RunningState' /\ TailState'
  BY <1>2 DEF IInv, OpeningState, RunningState, TailState, NextPart, RecordAt
<1>6. Grows
  BY <1>1, <1>2 DEF Grows, TypeOK
<1>7. PublishedWhole' /\ AckedPublished'
  BY <1>2, <1>6, PublishedKept
<1>8. QED
  BY <1>3, <1>4, <1>5, <1>7 DEF IInv

(* Every step of the producer preserves the invariant.                     *)
LEMMA NextInv == IInv /\ [Next]_queueVars => IInv'
<1>1. CASE OpenPart           BY <1>1, OpenPartInv
<1>2. CASE PutInfoQueue       BY <1>2, PutInfoQueueInv
<1>3. CASE PutInfoQueueFails  BY <1>3, ProducerDiesInv DEF PutInfoQueueFails
<1>4. CASE WriteHeader        BY <1>4, WriteHeaderInv
<1>5. CASE WriteBody          BY <1>5, WriteBodyInv
<1>6. CASE WriteBodyFails     BY <1>6, WriteBodyFailsInv
<1>7. CASE PutInfoPush        BY <1>7, PutInfoPushInv
<1>8. CASE PutInfoPushFails   BY <1>8, PutInfoPushFailsInv
<1>9. CASE ProducerCrash      BY <1>9, ProducerDiesInv DEF ProducerCrash
<1>10. CASE UNCHANGED queueVars  BY <1>10, StutterInv
<1>11. QED
  BY <1>1, <1>2, <1>3, <1>4, <1>5, <1>6, <1>7, <1>8, <1>9, <1>10 DEF Next

-----------------------------------------------------------------------------
(* The theorems.                                                           *)

(* The strengthened invariant holds in every reachable state.              *)
THEOREM Invariance == Spec => []IInv
BY InitInv, NextInv, PTL DEF Spec

(* The files, the struct and the history keep their types.                 *)
THEOREM TypeCorrect == Spec => []TypeOK
<1>1. IInv => TypeOK  BY DEF IInv
<1>2. QED  BY <1>1, Invariance, PTL

(* What an info file admits to readers is in the record file, whole, in    *)
(* every part without a failed body write (queue.rs:146-161).              *)
THEOREM PublishedWholeHolds == Spec => []PublishedWhole
<1>1. IInv => PublishedWhole  BY DEF IInv
<1>2. QED  BY <1>1, Invariance, PTL

(* Pushes that returned Ok are published in order, all but the one whose   *)
(* info write failed (queue.rs:158-163).                                   *)
THEOREM AckedPublishedHolds == Spec => []AckedPublished
<1>1. IInv => AckedPublished  BY DEF IInv
<1>2. QED  BY <1>1, Invariance, PTL

(* A start never opens a part that holds records (queue.rs:75-98).         *)
THEOREM FreshPartHolds == Spec => []FreshPart
<1>1. IInv => FreshPart
  <2> SUFFICES ASSUME IInv, ppc = "put_info_queue"
               PROVE  rec[id] = <<>> /\ count_pushed = 0
    BY DEF FreshPart
  <2>1. id = NextPart /\ count_pushed = 0 /\ id \in Parts
    BY DEF IInv, OpeningState, TypeOK
  <2>2. id > info_queue
    BY <2>1, MaxPartAssumption DEF IInv, TypeOK, NextPart
  <2>3. QED
    BY <2>1, <2>2 DEF IInv, FutureParts
<1>2. QED  BY <1>1, Invariance, PTL

(* Record files only grow: the handle of a running producer is at the end  *)
(* of the file of its part, and no other part is written.                  *)
LEMMA StepGrows == IInv /\ [Next]_queueVars => Grows
<1> SUFFICES ASSUME IInv, [Next]_queueVars PROVE Grows
  OBVIOUS
<1>1. TypeOK /\ RunningState
  BY DEF IInv
<1>2. CASE UNCHANGED rec
  BY <1>1, <1>2 DEF Grows, TypeOK
<1>3. CASE \E c \in Cell : ppc \in Running /\ rec' = [rec EXCEPT ![id] = WriteAt(@, offset, c)]
  <2>1. offset = Len(rec[id])
    BY <1>1, <1>3 DEF RunningState
  <2>2. QED
    BY <1>1, <1>3, <2>1, WriteCell
<1>4. CASE WriteHeader
  <2>1. HeaderCell(pushed + 1, right_edge, count_pushed + 1) \in Cell
    BY <1>1, <1>4, MaxPushAssumption DEF WriteHeader, TypeOK, HeaderCell, Cell
  <2>2. QED
    BY <1>2, <1>3, <1>4, <2>1 DEF WriteHeader, Running
<1>5. CASE WriteBody
  <2>1. BodyCell(pushed) \in Cell
    BY <1>1, <1>5 DEF WriteBody, RunningState, Running, BodyCell, Cell
  <2>2. QED
    BY <1>2, <1>3, <1>5, <2>1 DEF WriteBody, Running
<1>6. CASE \/ OpenPart \/ PutInfoQueue \/ PutInfoQueueFails \/ WriteBodyFails
           \/ PutInfoPush \/ PutInfoPushFails \/ ProducerCrash \/ UNCHANGED queueVars
  BY <1>2, <1>6 DEF OpenPart, PutInfoQueue, PutInfoQueueFails, WriteBodyFails, PutInfoPush,
     PutInfoPushFails, ProducerCrash, ProducerDies, diskVars, queueVars
<1>7. QED
  BY <1>4, <1>5, <1>6 DEF Next

(* Only OpenPart and PutInfoPush write an info file, the first that of a   *)
(* part beyond the newest, the second that of the newest.                  *)
LEMMA StepInfo ==
    ASSUME IInv, [Next]_queueVars, NEW p \in Parts, info_push'[p] # info_push[p]
    PROVE  \/ p > info_queue /\ info_push[p] \in {Absent, EmptyInfo} /\ info_push'[p] = EmptyInfo
           \/ /\ p = info_queue
              /\ info_push[p].count_pushed = count_pushed - 1
              /\ info_push'[p].count_pushed = count_pushed
              /\ count_pushed \in Nat
<1>1. TypeOK /\ FutureParts /\ RunningState
  BY DEF IInv
<1>2. CASE OpenPart
  <2>1. p = NextPart
    BY <1>1, <1>2 DEF OpenPart, TypeOK
  <2>2. p > info_queue
    BY <1>1, <2>1 DEF NextPart, TypeOK
  <2>3. info_push[p] \in {Absent, EmptyInfo}
    BY <1>1, <2>2 DEF FutureParts
  <2>4. info_push'[p] = (IF Exists(p) THEN info_push[p] ELSE EmptyInfo)
    BY <1>1, <1>2, <2>1 DEF OpenPart, TypeOK
  <2>5. QED
    BY <2>2, <2>3, <2>4 DEF Exists
<1>3. CASE PutInfoPush
  <2>1. p = id
    BY <1>1, <1>3 DEF PutInfoPush, TypeOK
  <2>2. /\ id = info_queue
        /\ info_push[id] = PushInfo(right_edge - RecordLen, count_pushed - 1)
        /\ info_push'[id] = PushInfo(right_edge, count_pushed)
    BY <1>1, <1>3 DEF PutInfoPush, RunningState, Running, TypeOK
  <2>3. QED
    BY <1>1, <2>1, <2>2 DEF PushInfo, TypeOK
<1>4. CASE UNCHANGED info_push
  BY <1>4
<1>5. QED
  BY <1>2, <1>3, <1>4 DEF Next, PutInfoQueue, PutInfoQueueFails, WriteHeader, WriteBody,
     WriteBodyFails, PutInfoPushFails, ProducerCrash, ProducerDies, diskVars, queueVars

(* Published cells never change and info files never go back               *)
(* (queue.rs:118-164).                                                     *)
THEOREM PublishedImmutableHolds == Spec => PublishedImmutable
<1>1. IInv /\ [Next]_queueVars =>
        [\A p \in Parts :
           /\ \A i \in 1 .. Len(rec[p]) :
                  i <= info_push[p].right_edge => rec'[p][i] = rec[p][i]
           /\ info_push'[p].count_pushed >= info_push[p].count_pushed]_queueVars
  <2> SUFFICES ASSUME IInv, [Next]_queueVars, NEW p \in Parts
               PROVE  /\ \A i \in 1 .. Len(rec[p]) : rec'[p][i] = rec[p][i]
                      /\ info_push'[p].count_pushed >= info_push[p].count_pushed
    OBVIOUS
  <2>1. \A i \in 1 .. Len(rec[p]) : rec'[p][i] = rec[p][i]
    BY StepGrows DEF Grows
  <2>2. /\ Absent.count_pushed = -1 /\ EmptyInfo.count_pushed = 0
        /\ info_push[p].count_pushed \in Int
    BY DEF IInv, TypeOK, Absent, EmptyInfo, PushInfo
  <2>3. info_push'[p].count_pushed >= info_push[p].count_pushed
    <3>1. CASE info_push'[p] = info_push[p]
      BY <2>2, <3>1
    <3>2. CASE info_push'[p] # info_push[p]
      BY <2>2, <3>2, StepInfo
    <3>3. QED
      BY <3>1, <3>2
  <2>4. QED
    BY <2>1, <2>3
<1>2. QED
  BY <1>1, Invariance, PTL DEF Spec, PublishedImmutable

(* A part that is not the newest never changes again (queue.rs:75-104).    *)
THEOREM OldPartsClosedHolds == Spec => OldPartsClosed
<1>1. IInv /\ [Next]_queueVars =>
        [\A p \in Parts : p < info_queue =>
            rec'[p] = rec[p] /\ info_push'[p] = info_push[p]]_queueVars
  <2> SUFFICES ASSUME IInv, [Next]_queueVars, NEW p \in Parts, p < info_queue
               PROVE  rec'[p] = rec[p] /\ info_push'[p] = info_push[p]
    OBVIOUS
  <2>1. info_queue \in Int /\ p \in Int /\ p # info_queue /\ ~(p > info_queue)
    BY DEF IInv, TypeOK
  <2>2. info_push'[p] = info_push[p]
    BY <2>1, StepInfo
  <2>3. rec'[p] = rec[p]
    <3>1. CASE WriteHeader \/ WriteBody
      <4>1. id = info_queue
        BY <3>1 DEF IInv, RunningState, Running, WriteHeader, WriteBody
      <4>2. QED
        BY <2>1, <3>1, <4>1 DEF WriteHeader, WriteBody, IInv, TypeOK
    <3>2. CASE UNCHANGED rec
      BY <3>2
    <3>3. QED
      BY <3>1, <3>2 DEF Next, OpenPart, PutInfoQueue, PutInfoQueueFails, WriteBodyFails,
         PutInfoPush, PutInfoPushFails, ProducerCrash, ProducerDies, diskVars, queueVars
  <2>4. QED
    BY <2>2, <2>3
<1>2. QED
  BY <1>1, Invariance, PTL DEF Spec, OldPartsClosed

-----------------------------------------------------------------------------
(* What a reader needs to know about the files, beyond IInv.               *)

(* The first cell of a sound part behind what its info file admits to, if  *)
(* there is one, is a header: that is where a reader that has popped all   *)
(* published records goes on.                                              *)
TailIsHeader ==
    \A p \in Parts \ torn :
        Len(rec[p]) > RecordLen * Visible(p) => rec[p][RecordLen * Visible(p) + 1].kind = "header"

(* Cells carry messages in the order of the push calls: no message has two *)
(* headers, and a newer part has newer messages only.                      *)
CellsOrdered ==
    /\ \A p \in Parts : \A i \in 1 .. Len(rec[p]) : rec[p][i].msg <= pushed
    /\ \A p \in Parts : \A j \in 1 .. Len(rec[p]) : \A i \in 1 .. j - 1 :
          /\ rec[p][i].msg <= rec[p][j].msg
          /\ rec[p][j].kind = "header" => rec[p][i].msg < rec[p][j].msg
    /\ \A p, q \in Parts : \A i \in 1 .. Len(rec[p]) : \A j \in 1 .. Len(rec[q]) :
          p < q => rec[p][i].msg < rec[q][j].msg

Acked(p, m) == \E k \in DOMAIN acked[p] : acked[p][k] = m

(* The message of a complete record was acknowledged, or its headers count *)
(* more records than the info file of the part admits to; the latter while *)
(* push is about to publish it, and for good in a part that is closed.     *)
BodyAcked ==
    \A p \in Parts : \A j \in 1 .. Len(rec[p]) : rec[p][j].kind = "body" =>
        \/ Acked(p, rec[p][j].msg)
        \/ /\ ppc \in Running /\ id = p => ppc = "put_info_push" /\ rec[p][j].msg = pushed
           /\ \A i \in 1 .. Len(rec[p]) :
                 rec[p][i].kind = "header" /\ rec[p][i].msg = rec[p][j].msg =>
                     rec[p][i].count_pushed > Visible(p)

(* The header that push has just written says one record more.             *)
OpenHeader ==
    ppc = "body" =>
        /\ Len(rec[id]) > 0
        /\ rec[id][Len(rec[id])] = HeaderCell(pushed, right_edge, count_pushed + 1)

(* An info file admits to whole records.                                   *)
EdgeMatchesCount ==
    \A p \in Parts : Exists(p) => info_push[p].right_edge = RecordLen * info_push[p].count_pushed

FilesInv ==
    /\ IInv
    /\ TailIsHeader
    /\ CellsOrdered
    /\ OpenHeader
    /\ BodyAcked
    /\ EdgeMatchesCount


-----------------------------------------------------------------------------
(* The producer keeps these facts.                                         *)

(* No part holds a record when the queue is new.                           *)
LEMMA FilesInit == Init => FilesInv
<1> SUFFICES ASSUME Init PROVE FilesInv
  OBVIOUS
<1>1. IInv
  BY InitInv
<1>2. ppc = "down" /\ \A p \in Parts : rec[p] = <<>> /\ ~Exists(p) /\ Len(rec[p]) = 0
  BY DEF Init, Exists
<1>3. TailIsHeader /\ EdgeMatchesCount /\ OpenHeader
  BY <1>2 DEF TailIsHeader, EdgeMatchesCount, OpenHeader, Visible
<1>4. CellsOrdered /\ BodyAcked
  BY <1>2 DEF CellsOrdered, BodyAcked
<1>5. QED
  BY <1>1, <1>3, <1>4 DEF FilesInv

(* What info files admit to is a number of records.                        *)
LEMMA VisibleNat ==
    ASSUME TypeOK, NEW p \in Parts
    PROVE  Visible(p) \in Nat /\ Len(rec[p]) \in Nat
BY DEF TypeOK, Visible, Exists, Absent, PushInfo

(* An info file changes only when push publishes a record of the newest    *)
(* part; a start creates an empty one, which admits to nothing either.     *)
LEMMA StepVisible ==
    ASSUME IInv, [Next]_queueVars, NEW p \in Parts, Visible(p)' # Visible(p)
    PROVE  /\ p = info_queue /\ p = id /\ PutInfoPush
           /\ Visible(p)' = Visible(p) + 1
<1>1. info_push'[p] # info_push[p]
  BY DEF Visible, Exists
<1>2. TypeOK /\ NamedPartsExist /\ RunningState
  BY DEF IInv
<1>3. CASE info_push[p] \in {Absent, EmptyInfo} /\ info_push'[p] = EmptyInfo
  BY <1>3 DEF Visible, Exists, Absent, EmptyInfo, PushInfo
<1>4. CASE /\ p = info_queue
           /\ info_push[p].count_pushed = count_pushed - 1
           /\ info_push'[p].count_pushed = count_pushed
           /\ count_pushed \in Nat
  <2>1. Exists(p)
    BY <1>2, <1>4 DEF NamedPartsExist, TypeOK
  <2>2. Visible(p) = count_pushed - 1 /\ Visible(p) \in Nat
    BY <1>2, <1>4, <2>1, VisibleNat DEF Visible
  <2>3. info_push'[p] # Absent
    BY <1>4 DEF Absent, PushInfo
  <2>4. PutInfoPush
    <3>1. ~OpenPart
      <4>1. SUFFICES ASSUME OpenPart PROVE FALSE
        OBVIOUS
      <4>2. NextPart # p
        BY <1>4 DEF NextPart
      <4>3. QED
        BY <1>1, <1>2, <4>1, <4>2 DEF OpenPart, TypeOK
    <3>2. QED
      BY <1>1, <3>1 DEF Next, PutInfoQueue, PutInfoQueueFails, WriteHeader, WriteBody,
         WriteBodyFails, PutInfoPushFails, ProducerCrash, ProducerDies, diskVars, queueVars
  <2>5. p = id
    BY <1>2, <1>4, <2>4 DEF RunningState, Running, PutInfoPush
  <2>6. QED
    BY <1>4, <2>2, <2>3, <2>4, <2>5 DEF Visible, Exists
<1>5. QED
  BY <1>1, <1>3, <1>4, StepInfo

(* The cell that a step of the producer appends, if it appends one.        *)
LEMMA StepAppends ==
    ASSUME IInv, [Next]_queueVars
    PROVE  \/ UNCHANGED rec
           \/ /\ id = info_queue /\ id \in Parts
              /\ Len(rec'[id]) = Len(rec[id]) + 1
              /\ \A i \in 1 .. Len(rec[id]) : rec'[id][i] = rec[id][i]
              /\ \A p \in Parts : p # id => rec'[p] = rec[p]
              /\ \/ /\ WriteHeader /\ ppc' = "body" /\ pushed' = pushed + 1
                    /\ rec'[id][Len(rec[id]) + 1]
                         = HeaderCell(pushed + 1, right_edge, count_pushed + 1)
                 \/ /\ WriteBody /\ UNCHANGED <<torn, pushed>>
                    /\ rec'[id][Len(rec[id]) + 1] = BodyCell(pushed)
<1>1. TypeOK /\ RunningState
  BY DEF IInv
<1>2. CASE WriteHeader
  <2>1. HeaderCell(pushed + 1, right_edge, count_pushed + 1) \in Cell
    BY <1>1, <1>2, MaxPushAssumption DEF WriteHeader, TypeOK, HeaderCell, Cell
  <2>2. id = info_queue /\ id \in Parts /\ offset = Len(rec[id])
    BY <1>1, <1>2 DEF WriteHeader, RunningState, Running, TypeOK
  <2>3. QED
    BY <1>1, <1>2, <2>1, <2>2, WriteCell DEF WriteHeader, Grows
<1>3. CASE WriteBody
  <2>1. BodyCell(pushed) \in Cell
    BY <1>1, <1>3 DEF WriteBody, RunningState, Running, BodyCell, Cell
  <2>2. id = info_queue /\ id \in Parts /\ offset = Len(rec[id])
    BY <1>1, <1>3 DEF WriteBody, RunningState, Running, TypeOK
  <2>3. QED
    BY <1>1, <1>3, <2>1, <2>2, WriteCell DEF WriteBody, Grows
<1>4. QED
  BY <1>2, <1>3 DEF Next, OpenPart, PutInfoQueue, PutInfoQueueFails, WriteBodyFails, PutInfoPush,
     PutInfoPushFails, ProducerCrash, ProducerDies, diskVars, queueVars

(* A step keeps the edge and the count of every info file together.        *)
LEMMA EdgeMatchesCountKept ==
    ASSUME FilesInv, [Next]_queueVars
    PROVE  EdgeMatchesCount'
<1>1. IInv /\ TypeOK /\ RunningState /\ FutureParts /\ EdgeMatchesCount
  BY DEF FilesInv, IInv
<1>2. CASE OpenPart
  <2>1. \A p \in Parts : info_push'[p] # info_push[p] => info_push'[p] = EmptyInfo
    <3>1. NextPart > info_queue /\ NextPart \in Parts
      BY <1>1, <1>2 DEF NextPart, TypeOK, OpenPart
    <3>2. info_push[NextPart] \in {Absent, EmptyInfo}
      BY <1>1, <3>1 DEF FutureParts
    <3>3. QED
      BY <1>1, <1>2, <3>1, <3>2 DEF OpenPart, TypeOK, Exists
  <2>2. QED
    BY <1>1, <2>1 DEF EdgeMatchesCount, Exists, EmptyInfo, PushInfo
<1>3. CASE PutInfoPush
  <2>1. /\ info_push[id] = PushInfo(right_edge - RecordLen, count_pushed - 1)
        /\ id = info_queue /\ id \in Parts
        /\ right_edge \in Nat /\ count_pushed \in Nat
        /\ info_push' = [info_push EXCEPT ![id] = PushInfo(right_edge, count_pushed)]
    BY <1>1, <1>3 DEF PutInfoPush, RunningState, Running, TypeOK
  <2>2. Exists(id)
    BY <1>1, <2>1 DEF IInv, NamedPartsExist, TypeOK
  <2>3. right_edge = RecordLen * count_pushed
    BY <1>1, <2>1, <2>2 DEF EdgeMatchesCount, PushInfo
  <2>4. info_push'[id].right_edge = right_edge /\ info_push'[id].count_pushed = count_pushed
    BY <1>1, <2>1 DEF TypeOK, PushInfo
  <2>5. \A p \in Parts : p # id => info_push'[p] = info_push[p]
    BY <1>1, <2>1 DEF TypeOK
  <2>6. QED
    BY <1>1, <2>3, <2>4, <2>5 DEF EdgeMatchesCount, Exists
<1>4. CASE UNCHANGED info_push
  BY <1>1, <1>4 DEF EdgeMatchesCount, Exists
<1>5. QED
  BY <1>2, <1>3, <1>4 DEF Next, PutInfoQueue, PutInfoQueueFails, WriteHeader, WriteBody,
     WriteBodyFails, PutInfoPushFails, ProducerCrash, ProducerDies, diskVars, queueVars

(* The cell that opens a push is the last one until its body is written.   *)
LEMMA OpenHeaderKept ==
    ASSUME FilesInv, [Next]_queueVars
    PROVE  OpenHeader'
<1>1. IInv /\ TypeOK /\ OpenHeader
  BY DEF FilesInv, IInv
<1>2. CASE WriteHeader
  <2>1. CASE UNCHANGED ppc
    BY <1>2, <2>1 DEF WriteHeader, OpenHeader
  <2>2. CASE ppc' = "body"
    <3>1. UNCHANGED <<id, right_edge, count_pushed>> /\ pushed' = pushed + 1 /\ id \in Parts
      BY <1>1, <1>2 DEF WriteHeader, TypeOK
    <3>2. /\ Len(rec'[id]) = Len(rec[id]) + 1 /\ Len(rec[id]) \in Nat
          /\ rec'[id][Len(rec[id]) + 1] = HeaderCell(pushed + 1, right_edge, count_pushed + 1)
      <4>1. HeaderCell(pushed + 1, right_edge, count_pushed + 1) \in Cell
        BY <1>1, <1>2, MaxPushAssumption DEF WriteHeader, TypeOK, HeaderCell, Cell
      <4>2. offset = Len(rec[id]) /\ ppc = "ready"
        BY <1>1, <1>2 DEF WriteHeader, IInv, RunningState, Running
      <4>3. rec' = [rec EXCEPT ![id] = WriteAt(@, offset,
                        HeaderCell(pushed + 1, right_edge, count_pushed + 1))]
        BY <1>2, <2>2, <4>2 DEF WriteHeader
      <4>4. QED
        BY <1>1, <3>1, <4>1, <4>2, <4>3, WriteCell, VisibleNat
    <3>3. QED
      BY <3>1, <3>2 DEF OpenHeader
  <2>3. QED
    BY <1>2, <2>1, <2>2 DEF WriteHeader
<1>3. CASE UNCHANGED queueVars
  BY <1>1, <1>3 DEF OpenHeader, queueVars, diskVars, producerVars
<1>4. CASE ppc' # "body"
  BY <1>4 DEF OpenHeader
<1>5. QED
  BY <1>2, <1>3, <1>4 DEF Next, OpenPart, PutInfoQueue, PutInfoQueueFails, WriteBody,
     WriteBodyFails, PutInfoPush, PutInfoPushFails, ProducerCrash, ProducerDies

(* Behind the published records of a sound part comes a header, if any     *)
(* cell: the header of the push in progress is written there.              *)
LEMMA TailIsHeaderKept ==
    ASSUME FilesInv, [Next]_queueVars
    PROVE  TailIsHeader'
<1>1. IInv /\ TypeOK /\ TypeOK' /\ IInv'
  BY NextInv DEF FilesInv, IInv
<1>2. SUFFICES ASSUME NEW p \in Parts \ torn', Len(rec'[p]) > RecordLen * Visible(p)'
               PROVE  rec'[p][RecordLen * Visible(p)' + 1].kind = "header"
  BY DEF TailIsHeader
<1>3. p \in Parts \ torn
  BY DEF Next, OpenPart, PutInfoQueue, PutInfoQueueFails, WriteHeader, WriteBody, WriteBodyFails,
     PutInfoPush, PutInfoPushFails, ProducerCrash, ProducerDies, diskVars, historyVars, queueVars
<1>4. Visible(p) \in Nat /\ Visible(p)' \in Nat /\ Len(rec[p]) \in Nat /\ Len(rec'[p]) \in Nat
  BY <1>1, <1>3 DEF TypeOK, Visible, Exists, Absent, PushInfo
<1>5. CASE Visible(p)' # Visible(p)
  <2>1. PutInfoPush
    BY <1>1, <1>3, <1>5, StepVisible
  <2>2. p = id /\ Len(rec[id]) = RecordLen * count_pushed /\ rec' = rec
    BY <1>1, <1>3, <1>5, <2>1, StepVisible
       DEF IInv, TypeOK, TailState, RunningState, Running, PutInfoPush
  <2>3. Visible(p)' = count_pushed
    BY <1>1, <1>3, <2>1, <2>2 DEF PutInfoPush, Visible, Exists, PushInfo, Absent, TypeOK
  <2>4. QED
    BY <1>2, <1>4, <2>2, <2>3
<1>6. CASE Visible(p)' = Visible(p) /\ rec'[p] = rec[p]
  BY <1>2, <1>3, <1>6 DEF FilesInv, TailIsHeader
<1>7. CASE Visible(p)' = Visible(p) /\ rec'[p] # rec[p]
  <2>1. p = id /\ id = info_queue /\ ppc \in {"ready", "body"} /\ is_ready
        /\ Len(rec'[id]) = Len(rec[id]) + 1
        /\ \A i \in 1 .. Len(rec[id]) : rec'[id][i] = rec[id][i]
    BY <1>1, <1>3, <1>7, StepAppends DEF WriteHeader, WriteBody, IInv, RunningState, Running
  <2>2. Visible(id) = count_pushed /\ right_edge = RecordLen * count_pushed
    BY SMTT(60), <1>1, <1>3, <2>1 DEF IInv, RunningState, Running, Visible, PushInfo, NamedPartsExist,
       FilesInv, EdgeMatchesCount, TypeOK
  <2>3. CASE WriteHeader
    <3>1. Len(rec[id]) = right_edge
      BY <1>1, <1>3, <2>1, <2>3 DEF IInv, TailState, Running, WriteHeader
    <3>2. rec'[id][Len(rec[id]) + 1].kind = "header"
      BY <1>1, <1>3, <1>7, <2>1, <2>3, StepAppends DEF HeaderCell, WriteHeader, WriteBody
    <3>3. QED
      BY <1>7, <2>1, <2>2, <3>1, <3>2
  <2>4. CASE WriteBody
    <3>1. Len(rec[id]) = right_edge + 1
      BY <1>1, <1>3, <2>1, <2>4 DEF IInv, TailState, Running, WriteBody
    <3>2. rec[id][RecordLen * Visible(p) + 1].kind = "header"
      BY <1>3, <1>4, <2>1, <2>2, <3>1 DEF FilesInv, TailIsHeader
    <3>3. RecordLen * Visible(p) + 1 \in 1 .. Len(rec[id])
      BY <1>4, <2>1, <2>2, <3>1
    <3>4. QED
      BY <1>7, <2>1, <3>2, <3>3
  <2>5. QED
    BY <1>1, <1>3, <1>7, <2>3, <2>4, StepAppends
<1>8. QED
  BY <1>5, <1>6, <1>7

(* Whatever a step appends carries the newest message.                     *)
LEMMA CellsOrderedKept ==
    ASSUME FilesInv, [Next]_queueVars
    PROVE  CellsOrdered'
<1>1. IInv /\ TypeOK /\ CellsOrdered /\ OpenHeader
  BY DEF FilesInv, IInv
<1>2. pushed \in Nat /\ pushed' \in Nat /\ pushed <= pushed'
  <2>1. TypeOK'
    BY <1>1, NextInv DEF IInv
  <2>2. pushed' = pushed \/ pushed' = pushed + 1
    BY DEF Next, OpenPart, PutInfoQueue, PutInfoQueueFails, WriteHeader, WriteBody, WriteBodyFails,
       PutInfoPush, PutInfoPushFails, ProducerCrash, ProducerDies, producerVars, queueVars
  <2>3. QED
    BY <1>1, <2>1, <2>2, MaxPushAssumption DEF TypeOK
<1>3. \A p \in Parts : Len(rec[p]) \in Nat /\ \A i \in 1 .. Len(rec[p]) : rec[p][i].msg \in Nat
  <2>1. \A p \in Parts : rec[p] \in Seq(Cell)
    BY <1>1 DEF TypeOK
  <2>2. \A c \in Cell : c.msg \in Nat
    BY MaxPushAssumption DEF Cell
  <2>3. QED
    BY <2>1, <2>2
<1>4. CASE UNCHANGED rec
  <2>1. \A p \in Parts : \A i \in 1 .. Len(rec[p]) : rec[p][i].msg <= pushed
    BY <1>1 DEF CellsOrdered
  <2>2. \A p \in Parts : \A i \in 1 .. Len(rec[p]) : rec[p][i].msg <= pushed'
    BY <1>2, <1>3, <2>1
  <2>3. QED
    BY <1>1, <1>4, <2>2 DEF CellsOrdered
<1>5. CASE ~UNCHANGED rec
  <2> DEFINE n == Len(rec[id]) + 1
             c == rec'[id][n]
  <2>1. /\ id = info_queue /\ id \in Parts /\ Len(rec'[id]) = n /\ n \in Nat \ {0}
        /\ \A i \in 1 .. n - 1 : rec'[id][i] = rec[id][i]
        /\ \A p \in Parts : p # id => rec'[p] = rec[p]
        /\ Len(rec[id]) = n - 1
    BY <1>1, <1>3, <1>5, StepAppends
  <2>2. /\ c.msg = pushed'
        /\ \A p \in Parts : \A i \in 1 .. Len(rec[p]) :
              /\ rec[p][i].msg <= pushed'
              /\ c.kind = "header" => rec[p][i].msg < pushed'
        /\ \A p \in Parts : \A i \in 1 .. Len(rec[p]) : p < id => rec[p][i].msg < pushed'
    <3>1. CASE pushed' = pushed + 1 /\ c = HeaderCell(pushed + 1, right_edge, count_pushed + 1)
      BY <1>1, <1>2, <1>3, <3>1 DEF CellsOrdered, HeaderCell
    <3>2. CASE WriteBody /\ pushed' = pushed /\ c = BodyCell(pushed)
      <4>1. n > 1 /\ rec[id][n - 1].msg = pushed
        BY <1>1, <2>1, <3>2 DEF OpenHeader, WriteBody, HeaderCell
      <4>2. \A p \in Parts : \A i \in 1 .. Len(rec[p]) : p < id => rec[p][i].msg < pushed
        BY SMTT(60), <1>1, <2>1, <4>1 DEF CellsOrdered
      <4>3. QED
        BY <1>1, <1>2, <3>2, <4>2 DEF CellsOrdered, BodyCell
    <3>3. QED
      BY <1>1, <1>5, <3>1, <3>2, StepAppends
  <2> HIDE DEF n, c
  <2>3. \A p \in Parts : \A i \in 1 .. Len(rec'[p]) :
          \/ i \in 1 .. Len(rec[p]) /\ rec'[p][i] = rec[p][i]
          \/ p = id /\ i = n /\ rec'[p][i] = c
    <3>1. \A i \in 1 .. Len(rec'[id]) : i \in 1 .. Len(rec[id]) \/ i = n
      BY <2>1
    <3>2. c = rec'[id][n]
      BY DEF c
    <3>3. QED
      BY <2>1, <3>1, <3>2
  <2>4. \A p \in Parts : p > id => Len(rec'[p]) = 0
    BY <1>1, <2>1 DEF IInv, FutureParts
  <2>5. \A p \in Parts : \A i \in 1 .. Len(rec'[p]) : rec'[p][i].msg <= pushed'
    BY <1>2, <2>2, <2>3
  <2>6. \A p \in Parts : \A j \in 1 .. Len(rec'[p]) : \A i \in 1 .. j - 1 :
          /\ rec'[p][i].msg <= rec'[p][j].msg
          /\ rec'[p][j].kind = "header" => rec'[p][i].msg < rec'[p][j].msg
    <3> SUFFICES ASSUME NEW p \in Parts, NEW j \in 1 .. Len(rec'[p]), NEW i \in 1 .. j - 1
                 PROVE  /\ rec'[p][i].msg <= rec'[p][j].msg
                        /\ rec'[p][j].kind = "header" => rec'[p][i].msg < rec'[p][j].msg
      OBVIOUS
    <3>1. CASE j \in 1 .. Len(rec[p]) /\ rec'[p][j] = rec[p][j]
      <4>1. i \in 1 .. Len(rec[p]) /\ ~(p = id /\ i = n)
        BY <1>3, <2>1, <3>1
      <4>2. rec'[p][i] = rec[p][i]
        BY <2>1, <4>1
      <4>3. QED
        BY <1>1, <3>1, <4>2 DEF CellsOrdered
    <3>2. CASE p = id /\ j = n /\ rec'[p][j] = c
      <4>1. i \in 1 .. Len(rec[p]) /\ rec'[p][i] = rec[p][i]
        BY <2>1, <3>2
      <4>2. QED
        BY <2>2, <3>2, <4>1
    <3>3. QED
      BY <2>3, <3>1, <3>2
  <2>7. \A p, q \in Parts : \A i \in 1 .. Len(rec'[p]) : \A j \in 1 .. Len(rec'[q]) :
          p < q => rec'[p][i].msg < rec'[q][j].msg
    <3> SUFFICES ASSUME NEW p \in Parts, NEW q \in Parts, NEW i \in 1 .. Len(rec'[p]),
                        NEW j \in 1 .. Len(rec'[q]), p < q
                 PROVE  rec'[p][i].msg < rec'[q][j].msg
      OBVIOUS
    <3>1. p # id
      BY <2>1, <2>4
    <3>2. i \in 1 .. Len(rec[p]) /\ rec'[p][i] = rec[p][i]
      BY <2>1, <3>1
    <3>3. CASE j \in 1 .. Len(rec[q]) /\ rec'[q][j] = rec[q][j]
      BY <1>1, <3>2, <3>3 DEF CellsOrdered
    <3>4. CASE q = id /\ j = n /\ rec'[q][j] = c
      BY <2>2, <3>2, <3>4
    <3>5. QED
      BY <2>3, <3>3, <3>4
  <2>8. QED
    BY <2>5, <2>6, <2>7 DEF CellsOrdered
<1>6. QED
  BY <1>4, <1>5

(* An acknowledgement is never taken back.                                 *)
LEMMA AckedKept ==
    ASSUME TypeOK, [Next]_queueVars, NEW p \in Parts, NEW m, Acked(p, m)
    PROVE  Acked(p, m)'
<1>1. acked \in [Parts -> Seq(Pushes)] /\ id \in Parts
  BY DEF TypeOK
<1>2. CASE UNCHANGED acked
  BY <1>2 DEF Acked
<1>3. CASE acked' = [acked EXCEPT ![id] = Append(@, pushed)]
  <2>1. CASE p = id
    <3>1. PICK k \in DOMAIN acked[p] : acked[p][k] = m
      BY DEF Acked
    <3>2. acked'[p] = Append(acked[p], pushed) /\ acked[p] \in Seq(Pushes)
      BY <1>1, <1>3, <2>1
    <3>3. k \in DOMAIN acked'[p] /\ acked'[p][k] = m
      BY <3>1, <3>2
    <3>4. QED
      BY <3>3 DEF Acked
  <2>2. CASE p # id
    BY <1>1, <1>3, <2>2 DEF Acked
  <2>3. QED
    BY <2>1, <2>2
<1>4. QED
  BY <1>2, <1>3 DEF Next, OpenPart, PutInfoQueue, PutInfoQueueFails, WriteHeader, WriteBody,
     WriteBodyFails, PutInfoPush, PutInfoPushFails, ProducerCrash, ProducerDies, historyVars,
     queueVars

(* Both ways in which put_info_push ends acknowledge the push.             *)
LEMMA PushAcknowledged ==
    ASSUME TypeOK, PutInfoPush \/ PutInfoPushFails
    PROVE  Acked(id, pushed)'
<1>1. acked \in [Parts -> Seq(Pushes)] /\ id \in Parts
  BY DEF TypeOK
<1>2. acked' = [acked EXCEPT ![id] = Append(@, pushed)] /\ id' = id /\ pushed' = pushed
  BY DEF PutInfoPush, PutInfoPushFails
<1>3. acked'[id] = Append(acked[id], pushed) /\ acked[id] \in Seq(Pushes)
  BY <1>1, <1>2
<1>4. /\ Len(acked[id]) + 1 \in DOMAIN acked'[id]
      /\ acked'[id][Len(acked[id]) + 1] = pushed
  BY <1>3
<1>5. QED
  BY <1>2, <1>4 DEF Acked

(* A complete record is acknowledged, or stays behind what is published.   *)
LEMMA BodyAckedKept ==
    ASSUME FilesInv, [Next]_queueVars
    PROVE  BodyAcked'
<1>1. IInv /\ TypeOK /\ CellsOrdered /\ OpenHeader /\ BodyAcked /\ RunningState
  BY DEF FilesInv, IInv
<1> DEFINE Behind(p, m) ==
               \A i \in 1 .. Len(rec[p]) : rec[p][i].kind = "header" /\ rec[p][i].msg = m =>
                   rec[p][i].count_pushed > Visible(p)
           Pending(p, m) ==
               /\ ppc \in Running /\ id = p => ppc = "put_info_push" /\ m = pushed
               /\ Behind(p, m)
<1>2. SUFFICES ASSUME NEW p \in Parts, NEW j \in 1 .. Len(rec'[p]), rec'[p][j].kind = "body"
               PROVE  Acked(p, rec[p][j].msg)' \/ Pending(p, rec[p][j].msg)'
  BY DEF BodyAcked
<1>3. PICK m : m = rec'[p][j].msg
  OBVIOUS
<1>4. SUFFICES Acked(p, m)' \/ Pending(p, m)'
  BY <1>3 DEF Acked
<1>5. Len(rec[p]) \in Nat /\ Visible(p) \in Nat
  BY <1>1, VisibleNat
<1>6. CASE j \in 1 .. Len(rec[p]) /\ rec'[p][j] = rec[p][j]
  <2>1. Acked(p, m) \/ Pending(p, m)
    BY <1>1, <1>2, <1>3, <1>6 DEF BodyAcked
  <2>2. CASE Acked(p, m)
    BY <1>1, <2>2, AckedKept
  <2>3. CASE Pending(p, m) /\ ppc \in Running /\ id = p
    <3>1. ppc = "put_info_push" /\ m = pushed
      BY <2>3
    <3>2. CASE PutInfoPush \/ PutInfoPushFails
      <4>1. pushed' = pushed /\ id' = id
        BY <3>2 DEF PutInfoPush, PutInfoPushFails
      <4>2. QED
        BY <1>1, <2>3, <3>1, <3>2, <4>1, PushAcknowledged DEF Acked
    <3>3. CASE ProducerCrash
      <4>1. ppc' = "down" /\ UNCHANGED <<rec, info_push>>
        BY <3>3 DEF ProducerCrash, ProducerDies, diskVars
      <4>2. QED
        BY <2>3, <4>1 DEF Running, Visible, Exists
    <3>4. CASE UNCHANGED queueVars
      <4>1. UNCHANGED <<rec, info_push, ppc, id, pushed>>
        BY <3>4 DEF queueVars, diskVars, producerVars
      <4>2. QED
        BY <2>3, <4>1 DEF Visible, Exists
    <3>5. QED
      BY <3>1, <3>2, <3>3, <3>4 DEF Next, OpenPart, PutInfoQueue, PutInfoQueueFails, WriteHeader,
         WriteBody, WriteBodyFails
  <2>4. CASE Pending(p, m) /\ ~(ppc \in Running /\ id = p)
    <3>1. rec'[p] = rec[p]
      BY <1>1, <2>4, StepAppends DEF WriteHeader, WriteBody, Running
    <3>2. Visible(p)' = Visible(p)
      BY <1>1, <2>4, StepVisible DEF PutInfoPush, Running
    <3>3. ~(ppc' \in Running /\ id' = p)
      <4>1. CASE PutInfoQueue
        <5>1. id > info_queue /\ id' = id
          BY <1>1, <4>1 DEF PutInfoQueue, IInv, OpeningState, NextPart, TypeOK
        <5>2. Len(rec[id]) = 0
          BY <1>1, <5>1 DEF IInv, FutureParts, TypeOK
        <5>3. QED
          BY <1>6, <5>1, <5>2
      <4>2. CASE UNCHANGED queueVars
        BY <2>4, <4>2 DEF queueVars, producerVars
      <4>3. QED
        BY <2>4, <4>1, <4>2 DEF Next, OpenPart, PutInfoQueueFails, WriteHeader, WriteBody,
           WriteBodyFails, PutInfoPush, PutInfoPushFails, ProducerCrash, ProducerDies, Running
    <3>4. Behind(p, m)'
      BY <2>4, <3>1, <3>2
    <3>5. QED
      BY <3>3, <3>4
  <2>5. QED
    BY <2>1, <2>2, <2>3, <2>4
<1>7. CASE ~(j \in 1 .. Len(rec[p]) /\ rec'[p][j] = rec[p][j])
  <2>1. rec' # rec /\ p = id /\ j = Len(rec[id]) + 1
    <3>1. rec' # rec
      BY <1>2, <1>7
    <3>2. id \in Parts /\ Len(rec'[id]) = Len(rec[id]) + 1
          /\ (\A i \in 1 .. Len(rec[id]) : rec'[id][i] = rec[id][i])
          /\ (p # id => rec'[p] = rec[p])
      BY <1>1, <3>1, StepAppends
    <3>3. QED
      BY <1>2, <1>5, <1>7, <3>1, <3>2
  <2>2. /\ WriteBody /\ rec'[id][j] = BodyCell(pushed) /\ pushed' = pushed
        /\ Len(rec'[id]) = Len(rec[id]) + 1
        /\ \A i \in 1 .. Len(rec[id]) : rec'[id][i] = rec[id][i]
    BY <1>1, <1>2, <2>1, StepAppends DEF HeaderCell
  <2>3. /\ ppc = "body" /\ ppc' = "put_info_push" /\ id' = id /\ info_push' = info_push
        /\ m = pushed
    BY <1>3, <2>1, <2>2 DEF WriteBody, BodyCell
  <2>4. /\ Len(rec[id]) > 0
        /\ rec[id][Len(rec[id])] = HeaderCell(pushed, right_edge, count_pushed + 1)
    BY <1>1, <2>3 DEF OpenHeader
  <2>5. Visible(p)' = count_pushed /\ count_pushed \in Nat
    BY <1>1, <2>1, <2>3 DEF RunningState, Running, IInv, NamedPartsExist, Visible, Exists,
       PushInfo, TypeOK
  <2>6. \A i \in 1 .. Len(rec[id]) : rec[id][i].kind = "header" /\ rec[id][i].msg = pushed =>
            i = Len(rec[id])
    <3>1. \A i \in 1 .. Len(rec[id]) - 1 : rec[id][i].msg < pushed
      BY <1>1, <1>5, <2>1, <2>4 DEF CellsOrdered, HeaderCell
    <3>2. pushed \in Nat
      BY <1>1 DEF TypeOK
    <3>3. QED
      BY <1>5, <2>1, <3>1, <3>2
  <2>7. Behind(p, m)'
    <3> SUFFICES ASSUME NEW i \in 1 .. Len(rec'[p]), rec'[p][i].kind = "header",
                        rec'[p][i].msg = m
                 PROVE  rec'[p][i].count_pushed > Visible(p)'
      OBVIOUS
    <3>1. i # j
      BY <2>1, <2>2 DEF BodyCell
    <3>2. i \in 1 .. Len(rec[id]) /\ rec'[p][i] = rec[id][i]
      BY <1>5, <2>1, <2>2, <3>1
    <3>3. i = Len(rec[id])
      BY <2>3, <2>6, <3>2
    <3>4. QED
      BY <2>4, <2>5, <3>2, <3>3 DEF HeaderCell
  <2>8. QED
    BY <2>1, <2>2, <2>3, <2>7
<1>8. QED
  BY <1>6, <1>7

(* Every step of the producer keeps what readers know about the files.     *)
LEMMA FilesStep == FilesInv /\ [Next]_queueVars => FilesInv'
<1> SUFFICES ASSUME FilesInv, [Next]_queueVars PROVE FilesInv'
  OBVIOUS
<1>1. IInv'
  BY NextInv DEF FilesInv
<1>2. QED
  BY <1>1, TailIsHeaderKept, CellsOrderedKept, OpenHeaderKept, BodyAckedKept,
     EdgeMatchesCountKept DEF FilesInv

-----------------------------------------------------------------------------
(* The reader's invariant, part by part.                                   *)

Up == cpc # "down"

InRecord == {"prepare", "next", "next_commit"}

(* The part in memory is at most the one get_info_queue answered, which is *)
(* at most the newest one.                                                 *)
PartsNamed ==
    /\ info_pop.id <= (IF info_queue = NoPart THEN 0 ELSE info_queue)
    /\ Up => /\ info_queue # NoPart
             /\ c_id <= q_id /\ q_id <= info_queue
             /\ cpc # "commit_part" => q_info = c_id /\ q_data = c_id
             /\ cpc = "next_part" => c_id < q_id

(* Counters the reader has taken from an info file are not ahead of it.    *)
CountersRead ==
    /\ info_pop.count <= Visible(info_pop.id)
    /\ Up => count_popped <= Visible(c_id)
    /\ Up /\ cpc # "commit_part" =>
          /\ q_count_pushed <= Visible(c_id)
          /\ q_right_edge = RecordLen * q_count_pushed
    /\ cpc = "batch" => count_popped <= q_count_pushed
    /\ cpc = "commit_part" => count_popped = 0 /\ pos_record = 0
    /\ cpc = "header" => count_popped < q_count_pushed \/ q_count_pushed = 0
    /\ cpc = "body" => header.kind \in {"header", "garbage"}
    /\ cpc = "body" /\ header.kind = "header" => count_popped < q_count_pushed
    /\ cpc \in InRecord => count_popped < q_count_pushed

(* The saved cursor is not ahead of the one in memory.                     *)
CursorBehind ==
    Up => info_pop.id < c_id \/ (info_pop.id = c_id /\ info_pop.count <= count_popped)

(* In a sound part both cursors are record boundaries, and a Consumer that *)
(* is ready reads at its position.                                         *)
CursorAtRecord ==
    /\ info_pop.id \notin torn => info_pop.pos = RecordLen * info_pop.count
    /\ Up /\ c_id \notin torn =>
          /\ pos_record = RecordLen * (count_popped + (IF cpc \in InRecord THEN 1 ELSE 0))
          /\ c_ready /\ cpc # "commit_part" =>
                q_offset = pos_record + (IF cpc = "body" THEN 1 ELSE 0)

(* The header in hand is a cell of the part; in a sound part it is the one *)
(* of the next record.                                                     *)
HeaderRead ==
    /\ cpc = "body" /\ header.kind = "garbage" => c_id \in torn \/ ~c_ready
    /\ (cpc = "body" /\ header.kind = "header") \/ cpc \in InRecord =>
          /\ header.kind = "header"
          /\ header.count_pushed <= q_count_pushed
          /\ \E i \in 1 .. Len(rec[c_id]) : rec[c_id][i] = header
    /\ cpc \in {"body"} \cup InRecord /\ header.kind = "header" /\ c_id \notin torn /\ c_ready =>
          header = rec[c_id][RecordLen * count_popped + 1]
    /\ cpc \in InRecord => c_ready /\ Acked(c_id, header.msg)

(* The last message handled lies before the record in hand.                *)
LastBefore ==
    /\ ~Up => last = 0
    /\ last # 0 =>
          \/ \E p \in Parts : p < c_id /\ \E i \in 1 .. Len(rec[p]) : rec[p][i].msg = last
          \/ \E i \in 1 .. Len(rec[c_id]) :
                /\ rec[c_id][i].msg = last
                /\ c_id \notin torn =>
                      i <= RecordLen * (count_popped
                                        + (IF cpc \in {"next", "next_commit"} THEN 1 ELSE 0))
    /\ cpc \in {"next", "next_commit"} => header.msg \in handled

(* How many more records of the batch the counters in memory vouch for; a  *)
(* reader that may leave its part has seen a newer part named before it    *)
(* read the counters.  Without a limit from before_batch only.             *)
BatchVouched ==
    /\ Up /\ cpc \notin {"loop", "wait", "after", "batch"} =>
        /\ cpc # "pop" => prepared < size_batch
        /\ cpc = "commit_part" => size_batch = 1
        /\ cpc \in {"refreshed", "next_part"} => q_id > c_id /\ q_count_pushed = Visible(c_id)
        /\ prepared < size_batch =>
             \/ size_batch = 1 /\ (q_id > c_id \/ cpc # "pop")
             \/ q_id = c_id /\ size_batch - prepared <= q_count_pushed - count_popped
    /\ cpc = "next_part" => count_popped = Visible(c_id)

(* Every published record of a sound part before the cursor was handled.   *)
PassedHandled ==
    \A p \in Parts \ torn : \A k \in 1 .. Visible(p) :
        Up /\ Before(p, k, c_id, count_popped) => MsgAt(p, k) \in handled

SavedHandled ==
    \A p \in Parts \ torn : \A k \in 1 .. Visible(p) :
        Before(p, k, info_pop.id, info_pop.count) => MsgAt(p, k) \in handled
ReaderInv ==
    /\ ConsumerTypeOK
    /\ PartsNamed
    /\ CountersRead
    /\ CursorBehind
    /\ CursorAtRecord
    /\ HeaderRead
    /\ LastBefore

FlowInv == FilesInv /\ ReaderInv

-----------------------------------------------------------------------------
(* Reading the files.                                                      *)

\* The three forms of what a reader holds as a header.
LEMMA HeaderKinds ==
    /\ NoHeader.kind = "none" /\ Garbage.kind = "garbage" /\ Garbage.msg = 0
    /\ \A c \in Cell : c.kind \in {"header", "body"} /\ c.msg \in Pushes /\ c.msg # 0
                       /\ c.start_pos \in Nat /\ c.count_pushed \in Nat
BY MaxPushAssumption DEF NoHeader, Garbage, Cell

(* A step of the reader leaves all files, and what is said of them, alone. *)
LEMMA FilesStill ==
    ASSUME FlowInv, UNCHANGED queueVars
    PROVE  /\ UNCHANGED <<info_queue, rec, info_push, acked, torn>>
           /\ TypeOK /\ TypeOK'
           /\ \A p \in Parts : Visible(p) \in Nat /\ Visible(p)' = Visible(p)
           /\ \A p \in Parts : \A m : Acked(p, m)' = Acked(p, m)
           /\ info_queue \in Parts \cup {NoPart} /\ 0 \in Parts
           /\ info_pop.id \in Parts /\ info_pop.pos \in Nat /\ info_pop.count \in Nat
           /\ c_id \in Parts /\ count_popped \in Nat /\ pos_record \in Nat
           /\ q_id \in Parts /\ q_count_pushed \in Nat /\ q_right_edge \in Nat /\ q_offset \in Nat
           /\ \A p \in Parts : p = c_id' => Visible(c_id)' = Visible(p)
           /\ \A p \in Parts : p = info_pop'.id => Visible(info_pop.id)' = Visible(p)
           /\ \A p \in Parts : \A m :
                 p = c_id' /\ m = header'.msg => Acked(c_id, header.msg)' = Acked(p, m)
<1>1. UNCHANGED <<info_queue, rec, info_push, acked, torn>>
  BY DEF queueVars, diskVars, historyVars
<1>2. FilesInv /\ FilesInv' /\ TypeOK /\ TypeOK'
  BY FilesStep DEF FlowInv, FilesInv, IInv
<1>3. \A p \in Parts : Visible(p) \in Nat /\ Visible(p)' = Visible(p)
  BY <1>1, <1>2, VisibleNat DEF Visible, Exists
<1>4. \A p \in Parts : \A m : Acked(p, m)' = Acked(p, m)
  BY <1>1 DEF Acked
<1>5. info_queue \in Parts \cup {NoPart} /\ 0 \in Parts
  BY <1>2, MaxPartAssumption DEF TypeOK
<1>6. /\ info_pop.id \in Parts /\ info_pop.pos \in Nat /\ info_pop.count \in Nat
      /\ c_id \in Parts /\ count_popped \in Nat /\ pos_record \in Nat
      /\ q_id \in Parts /\ q_count_pushed \in Nat /\ q_right_edge \in Nat /\ q_offset \in Nat
  BY DEF FlowInv, ReaderInv, ConsumerTypeOK
<1>7. /\ \A p \in Parts : p = c_id' => Visible(c_id)' = Visible(p)
      /\ \A p \in Parts : p = info_pop'.id => Visible(info_pop.id)' = Visible(p)
  BY <1>1 DEF Visible, Exists
<1>8. \A p \in Parts : \A m :
          p = c_id' /\ m = header'.msg => Acked(c_id, header.msg)' = Acked(p, m)
  BY <1>1 DEF Acked
<1>9. QED
  BY <1>1, <1>2, <1>3, <1>4, <1>5, <1>6, <1>7, <1>8

(* What get_info_of_part finds in the info file of a part that exists.     *)
LEMMA ReadInfo ==
    ASSUME FilesInv, NEW p \in Parts, p <= info_queue, ReadInfoOfPart(p)
    PROVE  q_info' = p /\ q_count_pushed' = Visible(p) /\ q_right_edge' = RecordLen * Visible(p)
<1>1. Exists(p)
  BY DEF FilesInv, IInv, NamedPartsExist
<1>2. QED
  BY <1>1 DEF ReadInfoOfPart, Visible, FilesInv, EdgeMatchesCount

(* A published record of a sound part, cell by cell.                       *)
LEMMA RecordCells ==
    ASSUME FilesInv, NEW p \in Parts, p \notin torn, NEW n \in Nat, n < Visible(p)
    PROVE  /\ RecordLen * n + 2 <= Len(rec[p])
           /\ rec[p][RecordLen * n + 1].kind = "header"
           /\ rec[p][RecordLen * n + 2].kind = "body"
           /\ rec[p][RecordLen * n + 1].msg = rec[p][RecordLen * n + 2].msg
<1>1. IInv /\ TypeOK /\ PublishedWhole
  BY DEF FilesInv, IInv
<1>2. Exists(p) /\ Visible(p) = info_push[p].count_pushed /\ Visible(p) \in Nat
  BY <1>1, VisibleNat DEF Visible
<1>3. n + 1 \in 1 .. info_push[p].count_pushed
  BY <1>2
<1>4. PICK m \in Pushes : RecordAt(p, n + 1, m)
  BY <1>1, <1>2, <1>3 DEF PublishedWhole
<1>5. /\ RecordLen * (n + 1) <= Len(rec[p])
      /\ rec[p][RecordLen * (n + 1) - 1] = HeaderCell(m, RecordLen * (n + 1 - 1), n + 1)
      /\ rec[p][RecordLen * (n + 1)] = BodyCell(m)
  BY <1>4 DEF RecordAt
<1>6. RecordLen * (n + 1) - 1 = RecordLen * n + 1 /\ RecordLen * (n + 1) = RecordLen * n + 2
  OBVIOUS
<1>7. QED
  BY <1>5, <1>6 DEF HeaderCell, BodyCell

(* In a sound part a reader at a record boundary meets a header or the end.*)
LEMMA NextCellIsHeader ==
    ASSUME FilesInv, NEW p \in Parts, p \notin torn, NEW n \in Nat, n <= Visible(p),
           RecordLen * n < Len(rec[p])
    PROVE  rec[p][RecordLen * n + 1].kind = "header"
<1>1. Visible(p) \in Nat
  BY VisibleNat DEF FilesInv, IInv
<1>2. CASE n < Visible(p)
  BY <1>2, RecordCells
<1>3. CASE n = Visible(p)
  BY <1>3 DEF FilesInv, TailIsHeader
<1>4. QED
  BY <1>1, <1>2, <1>3

(* A header that the info file admits to, with a body of its message.      *)
LEMMA AdmittedAcked ==
    ASSUME FilesInv, NEW p \in Parts, NEW i \in 1 .. Len(rec[p]), NEW j \in 1 .. Len(rec[p]),
           rec[p][i].kind = "header", rec[p][j].kind = "body", rec[p][i].msg = rec[p][j].msg,
           rec[p][i].count_pushed <= Visible(p)
    PROVE  Acked(p, rec[p][j].msg)
<1>1. rec[p] \in Seq(Cell) /\ Visible(p) \in Nat
  BY VisibleNat DEF FilesInv, IInv, TypeOK
<1>2. rec[p][i] \in Cell
  BY <1>1
<1>3. ~(rec[p][i].count_pushed > Visible(p))
  BY <1>1, <1>2, HeaderKinds
<1>4. QED
  BY <1>3 DEF FilesInv, BodyAcked

-----------------------------------------------------------------------------
(* The reader's own steps keep its invariant.                              *)

(* A restart takes up the saved cursor and opens its part.                 *)
LEMMA StartKeeps == FlowInv /\ Start /\ UNCHANGED queueVars => ReaderInv'
<1> SUFFICES ASSUME FlowInv, Start, UNCHANGED queueVars PROVE ReaderInv'
  OBVIOUS
<1> USE DEF Start, cursorVars, readVars, loopVars, seenVars, OpenForReading, Up, InRecord
<1>1. FilesInv /\ ConsumerTypeOK /\ PartsNamed /\ CountersRead /\ CursorBehind /\ CursorAtRecord
      /\ HeaderRead /\ LastBefore
  BY DEF FlowInv, ReaderInv
<1>2. info_pop.id <= info_queue /\ info_pop.id \in Parts
  BY <1>1, FilesStill DEF PartsNamed
<1>3. /\ q_info' = info_pop.id /\ q_count_pushed' = Visible(info_pop.id)
      /\ q_right_edge' = RecordLen * Visible(info_pop.id)
  BY <1>1, <1>2, ReadInfo
<1>4. ConsumerTypeOK'
  BY <1>1, <1>2, <1>3, FilesStill, HeaderKinds DEF ConsumerTypeOK, BatchSizeDefined
<1>5. PartsNamed'
  BY <1>1, <1>2, <1>3, FilesStill, HeaderKinds DEF PartsNamed
<1>6. CountersRead'
  BY <1>1, <1>2, <1>3, FilesStill, HeaderKinds DEF CountersRead
<1>7. CursorBehind'
  BY <1>1, <1>2, <1>3, FilesStill, HeaderKinds DEF CursorBehind
<1>8. CursorAtRecord'
  BY <1>1, <1>2, <1>3, FilesStill, HeaderKinds DEF CursorAtRecord
<1>9. HeaderRead'
  BY <1>1, <1>2, <1>3, FilesStill, HeaderKinds DEF HeaderRead
<1>10. LastBefore'
  BY <1>1, <1>2, <1>3, FilesStill, HeaderKinds DEF LastBefore
<1>11. QED
  BY <1>4, <1>5, <1>6, <1>7, <1>8, <1>9, <1>10 DEF ReaderInv

(* The loop reads the info file of the reader's own part.                  *)
LEMMA ReadPartInfoKeeps == FlowInv /\ ReadPartInfo /\ UNCHANGED queueVars => ReaderInv'
<1> SUFFICES ASSUME FlowInv, ReadPartInfo, UNCHANGED queueVars PROVE ReaderInv'
  OBVIOUS
<1> USE DEF ReadPartInfo, cursorVars, readVars, loopVars, seenVars, Up, InRecord
<1>1. FilesInv /\ ConsumerTypeOK /\ PartsNamed /\ CountersRead /\ CursorBehind /\ CursorAtRecord
      /\ HeaderRead /\ LastBefore
  BY DEF FlowInv, ReaderInv
<1>2. /\ q_info' = c_id /\ q_count_pushed' = Visible(c_id)
      /\ q_right_edge' = RecordLen * Visible(c_id)
  BY <1>1, FilesStill, ReadInfo DEF PartsNamed
<1>3. ConsumerTypeOK'
  <2>1. subscribed' \in BOOLEAN
    BY <1>1 DEF ConsumerTypeOK
  <2>2. count_popped <= q_count_pushed'
    BY <1>1, <1>2 DEF CountersRead
  <2>3. TypeOK' /\ q_count_pushed' \in Nat /\ q_right_edge' \in Nat /\ q_info' \in Parts
    BY <1>2, FilesStill
  <2>4. QED
    BY <1>1, <2>1, <2>2, <2>3 DEF ConsumerTypeOK, BatchSizeDefined
<1>4. PartsNamed'
  BY <1>1, <1>2, FilesStill, HeaderKinds DEF PartsNamed
<1>5. CountersRead'
  BY <1>1, <1>2, FilesStill, HeaderKinds DEF CountersRead
<1>6. CursorBehind'
  BY <1>1, <1>2, FilesStill, HeaderKinds DEF CursorBehind
<1>7. CursorAtRecord'
  BY <1>1, <1>2, FilesStill, HeaderKinds DEF CursorAtRecord
<1>8. HeaderRead'
  BY <1>1, <1>2, FilesStill, HeaderKinds DEF HeaderRead
<1>9. LastBefore'
  BY <1>1, <1>2, FilesStill, HeaderKinds DEF LastBefore
<1>10. QED
  BY <1>3, <1>4, <1>5, <1>6, <1>7, <1>8, <1>9 DEF ReaderInv

(* get_batch_size may move q_id to the newest part, never back.            *)
LEMMA GetBatchSizeKeeps == FlowInv /\ GetBatchSize /\ UNCHANGED queueVars => ReaderInv'
<1> SUFFICES ASSUME FlowInv, GetBatchSize, UNCHANGED queueVars PROVE ReaderInv'
  OBVIOUS
<1> USE DEF GetBatchSize, cursorVars, readVars, loopVars, seenVars, ReadInfoQueue, Up, InRecord
<1>1. FilesInv /\ ConsumerTypeOK /\ PartsNamed /\ CountersRead /\ CursorBehind /\ CursorAtRecord
      /\ HeaderRead /\ LastBefore
  BY DEF FlowInv, ReaderInv
<1>2. info_queue \in Parts /\ count_popped <= q_count_pushed
  BY <1>1, FilesStill DEF PartsNamed, CountersRead
<1>3. ConsumerTypeOK'
  BY <1>1, <1>2, FilesStill, HeaderKinds DEF ConsumerTypeOK, BatchSizeDefined
<1>4. PartsNamed'
  BY <1>1, <1>2, FilesStill, HeaderKinds DEF PartsNamed
<1>5. CountersRead'
  BY <1>1, <1>2, FilesStill, HeaderKinds DEF CountersRead
<1>6. CursorBehind'
  BY <1>1, <1>2, FilesStill, HeaderKinds DEF CursorBehind
<1>7. CursorAtRecord'
  BY <1>1, <1>2, FilesStill, HeaderKinds DEF CursorAtRecord
<1>8. HeaderRead'
  BY <1>1, <1>2, FilesStill, HeaderKinds DEF HeaderRead
<1>9. LastBefore'
  BY <1>1, <1>2, FilesStill, HeaderKinds DEF LastBefore
<1>10. QED
  BY <1>3, <1>4, <1>5, <1>6, <1>7, <1>8, <1>9 DEF ReaderInv

(* The second look at the counters is at the reader's own part.            *)
LEMMA RefreshPartKeeps == FlowInv /\ RefreshPart /\ UNCHANGED queueVars => ReaderInv'
<1> SUFFICES ASSUME FlowInv, RefreshPart, UNCHANGED queueVars PROVE ReaderInv'
  OBVIOUS
<1> USE DEF RefreshPart, cursorVars, readVars, loopVars, seenVars, Up, InRecord
<1>1. FilesInv /\ ConsumerTypeOK /\ PartsNamed /\ CountersRead /\ CursorBehind /\ CursorAtRecord
      /\ HeaderRead /\ LastBefore
  BY DEF FlowInv, ReaderInv
<1>2. c_id <= info_queue /\ q_info = c_id
  BY <1>1, FilesStill DEF PartsNamed
<1>3. /\ q_info' = c_id
      /\ \/ /\ q_count_pushed' = Visible(c_id) /\ q_right_edge' = RecordLen * Visible(c_id)
            /\ cpc' = "refreshed"
         \/ /\ count_popped < q_count_pushed /\ cpc' = "header"
            /\ UNCHANGED <<q_count_pushed, q_right_edge>>
  BY <1>1, <1>2, FilesStill, ReadInfo
<1>4. ConsumerTypeOK'
  BY <1>1, <1>2, <1>3, FilesStill, HeaderKinds DEF ConsumerTypeOK, BatchSizeDefined
<1>5. PartsNamed'
  BY <1>1, <1>2, <1>3, FilesStill, HeaderKinds DEF PartsNamed
<1>6. CountersRead'
  BY <1>1, <1>2, <1>3, FilesStill, HeaderKinds DEF CountersRead
<1>7. CursorBehind'
  BY <1>1, <1>2, <1>3, FilesStill, HeaderKinds DEF CursorBehind
<1>8. CursorAtRecord'
  BY <1>1, <1>2, <1>3, FilesStill, HeaderKinds DEF CursorAtRecord
<1>9. HeaderRead'
  BY <1>1, <1>2, <1>3, FilesStill, HeaderKinds DEF HeaderRead
<1>10. LastBefore'
  BY <1>1, <1>2, <1>3, FilesStill, HeaderKinds DEF LastBefore
<1>11. QED
  BY <1>4, <1>5, <1>6, <1>7, <1>8, <1>9, <1>10 DEF ReaderInv

(* The reader looks for a newer part.                                      *)
LEMMA LookForNextPartKeeps == FlowInv /\ LookForNextPart /\ UNCHANGED queueVars => ReaderInv'
<1> SUFFICES ASSUME FlowInv, LookForNextPart, UNCHANGED queueVars PROVE ReaderInv'
  OBVIOUS
<1> USE DEF LookForNextPart, cursorVars, readVars, loopVars, seenVars, ReadInfoQueue, Up, InRecord
<1>1. FilesInv /\ ConsumerTypeOK /\ PartsNamed /\ CountersRead /\ CursorBehind /\ CursorAtRecord
      /\ HeaderRead /\ LastBefore
  BY DEF FlowInv, ReaderInv
<1>2. info_queue \in Parts /\ c_id <= q_id /\ q_id <= info_queue
  BY <1>1, FilesStill DEF PartsNamed
<1>3. ConsumerTypeOK'
  BY <1>1, <1>2, FilesStill, HeaderKinds DEF ConsumerTypeOK, BatchSizeDefined
<1>4. PartsNamed'
  BY <1>1, <1>2, FilesStill, HeaderKinds DEF PartsNamed
<1>5. CountersRead'
  BY <1>1, <1>2, FilesStill, HeaderKinds DEF CountersRead
<1>6. CursorBehind'
  BY <1>1, <1>2, FilesStill, HeaderKinds DEF CursorBehind
<1>7. CursorAtRecord'
  BY <1>1, <1>2, FilesStill, HeaderKinds DEF CursorAtRecord
<1>8. HeaderRead'
  BY <1>1, <1>2, FilesStill, HeaderKinds DEF HeaderRead
<1>9. LastBefore'
  BY <1>1, <1>2, FilesStill, HeaderKinds DEF LastBefore
<1>10. QED
  BY <1>3, <1>4, <1>5, <1>6, <1>7, <1>8, <1>9 DEF ReaderInv

(* The next part has a name when the reader moves to it.                   *)
LEMMA EnterNextPartKeeps == FlowInv /\ EnterNextPart /\ UNCHANGED queueVars => ReaderInv'
<1> SUFFICES ASSUME FlowInv, EnterNextPart, UNCHANGED queueVars PROVE ReaderInv'
  OBVIOUS
<1> USE DEF EnterNextPart, cursorVars, readVars, loopVars, seenVars, EmptyPop, PopInfo, Up, InRecord
<1>1. FilesInv /\ ConsumerTypeOK /\ PartsNamed /\ CountersRead /\ CursorBehind /\ CursorAtRecord
      /\ HeaderRead /\ LastBefore
  BY DEF FlowInv, ReaderInv
<1>2. info_queue \in Parts /\ c_id < q_id /\ q_id <= info_queue /\ q_info = c_id
  BY <1>1, FilesStill DEF PartsNamed
<1>3. c_id' = c_id + 1 /\ c_id + 1 \in Parts /\ c_id + 1 <= q_id
  BY <1>2, FilesStill, MaxPartAssumption
<1>4. q_info' \in Parts /\ q_count_pushed' \in Nat /\ q_right_edge' \in Nat
  <2>1. PICK p \in Parts : p = (IF q_id # c_id + 1 THEN c_id + 1 ELSE q_info) /\ p <= info_queue
    BY <1>2, <1>3, FilesStill
  <2>2. QED
    BY <1>1, <2>1, FilesStill, ReadInfo
<1>5. ConsumerTypeOK'
  BY <1>1, <1>2, <1>3, <1>4, FilesStill, HeaderKinds DEF ConsumerTypeOK, BatchSizeDefined
<1>6. PartsNamed'
  BY <1>1, <1>2, <1>3, <1>4, FilesStill, HeaderKinds DEF PartsNamed
<1>7. CountersRead'
  BY <1>1, <1>2, <1>3, <1>4, FilesStill, HeaderKinds DEF CountersRead
<1>8. CursorBehind'
  BY <1>1, <1>2, <1>3, <1>4, FilesStill, HeaderKinds DEF CursorBehind
<1>9. CursorAtRecord'
  BY <1>1, <1>2, <1>3, <1>4, FilesStill, HeaderKinds DEF CursorAtRecord
<1>10. HeaderRead'
  BY <1>1, <1>2, <1>3, <1>4, FilesStill, HeaderKinds DEF HeaderRead
<1>11. LastBefore'
  <2>1. CASE last = 0
    BY <1>1, <2>1 DEF LastBefore
  <2>2. CASE last # 0
    <3>1. \E p \in Parts : p < c_id + 1 /\ \E i \in 1 .. Len(rec[p]) : rec[p][i].msg = last
      <4>1. \/ \E p \in Parts : p < c_id /\ \E i \in 1 .. Len(rec[p]) : rec[p][i].msg = last
            \/ \E i \in 1 .. Len(rec[c_id]) : rec[c_id][i].msg = last
        BY <1>1, <2>2 DEF LastBefore
      <4>2. \A p \in Parts : p < c_id => p < c_id + 1
        BY FilesStill
      <4>3. c_id \in Parts /\ c_id < c_id + 1
        BY FilesStill
      <4>4. QED
        BY <4>1, <4>2, <4>3
    <3>2. rec' = rec /\ last' = last /\ cpc' = "commit_part"
      BY FilesStill
    <3>3. QED
      BY <1>3, <3>1, <3>2 DEF LastBefore
  <2>3. QED
    BY <2>1, <2>2
<1>12. QED
  BY <1>5, <1>6, <1>7, <1>8, <1>9, <1>10, <1>11 DEF ReaderInv

(* The new part is opened at its start.                                    *)
LEMMA CommitPartKeeps == FlowInv /\ CommitPart /\ UNCHANGED queueVars => ReaderInv'
<1> SUFFICES ASSUME FlowInv, CommitPart, UNCHANGED queueVars PROVE ReaderInv'
  OBVIOUS
<1> USE DEF CommitPart, cursorVars, readVars, loopVars, seenVars, OpenForReading, SaveCursor, PopInfo, Up, InRecord
<1>1. FilesInv /\ ConsumerTypeOK /\ PartsNamed /\ CountersRead /\ CursorBehind /\ CursorAtRecord
      /\ HeaderRead /\ LastBefore
  BY DEF FlowInv, ReaderInv
<1>2. c_id <= info_queue
  BY <1>1, FilesStill DEF PartsNamed
<1>3. /\ q_info' = c_id /\ q_count_pushed' = Visible(c_id)
      /\ q_right_edge' = RecordLen * Visible(c_id)
  BY <1>1, <1>2, FilesStill, ReadInfo
<1>4. count_popped = 0 /\ pos_record = 0
  BY <1>1 DEF CountersRead
<1>5. ConsumerTypeOK'
  BY <1>1, <1>2, <1>3, <1>4, FilesStill, HeaderKinds DEF ConsumerTypeOK, BatchSizeDefined
<1>6. PartsNamed'
  BY <1>1, <1>2, <1>3, <1>4, FilesStill, HeaderKinds DEF PartsNamed
<1>7. CountersRead'
  BY <1>1, <1>2, <1>3, <1>4, FilesStill, HeaderKinds DEF CountersRead
<1>8. CursorBehind'
  BY <1>1, <1>2, <1>3, <1>4, FilesStill, HeaderKinds DEF CursorBehind
<1>9. CursorAtRecord'
  BY <1>1, <1>2, <1>3, <1>4, FilesStill, HeaderKinds DEF CursorAtRecord
<1>10. HeaderRead'
  BY <1>1, <1>2, <1>3, <1>4, FilesStill, HeaderKinds DEF HeaderRead
<1>11. LastBefore'
  BY <1>1, <1>2, <1>3, <1>4, FilesStill, HeaderKinds DEF LastBefore
<1>12. QED
  BY <1>5, <1>6, <1>7, <1>8, <1>9, <1>10, <1>11 DEF ReaderInv

(* A header that passes both tests is admitted by the counters.            *)
LEMMA ReadHeaderKeeps == FlowInv /\ ReadHeader /\ UNCHANGED queueVars => ReaderInv'
<1> SUFFICES ASSUME FlowInv, ReadHeader, UNCHANGED queueVars PROVE ReaderInv'
  OBVIOUS
<1> USE DEF ReadHeader, cursorVars, readVars, loopVars, seenVars, Up, InRecord
<1>1. FilesInv /\ ConsumerTypeOK /\ PartsNamed /\ CountersRead /\ CursorBehind /\ CursorAtRecord
      /\ HeaderRead /\ LastBefore
  BY DEF FlowInv, ReaderInv
<1>2. q_data = c_id /\ rec[c_id] \in Seq(Cell)
  BY <1>1, FilesStill DEF PartsNamed, TypeOK
<1>3. \/ cpc' = "after" /\ q_offset' = pos_record /\ header' = NoHeader
      \/ /\ cpc' = "body" /\ q_offset' = q_offset + 1 /\ header' = rec[c_id][q_offset + 1]
         /\ q_offset + 1 \in 1 .. Len(rec[c_id]) /\ header' \in Cell /\ header'.kind = "header"
         /\ header'.count_pushed <= q_count_pushed /\ count_popped < q_count_pushed
      \/ /\ cpc' = "body" /\ q_offset' = q_offset + 1 /\ header' = Garbage
         /\ c_id \in torn \/ ~c_ready
  <2>1. CASE AtHeader
    <3>1. /\ q_offset + 1 \in 1 .. Len(rec[c_id]) /\ rec[c_id][q_offset + 1] \in Cell
          /\ rec[c_id][q_offset + 1].kind = "header"
      BY SMTT(60), <1>2, <2>1, FilesStill DEF AtHeader
    <3>2. rec[c_id][q_offset + 1].start_pos < q_right_edge => count_popped < q_count_pushed
      BY SMTT(60), <1>1, <3>1, FilesStill, HeaderKinds DEF CountersRead
    <3>3. rec[c_id][q_offset + 1].start_pos \in Nat /\ rec[c_id][q_offset + 1].count_pushed \in Nat
      BY <3>1, HeaderKinds
    <3>4. PICK h \in Cell : h = rec[c_id][q_offset + 1]
      BY <3>1
    <3>5. CASE h.count_pushed > q_count_pushed \/ h.start_pos >= q_right_edge
      BY <1>2, <2>1, <3>4, <3>5 DEF RejectHeader
    <3>6. CASE ~(h.count_pushed > q_count_pushed \/ h.start_pos >= q_right_edge)
      <4>1. AcceptHeader(h)
        BY <1>2, <2>1, <3>4, <3>6
      <4>2. h.count_pushed <= q_count_pushed /\ h.start_pos < q_right_edge
        <5>1. h.count_pushed \in Nat /\ h.start_pos \in Nat
          BY <3>3, <3>4
        <5>2. q_count_pushed \in Nat /\ q_right_edge \in Nat
          BY FilesStill
        <5>3. QED
          BY <3>6, <5>1, <5>2
      <4>3. QED
        BY <3>1, <3>2, <3>4, <4>1, <4>2 DEF AcceptHeader
    <3>7. QED
      BY <3>5, <3>6
  <2>2. CASE ~AtHeader
    <3>1. q_offset < Len(rec[c_id]) => c_id \in torn \/ ~c_ready
      <4>1. SUFFICES ASSUME q_offset < Len(rec[c_id]), c_id \notin torn, c_ready PROVE FALSE
        OBVIOUS
      <4>2. q_offset = RecordLen * count_popped /\ count_popped <= Visible(c_id)
        BY <1>1, <4>1, FilesStill DEF CursorAtRecord, CountersRead
      <4>3. rec[c_id][q_offset + 1].kind = "header"
        BY <1>1, <4>1, <4>2, FilesStill, NextCellIsHeader
      <4>4. QED
        BY <1>2, <2>2, <4>1, <4>3 DEF AtHeader
    <3>2. QED
      BY <1>2, <2>2, <3>1 DEF AcceptHeader, RejectHeader
  <2>3. QED
    BY <2>1, <2>2
<1>4. ConsumerTypeOK'
  <2>1. /\ cpc' \in {"after", "body"} /\ q_offset' \in Nat
        /\ header' \in Cell \cup {NoHeader, Garbage}
    BY SMTT(60), <1>3, FilesStill
  <2>2. /\ UNCHANGED <<info_pop, c_id, count_popped, pos_record, c_ready, q_id, q_right_edge>>
        /\ UNCHANGED <<q_count_pushed, q_info, q_data, size_batch, prepared, subscribed, crashes>>
        /\ UNCHANGED <<handled, last>> /\ TypeOK'
    BY FilesStill
  <2>3. QED
    BY <1>1, <2>1, <2>2 DEF ConsumerTypeOK, BatchSizeDefined
<1>5. PartsNamed'
  BY <1>1, <1>2, <1>3, FilesStill, HeaderKinds DEF PartsNamed
<1>6. CountersRead'
  BY <1>1, <1>2, <1>3, FilesStill, HeaderKinds DEF CountersRead
<1>7. CursorBehind'
  BY <1>1, <1>2, <1>3, FilesStill, HeaderKinds DEF CursorBehind
<1>8. CursorAtRecord'
  BY SMTT(60), <1>1, <1>2, <1>3, FilesStill, HeaderKinds DEF CursorAtRecord
<1>9. HeaderRead'
  <2>1. CASE cpc' = "after"
    BY <1>3, <2>1 DEF HeaderRead
  <2>2. CASE cpc' = "body" /\ header' = Garbage
    BY <1>3, <2>2, FilesStill, HeaderKinds DEF HeaderRead
  <2>3. CASE cpc' = "body" /\ header' # Garbage
    <3>1. /\ header' = rec[c_id][q_offset + 1] /\ q_offset + 1 \in 1 .. Len(rec[c_id])
          /\ header'.kind = "header" /\ header'.count_pushed <= q_count_pushed
      BY <1>3, <2>3
    <3>2. c_id \notin torn /\ c_ready => q_offset = RecordLen * count_popped
      BY <1>1, FilesStill DEF CursorAtRecord
    <3>3. UNCHANGED <<rec, torn, c_id, c_ready, count_popped, q_count_pushed>>
      BY FilesStill
    <3>4. QED
      BY <2>3, <3>1, <3>2, <3>3 DEF HeaderRead
  <2>4. QED
    BY <1>3, <2>1, <2>2, <2>3
<1>10. LastBefore'
  <2>1. UNCHANGED <<rec, torn, c_id, count_popped, last, handled>>
        /\ cpc' \notin {"down", "next", "next_commit"}
    BY <1>3, FilesStill
  <2>2. QED
    BY <1>1, <2>1 DEF LastBefore
<1>11. QED
  BY <1>4, <1>5, <1>6, <1>7, <1>8, <1>9, <1>10 DEF ReaderInv

(* A Consumer that is not ready does not move.                             *)
LEMMA BodyRefusedKeeps == FlowInv /\ BodyRefused /\ UNCHANGED queueVars => ReaderInv'
<1> SUFFICES ASSUME FlowInv, BodyRefused, UNCHANGED queueVars PROVE ReaderInv'
  OBVIOUS
<1> USE DEF BodyRefused, cursorVars, readVars, loopVars, seenVars, Up, InRecord
<1>1. FilesInv /\ ConsumerTypeOK /\ PartsNamed /\ CountersRead /\ CursorBehind /\ CursorAtRecord
      /\ HeaderRead /\ LastBefore
  BY DEF FlowInv, ReaderInv
<1>2. ConsumerTypeOK'
  BY <1>1, FilesStill, HeaderKinds DEF ConsumerTypeOK, BatchSizeDefined
<1>3. PartsNamed'
  BY <1>1, FilesStill, HeaderKinds DEF PartsNamed
<1>4. CountersRead'
  BY <1>1, FilesStill, HeaderKinds DEF CountersRead
<1>5. CursorBehind'
  BY <1>1, FilesStill, HeaderKinds DEF CursorBehind
<1>6. CursorAtRecord'
  BY <1>1, FilesStill, HeaderKinds DEF CursorAtRecord
<1>7. HeaderRead'
  BY <1>1, FilesStill, HeaderKinds DEF HeaderRead
<1>8. LastBefore'
  BY <1>1, FilesStill, HeaderKinds DEF LastBefore
<1>9. QED
  BY <1>2, <1>3, <1>4, <1>5, <1>6, <1>7, <1>8 DEF ReaderInv

(* A body is cut short in a torn part only.                                *)
LEMMA BodyShortKeeps == FlowInv /\ BodyShort /\ UNCHANGED queueVars => ReaderInv'
<1> SUFFICES ASSUME FlowInv, BodyShort, UNCHANGED queueVars PROVE ReaderInv'
  OBVIOUS
<1> USE DEF BodyShort, cursorVars, readVars, loopVars, seenVars, Up, InRecord
<1>1. FilesInv /\ ConsumerTypeOK /\ PartsNamed /\ CountersRead /\ CursorBehind /\ CursorAtRecord
      /\ HeaderRead /\ LastBefore
  BY DEF FlowInv, ReaderInv
<1>2. c_id \in torn
  <2>1. SUFFICES ASSUME c_id \notin torn PROVE FALSE
    OBVIOUS
  <2>2. q_data = c_id /\ q_offset = RecordLen * count_popped + 1
    BY <1>1, <2>1, FilesStill DEF PartsNamed, CursorAtRecord
  <2>3. header.kind = "header" /\ count_popped < q_count_pushed /\ q_count_pushed <= Visible(c_id)
    BY <1>1, <2>1 DEF CountersRead, HeaderRead
  <2>4. count_popped < Visible(c_id)
    BY <2>3, FilesStill
  <2>5. RecordLen * count_popped + 2 <= Len(rec[c_id])
    BY <1>1, <2>1, <2>4, FilesStill, RecordCells
  <2>6. Len(rec[c_id]) \in Nat /\ q_offset >= Len(rec[c_id])
    BY <2>2, FilesStill, VisibleNat
  <2>7. QED
    BY SMTT(60), <2>2, <2>5, <2>6, FilesStill
<1>3. ConsumerTypeOK'
  BY <1>1, <1>2, FilesStill, HeaderKinds DEF ConsumerTypeOK, BatchSizeDefined
<1>4. PartsNamed'
  BY <1>1, <1>2, FilesStill, HeaderKinds DEF PartsNamed
<1>5. CountersRead'
  BY <1>1, <1>2, FilesStill, HeaderKinds DEF CountersRead
<1>6. CursorBehind'
  BY <1>1, <1>2, FilesStill, HeaderKinds DEF CursorBehind
<1>7. CursorAtRecord'
  BY <1>1, <1>2, FilesStill, HeaderKinds DEF CursorAtRecord
<1>8. HeaderRead'
  BY <1>1, <1>2, FilesStill, HeaderKinds DEF HeaderRead
<1>9. LastBefore'
  BY <1>1, <1>2, FilesStill, HeaderKinds DEF LastBefore
<1>10. QED
  BY <1>3, <1>4, <1>5, <1>6, <1>7, <1>8, <1>9 DEF ReaderInv

(* A body that matches its header belongs to an acknowledged push.         *)
LEMMA ReadBodyKeeps == FlowInv /\ ReadBody /\ UNCHANGED queueVars => ReaderInv'
<1> SUFFICES ASSUME FlowInv, ReadBody, UNCHANGED queueVars PROVE ReaderInv'
  OBVIOUS
<1> USE DEF ReadBody, cursorVars, readVars, loopVars, seenVars, Up, InRecord
<1>1. FilesInv /\ ConsumerTypeOK /\ PartsNamed /\ CountersRead /\ CursorBehind /\ CursorAtRecord
      /\ HeaderRead /\ LastBefore
  BY DEF FlowInv, ReaderInv
<1>2. q_data = c_id /\ rec[c_id] \in Seq(Cell)
  BY <1>1, FilesStill DEF PartsNamed, TypeOK
<1>3. /\ q_offset + 1 \in 1 .. Len(rec[c_id]) /\ rec[c_id][q_offset + 1].kind = "body"
      /\ rec[c_id][q_offset + 1].msg = header.msg
  <2>1. q_offset < Len(rec[c_id]) /\ Len(rec[c_id]) \in Nat /\ q_offset \in Nat
    BY SMTT(60), <1>2, FilesStill
  <2>2. QED
    BY <1>2, <2>1 DEF BodyMatches
<1>4. header.kind = "header"
  <2>1. header.msg # 0
    BY <1>2, <1>3, HeaderKinds
  <2>2. header \in Cell \cup {NoHeader, Garbage} /\ header.kind \in {"header", "garbage"}
    BY <1>1 DEF ConsumerTypeOK, CountersRead
  <2>3. QED
    BY <2>1, <2>2, HeaderKinds
<1>5. Acked(c_id, header.msg)
  <2>1. PICK i \in 1 .. Len(rec[c_id]) : rec[c_id][i] = header
    BY <1>1, <1>4 DEF HeaderRead
  <2>2. header.count_pushed <= Visible(c_id)
    <3>1. header.count_pushed <= q_count_pushed /\ q_count_pushed <= Visible(c_id)
      BY <1>1, <1>4 DEF HeaderRead, CountersRead
    <3>2. header \in Cell
      BY <1>2, <2>1
    <3>3. QED
      BY SMTT(60), <3>1, <3>2, FilesStill, HeaderKinds
  <2>3. QED
    BY <1>1, <1>3, <1>4, <2>1, <2>2, FilesStill, AdmittedAcked
<1>6. ConsumerTypeOK'
  BY <1>1, <1>2, <1>3, <1>4, <1>5, FilesStill, HeaderKinds DEF ConsumerTypeOK, BatchSizeDefined
<1>7. PartsNamed'
  BY <1>1, <1>2, <1>3, <1>4, <1>5, FilesStill, HeaderKinds DEF PartsNamed
<1>8. CountersRead'
  BY <1>1, <1>2, <1>3, <1>4, <1>5, FilesStill, HeaderKinds DEF CountersRead
<1>9. CursorBehind'
  BY <1>1, <1>2, <1>3, <1>4, <1>5, FilesStill, HeaderKinds DEF CursorBehind
<1>10. CursorAtRecord'
  BY SMTT(60), <1>1, <1>2, <1>3, <1>4, <1>5, FilesStill, HeaderKinds DEF CursorAtRecord
<1>11. HeaderRead'
  BY <1>1, <1>2, <1>3, <1>4, <1>5, FilesStill, HeaderKinds DEF HeaderRead
<1>12. LastBefore'
  <2>1. UNCHANGED <<rec, torn, c_id, count_popped, last, handled>> /\ cpc' = "prepare" /\ cpc = "body"
    BY FilesStill
  <2>2. QED
    BY <1>1, <2>1 DEF LastBefore
<1>13. QED
  BY <1>6, <1>7, <1>8, <1>9, <1>10, <1>11, <1>12 DEF ReaderInv

(* A checksum is wrong in a torn part only.                                *)
LEMMA ChecksumFailsKeeps == FlowInv /\ ChecksumFails /\ UNCHANGED queueVars => ReaderInv'
<1> SUFFICES ASSUME FlowInv, ChecksumFails, UNCHANGED queueVars PROVE ReaderInv'
  OBVIOUS
<1> USE DEF ChecksumFails, cursorVars, readVars, loopVars, seenVars, Up, InRecord
<1>1. FilesInv /\ ConsumerTypeOK /\ PartsNamed /\ CountersRead /\ CursorBehind /\ CursorAtRecord
      /\ HeaderRead /\ LastBefore
  BY DEF FlowInv, ReaderInv
<1>2. c_id \in torn
  <2>1. SUFFICES ASSUME c_id \notin torn PROVE FALSE
    OBVIOUS
  <2>2. q_data = c_id /\ q_offset = RecordLen * count_popped + 1
    BY <1>1, <2>1, FilesStill DEF PartsNamed, CursorAtRecord
  <2>3. /\ header.kind = "header" /\ count_popped < q_count_pushed /\ q_count_pushed <= Visible(c_id)
        /\ header = rec[c_id][RecordLen * count_popped + 1]
    BY <1>1, <2>1 DEF CountersRead, HeaderRead
  <2>4. count_popped < Visible(c_id)
    BY <2>3, FilesStill
  <2>5. /\ rec[c_id][RecordLen * count_popped + 2].kind = "body"
        /\ rec[c_id][RecordLen * count_popped + 1].msg = rec[c_id][RecordLen * count_popped + 2].msg
    BY <1>1, <2>1, <2>4, FilesStill, RecordCells
  <2>6. q_offset + 1 = RecordLen * count_popped + 2
    BY <2>2, FilesStill
  <2>7. QED
    BY <2>2, <2>3, <2>5, <2>6 DEF BodyMatches
<1>3. ConsumerTypeOK'
  <2>1. /\ cpc' = "after" /\ header' = NoHeader
        /\ pos_record' \in Nat /\ q_offset' \in Nat /\ c_ready' \in BOOLEAN
    <3>1. pos_record' = pos_record + RecordLen /\ pos_record' \in Nat /\ q_offset + 1 \in Nat
      BY SMTT(60), FilesStill
    <3>2. CASE count_popped = q_count_pushed
      BY <1>1, <3>1, <3>2 DEF ConsumerTypeOK
    <3>3. CASE count_popped # q_count_pushed
      BY <3>1, <3>3
    <3>4. QED
      BY <3>2, <3>3
  <2>2. TypeOK'
    BY FilesStill
  <2>3. QED
    BY <1>1, <2>1, <2>2 DEF ConsumerTypeOK, BatchSizeDefined
<1>4. PartsNamed'
  BY <1>1, <1>2, FilesStill, HeaderKinds DEF PartsNamed
<1>5. CountersRead'
  BY <1>1, <1>2, FilesStill, HeaderKinds DEF CountersRead
<1>6. CursorBehind'
  BY <1>1, <1>2, FilesStill, HeaderKinds DEF CursorBehind
<1>7. CursorAtRecord'
  BY <1>1, <1>2, FilesStill, HeaderKinds DEF CursorAtRecord
<1>8. HeaderRead'
  BY <1>1, <1>2, FilesStill, HeaderKinds DEF HeaderRead
<1>9. LastBefore'
  BY <1>1, <1>2, FilesStill, HeaderKinds DEF LastBefore
<1>10. QED
  BY <1>3, <1>4, <1>5, <1>6, <1>7, <1>8, <1>9 DEF ReaderInv

(* The message handled is that of the record in hand.                      *)
LEMMA PrepareKeeps == FlowInv /\ Prepare /\ UNCHANGED queueVars => ReaderInv'
<1> SUFFICES ASSUME FlowInv, Prepare, UNCHANGED queueVars PROVE ReaderInv'
  OBVIOUS
<1> USE DEF Prepare, cursorVars, readVars, loopVars, seenVars, Up, InRecord
<1>1. FilesInv /\ ConsumerTypeOK /\ PartsNamed /\ CountersRead /\ CursorBehind /\ CursorAtRecord
      /\ HeaderRead /\ LastBefore
  BY DEF FlowInv, ReaderInv
<1>2. /\ header.kind = "header" /\ header \in Cell /\ c_ready /\ count_popped < q_count_pushed
      /\ last' = header.msg /\ cpc' \in {"next", "next_commit"}
  <2>1. header.kind = "header" /\ c_ready /\ count_popped < q_count_pushed
    BY <1>1 DEF HeaderRead, CountersRead
  <2>2. header \in Cell
    BY <1>1, <2>1, HeaderKinds DEF ConsumerTypeOK
  <2>3. QED
    BY <2>1, <2>2
<1>3. ConsumerTypeOK'
  BY <1>1, <1>2, FilesStill, HeaderKinds DEF ConsumerTypeOK, BatchSizeDefined
<1>4. PartsNamed'
  BY <1>1, <1>2, FilesStill, HeaderKinds DEF PartsNamed
<1>5. CountersRead'
  BY <1>1, <1>2, FilesStill, HeaderKinds DEF CountersRead
<1>6. CursorBehind'
  BY <1>1, <1>2, FilesStill, HeaderKinds DEF CursorBehind
<1>7. CursorAtRecord'
  BY <1>1, <1>2, FilesStill, HeaderKinds DEF CursorAtRecord
<1>8. HeaderRead'
  BY <1>1, <1>2, FilesStill, HeaderKinds DEF HeaderRead
<1>9. LastBefore'
  <2>1. PICK i \in 1 .. Len(rec[c_id]) :
            rec[c_id][i] = header /\ (c_id \notin torn => i <= RecordLen * (count_popped + 1))
    <3>1. PICK i0 \in 1 .. Len(rec[c_id]) : rec[c_id][i0] = header
      BY <1>1 DEF HeaderRead
    <3>2. CASE c_id \in torn
      BY <3>1, <3>2
    <3>3. CASE c_id \notin torn
      <4>1. header = rec[c_id][RecordLen * count_popped + 1]
        BY <1>1, <1>2, <3>3 DEF HeaderRead
      <4>2. count_popped < Visible(c_id)
        BY <1>1, FilesStill DEF CountersRead
      <4>3. RecordLen * count_popped + 1 \in 1 .. Len(rec[c_id])
        BY SMTT(60), <1>1, <3>3, <4>2, FilesStill, RecordCells, VisibleNat
      <4>4. RecordLen * count_popped + 1 <= RecordLen * (count_popped + 1)
        BY FilesStill
      <4>5. QED
        BY <4>1, <4>3, <4>4
    <3>4. QED
      BY <3>2, <3>3
  <2>2. UNCHANGED <<rec, torn, c_id, count_popped, header>> /\ header.msg \in handled'
    BY FilesStill
  <2>3. \E i1 \in 1 .. Len(rec'[c_id']) :
            /\ rec'[c_id'][i1].msg = last'
            /\ c_id' \notin torn' => i1 <= RecordLen * (count_popped' + 1)
    BY <1>2, <2>1, <2>2
  <2>4. QED
    BY <1>2, <2>2, <2>3 DEF LastBefore
<1>10. QED
  BY <1>3, <1>4, <1>5, <1>6, <1>7, <1>8, <1>9 DEF ReaderInv

(* next moves the cursor over the record just read.                        *)
LEMMA NextRecordKeeps == FlowInv /\ NextRecord /\ UNCHANGED queueVars => ReaderInv'
<1> SUFFICES ASSUME FlowInv, NextRecord, UNCHANGED queueVars PROVE ReaderInv'
  OBVIOUS
<1> USE DEF NextRecord, cursorVars, readVars, loopVars, seenVars, PopInfo, Up, InRecord
<1>1. FilesInv /\ ConsumerTypeOK /\ PartsNamed /\ CountersRead /\ CursorBehind /\ CursorAtRecord
      /\ HeaderRead /\ LastBefore
  BY DEF FlowInv, ReaderInv
<1>2. ConsumerTypeOK'
  BY <1>1, FilesStill, HeaderKinds DEF ConsumerTypeOK, BatchSizeDefined
<1>3. PartsNamed'
  BY <1>1, FilesStill, HeaderKinds DEF PartsNamed
<1>4. CountersRead'
  BY <1>1, FilesStill, HeaderKinds DEF CountersRead
<1>5. CursorBehind'
  BY <1>1, FilesStill, HeaderKinds DEF CursorBehind
<1>6. CursorAtRecord'
  BY <1>1, FilesStill, HeaderKinds DEF CursorAtRecord
<1>7. HeaderRead'
  BY <1>1, FilesStill, HeaderKinds DEF HeaderRead
<1>8. LastBefore'
  BY SMTT(60), <1>1, FilesStill, HeaderKinds DEF LastBefore
<1>9. QED
  BY <1>2, <1>3, <1>4, <1>5, <1>6, <1>7, <1>8 DEF ReaderInv

(* The end of a batch moves nothing.                                       *)
LEMMA EndOfBatchKeeps == FlowInv /\ EndOfBatch /\ UNCHANGED queueVars => ReaderInv'
<1> SUFFICES ASSUME FlowInv, EndOfBatch, UNCHANGED queueVars PROVE ReaderInv'
  OBVIOUS
<1> USE DEF EndOfBatch, cursorVars, readVars, loopVars, seenVars, Up, InRecord
<1>1. FilesInv /\ ConsumerTypeOK /\ PartsNamed /\ CountersRead /\ CursorBehind /\ CursorAtRecord
      /\ HeaderRead /\ LastBefore
  BY DEF FlowInv, ReaderInv
<1>2. ConsumerTypeOK'
  BY <1>1, FilesStill, HeaderKinds DEF ConsumerTypeOK, BatchSizeDefined
<1>3. PartsNamed'
  BY <1>1, FilesStill, HeaderKinds DEF PartsNamed
<1>4. CountersRead'
  BY <1>1, FilesStill, HeaderKinds DEF CountersRead
<1>5. CursorBehind'
  BY <1>1, FilesStill, HeaderKinds DEF CursorBehind
<1>6. CursorAtRecord'
  BY <1>1, FilesStill, HeaderKinds DEF CursorAtRecord
<1>7. HeaderRead'
  BY <1>1, FilesStill, HeaderKinds DEF HeaderRead
<1>8. LastBefore'
  BY <1>1, FilesStill, HeaderKinds DEF LastBefore
<1>9. QED
  BY <1>2, <1>3, <1>4, <1>5, <1>6, <1>7, <1>8 DEF ReaderInv

(* after_batch may save the cursor, which is at a record boundary.         *)
LEMMA AfterBatchKeeps == FlowInv /\ AfterBatch /\ UNCHANGED queueVars => ReaderInv'
<1> SUFFICES ASSUME FlowInv, AfterBatch, UNCHANGED queueVars PROVE ReaderInv'
  OBVIOUS
<1> USE DEF AfterBatch, cursorVars, readVars, loopVars, seenVars, SaveCursor, PopInfo, Up, InRecord
<1>1. FilesInv /\ ConsumerTypeOK /\ PartsNamed /\ CountersRead /\ CursorBehind /\ CursorAtRecord
      /\ HeaderRead /\ LastBefore
  BY DEF FlowInv, ReaderInv
<1>2. ConsumerTypeOK'
  BY <1>1, FilesStill, HeaderKinds DEF ConsumerTypeOK, BatchSizeDefined
<1>3. PartsNamed'
  BY <1>1, FilesStill, HeaderKinds DEF PartsNamed
<1>4. CountersRead'
  BY <1>1, FilesStill, HeaderKinds DEF CountersRead
<1>5. CursorBehind'
  BY <1>1, FilesStill, HeaderKinds DEF CursorBehind
<1>6. CursorAtRecord'
  BY <1>1, FilesStill, HeaderKinds DEF CursorAtRecord
<1>7. HeaderRead'
  BY <1>1, FilesStill, HeaderKinds DEF HeaderRead
<1>8. LastBefore'
  BY <1>1, FilesStill, HeaderKinds DEF LastBefore
<1>9. QED
  BY <1>2, <1>3, <1>4, <1>5, <1>6, <1>7, <1>8 DEF ReaderInv

(* Waiting moves nothing.                                                  *)
LEMMA ReceiveKeeps == FlowInv /\ Receive /\ UNCHANGED queueVars => ReaderInv'
<1> SUFFICES ASSUME FlowInv, Receive, UNCHANGED queueVars PROVE ReaderInv'
  OBVIOUS
<1> USE DEF Receive, cursorVars, readVars, loopVars, seenVars, Up, InRecord
<1>1. FilesInv /\ ConsumerTypeOK /\ PartsNamed /\ CountersRead /\ CursorBehind /\ CursorAtRecord
      /\ HeaderRead /\ LastBefore
  BY DEF FlowInv, ReaderInv
<1>2. ConsumerTypeOK'
  BY <1>1, FilesStill, HeaderKinds DEF ConsumerTypeOK, BatchSizeDefined
<1>3. PartsNamed'
  BY <1>1, FilesStill, HeaderKinds DEF PartsNamed
<1>4. CountersRead'
  BY <1>1, FilesStill, HeaderKinds DEF CountersRead
<1>5. CursorBehind'
  BY <1>1, FilesStill, HeaderKinds DEF CursorBehind
<1>6. CursorAtRecord'
  BY <1>1, FilesStill, HeaderKinds DEF CursorAtRecord
<1>7. HeaderRead'
  BY <1>1, FilesStill, HeaderKinds DEF HeaderRead
<1>8. LastBefore'
  BY <1>1, FilesStill, HeaderKinds DEF LastBefore
<1>9. QED
  BY <1>2, <1>3, <1>4, <1>5, <1>6, <1>7, <1>8 DEF ReaderInv

(* A death forgets the struct and leaves the saved cursor.                 *)
LEMMA DiesKeeps ==
    FlowInv /\ Dies /\ crashes < MaxCrash /\ UNCHANGED <<info_pop, handled>> /\ UNCHANGED queueVars
        => ReaderInv'
<1> SUFFICES ASSUME FlowInv, Dies, crashes < MaxCrash, UNCHANGED <<info_pop, handled>>,
                    UNCHANGED queueVars
             PROVE  ReaderInv'
  OBVIOUS
<1> USE DEF Dies, Up, InRecord
<1>1. FilesInv /\ ConsumerTypeOK /\ PartsNamed /\ CountersRead /\ CursorBehind /\ CursorAtRecord
      /\ HeaderRead /\ LastBefore
  BY DEF FlowInv, ReaderInv
<1>2. ConsumerTypeOK'
  <2>1. crashes' \in 0 .. MaxCrash
    BY <1>1, MaxCrashAssumption DEF ConsumerTypeOK
  <2>2. TypeOK' /\ 0 \in Parts
    BY FilesStill
  <2>3. QED
    BY <1>1, <2>1, <2>2 DEF ConsumerTypeOK, BatchSizeDefined
<1>3. PartsNamed'
  BY <1>1, FilesStill DEF PartsNamed
<1>4. CountersRead'
  BY <1>1, FilesStill DEF CountersRead
<1>5. CursorBehind' /\ HeaderRead' /\ LastBefore'
  BY DEF CursorBehind, HeaderRead, LastBefore
<1>6. CursorAtRecord'
  BY <1>1, FilesStill DEF CursorAtRecord
<1>7. QED
  BY <1>2, <1>3, <1>4, <1>5, <1>6 DEF ReaderInv

(* Every step of the reader keeps the invariant.                           *)
LEMMA ReaderStep == FlowInv /\ ConsumerNext /\ UNCHANGED queueVars => FlowInv'
<1> SUFFICES ASSUME FlowInv, ConsumerNext, UNCHANGED queueVars PROVE FlowInv'
  OBVIOUS
<1>1. FilesInv'
  BY FilesStep DEF FlowInv
<1>2. CASE ConsumerStep
  BY <1>2, StartKeeps, ReadPartInfoKeeps, GetBatchSizeKeeps, RefreshPartKeeps, LookForNextPartKeeps,
     EnterNextPartKeeps, CommitPartKeeps, ReadHeaderKeeps, BodyRefusedKeeps, BodyShortKeeps,
     ReadBodyKeeps, ChecksumFailsKeeps, PrepareKeeps, NextRecordKeeps, EndOfBatchKeeps,
     AfterBatchKeeps, ReceiveKeeps, <1>1 DEF ConsumerStep, FlowInv
<1>3. CASE PrepareFatal \/ ConsumerCrash
  BY <1>1, <1>3, DiesKeeps DEF PrepareFatal, ConsumerCrash, FlowInv
<1>4. QED
  BY <1>2, <1>3 DEF ConsumerNext

-----------------------------------------------------------------------------
(* The producer's steps keep the reader's invariant: files only grow.      *)

(* What a step of the producer may change of what a reader looks at.       *)
LEMMA FilesGrow ==
    ASSUME FilesInv, [Next]_queueVars
    PROVE  /\ FilesInv' /\ TypeOK /\ TypeOK'
           /\ Grows
           /\ torn \subseteq torn'
           /\ info_queue \in Int /\ info_queue' \in Int /\ info_queue <= info_queue'
           /\ \A p \in Parts : /\ Visible(p) \in Nat /\ Visible(p)' \in Nat
                               /\ Visible(p) <= Visible(p)'
                               /\ Visible(p)' # Visible(p) => p = info_queue
           /\ \A p \in Parts : \A m : Acked(p, m) => Acked(p, m)'
<1>1. FilesInv' /\ IInv /\ TypeOK /\ TypeOK'
  BY FilesStep DEF FilesInv, IInv
<1>2. Grows
  BY <1>1, StepGrows
<1>3. torn \subseteq torn'
  BY DEF Next, OpenPart, PutInfoQueue, PutInfoQueueFails, WriteHeader, WriteBody, WriteBodyFails,
     PutInfoPush, PutInfoPushFails, ProducerCrash, ProducerDies, historyVars, queueVars
<1>4. info_queue \in Int /\ info_queue' \in Int /\ info_queue <= info_queue'
  <2>1. info_queue \in Int /\ info_queue' \in Int
    BY <1>1 DEF TypeOK
  <2>2. CASE PutInfoQueue
    BY <1>1, <2>1, <2>2 DEF PutInfoQueue, IInv, OpeningState, NextPart
  <2>3. CASE UNCHANGED info_queue
    BY <2>1, <2>3
  <2>4. QED
    BY <2>2, <2>3 DEF Next, OpenPart, PutInfoQueueFails, WriteHeader, WriteBody, WriteBodyFails,
       PutInfoPush, PutInfoPushFails, ProducerCrash, ProducerDies, diskVars, queueVars
<1>5. \A p \in Parts : Visible(p) \in Nat /\ Visible(p)' \in Nat
  BY <1>1 DEF TypeOK, Visible, Exists, Absent, PushInfo
<1>6. \A p \in Parts : /\ Visible(p) <= Visible(p)'
                       /\ Visible(p)' # Visible(p) => p = info_queue
  BY <1>1, <1>5, StepVisible
<1>7. \A p \in Parts : \A m : Acked(p, m) => Acked(p, m)'
  BY <1>1, AckedKept
<1>8. QED
  BY <1>1, <1>2, <1>3, <1>4, <1>5, <1>6, <1>7

(* A step of the producer, or none, keeps the reader's invariant.          *)
LEMMA ProducerStep == FlowInv /\ [Next]_queueVars /\ UNCHANGED consumerVars => FlowInv'
<1> SUFFICES ASSUME FlowInv, [Next]_queueVars, UNCHANGED consumerVars PROVE FlowInv'
  OBVIOUS
<1> USE DEF Up, InRecord
<1>1. FilesInv /\ ConsumerTypeOK /\ PartsNamed /\ CountersRead /\ CursorBehind /\ CursorAtRecord
      /\ HeaderRead /\ LastBefore
  BY DEF FlowInv, ReaderInv
<1>2. /\ UNCHANGED <<info_pop, cpc, c_id, count_popped, pos_record, c_ready, header>>
      /\ UNCHANGED <<q_id, q_right_edge, q_count_pushed, q_info, q_data, q_offset>>
      /\ UNCHANGED <<size_batch, prepared, subscribed, crashes, handled, last>>
  BY DEF consumerVars, cursorVars, readVars, loopVars, seenVars
<1>3. info_pop.id \in Parts /\ c_id \in Parts /\ info_pop.count \in Nat /\ count_popped \in Nat
      /\ q_count_pushed \in Nat /\ q_id \in Parts
  BY <1>1 DEF ConsumerTypeOK
<1>4. /\ Visible(c_id) \in Nat /\ Visible(c_id)' \in Nat /\ Visible(c_id) <= Visible(c_id)'
      /\ Visible(info_pop.id) \in Nat /\ Visible(info_pop.id)' \in Nat
      /\ Visible(info_pop.id) <= Visible(info_pop.id)'
  <2>1. /\ \A p \in Parts : p = c_id => Visible(c_id)' = Visible(p)'
        /\ \A p \in Parts : p = info_pop.id => Visible(info_pop.id)' = Visible(p)'
    BY <1>2 DEF Visible, Exists
  <2>2. QED
    BY <1>1, <1>3, <2>1, FilesGrow
<1>5. ConsumerTypeOK'
  <2>1. TypeOK'
    BY <1>1, FilesGrow
  <2>2. QED
    BY <1>1, <1>2, <2>1 DEF ConsumerTypeOK, BatchSizeDefined
<1>6. PartsNamed'
  BY <1>1, <1>2, <1>3, FilesGrow DEF PartsNamed
<1>7. CountersRead'
  BY <1>1, <1>2, <1>3, <1>4 DEF CountersRead
<1>8. CursorBehind'
  BY <1>1, <1>2 DEF CursorBehind
<1>9. torn \subseteq torn'
  BY <1>1, FilesGrow
<1>10. CursorAtRecord'
  BY <1>1, <1>2, <1>9 DEF CursorAtRecord
<1>11. /\ Len(rec[c_id]) \in Nat /\ Len(rec'[c_id]) \in Nat /\ Len(rec[c_id]) <= Len(rec'[c_id])
       /\ \A i \in 1 .. Len(rec[c_id]) : i \in 1 .. Len(rec'[c_id]) /\ rec'[c_id][i] = rec[c_id][i]
  <2>1. TypeOK /\ TypeOK' /\ Grows
    BY <1>1, FilesGrow
  <2>2. Len(rec[c_id]) \in Nat /\ Len(rec'[c_id]) \in Nat
    BY SMTT(60), <1>3, <2>1 DEF TypeOK
  <2>3. QED
    BY <1>3, <2>1, <2>2 DEF Grows
<1>12. HeaderRead'
  <2>1. cpc = "body" /\ header.kind = "garbage" => c_id \in torn' \/ ~c_ready
    BY <1>1, <1>9 DEF HeaderRead
  <2>2. (cpc = "body" /\ header.kind = "header") \/ cpc \in InRecord =>
          /\ header.kind = "header"
          /\ header.count_pushed <= q_count_pushed
          /\ \E i \in 1 .. Len(rec'[c_id]) : rec'[c_id][i] = header
    BY <1>1, <1>11 DEF HeaderRead
  <2>3. ASSUME cpc \in {"body"} \cup InRecord, header.kind = "header", c_id \notin torn', c_ready
        PROVE  header = rec'[c_id][RecordLen * count_popped + 1]
    <3>1. header = rec[c_id][RecordLen * count_popped + 1] /\ c_id \notin torn
      BY <1>1, <1>9, <2>3 DEF HeaderRead
    <3>2. count_popped < q_count_pushed /\ q_count_pushed <= Visible(c_id)
      BY <1>1, <2>3 DEF CountersRead
    <3>3. count_popped < Visible(c_id)
      BY <1>3, <1>4, <3>2
    <3>4. RecordLen * count_popped + 1 \in 1 .. Len(rec[c_id])
      BY <1>1, <1>3, <1>11, <3>1, <3>3, RecordCells
    <3>5. QED
      BY <1>11, <3>1, <3>4
  <2>4. cpc \in InRecord => c_ready /\ Acked(c_id, header.msg)'
    <3>1. ASSUME cpc \in InRecord PROVE c_ready /\ Acked(c_id, header.msg)
      BY <1>1, <3>1 DEF HeaderRead
    <3>2. \A p \in Parts : \A m : p = c_id /\ m = header.msg /\ Acked(p, m)' =>
              Acked(c_id, header.msg)'
      BY <1>2 DEF Acked
    <3>3. QED
      BY <1>1, <1>3, <3>1, <3>2, FilesGrow
  <2>5. QED
    BY <1>2, <2>1, <2>2, <2>3, <2>4 DEF HeaderRead
<1>13. LastBefore'
  <2>1. \A p \in Parts : \A i \in 1 .. Len(rec[p]) : i \in 1 .. Len(rec'[p]) /\ rec'[p][i] = rec[p][i]
    <3>1. TypeOK /\ TypeOK' /\ Grows
      BY <1>1, FilesGrow
    <3>2. \A p \in Parts : Len(rec[p]) \in Nat /\ Len(rec'[p]) \in Nat
      BY <3>1 DEF TypeOK
    <3>3. QED
      BY <3>1, <3>2 DEF Grows
  <2>2. ASSUME last # 0
        PROVE  \/ \E p \in Parts : p < c_id /\ \E i \in 1 .. Len(rec'[p]) : rec'[p][i].msg = last
               \/ \E i \in 1 .. Len(rec'[c_id]) :
                     /\ rec'[c_id][i].msg = last
                     /\ c_id \notin torn' =>
                           i <= RecordLen * (count_popped
                                             + (IF cpc \in {"next", "next_commit"} THEN 1 ELSE 0))
    BY <1>1, <1>3, <1>9, <2>1, <2>2 DEF LastBefore
  <2>3. QED
    BY <1>1, <1>2, <2>2 DEF LastBefore
<1>14. QED
  BY <1>1, <1>5, <1>6, <1>7, <1>8, <1>10, <1>12, <1>13, FilesGrow DEF FlowInv, ReaderInv

-----------------------------------------------------------------------------
(* The theorems about any module, whatever before_batch answers.           *)

(* A reader that never ran.                                                *)
LEMMA FlowInvInit == FlowInit => FlowInv
<1> SUFFICES ASSUME FlowInit PROVE FlowInv
  OBVIOUS
<1> USE DEF ConsumerInit, EmptyPop, PopInfo, Up, InRecord
<1>1. FilesInv /\ ConsumerInit /\ Init
  BY FilesInit DEF FlowInit
<1>2. TypeOK /\ 0 \in Parts /\ Visible(0) = 0 /\ info_queue = NoPart
  <2>1. TypeOK /\ 0 \in Parts
    BY <1>1, MaxPartAssumption DEF FilesInv, IInv
  <2>2. QED
    BY <1>1, <2>1 DEF Init, Visible, Exists
<1>3. ConsumerTypeOK
  <2>1. crashes \in 0 .. MaxCrash
    BY <1>1, MaxCrashAssumption
  <2>2. QED
    BY <1>1, <1>2, <2>1 DEF ConsumerTypeOK, BatchSizeDefined
<1>4. Visible(info_pop.id) = 0
  BY <1>1, <1>2
<1>5. PartsNamed /\ CountersRead /\ CursorBehind /\ CursorAtRecord /\ HeaderRead /\ LastBefore
  BY <1>1, <1>2, <1>4 DEF PartsNamed, CountersRead, CursorBehind, CursorAtRecord, HeaderRead,
     LastBefore
<1>6. QED
  BY <1>1, <1>3, <1>5 DEF FlowInv, ReaderInv

(* Every step of the two processes keeps the invariant.                    *)
LEMMA FlowStep == FlowInv /\ [FlowNext]_vars => FlowInv'
<1>1. CASE Next /\ UNCHANGED consumerVars
  BY <1>1, ProducerStep
<1>2. CASE ConsumerNext /\ UNCHANGED queueVars
  BY <1>2, ReaderStep
<1>3. CASE UNCHANGED vars
  BY <1>3, ProducerStep DEF vars
<1>4. QED
  BY <1>1, <1>2, <1>3 DEF FlowNext

(* The invariant of the pair holds in every reachable state.               *)
THEOREM FlowInvariance == FlowSpec => []FlowInv
BY FlowInvInit, FlowStep, PTL DEF FlowSpec

(* The reader writes no file of the producer: what is proved of the        *)
(* producer alone holds beside any reader (consumer.rs opens the part and  *)
(* info files with Mode::Read).                                            *)
THEOREM ProducerUndisturbed == FlowSpec => Spec
<1>1. FlowInit => Init
  BY DEF FlowInit
<1>2. [FlowNext]_vars => [Next]_queueVars
  BY DEF FlowNext, vars
<1>3. QED
  BY <1>1, <1>2, PTL DEF FlowSpec, Spec

(* Types of the reader's struct and locals; the subtraction of             *)
(* get_batch_size does not wrap (consumer.rs:148, module.rs:245-282).      *)
THEOREM ConsumerTypeCorrect == FlowSpec => []ConsumerTypeOK
<1>1. FlowInv => ConsumerTypeOK  BY DEF FlowInv, ReaderInv
<1>2. QED  BY <1>1, FlowInvariance, PTL

(* A restart resumes at a record boundary, at or before the point that was *)
(* reached (consumer.rs:408, 419).                                         *)
THEOREM SavedCursorSoundHolds == FlowSpec => []SavedCursorSound
<1>1. FlowInv => SavedCursorSound
  BY DEF FlowInv, ReaderInv, CursorBehind, CursorAtRecord, CountersRead, SavedCursorSound, Up
<1>2. QED  BY <1>1, FlowInvariance, PTL

(* prepare is given messages whose push has returned Ok, and no others     *)
(* (consumer.rs:334-342).                                                  *)
THEOREM DeliversOnlyAckedHolds == FlowSpec => []DeliversOnlyAcked
<1>1. FlowInv => DeliversOnlyAcked
  BY DEF FlowInv, ReaderInv, HeaderRead, InRecord, Acked, DeliversOnlyAcked
<1>2. QED  BY <1>1, FlowInvariance, PTL

(* A run of the reader hands messages over in the order of the push calls, *)
(* each once, but in a part with a lost body (consumer.rs:334-341).        *)
THEOREM OrderedDeliveryHolds == FlowSpec => []OrderedDelivery
<1>1. FlowInv => OrderedDelivery
  <2> SUFFICES ASSUME FlowInv, cpc = "prepare", c_id \notin torn PROVE header.msg > last
    BY DEF OrderedDelivery
  <2>1. FilesInv /\ ConsumerTypeOK /\ CountersRead /\ HeaderRead /\ LastBefore /\ CellsOrdered
    BY DEF FlowInv, ReaderInv, FilesInv
  <2>2. /\ c_id \in Parts /\ count_popped \in Nat /\ q_count_pushed \in Nat
        /\ count_popped < q_count_pushed /\ q_count_pushed <= Visible(c_id)
        /\ Visible(c_id) \in Nat /\ Len(rec[c_id]) \in Nat
    BY <2>1, VisibleNat DEF ConsumerTypeOK, CountersRead, Up, InRecord
  <2>3. header = rec[c_id][RecordLen * count_popped + 1] /\ header.kind = "header"
    BY <2>1 DEF HeaderRead, InRecord
  <2>4. RecordLen * count_popped + 1 \in 1 .. Len(rec[c_id])
    <3>1. count_popped < Visible(c_id)
      BY <2>2
    <3>2. RecordLen * count_popped + 2 <= Len(rec[c_id])
      BY <2>1, <2>2, <3>1, RecordCells
    <3>3. QED
      BY <2>2, <3>2
  <2>5. header.msg \in Pushes
    <3>1. header \in Cell
      BY <2>1, <2>3, HeaderKinds DEF ConsumerTypeOK
    <3>2. QED
      BY <3>1, HeaderKinds
  <2>6. CASE last = 0
    BY <2>5, <2>6, MaxPushAssumption
  <2>7. CASE \E p \in Parts : p < c_id /\ \E i \in 1 .. Len(rec[p]) : rec[p][i].msg = last
    <3>1. last < rec[c_id][RecordLen * count_popped + 1].msg
      BY <2>1, <2>2, <2>4, <2>7 DEF CellsOrdered
    <3>2. last \in Int
      BY <2>1, MaxPushAssumption DEF ConsumerTypeOK
    <3>3. QED
      BY <2>3, <2>5, <3>1, <3>2
  <2>8. CASE \E i \in 1 .. Len(rec[c_id]) : rec[c_id][i].msg = last /\ i <= RecordLen * count_popped
    <3>1. PICK i \in 1 .. Len(rec[c_id]) : rec[c_id][i].msg = last /\ i <= RecordLen * count_popped
      BY <2>8
    <3>2. i \in 1 .. (RecordLen * count_popped + 1) - 1
      BY <2>2, <3>1
    <3>3. last < rec[c_id][RecordLen * count_popped + 1].msg
      BY <2>1, <2>2, <2>3, <2>4, <3>1, <3>2 DEF CellsOrdered
    <3>4. last \in Int
      BY <2>1, MaxPushAssumption DEF ConsumerTypeOK
    <3>5. QED
      BY <2>3, <2>5, <3>3, <3>4
  <2>9. QED
    BY <2>1, <2>2, <2>6, <2>7, <2>8 DEF LastBefore
<1>2. QED  BY <1>1, FlowInvariance, PTL

-----------------------------------------------------------------------------
(* Nothing is skipped: the hand-over between parts.                        *)

UnlimitedInv == BatchVouched /\ PassedHandled /\ SavedHandled

(* Where the message of a published record of a sound part stands.         *)
LEMMA PublishedMsg ==
    ASSUME FilesInv, NEW p \in Parts, p \notin torn, NEW k \in 1 .. Visible(p)
    PROVE  /\ RecordLen * k \in 1 .. Len(rec[p])
           /\ rec[p][RecordLen * (k - 1) + 1].msg = MsgAt(p, k)
<1>1. Visible(p) \in Nat /\ Len(rec[p]) \in Nat
  BY VisibleNat DEF FilesInv, IInv
<1>2. k - 1 \in Nat /\ k - 1 < Visible(p) /\ RecordLen * (k - 1) + 2 = RecordLen * k
  BY <1>1
<1>3. /\ RecordLen * k <= Len(rec[p])
      /\ rec[p][RecordLen * (k - 1) + 1].msg = rec[p][RecordLen * k].msg
  BY <1>2, RecordCells
<1>4. QED
  BY <1>1, <1>2, <1>3 DEF MsgAt

(* The batch never asks for more than the counters vouch for, unless a     *)
(* newer part was named before the counters were read.                     *)
LEMMA BatchVouchedKept ==
    ASSUME BatchLimit = 0, FlowInv, BatchVouched, ConsumerNext, UNCHANGED queueVars
    PROVE  BatchVouched'
<1> USE DEF cursorVars, readVars, loopVars, seenVars, Up
<1>1. /\ PartsNamed /\ CountersRead
      /\ size_batch \in Nat /\ prepared \in Nat /\ MaxBatch = size_batch
  BY DEF FlowInv, ReaderInv, ConsumerTypeOK, MaxBatch
<1>2. CASE Start \/ ReadPartInfo \/ AfterBatch \/ Receive \/ BodyRefused \/ BodyShort
           \/ ChecksumFails \/ EndOfBatch \/ PrepareFatal \/ ConsumerCrash
  BY <1>2 DEF BatchVouched, Start, ReadPartInfo, AfterBatch, Receive, BodyRefused, BodyShort,
     ChecksumFails, EndOfBatch, PrepareFatal, ConsumerCrash, Dies
<1>3. CASE GetBatchSize
  BY <1>1, <1>3, FilesStill DEF BatchVouched, GetBatchSize, ReadInfoQueue, PartsNamed
<1>4. CASE RefreshPart
  <2>1. c_id <= info_queue /\ q_info = c_id /\ c_id \in Parts
    BY <1>1, <1>4, FilesStill DEF RefreshPart, PartsNamed
  <2>2. \/ /\ q_count_pushed' = Visible(c_id) /\ count_popped >= q_count_pushed
           /\ cpc' = "refreshed"
        \/ count_popped < q_count_pushed /\ cpc' = "header" /\ UNCHANGED q_count_pushed
    BY <1>4, <2>1, ReadInfo DEF RefreshPart, FlowInv
  <2>3. prepared < size_batch /\ UNCHANGED <<q_id, c_id, count_popped, size_batch, prepared>>
    BY <1>1, <1>4 DEF RefreshPart
  <2>4. Visible(c_id)' = Visible(c_id)
    BY <2>1, <2>3, FilesStill
  <2>5. QED
    BY <1>1, <1>4, <2>2, <2>3, <2>4, FilesStill DEF BatchVouched, RefreshPart
<1>5. CASE LookForNextPart
  <2>1. q_id > c_id /\ q_count_pushed = Visible(c_id) /\ size_batch = 1 /\ prepared < size_batch
    BY <1>5, FilesStill DEF BatchVouched, LookForNextPart
  <2>2. UNCHANGED <<q_id, c_id, count_popped, size_batch, prepared, q_count_pushed>>
    BY <1>5, <2>1, FilesStill DEF LookForNextPart
  <2>3. Visible(c_id)' = Visible(c_id) /\ Visible(c_id) \in Nat
    BY <2>2, FilesStill
  <2>4. cpc' = "next_part" => count_popped = Visible(c_id)
    BY <1>1, <1>5, <2>1, <2>2, FilesStill DEF LookForNextPart, CountersRead
  <2>5. QED
    BY <1>5, <2>1, <2>2, <2>3, <2>4 DEF BatchVouched, LookForNextPart
<1>6. CASE EnterNextPart
  BY <1>6, FilesStill DEF BatchVouched, EnterNextPart
<1>7. CASE CommitPart
  BY <1>1, <1>7, FilesStill DEF BatchVouched, CommitPart, OpenForReading, CountersRead, PartsNamed
<1>8. CASE ReadHeader
  BY <1>8 DEF BatchVouched, ReadHeader, AcceptHeader, RejectHeader
<1>9. CASE ReadBody \/ Prepare
  BY <1>9 DEF BatchVouched, ReadBody, Prepare
<1>10. CASE NextRecord
  BY <1>1, <1>10, FilesStill DEF BatchVouched, NextRecord
<1>11. QED
  BY <1>2, <1>3, <1>4, <1>5, <1>6, <1>7, <1>8, <1>9, <1>10 DEF ConsumerNext, ConsumerStep

(* A newer part stays newer, and the part of a reader that knows of it no  *)
(* longer grows.                                                           *)
LEMMA BatchVouchedStable ==
    ASSUME FlowInv, BatchVouched, [Next]_queueVars, UNCHANGED consumerVars
    PROVE  BatchVouched'
<1>1. /\ UNCHANGED <<cpc, c_id, count_popped, q_id, q_count_pushed, size_batch, prepared>>
      /\ FilesInv /\ PartsNamed /\ c_id \in Parts /\ q_id \in Parts
  BY DEF consumerVars, cursorVars, readVars, loopVars, FlowInv, ReaderInv, ConsumerTypeOK
<1>2. cpc \in {"refreshed", "next_part"} => Visible(c_id)' = Visible(c_id)
  <2>1. SUFFICES ASSUME cpc \in {"refreshed", "next_part"} PROVE Visible(c_id)' = Visible(c_id)
    OBVIOUS
  <2>2. q_id > c_id /\ q_id <= info_queue /\ info_queue \in Int
    BY <1>1, <2>1, FilesGrow DEF BatchVouched, PartsNamed, Up
  <2>3. c_id # info_queue
    BY <1>1, <2>2
  <2>4. \A p \in Parts : p = c_id => Visible(c_id)' = Visible(p)'
    BY <1>1 DEF Visible, Exists
  <2>5. QED
    BY <1>1, <2>3, <2>4, FilesGrow
<1>3. QED
  BY <1>1, <1>2 DEF BatchVouched, Up

(* A cursor only passes records that prepare has answered for.             *)
LEMMA HandledKept ==
    ASSUME FlowInv, UnlimitedInv, ConsumerNext, UNCHANGED queueVars
    PROVE  PassedHandled' /\ SavedHandled'
<1> USE DEF cursorVars, readVars, loopVars, seenVars
<1>1. FilesInv /\ PassedHandled /\ SavedHandled /\ BatchVouched /\ LastBefore
      /\ CountersRead /\ HeaderRead /\ PartsNamed
  BY DEF UnlimitedInv, FlowInv, ReaderInv
<1>2. UNCHANGED <<torn, rec>> /\ \A p \in Parts : Visible(p)' = Visible(p) /\ Visible(p) \in Nat
  BY FilesStill
<1>3. handled \subseteq handled'
  BY DEF ConsumerNext, ConsumerStep, Start, ReadPartInfo, GetBatchSize, RefreshPart,
     LookForNextPart, EnterNextPart, CommitPart, ReadHeader, BodyRefused, BodyShort, ReadBody,
     ChecksumFails, Prepare, NextRecord, EndOfBatch, AfterBatch, Receive, PrepareFatal, ConsumerCrash
\* Records of sound parts up to a cursor were handled.
<1> DEFINE Covered(i, n) ==
        \A p \in Parts \ torn : \A k \in 1 .. Visible(p) :
            Before(p, k, i, n) => MsgAt(p, k) \in handled'
<1>4. /\ Up => Covered(c_id, count_popped)
      /\ Covered(info_pop.id, info_pop.count)
  BY <1>1, <1>3 DEF PassedHandled, SavedHandled
<1>5. SUFFICES /\ cpc' # "down" => Covered(c_id', count_popped')
               /\ Covered(info_pop'.id, info_pop'.count)
  BY <1>2 DEF PassedHandled, SavedHandled, MsgAt, Up
<1>6. CASE Start
  BY <1>4, <1>6 DEF Start
<1>7. CASE EnterNextPart
  <2>1. count_popped = Visible(c_id) /\ c_id \in Parts /\ cpc # "down"
    BY <1>1, <1>7, FilesStill DEF BatchVouched, EnterNextPart
  <2>2. Covered(c_id + 1, 0)
    <3> SUFFICES ASSUME NEW p \in Parts \ torn, NEW k \in 1 .. Visible(p), Before(p, k, c_id + 1, 0)
                 PROVE  MsgAt(p, k) \in handled'
      OBVIOUS
    <3>1. Before(p, k, c_id, count_popped)
      BY <2>1, <1>2 DEF Before
    <3>2. QED
      BY <1>4, <2>1, <3>1 DEF Up
  <2>3. Covered(0, 0)
    BY <1>2 DEF Before
  <2>4. QED
    BY <1>7, <2>2, <2>3 DEF EnterNextPart, EmptyPop, PopInfo
<1>8. CASE NextRecord
  <2>1. c_id \in Parts /\ count_popped \in Nat /\ cpc # "down" /\ header.msg \in handled'
    BY <1>1, <1>3, <1>8, FilesStill DEF NextRecord, LastBefore
  <2>2. Covered(c_id, count_popped + 1)
    <3> SUFFICES ASSUME NEW p \in Parts \ torn, NEW k \in 1 .. Visible(p),
                        Before(p, k, c_id, count_popped + 1)
                 PROVE  MsgAt(p, k) \in handled'
      OBVIOUS
    <3>1. CASE p = c_id /\ k = count_popped + 1
      <4>1. header = rec[c_id][RecordLen * count_popped + 1]
        BY <1>1, <1>8, <3>1 DEF HeaderRead, NextRecord, InRecord
      <4>2. rec[p][RecordLen * (k - 1) + 1].msg = MsgAt(p, k) /\ k - 1 = count_popped
        BY <1>1, <2>1, <3>1, PublishedMsg
      <4>3. QED
        BY <2>1, <3>1, <4>1, <4>2
    <3>2. CASE ~(p = c_id /\ k = count_popped + 1)
      <4>1. Before(p, k, c_id, count_popped)
        BY <1>2, <2>1, <3>2 DEF Before
      <4>2. QED
        BY <1>4, <2>1, <4>1 DEF Up
    <3>3. QED
      BY <3>1, <3>2
  <2>3. QED
    BY <1>4, <1>8, <2>2 DEF NextRecord, PopInfo
<1>9. CASE SaveCursor /\ cpc # "down" /\ UNCHANGED <<c_id, count_popped>>
  BY <1>4, <1>9 DEF SaveCursor, PopInfo, Up
<1>10. CASE UNCHANGED info_pop /\ (cpc' # "down" => cpc # "down" /\ UNCHANGED <<c_id, count_popped>>)
  BY <1>4, <1>10 DEF Up
<1>11. QED
  BY <1>6, <1>7, <1>8, <1>9, <1>10
     DEF ConsumerNext, ConsumerStep, ReadPartInfo, GetBatchSize, RefreshPart, LookForNextPart,
     CommitPart, ReadHeader, AcceptHeader, RejectHeader, BodyRefused, BodyShort, ReadBody,
     ChecksumFails, Prepare, EndOfBatch, AfterBatch, Receive, PrepareFatal, ConsumerCrash, Dies

(* A record that is published now lies behind both cursors.                *)
LEMMA HandledStable ==
    ASSUME FlowInv, UnlimitedInv, [Next]_queueVars, UNCHANGED consumerVars
    PROVE  PassedHandled' /\ SavedHandled'
<1>1. FilesInv /\ PassedHandled /\ SavedHandled /\ CountersRead /\ PartsNamed
  BY DEF UnlimitedInv, FlowInv, ReaderInv
<1>2. UNCHANGED <<cpc, c_id, count_popped, info_pop, handled>>
  BY DEF consumerVars, cursorVars, seenVars
<1>3. info_pop.id \in Parts /\ c_id \in Parts /\ info_pop.count \in Nat /\ count_popped \in Nat
  BY DEF FlowInv, ReaderInv, ConsumerTypeOK
<1>4. ASSUME NEW p \in Parts \ torn', NEW k \in 1 .. Visible(p)', NEW i \in Parts, NEW n \in Nat,
             i <= info_queue \/ (n = 0 /\ i = 0), n <= Visible(i), Before(p, k, i, n)
      PROVE  k \in 1 .. Visible(p) /\ MsgAt(p, k)' = MsgAt(p, k) /\ p \in Parts \ torn
  <2>1. p \in Parts \ torn /\ Visible(p) \in Nat /\ Visible(p)' \in Nat /\ info_queue \in Int
    BY <1>1, FilesGrow
  <2>2. k \in 1 .. Visible(p)
    <3>1. CASE Visible(p)' = Visible(p)
      BY <3>1
    <3>2. CASE p = info_queue
      BY <1>4, <2>1, <3>2 DEF Before
    <3>3. QED
      BY <1>1, <2>1, <3>1, <3>2, FilesGrow
  <2>3. RecordLen * k \in 1 .. Len(rec[p])
    BY <1>1, <2>1, <2>2, PublishedMsg
  <2>4. rec'[p][RecordLen * k] = rec[p][RecordLen * k]
    BY <1>1, <2>1, <2>3, FilesGrow DEF Grows
  <2>5. QED
    BY <2>1, <2>2, <2>4 DEF MsgAt
<1>5. PassedHandled'
  <2> SUFFICES ASSUME NEW p \in Parts \ torn', NEW k \in 1 .. Visible(p)', cpc # "down",
                      Before(p, k, c_id, count_popped)
               PROVE  MsgAt(p, k)' \in handled
    BY <1>2 DEF PassedHandled, Up
  <2>1. c_id <= info_queue /\ count_popped <= Visible(c_id)
    BY <1>1, <1>3, FilesGrow DEF PartsNamed, CountersRead, Up, FlowInv, ReaderInv, ConsumerTypeOK
  <2>2. k \in 1 .. Visible(p) /\ MsgAt(p, k)' = MsgAt(p, k) /\ p \in Parts \ torn
    BY <1>3, <1>4, <2>1
  <2>3. QED
    BY <1>1, <2>2 DEF PassedHandled, Up
<1>6. SavedHandled'
  <2> SUFFICES ASSUME NEW p \in Parts \ torn', NEW k \in 1 .. Visible(p)',
                      Before(p, k, info_pop.id, info_pop.count)
               PROVE  MsgAt(p, k)' \in handled
    BY <1>2 DEF SavedHandled
  <2>1. info_pop.count <= Visible(info_pop.id)
    BY <1>1 DEF CountersRead
  <2>2. info_pop.id <= info_queue \/ (info_pop.count = 0 /\ info_pop.id = 0)
    <3>1. CASE info_queue = NoPart
      <4>1. info_pop.id = 0
        BY <1>1, <1>3, <3>1 DEF PartsNamed
      <4>2. Visible(0) = 0
        BY <1>1, <1>3, <3>1, <4>1 DEF FilesInv, IInv, FutureParts, Visible, Exists, EmptyInfo, PushInfo
      <4>3. QED
        BY <1>3, <2>1, <4>1, <4>2
    <3>2. CASE info_queue # NoPart
      BY <1>1, <1>3, <3>2, FilesGrow DEF PartsNamed
    <3>3. QED
      BY <3>1, <3>2
  <2>3. k \in 1 .. Visible(p) /\ MsgAt(p, k)' = MsgAt(p, k) /\ p \in Parts \ torn
    BY <1>3, <1>4, <2>1, <2>2
  <2>4. QED
    BY <1>1, <2>3 DEF SavedHandled
<1>7. QED
  BY <1>5, <1>6

(* With no limit from before_batch the hand-over keeps its invariant.      *)
LEMMA UnlimitedStep ==
    ASSUME BatchLimit = 0
    PROVE  FlowInv /\ UnlimitedInv /\ [FlowNext]_vars => UnlimitedInv'
<1> SUFFICES ASSUME FlowInv, UnlimitedInv, [FlowNext]_vars PROVE UnlimitedInv'
  OBVIOUS
<1>1. CASE [Next]_queueVars /\ UNCHANGED consumerVars
  BY <1>1, BatchVouchedStable, HandledStable DEF UnlimitedInv
<1>2. CASE ConsumerNext /\ UNCHANGED queueVars
  BY <1>2, BatchVouchedKept, HandledKept DEF UnlimitedInv
<1>3. QED
  BY <1>1, <1>2 DEF FlowNext, vars

(* In a new queue no record is published.                                  *)
LEMMA UnlimitedInit == FlowInit => UnlimitedInv
<1> SUFFICES ASSUME FlowInit PROVE UnlimitedInv
  OBVIOUS
<1>1. cpc = "down" /\ \A p \in Parts : Visible(p) = 0
  BY DEF FlowInit, Init, ConsumerInit, Visible, Exists
<1>2. QED
  BY <1>1 DEF UnlimitedInv, BatchVouched, PassedHandled, SavedHandled, Up

(* Both cursors pass only what was handled, in every reachable state.      *)
THEOREM UnlimitedInvariance ==
    ASSUME BatchLimit = 0
    PROVE  FlowSpec => []UnlimitedInv
BY UnlimitedInit, UnlimitedStep, FlowInvariance, PTL DEF FlowSpec

(* A module whose before_batch answers None never skips a record of a      *)
(* sound part, over deaths of both processes (consumer.rs:269-313).        *)
THEOREM NothingSkippedHolds ==
    ASSUME BatchLimit = 0
    PROVE  FlowSpec => []NothingSkipped
<1>1. UnlimitedInv => NothingSkipped
  BY DEF UnlimitedInv, PassedHandled, SavedHandled, NothingSkipped, Up
<1>2. QED  BY <1>1, UnlimitedInvariance, PTL

(* Such a module leaves a part at its end (queue-prepare.txt:12).          *)
THEOREM LeavesPartAtItsEndHolds ==
    ASSUME BatchLimit = 0
    PROVE  FlowSpec => LeavesPartAtItsEnd
<1>1. UnlimitedInv /\ [FlowNext]_vars =>
        [c_id' > c_id /\ cpc = "next_part" => count_popped = Visible(c_id)]_vars
  BY DEF UnlimitedInv, BatchVouched
<1>2. QED
  BY <1>1, UnlimitedInvariance, PTL DEF FlowSpec, LeavesPartAtItsEnd
=============================================================================
