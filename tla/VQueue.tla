------------------------------- MODULE VQueue -------------------------------
(***************************************************************************)
(* The writing side of the file queue of v-queue (queue/queue.rs): the     *)
(* struct Queue opened with Mode::ReadWrite by the one process that owns   *)
(* the queue, and the files it leaves for the readers.                     *)
(*                                                                         *)
(* A queue is a row of parts, one per start of the producer.  A part has a *)
(* record file (header, body, header, body, ...) and an info file with the *)
(* right edge and the number of records that readers may trust.  The file  *)
(* <queue>_info_queue names the newest part.                               *)
(*                                                                         *)
(* A record file is a sequence of cells: a header is one cell and a body   *)
(* is one cell, so positions and edges count cells.  A record is the       *)
(* number of the push call that wrote it.                                  *)
(***************************************************************************)
EXTENDS Integers, Sequences

CONSTANTS
    MaxPart,  \* bound: the highest part number (MaxPart + 1 producer starts)
    MaxPush,  \* bound: the number of push calls
    Faults    \* which file writes may fail, a subset of FaultKinds

FaultKinds == {"header", "body", "short_body", "info_push", "info_queue"}

ASSUME MaxPartAssumption == MaxPart \in Nat
ASSUME MaxPushAssumption == MaxPush \in Nat
ASSUME FaultsAssumption  == Faults \subseteq FaultKinds

Parts   == 0 .. MaxPart
NoPart  == -1            \* info_queue file is still empty
Pushes  == 1 .. MaxPush  \* a message is known by the push call that carries it

VARIABLES
    \* files
    info_queue,    \* newest part, or NoPart
    rec,           \* [Parts -> record file, a sequence of cells]
    info_push,     \* [Parts -> info file of the part, or Absent]
    \* the producer's Queue
    ppc,           \* where the producer is
    id, right_edge, count_pushed, is_ready,
    offset,        \* position of the file handle ff_queue
    pushed,        \* push calls made so far; the last one may be in progress
    \* history
    acked,         \* [Parts -> messages whose push returned Ok, in order]
    torn           \* parts in which a body write failed or was short

diskVars     == <<info_queue, rec, info_push>>
producerVars == <<ppc, id, right_edge, count_pushed, is_ready, offset, pushed>>
historyVars  == <<acked, torn>>
queueVars    == <<diskVars, producerVars, historyVars>>

-----------------------------------------------------------------------------
(* Cells of a record file and contents of an info file.                    *)

Cell == [kind : {"header", "body"}, msg : Pushes, start_pos : Nat, count_pushed : Nat]

HeaderCell(m, start, n) ==
    [kind |-> "header", msg |-> m, start_pos |-> start, count_pushed |-> n]

BodyCell(m) == [kind |-> "body", msg |-> m, start_pos |-> 0, count_pushed |-> 0]

RecordLen == 2    \* cells of a record

PushInfo(edge, n) == [right_edge |-> edge, count_pushed |-> n]

Absent    == PushInfo(-1, -1)
EmptyInfo == PushInfo(0, 0)    \* an empty info file reads as 0;0

Exists(p) == info_push[p] # Absent

\* write(2) at the handle's position: records never shrink the file.
WriteAt(file, pos, cell) ==
    IF pos = Len(file) THEN Append(file, cell) ELSE [file EXCEPT ![pos + 1] = cell]

-----------------------------------------------------------------------------
Init ==
    /\ info_queue = NoPart
    /\ rec = [p \in Parts |-> <<>>]
    /\ info_push = [p \in Parts |-> Absent]
    /\ ppc = "down"
    /\ id = 0 /\ right_edge = 0 /\ count_pushed = 0 /\ is_ready = FALSE
    /\ offset = 0
    /\ pushed = 0
    /\ acked = [p \in Parts |-> <<>>]
    /\ torn = {}

\* Mutant: a start reopens the newest part.
NextPartReopens == IF info_queue = NoPart THEN 0 ELSE info_queue

(* The part a producer that starts now would open.                         *)
NextPart == IF info_queue = NoPart THEN 0 ELSE info_queue + 1

(* Queue::new with Mode::ReadWrite up to put_info_push: read info_queue,   *)
(* create and open the part, take over its info file if an earlier start   *)
(* died before naming the part in info_queue.                              *)
OpenPart ==
    /\ ppc = "down"
    /\ NextPart \in Parts
    /\ LET info == IF Exists(NextPart) THEN info_push[NextPart] ELSE EmptyInfo
       IN  /\ id' = NextPart
           /\ right_edge' = info.right_edge
           /\ count_pushed' = info.count_pushed
           /\ info_push' = [info_push EXCEPT ![NextPart] = info]
    /\ offset' = 0
    /\ is_ready' = TRUE
    /\ ppc' = "put_info_queue"
    /\ UNCHANGED <<info_queue, rec, pushed, historyVars>>

(* put_info_queue, the last write of Queue::new.                           *)
PutInfoQueue ==
    /\ ppc = "put_info_queue"
    /\ info_queue' = id
    /\ ppc' = "ready"
    /\ UNCHANGED <<rec, info_push, id, right_edge, count_pushed, is_ready, offset,
                   pushed, historyVars>>

(* push: the header is written with the counters the record will have.     *)
WriteHeader ==
    /\ ppc = "ready"
    /\ is_ready
    /\ pushed < MaxPush
    /\ pushed' = pushed + 1
    /\ \/ /\ rec' = [rec EXCEPT ![id] = WriteAt(@, offset,
                        HeaderCell(pushed + 1, right_edge, count_pushed + 1))]
          /\ offset' = offset + 1
          /\ ppc' = "body"
       \/ /\ "header" \in Faults          \* push returns FailWrite
          /\ UNCHANGED <<rec, offset, ppc>>
    /\ UNCHANGED <<info_queue, info_push, id, right_edge, count_pushed, is_ready,
                   historyVars>>

(* push: the body, then the counters in memory.  write(2) may also accept  *)
(* fewer bytes than asked without an error (short_body).  When it fails,   *)
(* push returns FailWrite with the header left in the file.                *)
WriteBody ==
    /\ ppc = "body"
    /\ \/ /\ rec' = [rec EXCEPT ![id] = WriteAt(@, offset, BodyCell(pushed))]
          /\ offset' = offset + 1
          /\ UNCHANGED torn
       \/ /\ "short_body" \in Faults
          /\ torn' = torn \cup {id}
          /\ UNCHANGED <<rec, offset>>
    /\ right_edge' = right_edge + RecordLen
    /\ count_pushed' = count_pushed + 1
    /\ ppc' = "put_info_push"
    /\ UNCHANGED <<info_queue, info_push, id, is_ready, pushed, acked>>

WriteBodyFails ==
    /\ ppc = "body"
    /\ "body" \in Faults
    /\ torn' = torn \cup {id}
    /\ ppc' = "ready"
    /\ UNCHANGED <<diskVars, id, right_edge, count_pushed, is_ready, offset, pushed, acked>>

\* Mutant: the info file gets the counters from before the push.
PutInfoPushStale ==
    /\ ppc = "put_info_push"
    /\ info_push' = [info_push EXCEPT ![id] = PushInfo(right_edge - RecordLen, count_pushed - 1)]
    /\ acked' = [acked EXCEPT ![id] = Append(@, pushed)]
    /\ ppc' = "ready"
    /\ UNCHANGED <<info_queue, rec, id, right_edge, count_pushed, is_ready, offset,
                   pushed, torn>>

(* push: put_info_push publishes the record; push returns Ok.              *)
PutInfoPush ==
    /\ ppc = "put_info_push"
    /\ info_push' = [info_push EXCEPT ![id] = PushInfo(right_edge, count_pushed)]
    /\ acked' = [acked EXCEPT ![id] = Append(@, pushed)]
    /\ ppc' = "ready"
    /\ UNCHANGED <<info_queue, rec, id, right_edge, count_pushed, is_ready, offset,
                   pushed, torn>>

(* push: put_info_push failed; the counters are rolled back, the Queue     *)
(* takes no more pushes, and push returns Ok all the same.                 *)
PutInfoPushFails ==
    /\ ppc = "put_info_push"
    /\ "info_push" \in Faults
    /\ right_edge' = right_edge - RecordLen
    /\ count_pushed' = count_pushed - 1
    /\ is_ready' = FALSE
    /\ acked' = [acked EXCEPT ![id] = Append(@, pushed)]
    /\ ppc' = "ready"
    /\ UNCHANGED <<diskVars, id, offset, pushed, torn>>

(* The process dies between any two writes, or gives up in Queue::new when *)
(* put_info_queue fails: the files stay, the struct is gone.               *)
ProducerDies ==
    /\ ppc' = "down"
    /\ id' = 0 /\ right_edge' = 0 /\ count_pushed' = 0 /\ is_ready' = FALSE
    /\ offset' = 0
    /\ UNCHANGED <<diskVars, pushed, historyVars>>

ProducerCrash == ppc # "down" /\ ProducerDies

PutInfoQueueFails ==
    /\ ppc = "put_info_queue"
    /\ "info_queue" \in Faults
    /\ ProducerDies

Next ==
    \/ OpenPart \/ PutInfoQueue \/ PutInfoQueueFails
    \/ WriteHeader \/ WriteBody \/ WriteBodyFails
    \/ PutInfoPush \/ PutInfoPushFails
    \/ ProducerCrash

Spec == Init /\ [][Next]_queueVars

-----------------------------------------------------------------------------
(* What readers may rely on.                                               *)

(* Types of the files, the struct and the history.                         *)
TypeOK ==
    /\ info_queue \in Parts \cup {NoPart}
    /\ rec \in [Parts -> Seq(Cell)]
    /\ info_push \in [Parts -> [right_edge : Nat, count_pushed : Nat] \cup {Absent}]
    /\ ppc \in {"down", "put_info_queue", "ready", "body", "put_info_push"}
    /\ id \in Parts
    /\ right_edge \in Nat /\ count_pushed \in Nat /\ is_ready \in BOOLEAN
    /\ offset \in Nat
    /\ pushed \in 0 .. MaxPush
    /\ acked \in [Parts -> Seq(Pushes)]
    /\ torn \subseteq Parts

Visible(p) == IF Exists(p) THEN info_push[p].count_pushed ELSE 0

(* Record k of part p is in the file, whole and where a reader that has    *)
(* popped k - 1 records looks for it, and carries message m.               *)
RecordAt(p, k, m) ==
    /\ RecordLen * k <= Len(rec[p])
    /\ rec[p][RecordLen * k - 1] = HeaderCell(m, RecordLen * (k - 1), k)
    /\ rec[p][RecordLen * k] = BodyCell(m)

(* A start of the producer never opens a part that already holds records:  *)
(* its handle is at position 0 and would overwrite them (queue.rs:81-90).  *)
FreshPart == ppc = "put_info_queue" => rec[id] = <<>> /\ count_pushed = 0

(* What the info file of a part admits to readers is there, record by      *)
(* record, unless a body write failed in this part: the order header, body,*)
(* info file, and the refusal of pushes after a failed info write, are     *)
(* what this rests on (queue.rs:119, 146-161).                             *)
PublishedWhole ==
    \A p \in Parts \ torn : Exists(p) =>
        /\ info_push[p].right_edge = RecordLen * info_push[p].count_pushed
        /\ \A k \in 1 .. info_push[p].count_pushed : \E m \in Pushes : RecordAt(p, k, m)

(* A push that returned Ok is published, in order, in its part; the one    *)
(* exception is the single push whose info write failed, which returns Ok  *)
(* and closes the part (queue.rs:158-163).                                 *)
AckedPublished ==
    \A p \in Parts \ torn :
        /\ Visible(p) <= Len(acked[p])
        /\ Len(acked[p]) <= Visible(p) + (IF "info_push" \in Faults THEN 1 ELSE 0)
        /\ \A k \in 1 .. Visible(p) : RecordAt(p, k, acked[p][k])

(* A published cell never changes, in any part, whatever write fails and   *)
(* however often the producer restarts; nor does an info file go back.     *)
PublishedImmutable ==
    [][\A p \in Parts :
        /\ \A i \in 1 .. Len(rec[p]) :
               i <= info_push[p].right_edge => rec'[p][i] = rec[p][i]
        /\ info_push'[p].count_pushed >= info_push[p].count_pushed
      ]_queueVars

(* Only the newest part grows: a reader that has seen info_queue name a    *)
(* newer part, and afterwards the info file of its own part, has seen all  *)
(* its part will ever hold (queue.rs:75-104).                              *)
OldPartsClosed ==
    [][\A p \in Parts : p < info_queue =>
          rec'[p] = rec[p] /\ info_push'[p] = info_push[p]]_queueVars
=============================================================================
