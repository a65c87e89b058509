---------------------------- MODULE QueueConsumer ----------------------------
(***************************************************************************)
(* One reader of a file queue: the struct Consumer (queue/consumer.rs) and *)
(* the loop every server module runs around it, Module::listen_queue       *)
(* (v-module/src/module.rs), beside the producer of module VQueue.  Each   *)
(* action reads or writes one file, so the two processes interleave at     *)
(* every file access; the reader may die and restart between any two.      *)
(*                                                                         *)
(* Consumer.queue is a Queue opened for reading: q_id, q_right_edge and    *)
(* q_count_pushed are its fields, q_info is the part whose info file it    *)
(* has open and q_data the part whose record file it has open.             *)
(***************************************************************************)
EXTENDS VQueue

CONSTANTS
    BatchLimit,        \* what before_batch answers: 0 for None, n for Some(n)
    PrepareResults,    \* what prepare may answer, a subset of PrepareResult
    AfterBatchCommits, \* what after_batch answers
    DialMayFail,       \* may connect_to_notify_channel fail
    MaxCrash           \* bound: how often the reader dies

PrepareResult == {"commit", "no_commit", "recoverable", "fatal"}

ASSUME BatchLimitAssumption == BatchLimit \in Nat
ASSUME PrepareAssumption == PrepareResults \subseteq PrepareResult /\ PrepareResults # {}
ASSUME FlagsAssumption == AfterBatchCommits \in BOOLEAN /\ DialMayFail \in BOOLEAN
ASSUME MaxCrashAssumption == MaxCrash \in Nat

VARIABLES
    info_pop,      \* file: where the next run of this reader starts
    cpc,           \* where the reader is
    c_id, count_popped, pos_record, c_ready, header,      \* Consumer
    q_id, q_right_edge, q_count_pushed, q_info, q_data, q_offset,  \* its Queue
    size_batch, prepared,   \* locals of listen_queue
    subscribed,    \* is_ready_notify_channel
    crashes,       \* reader deaths so far
    handled,       \* history: messages prepare has answered for, in any run
    last           \* history: last message handled in this run, 0 if none

cursorVars   == <<c_id, count_popped, pos_record, c_ready, header>>
readVars     == <<q_id, q_right_edge, q_count_pushed, q_info, q_data, q_offset>>
loopVars     == <<size_batch, prepared, subscribed, crashes>>
seenVars     == <<handled, last>>
consumerVars == <<info_pop, cpc, cursorVars, readVars, loopVars, seenVars>>
vars         == <<queueVars, consumerVars>>

-----------------------------------------------------------------------------
PopInfo(p, pos, n) == [id |-> p, pos |-> pos, count |-> n]
EmptyPop == PopInfo(0, 0, 0)   \* an empty or missing file leaves the fields at 0

NoHeader == [kind |-> "none", msg |-> 0, start_pos |-> 0, count_pushed |-> 0]

(* get_info_of_part on the info file of part p.                            *)
ReadInfoOfPart(p) ==
    /\ q_info' = p
    /\ q_right_edge' = info_push[p].right_edge
    /\ q_count_pushed' = info_push[p].count_pushed

(* get_info_queue: on success the counters become those of no part.        *)
ReadInfoQueue ==
    /\ q_id' = info_queue
    /\ q_right_edge' = 0
    /\ q_count_pushed' = 0

(* open_part(p): both files of the part, the record file at pos.           *)
OpenForReading(p, pos) ==
    /\ ReadInfoOfPart(p)
    /\ q_id' = p
    /\ q_data' = p
    /\ q_offset' = pos

SaveCursor == info_pop' = PopInfo(c_id, pos_record, count_popped)

MaxBatch == IF size_batch > 0 /\ BatchLimit > 0 THEN BatchLimit ELSE size_batch

ConsumerInit ==
    /\ info_pop = EmptyPop
    /\ cpc = "down"
    /\ c_id = 0 /\ count_popped = 0 /\ pos_record = 0 /\ c_ready = FALSE
    /\ header = NoHeader
    /\ q_id = 0 /\ q_right_edge = 0 /\ q_count_pushed = 0
    /\ q_info = 0 /\ q_data = 0 /\ q_offset = 0
    /\ size_batch = 0 /\ prepared = 0 /\ subscribed = FALSE /\ crashes = 0
    /\ handled = {} /\ last = 0

-----------------------------------------------------------------------------
\* Mutant: a restart resumes in the newest part, with the saved counters.
StartInNewestPart ==
    /\ cpc = "down"
    /\ info_queue # NoPart
    /\ c_id' = info_queue
    /\ pos_record' = info_pop.pos
    /\ count_popped' = info_pop.count
    /\ c_ready' = TRUE
    /\ OpenForReading(info_queue, info_pop.pos)
    /\ cpc' = "loop"
    /\ UNCHANGED <<info_pop, header, loopVars, seenVars>>

\* Mutant: get_info restores the position and not the count.
StartWithoutCount ==
    /\ cpc = "down"
    /\ info_queue # NoPart
    /\ c_id' = info_pop.id
    /\ pos_record' = info_pop.pos
    /\ count_popped' = 0
    /\ c_ready' = TRUE
    /\ OpenForReading(info_pop.id, info_pop.pos)
    /\ cpc' = "loop"
    /\ UNCHANGED <<info_pop, header, loopVars, seenVars>>

(* Consumer::new_with_mode: NotReady until the producer has named a part;  *)
(* then the saved cursor, and the part it names.                           *)
Start ==
    /\ cpc = "down"
    /\ info_queue # NoPart
    /\ c_id' = info_pop.id
    /\ pos_record' = info_pop.pos
    /\ count_popped' = info_pop.count
    /\ c_ready' = TRUE
    /\ OpenForReading(info_pop.id, info_pop.pos)
    /\ cpc' = "loop"
    /\ UNCHANGED <<info_pop, header, loopVars, seenVars>>

\* Mutant: the loop does not read the info file of its part.
ReadPartInfoSkipped ==
    /\ cpc = "loop"
    /\ subscribed' = TRUE
    /\ cpc' = "batch"
    /\ UNCHANGED <<info_pop, cursorVars, readVars, size_batch, prepared, crashes, seenVars>>

(* listen_queue: connect_to_notify_channel, then get_info_of_part with     *)
(* reopen, which leaves q_id as it was.                                    *)
ReadPartInfo ==
    /\ cpc = "loop"
    /\ subscribed' \in (IF DialMayFail THEN {subscribed, TRUE} ELSE {TRUE})
    /\ ReadInfoOfPart(c_id)
    /\ cpc' = "batch"
    /\ UNCHANGED <<info_pop, cursorVars, q_id, q_data, q_offset, size_batch, prepared,
                   crashes, seenVars>>

\* Mutant: with nothing left in the part, get_batch_size answers 0.
GetBatchSizeOfPart ==
    /\ cpc = "batch"
    /\ prepared' = 0
    /\ size_batch' = q_count_pushed - count_popped
    /\ cpc' = "pop"
    /\ UNCHANGED <<info_pop, cursorVars, readVars, subscribed, crashes, seenVars>>

(* get_batch_size.                                                         *)
GetBatchSize ==
    /\ cpc = "batch"
    /\ prepared' = 0
    /\ \/ /\ q_count_pushed = count_popped
          /\ ReadInfoQueue
          /\ size_batch' = IF info_queue > c_id THEN 1 ELSE 0
       \/ /\ q_count_pushed > count_popped
          /\ size_batch' = IF q_id # c_id THEN 1 ELSE q_count_pushed - count_popped
          /\ UNCHANGED <<q_id, q_right_edge, q_count_pushed>>
    /\ cpc' = "pop"
    /\ UNCHANGED <<info_pop, cursorVars, q_info, q_data, q_offset, subscribed, crashes,
                   seenVars>>

\* Mutant: the counters are not read again when they say nothing is left.
RefreshPartSkipped ==
    /\ cpc = "pop"
    /\ prepared < MaxBatch
    /\ cpc' = IF count_popped >= q_count_pushed THEN "refreshed" ELSE "header"
    /\ UNCHANGED <<info_pop, cursorVars, readVars, loopVars, seenVars>>

(* read_header, its first test: nothing left according to the counters in  *)
(* memory, so the part's info file is read again.                          *)
RefreshPart ==
    /\ cpc = "pop"
    /\ prepared < MaxBatch
    /\ \/ /\ count_popped >= q_count_pushed
          /\ ReadInfoOfPart(IF q_id # c_id THEN c_id ELSE q_info)
          /\ cpc' = "refreshed"
       \/ /\ count_popped < q_count_pushed
          /\ cpc' = "header"
          /\ UNCHANGED <<q_info, q_right_edge, q_count_pushed>>
    /\ UNCHANGED <<info_pop, cursorVars, q_id, q_data, q_offset, loopVars, seenVars>>

(* read_header, its second test: still nothing left, so is there a newer   *)
(* part?                                                                   *)
LookForNextPart ==
    /\ cpc = "refreshed"
    /\ IF count_popped >= q_count_pushed /\ q_id = c_id
         THEN ReadInfoQueue
         ELSE UNCHANGED <<q_id, q_right_edge, q_count_pushed>>
    /\ cpc' = IF count_popped >= q_count_pushed /\ q_id' > c_id
                THEN "next_part" ELSE "header"
    /\ UNCHANGED <<info_pop, cursorVars, q_info, q_data, q_offset, loopVars, seenVars>>

\* Mutant: the part number is not advanced.
EnterNextPartInPlace ==
    /\ cpc = "next_part"
    /\ ReadInfoOfPart(c_id)
    /\ count_popped' = 0
    /\ pos_record' = 0
    /\ info_pop' = EmptyPop
    /\ cpc' = "commit_part"
    /\ UNCHANGED <<c_id, c_ready, header, q_id, q_data, q_offset, loopVars, seenVars>>

(* read_header: move to the next part; its info file exists, so the search *)
(* stops at once.  The cursor file is truncated before it is rewritten.    *)
EnterNextPart ==
    /\ cpc = "next_part"
    /\ c_id' = c_id + 1
    /\ ReadInfoOfPart(IF q_id # c_id + 1 THEN c_id + 1 ELSE q_info)
    /\ count_popped' = 0
    /\ pos_record' = 0
    /\ info_pop' = EmptyPop
    /\ cpc' = "commit_part"
    /\ UNCHANGED <<c_ready, header, q_id, q_data, q_offset, loopVars, seenVars>>

(* read_header: commit the new cursor, then open the part.                 *)
CommitPart ==
    /\ cpc = "commit_part"
    /\ SaveCursor
    /\ OpenForReading(c_id, 0)
    /\ cpc' = "header"
    /\ UNCHANGED <<cursorVars, loopVars, seenVars>>

(* The bytes at q_offset as read_header takes them: a header, nothing, or  *)
(* something that is not a header and parses to arbitrary fields.          *)
AtHeader == q_offset < Len(rec[q_data]) /\ rec[q_data][q_offset + 1].kind = "header"

Garbage == [NoHeader EXCEPT !.kind = "garbage"]

AcceptHeader(h) ==
    /\ header' = h
    /\ q_offset' = q_offset + 1
    /\ cpc' = "body"

(* pop_header failed: back to the start of the record, end of the batch.   *)
RejectHeader ==
    /\ q_offset' = pos_record
    /\ header' = NoHeader
    /\ cpc' = "after"

\* Mutant: the fields of the header are not compared with the info file.
ReadHeaderUnchecked ==
    /\ cpc = "header"
    /\ \/ AtHeader /\ AcceptHeader(rec[q_data][q_offset + 1])
       \/ ~AtHeader /\ RejectHeader
    /\ UNCHANGED <<info_pop, c_id, count_popped, pos_record, c_ready, q_id, q_right_edge,
                   q_count_pushed, q_info, q_data, loopVars, seenVars>>

(* read_header: the record header and the two tests on its fields.         *)
ReadHeader ==
    /\ cpc = "header"
    /\ \/ /\ AtHeader
          /\ LET h == rec[q_data][q_offset + 1]
             IN  IF h.count_pushed > q_count_pushed \/ h.start_pos >= q_right_edge
                   THEN RejectHeader
                   ELSE AcceptHeader(h)
       \/ /\ ~AtHeader
          /\ RejectHeader
       \/ /\ ~AtHeader
          /\ q_offset < Len(rec[q_data])
          /\ AcceptHeader(Garbage)
    /\ UNCHANGED <<info_pop, c_id, count_popped, pos_record, c_ready, q_id, q_right_edge,
                   q_count_pushed, q_info, q_data, loopVars, seenVars>>

(* pop_body on a Consumer that is not ready answers NotReady.              *)
BodyRefused ==
    /\ cpc = "body"
    /\ ~c_ready
    /\ cpc' = "after"
    /\ header' = NoHeader
    /\ UNCHANGED <<info_pop, c_id, count_popped, pos_record, c_ready, readVars, loopVars,
                   seenVars>>

(* pop_body reads fewer bytes than the header promised.                    *)
BodyShort ==
    /\ cpc = "body"
    /\ c_ready
    /\ q_offset >= Len(rec[q_data])
    /\ q_offset' = IF count_popped = q_count_pushed THEN pos_record ELSE q_offset
    /\ cpc' = "after"
    /\ header' = NoHeader
    /\ UNCHANGED <<info_pop, c_id, count_popped, pos_record, c_ready, q_id, q_right_edge,
                   q_count_pushed, q_info, q_data, loopVars, seenVars>>

BodyMatches == rec[q_data][q_offset + 1].kind = "body"
               /\ rec[q_data][q_offset + 1].msg = header.msg

(* pop_body with the right checksum.                                       *)
ReadBody ==
    /\ cpc = "body"
    /\ c_ready
    /\ q_offset < Len(rec[q_data])
    /\ BodyMatches
    /\ pos_record' = pos_record + RecordLen
    /\ q_offset' = q_offset + 1
    /\ cpc' = "prepare"
    /\ UNCHANGED <<info_pop, c_id, count_popped, c_ready, header, q_id, q_right_edge,
                   q_count_pushed, q_info, q_data, loopVars, seenVars>>

(* pop_body with a wrong checksum: pos_record has moved on already; a tail *)
(* record is tried again from there, any other stops the Consumer.         *)
ChecksumFails ==
    /\ cpc = "body"
    /\ c_ready
    /\ q_offset < Len(rec[q_data])
    /\ ~BodyMatches
    /\ pos_record' = pos_record + RecordLen
    /\ IF count_popped = q_count_pushed
         THEN q_offset' = pos_record' /\ UNCHANGED c_ready
         ELSE q_offset' = q_offset + 1 /\ c_ready' = FALSE
    /\ cpc' = "after"
    /\ header' = NoHeader
    /\ UNCHANGED <<info_pop, c_id, count_popped, q_id, q_right_edge, q_count_pushed, q_info,
                   q_data, loopVars, seenVars>>

Dies ==
    /\ cpc' = "down"
    /\ c_id' = 0 /\ count_popped' = 0 /\ pos_record' = 0 /\ c_ready' = FALSE
    /\ header' = NoHeader
    /\ q_id' = 0 /\ q_right_edge' = 0 /\ q_count_pushed' = 0
    /\ q_info' = 0 /\ q_data' = 0 /\ q_offset' = 0
    /\ size_batch' = 0 /\ prepared' = 0 /\ subscribed' = FALSE
    /\ crashes' = crashes + 1
    /\ last' = 0

(* listen_queue: prepare of the module, with all its effects, then next.   *)
(* A Recoverable error is committed like an Ok(true).                      *)
Prepare ==
    /\ cpc = "prepare"
    /\ \E r \in PrepareResults \ {"fatal"} :
           cpc' = IF r = "no_commit" THEN "next" ELSE "next_commit"
    /\ handled' = handled \cup {header.msg}
    /\ last' = header.msg
    /\ UNCHANGED <<info_pop, cursorVars, readVars, loopVars>>

(* listen_queue: PrepareError::Fatal leaves the loop without next.         *)
PrepareFatal ==
    /\ cpc = "prepare"
    /\ "fatal" \in PrepareResults
    /\ crashes < MaxCrash
    /\ Dies
    /\ UNCHANGED <<info_pop, handled>>

\* Mutant: next saves the count before it is incremented.
NextRecordStale ==
    /\ cpc \in {"next", "next_commit"}
    /\ count_popped' = count_popped + 1
    /\ info_pop' = IF cpc = "next_commit"
                     THEN PopInfo(c_id, pos_record, count_popped) ELSE info_pop
    /\ prepared' = prepared + 1
    /\ header' = NoHeader
    /\ cpc' = "pop"
    /\ UNCHANGED <<c_id, pos_record, c_ready, readVars, size_batch, subscribed, crashes,
                   seenVars>>

(* next(need_commit).                                                      *)
NextRecord ==
    /\ cpc \in {"next", "next_commit"}
    /\ count_popped' = count_popped + 1
    /\ info_pop' = IF cpc = "next_commit"
                     THEN PopInfo(c_id, pos_record, count_popped + 1) ELSE info_pop
    /\ prepared' = prepared + 1
    /\ header' = NoHeader
    /\ cpc' = "pop"
    /\ UNCHANGED <<c_id, pos_record, c_ready, readVars, size_batch, subscribed, crashes,
                   seenVars>>

EndOfBatch ==
    /\ cpc = "pop"
    /\ prepared >= MaxBatch
    /\ cpc' = "after"
    /\ UNCHANGED <<info_pop, cursorVars, readVars, loopVars, seenVars>>

(* listen_queue: after_batch and commit, then wait for a notification only *)
(* when the whole batch was prepared.                                      *)
AfterBatch ==
    /\ cpc = "after"
    /\ IF size_batch > 0 /\ AfterBatchCommits THEN SaveCursor ELSE UNCHANGED info_pop
    /\ cpc' = IF prepared = size_batch THEN "wait" ELSE "loop"
    /\ size_batch' = 0
    /\ prepared' = 0
    /\ UNCHANGED <<cursorVars, readVars, subscribed, crashes, seenVars>>

(* soc.recv: a notification or the 30 s timeout of a connected socket.  A  *)
(* socket that never was connected has no timeout and nothing to receive.  *)
Receive ==
    /\ cpc = "wait"
    /\ subscribed
    /\ cpc' = "loop"
    /\ UNCHANGED <<info_pop, cursorVars, readVars, loopVars, seenVars>>

ConsumerCrash ==
    /\ cpc # "down"
    /\ crashes < MaxCrash
    /\ Dies
    /\ UNCHANGED <<info_pop, handled>>

(* Steps of the module's thread; a death is not one of them.               *)
ConsumerStep ==
    \/ Start \/ ReadPartInfo \/ GetBatchSize
    \/ RefreshPart \/ LookForNextPart \/ EnterNextPart \/ CommitPart
    \/ ReadHeader \/ BodyRefused \/ BodyShort \/ ReadBody \/ ChecksumFails
    \/ Prepare \/ NextRecord \/ EndOfBatch \/ AfterBatch \/ Receive

ConsumerNext == ConsumerStep \/ PrepareFatal \/ ConsumerCrash

FlowInit == Init /\ ConsumerInit

FlowNext ==
    \/ Next /\ UNCHANGED consumerVars
    \/ ConsumerNext /\ UNCHANGED queueVars

FlowSpec == FlowInit /\ [][FlowNext]_vars

(* The module's thread keeps running, and is restarted after a death.      *)
FairFlowSpec == FlowSpec /\ WF_vars(ConsumerStep /\ UNCHANGED queueVars)

-----------------------------------------------------------------------------
(* Properties of the pair producer and reader.                             *)

\* Record k of part p lies before the cursor that has popped n records of part i.
Before(p, k, i, n) == p < i \/ (p = i /\ k <= n)

\* Message of published record k of part p.
MsgAt(p, k) == rec[p][RecordLen * k].msg

(* The subtraction of get_batch_size, on u32, does not wrap although       *)
(* get_info_queue sets count_pushed to 0 (consumer.rs:148, queue.rs:291).  *)
BatchSizeDefined == cpc = "batch" => count_popped <= q_count_pushed

(* Types of the files, of the reader's struct and of its locals, the u32   *)
(* of the batch among them (consumer.rs:12-27, module.rs:245-282).         *)
ConsumerTypeOK ==
    /\ TypeOK /\ BatchSizeDefined
    /\ info_pop \in [id : Parts, pos : Nat, count : Nat]
    /\ cpc \in {"down", "loop", "batch", "pop", "refreshed", "next_part", "commit_part",
                "header", "body", "prepare", "next", "next_commit", "after", "wait"}
    /\ c_id \in Parts /\ count_popped \in Nat /\ pos_record \in Nat /\ c_ready \in BOOLEAN
    /\ header \in Cell \cup {NoHeader, Garbage}
    /\ q_id \in Parts /\ q_right_edge \in Nat /\ q_count_pushed \in Nat
    /\ q_info \in Parts /\ q_data \in Parts /\ q_offset \in Nat
    /\ size_batch \in Nat /\ prepared \in Nat /\ subscribed \in BOOLEAN
    /\ crashes \in 0 .. MaxCrash
    /\ handled \subseteq Pushes /\ last \in {0} \cup Pushes

(* No published record of a sound part lies before the cursor, saved or in *)
(* memory, that prepare has not answered for: neither a producer restart,  *)
(* nor a reader crash, nor the hand-over to the next part skips one        *)
(* (consumer.rs:269-313, module.rs:266-330).                               *)
NothingSkipped ==
    \A p \in Parts \ torn : \A k \in 1 .. Visible(p) :
        /\ Before(p, k, info_pop.id, info_pop.count) => MsgAt(p, k) \in handled
        /\ cpc # "down" /\ Before(p, k, c_id, count_popped) => MsgAt(p, k) \in handled

(* The saved cursor is a record boundary of a part that has that many      *)
(* records, and is never ahead of the cursor in memory (consumer.rs:408,   *)
(* 419): a restart resumes at a record, at or before the point reached.    *)
SavedCursorSound ==
    /\ info_pop.id \notin torn =>
          info_pop.pos = RecordLen * info_pop.count /\ info_pop.count <= Visible(info_pop.id)
    /\ cpc # "down" => \/ info_pop.id < c_id
                       \/ info_pop.id = c_id /\ info_pop.count <= count_popped

(* Within one run of the reader prepare sees messages in the order they    *)
(* were pushed, each at most once, across part boundaries; only inside a   *)
(* part with a lost body may a record come twice, because a reader that    *)
(* met the end of the file in a body does not seek back                    *)
(* (consumer.rs:334-341, 370-380).                                         *)
OrderedDelivery == cpc = "prepare" /\ c_id \notin torn => header.msg > last

(* prepare is only given messages whose push has returned Ok: a record     *)
(* that is half written, or was never published because the producer died  *)
(* or its write failed, is not delivered (consumer.rs:334-342).            *)
DeliversOnlyAcked ==
    cpc = "prepare" => \E k \in DOMAIN acked[c_id] : acked[c_id][k] = header.msg

(* A reader leaves a part only when it has popped all the part will ever   *)
(* hold ("reading goes on until the reader reaches the end of the queue    *)
(* file", doc/developer/queue-prepare.txt:12).                             *)
LeavesPartAtItsEnd ==
    [][c_id' > c_id /\ cpc = "next_part" => count_popped = Visible(c_id)]_vars
=============================================================================
