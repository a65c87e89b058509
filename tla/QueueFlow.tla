------------------------------ MODULE QueueFlow ------------------------------
(***************************************************************************)
(* The producer and the reader of QueueConsumer implement EventFlow.       *)
(***************************************************************************)
EXTENDS QueueConsumer, SequencesExt

\* The published messages of part p, and those of all parts.
Published(p) == [k \in 1 .. Visible(p) |-> MsgAt(p, k)]
FlowLog == FlattenSeq([i \in 1 .. MaxPart + 1 |-> Published(i - 1)])

\* Position in FlowLog of a cursor that has popped n records of part i.
Position(i, n) == Len(FlattenSeq([j \in 1 .. i |-> Published(j - 1)])) + n

FlowCommitted == Position(info_pop.id, info_pop.count)
FlowNextPos == IF cpc = "down" THEN FlowCommitted ELSE Position(c_id, count_popped)

Flow == INSTANCE EventFlow WITH
    Messages <- Pushes, log <- FlowLog, next <- FlowNextPos, committed <- FlowCommitted

(* Every step of the two processes is a step of EventFlow or changes       *)
(* nothing there: parts, info files, batches and the hand-over between     *)
(* parts are invisible to the module (consumer.rs, queue.rs, module.rs).   *)
ImplementsFlow == Flow!Spec

(* Under the fairness of the module's thread the flow delivers.            *)
DeliversFlow == Flow!Delivery
=============================================================================
