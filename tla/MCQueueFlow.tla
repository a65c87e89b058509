---------------------------- MODULE MCQueueFlow ----------------------------
(* Model-checking instance of QueueFlow.                                   *)
EXTENDS QueueFlow
=============================================================================
