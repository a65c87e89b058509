--------------------------- MODULE MCQueueConsumer ---------------------------
(* Model-checking instance of QueueConsumer.                               *)
EXTENDS QueueConsumer
=============================================================================
