------------------------------ MODULE EventFlow ------------------------------
(***************************************************************************)
(* What the file queue promises to a server module: one growing log of     *)
(* messages, read in order, each message handed to the module at least     *)
(* once, with a durable cursor that is never ahead of what was handled.    *)
(* The durable cursor may fall back to the start of the log: the reader    *)
(* truncates its file before rewriting it (consumer.rs:306).               *)
(***************************************************************************)
EXTENDS Naturals, Sequences

CONSTANT Messages

VARIABLES
    log,        \* published messages, oldest first
    handled,    \* messages the module has answered for
    next,       \* messages popped by the current run of the reader
    committed   \* messages popped according to the durable cursor

flowVars == <<log, handled, next, committed>>

Init ==
    /\ log = <<>>
    /\ handled = {}
    /\ next = 0
    /\ committed = 0

Publish ==
    /\ \E m \in Messages : log' = Append(log, m)
    /\ UNCHANGED <<handled, next, committed>>

Handle ==
    /\ next < Len(log)
    /\ handled' = handled \cup {log[next + 1]}
    /\ UNCHANGED <<log, next, committed>>

Advance ==
    /\ next < Len(log)
    /\ log[next + 1] \in handled
    /\ next' = next + 1
    /\ committed' \in {committed, next + 1}
    /\ UNCHANGED <<log, handled>>

Commit ==
    /\ committed' \in {next, 0}
    /\ UNCHANGED <<log, handled, next>>

Restart ==
    /\ next' = committed
    /\ UNCHANGED <<log, handled, committed>>

Next == Publish \/ Handle \/ Advance \/ Commit \/ Restart

Spec == Init /\ [][Next]_flowVars

(* Each published message is eventually handled.                           *)
Delivery == \A m \in Messages :
    (\E i \in 1 .. Len(log) : log[i] = m) ~> m \in handled
=============================================================================
