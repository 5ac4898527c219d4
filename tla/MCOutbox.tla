------------------------------ MODULE MCOutbox ------------------------------
(* A small instance of Outbox for TLC: one message, two workers.           *)
EXTENDS Outbox

CONSTANTS m1, w1, w2

OneMessage == {m1}
OneAggregate == [m \in OneMessage |-> "doc"]
OneRevision == [m \in OneMessage |-> 1]
=============================================================================
