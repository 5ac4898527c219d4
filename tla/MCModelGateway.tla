--------------------------- MODULE MCModelGateway ---------------------------
(* An instance of ModelGateway for TLC. *)
EXTENDS ModelGateway

CONSTANTS p1, r1, r2, d1

OneProcess == [x \in Executions |-> p1]
OneDevice == [r \in Requests |-> d1]

\* A request and its retry, or a request and the next one of the same device.
RetryOrNext == {<<r1, r1>>, <<r1, r2>>}

\* The first call's upstream refuses an option once, so that it is tried again.
TwoThenOne == <<2, 1>>

=============================================================================
