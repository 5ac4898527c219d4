--------------------------- MODULE MCReadPermits ---------------------------
(* Instances of ReadPermits for TLC. *)
EXTENDS ReadPermits, TLC

CONSTANTS p1, r1, r2

\* A buffered read of both owners beside a gateway stream of the first one.
StreamKind == r1 :> "buffered" @@ r2 :> "output"
StreamReadSet == r1 :> {1, 2} @@ r2 :> {1}

\* One gateway control response of the first owner.
ControlKind == r1 :> "control"
ControlReadSet == r1 :> {1}

=============================================================================
