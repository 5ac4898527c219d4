---------------------------- MODULE MCMentorRun ----------------------------
(* Small instances of MentorRun for TLC: two processes with a worker each. *)
EXTENDS MentorRun, TLC

CONSTANTS r1, p1, p2, w1, w2, o1

MCProcOf == (w1 :> p1) @@ (w2 :> p2)
MCSession == [r \in Runs |-> "session"]
=============================================================================
