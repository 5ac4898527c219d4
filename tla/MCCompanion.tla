---------------------------- MODULE MCCompanion -----------------------------
(* One mentor run and one pairing that the panel uses too. *)
EXTENDS Companion

CONSTANTS o1, o2

MCPanelOps == <<{o2}>>

=============================================================================
