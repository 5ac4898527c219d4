-------------------------- MODULE MCMemoryDelivery --------------------------
(* Instances of MemoryDelivery for TLC: all constants are numbers.         *)
EXTENDS MemoryDelivery

=============================================================================
