-------------------------- MODULE MCPrivacyErasure --------------------------
(* Instances of PrivacyErasure for TLC. *)
EXTENDS PrivacyErasure, TLC

CONSTANTS identity, learning, memory, h1, w1, w2, d1

\* Identity first, learning with two stores, memory last, in the order of
\* LocalManagedSlots.
Slots == 1 :> identity @@ 2 :> learning @@ 3 :> learning @@ 4 :> memory

=============================================================================
