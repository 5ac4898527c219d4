------------------------------ MODULE WorkQueue ------------------------------
(***************************************************************************)
(* What the outbox promises to the owners of its messages, without tables, *)
(* leases, workers or clocks: an item, once submitted, stays open until it *)
(* is done, given up or withdrawn; it is done only when the delivery        *)
(* attempt in progress has reached its target; an owner may revive what was *)
(* given up, nothing else is reopened; while an erasure is in progress      *)
(* nothing happens but the erasure, which leaves no item behind.            *)
(***************************************************************************)

CONSTANT Items

VARIABLES
    state,      \* state[i]: what has become of an item
    delivered,  \* items whose attempt in progress has reached its target
    erasing     \* an erasure is in progress

vars == <<state, delivered, erasing>>

TypeOK ==
    /\ state \in [Items -> {"absent", "open", "applied", "dead", "canceled", "erased"}]
    /\ delivered \subseteq Items
    /\ erasing \in BOOLEAN

Init ==
    /\ state = [i \in Items |-> "absent"]
    /\ delivered = {}
    /\ erasing = FALSE

Move(i, from, to) ==
    /\ ~erasing /\ UNCHANGED erasing
    /\ state[i] \in from
    /\ state' = [state EXCEPT ![i] = to]

Submit(i) == Move(i, {"absent"}, "open") /\ UNCHANGED delivered

\* A new attempt begins: what earlier ones delivered no longer counts for it.
Attempt(S) ==
    /\ ~erasing
    /\ \A i \in S : state[i] = "open"
    /\ delivered' = delivered \ S
    /\ UNCHANGED <<state, erasing>>

\* The target has the effect.  It may come late, for an item already settled,
\* and more than once.
Deliver(i) ==
    /\ delivered' = delivered \union {i}
    /\ UNCHANGED <<state, erasing>>

\* The delivery and its record may be one transaction.
Complete(i) ==
    /\ Move(i, {"open"}, "applied")
    /\ delivered' \in {delivered, delivered \union {i}}
    /\ i \in delivered'

GiveUp(i) == Move(i, {"open"}, "dead") /\ UNCHANGED delivered

Revive(i) == Move(i, {"dead"}, "open") /\ UNCHANGED delivered

Withdraw(i) == Move(i, {"open", "dead"}, "canceled") /\ UNCHANGED delivered

BeginErasure ==
    /\ ~erasing
    /\ erasing' = TRUE
    /\ UNCHANGED <<state, delivered>>

Erase ==
    /\ erasing
    /\ state' = [i \in Items |-> IF state[i] = "absent" THEN "absent" ELSE "erased"]
    /\ UNCHANGED <<delivered, erasing>>

EndErasure ==
    /\ erasing
    /\ \A i \in Items : state[i] \in {"absent", "erased"}
    /\ erasing' = FALSE
    /\ UNCHANGED <<state, delivered>>

Next ==
    \/ \E i \in Items : \/ Submit(i) \/ Deliver(i) \/ Complete(i) \/ GiveUp(i)
                        \/ Revive(i) \/ Withdraw(i)
    \/ \E S \in SUBSET Items : Attempt(S)
    \/ BeginErasure \/ Erase \/ EndErasure

Spec == Init /\ [][Next]_vars

=============================================================================
