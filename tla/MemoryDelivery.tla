--------------------------- MODULE MemoryDelivery ---------------------------
(***************************************************************************)
(* How one remembered fact reaches the Nocturne sidecar, is corrected there  *)
(* and is deleted: the delivery and attempt heads in PostgreSQL, the outbox  *)
(* consumer, the reconcilers of unknown attempts and of expired deliveries,  *)
(* the sweeper of expired deliveries, and a sidecar that has no idempotency  *)
(* and may carry out a request after its caller has given up.                *)
(*                                                                         *)
(* A transaction is one step, a call of the sidecar is one step.  Deliveries *)
(* and attempts are numbered in the order they are created, so the current   *)
(* delivery of the record and the current attempt of a delivery are the last *)
(* ones.  A lease token is the actor that holds it: every actor is one loop. *)
(* Privacy gates and generations are in PrivacyErasure.                      *)
(***************************************************************************)
EXTENDS Naturals

CONSTANTS
    MaxDeliveries,  \* bound: the admission and the corrections or the delete after it
    MaxAttempts,    \* bound: attempts of all deliveries
    MaxEpochs,      \* bound: boots of the sidecar
    MaxFaults       \* bound: failed calls, crashes, late leases, dead letters

Deliveries == 1..MaxDeliveries
Attempts == 1..MaxAttempts
Nothing == 0

\* The outbox worker's Consumer, AttemptReconciler and ExpiryReconciler.
Actors == {"consumer", "attempts", "expiry"}

ASSUME MemoryAssumption ==
    /\ MaxDeliveries \in Nat \ {0} /\ MaxAttempts \in Nat \ {0}
    /\ MaxEpochs \in Nat \ {0} /\ MaxFaults \in Nat

VARIABLES
    del,        \* del[k]: a delivery: kind, status, whether valid_until has passed
    msg,        \* msg[k]: its outbox message
    att,        \* att[a]: an attempt: delivery, state, lease, boot epoch recorded
    row,        \* row[a]: the expiry reconciliation of attempt a
    plan,       \* plan[k]: the node of the stored delete plan
    remote,     \* the sidecar: epoch, node at the path, contents, calls under way
    actor,      \* actor[w]: where loop w is, its attempt, the epoch it observed
    unrecorded, \* a mutation ran in a boot its attempt does not record
    faults      \* faults so far

vars == <<del, msg, att, row, plan, remote, actor, unrecorded, faults>>

NoDelivery == [kind |-> "none", status |-> "none", late |-> FALSE]
NoAttempt == [of |-> Nothing, state |-> "none", holder |-> "nobody",
              live |-> FALSE, epoch |-> Nothing]
NoRow == [status |-> "none", holder |-> "nobody", live |-> FALSE]
Idle == [pc |-> "idle", a |-> Nothing, obs |-> Nothing]

\* The admission has committed; nothing has been sent.
Init ==
    /\ del = [k \in Deliveries |-> IF k = 1
                THEN [kind |-> "admit", status |-> "queued", late |-> FALSE]
                ELSE NoDelivery]
    /\ msg = [k \in Deliveries |-> IF k = 1 THEN "open" ELSE "none"]
    /\ att = [a \in Attempts |-> NoAttempt]
    /\ row = [a \in Attempts |-> NoRow]
    /\ plan = [k \in Deliveries |-> Nothing]
    \* a node is named after the attempt that created it
    /\ remote = [epoch |-> 1, linked |-> Nothing, inflight |-> {},
                 nodes |-> [a \in Attempts |-> Nothing]]
    /\ actor = [w \in Actors |-> Idle]
    /\ unrecorded = FALSE
    /\ faults = 0

Fault == faults < MaxFaults /\ faults' = faults + 1

----------------------------------------------------------------------------
(* The rows.                                                               *)

\* The revision a delivery is about: a delete carries the hash of the record.
Content(k) == IF del[k].kind = "delete" THEN k - 1 ELSE k

Lineage(k) == del[k].status # "none"
              /\ \A j \in Deliveries : del[j].status # "none" => j <= k

Active(k) == del[k].status \in {"queued", "delete_pending"}

\* currentForMutation: a delete has no deadline here.
ForMutation(k) == Lineage(k) /\ Active(k) /\ (del[k].kind = "delete" \/ ~del[k].late)

Of(k) == {a \in Attempts : att[a].of = k}
IsCurrent(a) == \A b \in Of(att[a].of) : b <= a
Open(a) == att[a].state \in {"prepared", "sent", "unknown", "reconciling"}
WasSent(a) == att[a].epoch # Nothing

\* Slip: the lease stays with the attempt that is over.
ClosedKeepingLease(t, state) == [t EXCEPT !.state = state]

Closed(t, state) == [t EXCEPT !.state = state, !.holder = "nobody", !.live = FALSE]

\* expireDeliveryLocked: an attempt that was ever marked sent leaves a
\* reconciliation, and the delivery is expired only without one.
ExpireDelivery(k) ==
    /\ del' = [del EXCEPT ![k].status = IF \E a \in Of(k) : WasSent(a)
                                        THEN "expiry_reconciling" ELSE "expired"]
    /\ msg' = [msg EXCEPT ![k] = "closed"]
    /\ row' = [a \in Attempts |-> IF a \in Of(k) /\ WasSent(a) /\ row[a] = NoRow
                                  THEN [NoRow EXCEPT !.status = "pending"]
                                  ELSE row[a]]
    /\ att' = [a \in Attempts |-> IF a \in Of(k) /\ Open(a)
                                  THEN Closed(att[a], "fenced") ELSE att[a]]

\* The common head of TransitionAttempt and FinalizeAttempt: the holder of an
\* attempt of an expired delivery expires it, whatever it asked for ...
Lapses(w, from) ==
    LET a == actor[w].a
    IN  /\ IsCurrent(a) /\ att[a].holder = w /\ att[a].state \in from
        /\ del[att[a].of].status = "queued" /\ del[att[a].of].late

\* ... and else needs its lease and a current delivery.
May(w, from) ==
    LET a == actor[w].a
    IN  /\ IsCurrent(a) /\ att[a].holder = w /\ att[a].state \in from
        /\ att[a].live /\ ForMutation(att[a].of)

Goto(w, pc) == actor' = [actor EXCEPT ![w].pc = pc]
Return(w) == actor' = [actor EXCEPT ![w] = Idle]
At(w, pc) == actor[w].pc = pc
Its(w) == att[actor[w].a].of

\* The path holds what the delivery is about (content hash comparison).
\* Slip: any node at the path will do.
HoldsSomething(k) == remote.linked # Nothing

Holds(k) == remote.linked # Nothing /\ remote.nodes[remote.linked] = Content(k)
Absent == remote.linked = Nothing

----------------------------------------------------------------------------
(* The user, and the deadline.                                             *)

\* lockRecordCorrectionBase: only an applied record, under its row lock.
Amend(k, kind, status) ==
    /\ k - 1 \in Deliveries /\ Lineage(k - 1) /\ del[k - 1].status = "applied"
    /\ del' = [del EXCEPT ![k] = [kind |-> kind, status |-> status, late |-> FALSE]]
    /\ msg' = [msg EXCEPT ![k] = "open"]
    /\ UNCHANGED <<att, row, plan, remote, actor, unrecorded, faults>>

InsertRecordCorrection(k) == Amend(k, "correction", "queued")
DeleteRecord(k) == Amend(k, "delete", "delete_pending")

\* ReplayDelivery: a dead letter of a current delivery; attempts nobody
\* reconciles lose their lease.
Replay(k) ==
    /\ msg[k] = "dead" /\ ForMutation(k)
    /\ ~ \E a \in Of(k) : att[a].state = "reconciling" /\ att[a].live
    /\ msg' = [msg EXCEPT ![k] = "open"]
    /\ att' = [a \in Attempts |-> IF a \in Of(k) /\ Open(a)
                                  THEN [att[a] EXCEPT !.live = FALSE] ELSE att[a]]
    /\ UNCHANGED <<del, row, plan, remote, actor, unrecorded, faults>>

\* valid_until passes.
Deadline(k) ==
    /\ Active(k) /\ ~del[k].late
    /\ del' = [del EXCEPT ![k].late = TRUE]
    /\ UNCHANGED <<msg, att, row, plan, remote, actor, unrecorded, faults>>

\* ExpireDeliveries: admissions and corrections only.
ExpireDeliveries(k) ==
    /\ Lineage(k) /\ del[k].status = "queued" /\ del[k].late
    /\ ExpireDelivery(k)
    /\ UNCHANGED <<plan, remote, actor, unrecorded, faults>>

----------------------------------------------------------------------------
(* The outbox message.                                                     *)

\* LoadDeliveryWork answers Apply only for a current delivery in time.
Applicable(k) == Lineage(k) /\ Active(k) /\ ~del[k].late

\* CanApply cancels the message, or Apply finds its delivery applied already; a late
\* admission or correction is a permanent error (validateMessageWork) and a dead letter.
CloseMessage(k) ==
    /\ msg[k] = "open" /\ ~Applicable(k) /\ At("consumer", "idle")
    /\ msg' = [msg EXCEPT ![k] = IF del[k].late /\ del[k].kind # "delete"
                                 THEN "dead" ELSE "closed"]
    /\ UNCHANGED <<del, att, row, plan, remote, actor, unrecorded, faults>>

\* The attempts of the message are used up.
DeadLetter(k) ==
    /\ msg[k] = "open" /\ Active(k) /\ At("consumer", "idle") /\ Fault
    /\ msg' = [msg EXCEPT ![k] = "dead"]
    /\ UNCHANGED <<del, att, row, plan, remote, actor, unrecorded>>

----------------------------------------------------------------------------
(* Claims.                                                                 *)

\* ClaimAttempt of a delivery without an attempt: only the consumer gets here.
ClaimNew(a) ==
    \E k \in Deliveries :
        /\ At("consumer", "idle") /\ msg[k] = "open" /\ Applicable(k)
        /\ Of(k) = {} /\ att[a] = NoAttempt
        /\ \A b \in Attempts : b < a => att[b] # NoAttempt
        /\ att' = [att EXCEPT ![a] = [of |-> k, state |-> "prepared",
                     holder |-> "consumer", live |-> TRUE, epoch |-> Nothing]]
        /\ actor' = [actor EXCEPT !["consumer"] = [pc |-> "caps", a |-> a, obs |-> Nothing]]
        /\ UNCHANGED <<del, msg, row, plan, remote, unrecorded, faults>>

\* What a new holder may do with an attempt whose lease has run out.
Reclaimed(a) == IF att[a].state = "prepared" THEN "prepared" ELSE "reconciling"

\* ClaimAttempt of an open attempt, by the consumer for its message or by
\* ClaimUnknownAttempt for one that was sent.
ClaimOpen(w, a) ==
    LET k == att[a].of IN
    /\ w \in {"consumer", "attempts"} /\ At(w, "idle")
    /\ Open(a) /\ ~att[a].live /\ Applicable(k)
    /\ w = "consumer" => msg[k] = "open"
    /\ w = "attempts" => att[a].state # "prepared" /\ del[k].status = "queued"
    /\ att' = [att EXCEPT ![a].state = Reclaimed(a), ![a].holder = w, ![a].live = TRUE]
    /\ actor' = [actor EXCEPT ![w] =
                   [pc |-> CASE Reclaimed(a) = "prepared" -> "caps"
                             [] Reclaimed(a) # "prepared" /\ del[k].kind = "delete" -> "plan"
                             [] OTHER -> "look",
                    a |-> a, obs |-> Nothing]]
    /\ UNCHANGED <<del, msg, row, plan, remote, unrecorded, faults>>

----------------------------------------------------------------------------
(* Consumer.Apply and send.                                                *)

Capabilities(w) ==
    /\ At(w, "caps")
    /\ actor' = [actor EXCEPT ![w].pc = "mark", ![w].obs = remote.epoch]
    /\ UNCHANGED <<del, msg, att, row, plan, remote, unrecorded, faults>>

\* prepared -> sent.  TransitionAttempt answers an expired delivery with the
\* fenced attempt and no error; the caller looks at the error only, and goes on.
MarkSent(w) ==
    LET a == actor[w].a IN
    /\ At(w, "mark")
    /\ \/ /\ Lapses(w, {"prepared"})
          /\ ExpireDelivery(Its(w))
          /\ Goto(w, "preflight")
       \/ /\ May(w, {"prepared"})
          /\ att' = [att EXCEPT ![a].state = "sent", ![a].epoch = actor[w].obs]
          /\ Goto(w, IF del[Its(w)].kind = "delete" THEN "plan" ELSE "preflight")
          /\ UNCHANGED <<del, msg, row>>
       \/ /\ ~Lapses(w, {"prepared"}) /\ ~May(w, {"prepared"})
          /\ Return(w)
          /\ UNCHANGED <<del, msg, att, row>>
    /\ UNCHANGED <<plan, remote, unrecorded, faults>>

\* An admission needs an empty path, a correction the revision before it.
Sendable(k) == IF del[k].kind = "admit" THEN Absent
               ELSE ~Absent /\ remote.nodes[remote.linked] = k - 1

\* EnsureParent and the read of the path.
Preflight(w) ==
    /\ At(w, "preflight")
    /\ Goto(w, CASE Holds(Its(w)) -> "applied"
                 [] ~Holds(Its(w)) /\ Sendable(Its(w)) -> "send"
                 [] OTHER -> "reject")
    /\ UNCHANGED <<del, msg, att, row, plan, remote, unrecorded, faults>>

\* CreateNode or UpdateNode leaves for the boot that is running now.
Send(w) ==
    LET a == actor[w].a IN
    /\ At(w, "send")
    /\ remote' = [remote EXCEPT !.inflight = @ \union {a}]
    /\ unrecorded' = (unrecorded \/ att[a].epoch # remote.epoch)
    /\ Goto(w, "waiting")
    /\ UNCHANGED <<del, msg, att, row, plan, faults>>

\* Whoever still waits for the answer to attempt a hears it.
Answered(a, pc) == actor' = [w \in Actors |-> IF At(w, "waiting") /\ actor[w].a = a
                                              THEN [actor[w] EXCEPT !.pc = pc]
                                              ELSE actor[w]]

\* The sidecar carries a mutation out, now or long after: a create fails on a
\* path that is taken, an update on one that is empty.
Land(a) ==
    LET k == att[a].of
        rest == remote.inflight \ {a}
    IN  /\ a \in remote.inflight
        /\ \/ /\ del[k].kind = "admit" /\ Absent
              /\ remote' = [remote EXCEPT !.inflight = rest, !.linked = a,
                                          !.nodes[a] = Content(k)]
              /\ Answered(a, "readback")
           \/ /\ del[k].kind = "correction" /\ ~Absent
              /\ remote' = [remote EXCEPT !.inflight = rest,
                                          !.nodes[remote.linked] = Content(k)]
              /\ Answered(a, "readback")
           \/ /\ (del[k].kind = "admit") # Absent
              /\ remote' = [remote EXCEPT !.inflight = rest]
              /\ \/ Answered(a, "unknown")
                 \/ del[k].kind = "admit" /\ Answered(a, "reject")
        /\ UNCHANGED <<del, msg, att, row, plan, unrecorded, faults>>

Readback(w) ==
    /\ At(w, "readback")
    /\ Goto(w, IF Holds(Its(w)) THEN "applied" ELSE "unknown")
    /\ UNCHANGED <<del, msg, att, row, plan, remote, unrecorded, faults>>

\* finalizeApplied, finalizePermanent and the end of sendDelete: FinalizeAttempt.
Finalize(w, pc, status) ==
    LET a == actor[w].a
        from == {"sent", "reconciling"}
    IN  /\ At(w, pc)
        /\ \/ /\ May(w, from)
              /\ del' = [del EXCEPT ![Its(w)].status = status]
              /\ att' = [att EXCEPT ![a] = Closed(@, "confirmed")]
              /\ UNCHANGED <<msg, row>>
           \/ Lapses(w, from) /\ ExpireDelivery(Its(w))
           \* finalizeApplied has loaded the delivery again before
           \/ ~May(w, from) /\ UNCHANGED <<del, msg, att, row>>
        /\ Return(w)
        /\ UNCHANGED <<plan, remote, unrecorded, faults>>

FinalizeApplied(w) == Finalize(w, "applied", "applied")
FinalizeRejected(w) == Finalize(w, "reject", "permanently_rejected")
FinalizeDeleted(w) == w # "expiry" /\ Finalize(w, "purged", "deleted")

\* sent -> unknown, after a call whose effect is not known.
MarkUnknown(w) ==
    LET a == actor[w].a IN
    /\ At(w, "unknown")
    /\ \/ Lapses(w, {"sent"}) /\ ExpireDelivery(Its(w))
       \/ /\ May(w, {"sent"})
          /\ att' = [att EXCEPT ![a].state = "unknown"]
          /\ UNCHANGED <<del, msg, row>>
       \/ /\ ~Lapses(w, {"sent"}) /\ ~May(w, {"sent"})
          /\ UNCHANGED <<del, msg, att, row>>
    /\ Return(w)
    /\ UNCHANGED <<plan, remote, unrecorded, faults>>

----------------------------------------------------------------------------
(* Consumer.reconcile, and the same look of the ExpiryReconciler.          *)

LookEpoch(w) ==
    /\ At(w, "look")
    /\ actor' = [actor EXCEPT ![w].pc = "first", ![w].obs = remote.epoch]
    /\ UNCHANGED <<del, msg, att, row, plan, remote, unrecorded, faults>>

\* Slip: absence counts in the boot of the attempt too.
NewBootAlways(w) == TRUE

\* Absence counts only in another boot than the one the attempt was sent in.
NewBoot(w) == actor[w].obs # att[actor[w].a].epoch

\* The first read of the path.
FirstRead(w) ==
    /\ At(w, "first")
    /\ \/ Holds(Its(w)) /\ Goto(w, IF w = "expiry" THEN "found" ELSE "applied")
       \/ /\ ~Holds(Its(w)) /\ ~Absent
          /\ IF w = "expiry" THEN Goto(w, "conflict") ELSE Return(w)
       \/ Absent /\ (IF NewBoot(w) THEN Goto(w, "second") ELSE Return(w))
    /\ UNCHANGED <<del, msg, att, row, plan, remote, unrecorded, faults>>

\* The second read; only the consumer accepts a node that has appeared.
SecondRead(w) ==
    /\ At(w, "second")
    /\ \/ Absent /\ Goto(w, IF w = "expiry" THEN "absent" ELSE "authorize")
       \/ Holds(Its(w)) /\ w # "expiry" /\ Goto(w, "applied")
       \/ ~Absent /\ (Holds(Its(w)) => w = "expiry") /\ Return(w)
    /\ UNCHANGED <<del, msg, att, row, plan, remote, unrecorded, faults>>

\* AuthorizeAttemptRetry: the old attempt is fenced, a new one is prepared under
\* the epoch observed before the two reads.
AuthorizeRetry(w) ==
    LET a == actor[w].a
        fresh == {b \in Attempts : att[b] = NoAttempt}
    IN  /\ At(w, "authorize")
        /\ IF May(w, {"reconciling"})
           THEN \E b \in fresh :
                  /\ \A c \in fresh : b <= c
                  /\ att' = [att EXCEPT
                               ![a] = Closed(@, "fenced"),
                               ![b] = [of |-> att[a].of, state |-> "prepared",
                                       holder |-> w, live |-> TRUE, epoch |-> Nothing]]
                  /\ actor' = [actor EXCEPT ![w].pc = "mark", ![w].a = b]
           ELSE Return(w) /\ UNCHANGED att
        /\ UNCHANGED <<del, msg, row, plan, remote, unrecorded, faults>>

----------------------------------------------------------------------------
(* Purger.purge, for a delete and for an expired delivery.                 *)

\* sendDelete marks the attempt unknown; the ExpiryReconciler returns.
PurgeFailed(w) == IF w = "expiry" THEN Return(w) ELSE Goto(w, "unknown")

\* The plan is stored before the first mutation, once for a delivery.
SavePlan(w) ==
    LET k == Its(w) IN
    /\ At(w, "plan")
    /\ \/ plan[k] # Nothing /\ Goto(w, "unlink") /\ UNCHANGED plan
       \/ /\ plan[k] = Nothing /\ Holds(k) /\ Lineage(k)
          /\ del[k].status \in {"expiry_reconciling", "delete_pending"}
          /\ plan' = [plan EXCEPT ![k] = remote.linked]
          /\ Goto(w, "unlink")
       \/ /\ plan[k] = Nothing
          /\ ~(Holds(k) /\ Lineage(k) /\ del[k].status \in {"expiry_reconciling", "delete_pending"})
          /\ PurgeFailed(w)
          /\ UNCHANGED plan
    /\ UNCHANGED <<del, msg, att, row, remote, unrecorded, faults>>

\* DeletePath takes away whatever is at the path; the node is an orphan now.
Unlink(w) ==
    /\ At(w, "unlink")
    /\ remote' = [remote EXCEPT !.linked = Nothing]
    /\ Goto(w, "erase")
    /\ UNCHANGED <<del, msg, att, row, plan, unrecorded, faults>>

\* PermanentDelete of every version of the node of the plan.
Erase(w) ==
    /\ At(w, "erase")
    /\ remote' = [remote EXCEPT !.nodes[plan[Its(w)]] = Nothing]
    /\ Goto(w, "verify")
    /\ UNCHANGED <<del, msg, att, row, plan, unrecorded, faults>>

\* verifyAbsent: the path is empty, the node of the plan has no version left.
VerifyAbsent(w) ==
    /\ At(w, "verify")
    /\ IF Absent /\ remote.nodes[plan[Its(w)]] = Nothing
       THEN Goto(w, "purged") ELSE PurgeFailed(w)
    /\ UNCHANGED <<del, msg, att, row, plan, remote, unrecorded, faults>>

----------------------------------------------------------------------------
(* ExpiryReconciler.RunOnce.                                               *)

\* Slip: a reconciliation whose worker has died is not taken up again.
UnclaimedPending(a) == row[a].status = "pending"

\* Nobody works on the reconciliation.
Unclaimed(a) ==
    \/ row[a].status = "pending"
    \/ row[a].status \in {"reconciling", "delete_pending"} /\ ~row[a].live

\* One at a time of a delivery; one that was begun comes before a new one.
ClaimExpiry(a) ==
    LET k == att[a].of
        status == IF row[a].status = "delete_pending" THEN "delete_pending" ELSE "reconciling"
    IN  /\ At("expiry", "idle") /\ row[a] # NoRow /\ Unclaimed(a)
        /\ \A b \in Of(k) \ {a} : ~row[b].live
        /\ row[a].status = "pending" =>
             \A b \in Of(k) : Unclaimed(b) => row[b].status \in {"none", "pending"} /\ a <= b
        /\ Lineage(k) /\ del[k].status = "expiry_reconciling"
        /\ row' = [row EXCEPT ![a] = [status |-> status, holder |-> "expiry", live |-> TRUE]]
        /\ actor' = [actor EXCEPT !["expiry"] =
                       [pc |-> IF status = "delete_pending" THEN "plan" ELSE "look",
                        a |-> a, obs |-> Nothing]]
        /\ UNCHANGED <<del, msg, att, plan, remote, unrecorded, faults>>

\* mutateReconciliation: the holder of a live lease on a delivery that still expires.
HoldsRow(status) ==
    LET a == actor["expiry"].a
    IN  row[a] = [status |-> status, holder |-> "expiry", live |-> TRUE]
        /\ del[att[a].of].status = "expiry_reconciling"

\* The content is there: TransitionExpiryReconciliation to delete_pending.
ExpiryFound ==
    /\ At("expiry", "found")
    /\ IF HoldsRow("reconciling")
       THEN /\ row' = [row EXCEPT ![actor["expiry"].a].status = "delete_pending"]
            /\ Goto("expiry", "plan")
       ELSE Return("expiry") /\ UNCHANGED row
    /\ UNCHANGED <<del, msg, att, plan, remote, unrecorded, faults>>

\* FinalizeExpiryReconciliation: the delivery is expired with its last row.
FinalizeExpiry(pc, from, status) ==
    LET a == actor["expiry"].a
        k == att[a].of
        settled(b) == row'[b].status \in {"none", "absence_verified", "verified"}
    IN  /\ At("expiry", pc)
        /\ IF HoldsRow(from)
           THEN /\ row' = [row EXCEPT ![a] = [NoRow EXCEPT !.status = status]]
                /\ del' = [del EXCEPT ![k].status = IF \A b \in Of(k) : settled(b)
                                                    THEN "expired" ELSE @]
           ELSE UNCHANGED <<row, del>>
        /\ Return("expiry")
        /\ UNCHANGED <<msg, att, plan, remote, unrecorded, faults>>

ExpiryPurged == FinalizeExpiry("purged", "delete_pending", "verified")
ExpiryAbsent == FinalizeExpiry("absent", "reconciling", "absence_verified")
ExpiryConflict == FinalizeExpiry("conflict", "reconciling", "conflict")

----------------------------------------------------------------------------
(* What fails.                                                             *)

\* ReleasePreparedAttempt: the capabilities could not be read.
CapabilitiesFail(w) ==
    LET a == actor[w].a IN
    /\ At(w, "caps") /\ Fault
    /\ att' = IF IsCurrent(a) /\ att[a].holder = w /\ att[a].state = "prepared"
              THEN [att EXCEPT ![a].live = FALSE] ELSE att
    /\ Return(w)
    /\ UNCHANGED <<del, msg, row, plan, remote, unrecorded>>

\* A call times out or the connection is lost; a mutation may still be under way.
CallFails(w) ==
    /\ Fault
    /\ \/ actor[w].pc \in {"preflight", "send", "waiting", "readback"} /\ Goto(w, "unknown")
       \/ actor[w].pc \in {"look", "first", "second"} /\ Return(w)
       \/ actor[w].pc \in {"plan", "unlink", "erase", "verify"} /\ PurgeFailed(w)
    /\ UNCHANGED <<del, msg, att, row, plan, remote, unrecorded>>

\* afterMutationError of a 401, 403 or 422: the delivery is rejected for good.
CallRejected(w) ==
    /\ Fault /\ actor[w].pc \in {"preflight", "send", "readback"}
    /\ Goto(w, "reject")
    /\ UNCHANGED <<del, msg, att, row, plan, remote, unrecorded>>

\* A lease runs out: in time when nobody works under it, else it is a fault.
Working(w, a) == ~At(w, "idle") /\ actor[w].a = a

LeaseRunsOut(a) ==
    /\ \/ /\ att[a].live
          /\ att' = [att EXCEPT ![a].live = FALSE]
          /\ IF Working(att[a].holder, a) THEN Fault ELSE UNCHANGED faults
          /\ UNCHANGED row
       \/ /\ row[a].live
          /\ row' = [row EXCEPT ![a].live = FALSE]
          /\ IF Working("expiry", a) THEN Fault ELSE UNCHANGED faults
          /\ UNCHANGED att
    /\ UNCHANGED <<del, msg, plan, remote, actor, unrecorded>>

\* The sidecar restarts under a new boot epoch and forgets what was under way.
Restart ==
    /\ remote.epoch < MaxEpochs
    /\ remote' = [remote EXCEPT !.epoch = @ + 1, !.inflight = {}]
    /\ actor' = [w \in Actors |-> IF At(w, "waiting")
                                  THEN [actor[w] EXCEPT !.pc = "unknown"] ELSE actor[w]]
    /\ UNCHANGED <<del, msg, att, row, plan, unrecorded, faults>>

\* The server process dies and starts again.
Crash ==
    /\ \E w \in Actors : ~At(w, "idle")
    /\ Fault
    /\ actor' = [w \in Actors |-> Idle]
    /\ UNCHANGED <<del, msg, att, row, plan, remote, unrecorded>>

----------------------------------------------------------------------------
(* The specification.                                                      *)

Work(w) ==
    \/ Capabilities(w) \/ MarkSent(w) \/ Preflight(w) \/ Send(w) \/ Readback(w)
    \/ FinalizeApplied(w) \/ FinalizeRejected(w) \/ FinalizeDeleted(w) \/ MarkUnknown(w)
    \/ LookEpoch(w) \/ FirstRead(w) \/ SecondRead(w) \/ AuthorizeRetry(w)
    \/ SavePlan(w) \/ Unlink(w) \/ Erase(w) \/ VerifyAbsent(w)

Expiry == (\E a \in Attempts : ClaimExpiry(a))
          \/ ExpiryFound \/ ExpiryPurged \/ ExpiryAbsent \/ ExpiryConflict

User == \E k \in Deliveries :
            InsertRecordCorrection(k) \/ DeleteRecord(k) \/ Replay(k) \/ Deadline(k)

Messages == \E k \in Deliveries : CloseMessage(k) \/ DeadLetter(k)

Claims == \E a \in Attempts : ClaimNew(a) \/ \E w \in Actors : ClaimOpen(w, a)

Faults == \/ \E w \in Actors : CapabilitiesFail(w) \/ CallFails(w) \/ CallRejected(w)
          \/ Restart \/ Crash

Next ==
    \/ User \/ Messages \/ Claims \/ Expiry \/ Faults
    \/ \E w \in Actors : Work(w)
    \/ \E k \in Deliveries : ExpireDeliveries(k)
    \/ \E a \in Attempts : Land(a) \/ LeaseRunsOut(a)

\* The loops keep running, the sweeper sweeps, a lease that nobody works under
\* runs out and the sidecar finishes what it was sent.
Fairness ==
    /\ \A w \in Actors : WF_vars(Work(w))
    /\ WF_vars(Expiry)
    /\ \A k \in Deliveries : WF_vars(ExpireDeliveries(k))
    /\ \A a \in Attempts : WF_vars(Land(a)) /\ WF_vars(LeaseRunsOut(a) /\ UNCHANGED faults)

Spec == Init /\ [][Next]_vars /\ Fairness

----------------------------------------------------------------------------
(* Properties.                                                             *)

TypeOK ==
    /\ del \in [Deliveries -> [kind : {"none", "admit", "correction", "delete"},
         status : {"none", "queued", "delete_pending", "applied", "permanently_rejected",
                   "expiry_reconciling", "expired", "deleted"},
         late : BOOLEAN]]
    /\ msg \in [Deliveries -> {"none", "open", "dead", "closed"}]
    /\ \A a \in Attempts :
         /\ att[a] \in [of : Deliveries \union {Nothing},
              state : {"none", "prepared", "sent", "unknown", "reconciling",
                       "confirmed", "fenced"},
              holder : Actors \union {"nobody"}, live : BOOLEAN, epoch : 0..MaxEpochs]
         \* memory_delivery_attempt_lease_shape and _send_shape
         /\ Open(a) = (att[a].holder # "nobody")
         /\ att[a].state \in {"sent", "unknown", "reconciling", "confirmed"} => WasSent(a)
         /\ att[a].state = "prepared" => ~WasSent(a)
    /\ row \in [Attempts -> [status : {"none", "pending", "reconciling", "delete_pending",
                                       "absence_verified", "verified", "conflict"},
                             holder : {"nobody", "expiry"}, live : BOOLEAN]]
    /\ plan \in [Deliveries -> Attempts \union {Nothing}]
    /\ remote \in [epoch : 1..MaxEpochs, linked : Attempts \union {Nothing},
                   inflight : SUBSET Attempts,
                   nodes : [Attempts -> Deliveries \union {Nothing}]]
    /\ \A w \in Actors : actor[w].a \in Attempts \union {Nothing}
    /\ unrecorded \in BOOLEAN
    /\ faults \in 0..MaxFaults

\* The sidecar holds, or may still come to hold, the content of revision c.
Stored(c) == \/ \E n \in Attempts : remote.nodes[n] = c
             \/ \E a \in remote.inflight : Content(att[a].of) = c

\* A record that is reported applied is at its path with exactly its revision:
\* the readback, and no mutation of an earlier attempt that lands afterwards.
AppliedIsStored ==
    \A k \in Deliveries : Lineage(k) /\ del[k].status = "applied" =>
        remote.linked # Nothing /\ remote.nodes[remote.linked] = Content(k)

\* A delivery that is reported expired has left nothing: no copy of its content
\* and no call that can still create one.
ExpiredIsGone == \A k \in Deliveries : del[k].status = "expired" => ~Stored(Content(k))

\* Expired and deleted are final for the remote side as well, as long as every
\* mutation ran in the boot its attempt records.
SettledIsQuiet ==
    ~unrecorded =>
        /\ ExpiredIsGone
        /\ \A k \in Deliveries : del[k].status = "deleted" =>
             /\ Absent /\ remote.inflight = {}
             /\ \A n \in Attempts : remote.nodes[n] = Nothing

\* Content that arrives although its admission has expired is removed again,
\* across crashes and lost calls of the reconciler.
LateContentIsPurged ==
    \A k \in Deliveries :
        (del[k].kind = "admit" /\ del[k].status = "expiry_reconciling" /\ Holds(k))
            ~> (~Stored(Content(k)) \/ unrecorded)

\* A delete the user was told is queued has a message that is processed or can
\* be replayed.
DeletesHaveAnIntent ==
    \A k \in Deliveries : del[k].status = "delete_pending" => msg[k] \in {"open", "dead"}

=============================================================================
