-------------------------- MODULE OutboxRefinement --------------------------
(* The proof that Outbox implements WorkQueue, for every number of         *)
(* messages and workers and every value of the parameters.                 *)
EXTENDS OutboxProofs

-----------------------------------------------------------------------------
(* Two facts about the rows that the mapping needs.                        *)

\* Only a scrub writes the redacted payload, and it cancels the row.
RedactedIsCanceled ==
  \A m \in Messages : rows[m].payload = "redacted" => rows[m].status = "canceled"

\* While the generation is closed every row belongs to an older one.
ClosedMeansOld ==
  \A m \in Messages : rows[m].status # "absent" =>
    /\ rows[m].generation <= gate.generation
    /\ ~gate.open => rows[m].generation < gate.generation

RInv == IInv /\ RedactedIsCanceled /\ ClosedMeansOld

-----------------------------------------------------------------------------
(* What the mapping makes of a row.                                        *)

\* No statement but the scrub touches the payload.
LEMMA KeepsPayload ==
  ASSUME NEW r \in Row, NEW n, NEW why
  PROVE  /\ MarkApplied(r).payload = r.payload
         /\ MarkFailed(r, TRUE, n).payload = r.payload
         /\ MarkFailed(r, FALSE, n).payload = r.payload
         /\ MarkDeferred(r, n).payload = r.payload
         /\ Canceled(r, why).payload = r.payload
         /\ Requeued(r, n).payload = r.payload
<1> USE DEF Row, Unleased
<1>1. MarkApplied(r).payload = r.payload
  BY DEF MarkApplied
<1>2. MarkFailed(r, TRUE, n).payload = r.payload /\ MarkFailed(r, FALSE, n).payload = r.payload
  BY DEF MarkFailed
<1>3. MarkDeferred(r, n).payload = r.payload
  BY DEF MarkDeferred
<1>4. Canceled(r, why).payload = r.payload
  BY DEF Canceled
<1>5. Requeued(r, n).payload = r.payload
  BY DEF Requeued
<1> QED
  BY <1>1, <1>2, <1>3, <1>4, <1>5

\* What callers see of a settled row.
LEMMA SettledItem ==
  ASSUME NEW r \in Row, r.payload # "redacted", NEW n, NEW why
  PROVE  /\ ItemState(MarkApplied(r)) = "applied"
         /\ ItemState(MarkFailed(r, TRUE, n)) = "dead"
         /\ ItemState(MarkFailed(r, FALSE, n)) = "open"
         /\ ItemState(MarkDeferred(r, n)) = "open"
         /\ ItemState(Canceled(r, why)) = "canceled"
         /\ ItemState(Requeued(r, n)) = "open"
BY KeepsPayload, SettledStatus DEF ItemState

\* A deferral and a cancel apply nothing and scrub nothing.
LEMMA DeferredOrCanceled ==
  ASSUME NEW r \in Row, r.payload # "redacted", NEW n, NEW why
  PROVE  /\ MarkDeferred(r, n).payload # "redacted"
         /\ MarkDeferred(r, n).status # "applied"
         /\ ItemState(MarkDeferred(r, n)) \in {"open", "canceled"}
         /\ Canceled(r, why).payload # "redacted"
         /\ Canceled(r, why).status # "applied"
         /\ ItemState(Canceled(r, why)) \in {"open", "canceled"}
BY SettledItem, KeepsPayload, SettledStatus

\* A scrubbed row is an erased item of the same generation.
LEMMA ScrubbedItem ==
  ASSUME NEW r \in Row
  PROVE  /\ ItemState(Redacted(r)) = "erased"
         /\ Redacted(r).payload = "redacted" /\ Redacted(r).status = "canceled"
         /\ Redacted(r).generation = r.generation
<1>1. Redacted(r).payload = "redacted" /\ Redacted(r).generation = r.generation
  BY DEF Redacted, Canceled, Unleased, Row
<1> QED
  BY <1>1, SettledStatus DEF ItemState

\* Writing one row that was not canceled moves one item.
LEMMA OneRow ==
  ASSUME RInv, NEW m \in Messages, NEW r, rows' = [rows EXCEPT ![m] = r],
         rows[m].status # "canceled", r.payload # "redacted"
  PROVE  /\ queueState' = [queueState EXCEPT ![m] = ItemState(r)]
         /\ queueState[m] = ItemState(rows[m])
         /\ RedactedIsCanceled'
<1>1. \A n \in Messages : rows'[n] = IF n = m THEN r ELSE rows[n]
  BY DEF RInv, IInv, TInv, TypeOK
<1>2. queueState' = [queueState EXCEPT ![m] = ItemState(r)]
  <2>1. queueState' = [n \in Messages |-> ItemState(rows'[n])]
    BY DEF queueState, ItemState
  <2>2. queueState = [n \in Messages |-> ItemState(rows[n])]
    BY DEF queueState
  <2>3. \A n \in Messages : ItemState(rows'[n]) = IF n = m THEN ItemState(r) ELSE ItemState(rows[n])
    BY <1>1
  <2> QED
    BY <2>1, <2>2, <2>3, Zenon
<1>3. RedactedIsCanceled'
  BY <1>1 DEF RInv, RedactedIsCanceled
<1> QED
  BY <1>2, <1>3 DEF queueState

\* Steps that leave rows, answers and the gate alone are not seen.
Unseen == UNCHANGED <<rows, answers, gate>>

\* ... and keep the mapping's part of the invariant.
LEMMA UnseenStep ==
  ASSUME RInv, Unseen
  PROVE  UNCHANGED Promise!vars /\ RedactedIsCanceled'
BY DEF Unseen, RInv, RedactedIsCanceled, Promise!vars, queueState, queueDelivered

\* An answer adds its message to the delivered ones, or changes nothing that is seen.
LEMMA AnswerSeen ==
  ASSUME TInv, NEW c \in Claimed, NEW A \in SUBSET {"delivered", "permanent"},
         answers' = Answered(c, A)
  PROVE  /\ queueDelivered' \in {queueDelivered, queueDelivered \cup {c.id}}
         /\ "delivered" \notin A => queueDelivered' = queueDelivered
         /\ "delivered" \in A /\ Current(c) => c.id \in queueDelivered'
<1>1. c.id \in Messages /\ answers \in [Messages -> SUBSET {"delivered", "permanent"}]
  BY DEF TInv, TypeOK, Claimed
<1>2. CASE Current(c)
  <2>1. answers' = [answers EXCEPT ![c.id] = @ \cup A]
    BY <1>2 DEF Answered, Current
  <2> QED
    BY <1>1, <1>2, <2>1 DEF queueDelivered
<1>3. CASE ~Current(c)
  BY <1>1, <1>3 DEF Answered, Current, queueDelivered
<1> QED
  BY <1>2, <1>3

-----------------------------------------------------------------------------
(* Every step is a step of the queue or is not seen.                       *)

Seen == [Promise!Next]_(Promise!vars) /\ RedactedIsCanceled'

\* One item moves along an edge of the queue.
LEMMA MoveSeen ==
  ASSUME RInv, NEW m \in Messages, NEW r, rows' = [rows EXCEPT ![m] = r],
         rows[m].status # "canceled", r.payload # "redacted",
         gate.open, gate' = gate, queueDelivered' = queueDelivered,
         \/ ItemState(rows[m]) = "absent" /\ ItemState(r) = "open"
         \/ ItemState(rows[m]) \in {"open", "dead"} /\ ItemState(r) = "canceled"
         \/ ItemState(rows[m]) = "open" /\ ItemState(r) = "dead"
         \/ ItemState(rows[m]) = "dead" /\ ItemState(r) = "open"
         \/ ItemState(rows[m]) = "open" /\ ItemState(r) = "open"
  PROVE  Seen
<1>1. /\ queueState' = [queueState EXCEPT ![m] = ItemState(r)]
      /\ queueState[m] = ItemState(rows[m])
      /\ RedactedIsCanceled'
  BY OneRow
<1>2. CASE ItemState(rows[m]) = "absent" /\ ItemState(r) = "open"
  <2>1. Promise!Submit(m)
    BY <1>1, <1>2 DEF Promise!Submit, Promise!Move
  <2> QED
    BY <1>1, <2>1 DEF Seen, Promise!Next
<1>3. CASE ItemState(rows[m]) \in {"open", "dead"} /\ ItemState(r) = "canceled"
  <2>1. Promise!Withdraw(m)
    BY <1>1, <1>3 DEF Promise!Withdraw, Promise!Move
  <2> QED
    BY <1>1, <2>1 DEF Seen, Promise!Next
<1>4. CASE ItemState(rows[m]) = "open" /\ ItemState(r) = "dead"
  <2>1. Promise!GiveUp(m)
    BY <1>1, <1>4 DEF Promise!GiveUp, Promise!Move
  <2> QED
    BY <1>1, <2>1 DEF Seen, Promise!Next
<1>5. CASE ItemState(rows[m]) = "dead" /\ ItemState(r) = "open"
  <2>1. Promise!Revive(m)
    BY <1>1, <1>5 DEF Promise!Revive, Promise!Move
  <2> QED
    BY <1>1, <2>1 DEF Seen, Promise!Next
<1>6. CASE ItemState(rows[m]) = "open" /\ ItemState(r) = "open"
  <2>1. queueState' = queueState
    BY <1>1, <1>6 DEF queueState
  <2> QED
    BY <1>1, <2>1 DEF Seen, Promise!vars
<1> QED
  BY <1>2, <1>3, <1>4, <1>5, <1>6

\* A row is marked applied when the attempt in progress has delivered it.
LEMMA CompleteSeen ==
  ASSUME RInv, NEW m \in Messages, rows' = [rows EXCEPT ![m] = MarkApplied(rows[m])],
         rows[m].status = "processing", gate.open, gate' = gate,
         queueDelivered' \in {queueDelivered, queueDelivered \cup {m}}, m \in queueDelivered'
  PROVE  Seen
<1>1. rows[m] \in Row /\ rows[m].payload # "redacted"
  BY DEF RInv, IInv, TInv, TypeOK, RedactedIsCanceled
<1>2. ItemState(MarkApplied(rows[m])) = "applied" /\ MarkApplied(rows[m]).payload # "redacted"
  BY <1>1, SettledItem, KeepsPayload
<1>3. ItemState(rows[m]) = "open"
  BY <1>1 DEF ItemState
<1>4. /\ queueState' = [queueState EXCEPT ![m] = "applied"]
      /\ queueState[m] = "open"
      /\ RedactedIsCanceled'
  BY <1>2, <1>3, OneRow
<1>5. Promise!Complete(m)
  BY <1>4 DEF Promise!Complete, Promise!Move
<1> QED
  BY <1>4, <1>5 DEF Seen, Promise!Next

\* Enqueue, cancel and requeue.
LEMMA OwnerSeen ==
  ASSUME RInv, NEW m \in Messages, OwnerStep(m)
  PROVE  Seen
<1>1. rows[m] \in Row /\ RowShape(rows[m])
  BY DEF RInv, IInv, TInv, TypeOK, RowShape
<1>2. gate.open /\ gate' = gate /\ queueDelivered' = queueDelivered
  BY DEF OwnerStep, Enqueue, RequeueDead, CancelByOwner, Writable, queueDelivered
<1>3. CASE Enqueue(m)
  <2>1. /\ rows' = [rows EXCEPT ![m] = NewMessage(clock, gate.generation)]
        /\ rows[m].status = "absent"
    BY <1>3 DEF Enqueue
  <2>2. /\ NewMessage(clock, gate.generation).payload = "content"
        /\ ItemState(NewMessage(clock, gate.generation)) = "open"
        /\ ItemState(rows[m]) = "absent"
    BY <2>1 DEF NewMessage, NoRow, ItemState
  <2> QED
    BY <1>2, <2>1, <2>2, MoveSeen
<1>4. CASE RequeueDead(m)
  <2>1. /\ rows' = [rows EXCEPT ![m] = Requeued(rows[m], clock)]
        /\ rows[m].status = "dead" /\ rows[m].payload = "content"
    BY <1>4 DEF RequeueDead
  <2>2. /\ Requeued(rows[m], clock).payload = "content"
        /\ ItemState(Requeued(rows[m], clock)) = "open"
        /\ ItemState(rows[m]) = "dead"
    BY <1>1, <2>1, KeepsPayload, SettledItem DEF ItemState
  <2> QED
    BY <1>2, <2>1, <2>2, MoveSeen
<1>5. ASSUME NEW why \in Dispositions, NEW p \in {rows[m].payload, "tombstone"}, CancelByOwner(m, why, p)
      PROVE  Seen
  <2> DEFINE r == [Canceled(rows[m], why) EXCEPT !.payload = p]
  <2>1. rows' = [rows EXCEPT ![m] = r] /\ rows[m].status \in {"pending", "dead", "processing"}
    BY <1>5 DEF CancelByOwner
  <2>2. rows[m].payload # "redacted" /\ ItemState(rows[m]) \in {"open", "dead"}
    BY <2>1 DEF RInv, RedactedIsCanceled, ItemState
  <2>4. r.status = "canceled" /\ r.payload = p
    BY <1>1 DEF Canceled, Unleased, Row
  <2>5. r.payload # "redacted" /\ ItemState(r) = "canceled"
    BY <2>2, <2>4 DEF ItemState
  <2> HIDE DEF r
  <2> QED
    BY <1>2, <2>1, <2>2, <2>5, MoveSeen
<1> QED
  BY <1>3, <1>4, <1>5 DEF OwnerStep, Dispositions

\* A claim starts new attempts of open items.
LEMMA ClaimSeen ==
  ASSUME RInv, NEW w \in Workers, Claim(w)
  PROVE  Seen
<1> DEFINE now == work[w].now
<1>1. PICK S \in Batches(now) :
        LET taken == IF Writable THEN S ELSE {}
        IN /\ rows' = [m \in Messages |-> IF m \in taken THEN ClaimedRow(m, now) ELSE rows[m]]
           /\ answers' = [m \in Messages |-> IF m \in taken THEN {} ELSE answers[m]]
  BY DEF Claim
<1> DEFINE taken == IF Writable THEN S ELSE {}
<1>2. taken \subseteq Messages /\ \A m \in taken : rows[m].status \in {"pending", "processing"}
  BY DEF Batches, Claimable
<1>3. \A m \in Messages : rows[m] \in Row /\ (rows[m].payload = "redacted" => rows[m].status = "canceled")
  BY DEF RInv, RedactedIsCanceled, IInv, TInv, TypeOK
<1>4. \A m \in taken : /\ ClaimedRow(m, now).payload = rows[m].payload
                       /\ ClaimedRow(m, now).status = "processing"
  BY <1>2, <1>3 DEF ClaimedRow, Row
<1>5. \A m \in taken : ItemState(rows[m]) = "open" /\ ItemState(ClaimedRow(m, now)) = "open"
  BY <1>2, <1>3, <1>4 DEF ItemState
<1>6. \A m \in Messages : rows'[m] = IF m \in taken THEN ClaimedRow(m, now) ELSE rows[m]
  BY <1>1
<1>7. \A m \in Messages : ItemState(rows'[m]) = ItemState(rows[m])
  BY <1>5, <1>6
<1>8. queueState' = queueState /\ \A m \in taken : queueState[m] = "open"
  <2>1. queueState' = [n \in Messages |-> ItemState(rows'[n])]
    BY DEF queueState, ItemState
  <2>2. queueState = [n \in Messages |-> ItemState(rows[n])]
    BY DEF queueState
  <2> QED
    BY <1>2, <1>5, <1>7, <2>1, <2>2, Zenon
<1>9. queueDelivered' = queueDelivered \ taken
  BY <1>1, <1>2 DEF queueDelivered
<1>10. RedactedIsCanceled'
  BY <1>2, <1>3, <1>4, <1>6 DEF RedactedIsCanceled
<1>11. gate' = gate /\ (taken # {} => gate.open)
  BY DEF Claim, Writable
<1> HIDE DEF taken, now
<1>12. CASE taken = {}
  BY <1>8, <1>9, <1>10, <1>11, <1>12 DEF Seen, Promise!vars
<1>13. CASE taken # {}
  <2>1. Promise!Attempt(taken)
    BY <1>8, <1>9, <1>11, <1>13 DEF Promise!Attempt
  <2> QED
    BY <1>2, <1>10, <2>1 DEF Seen, Promise!Next
<1> QED
  BY <1>12, <1>13

\* What the consumer answers is seen as a delivery or not at all.
LEMMA AnswersSeen ==
  ASSUME RInv, NEW w \in Workers, CanApply(w) \/ ApplySucceeds(w) \/ ApplyFails(w)
  PROVE  Seen
<1>0. TInv
  BY DEF RInv, IInv
<1>1. UNCHANGED <<rows, gate>>
  BY DEF CanApply, ApplySucceeds, ApplyFails
<1>2. \E c \in Claimed, A \in SUBSET {"delivered", "permanent"} : answers' = Answered(c, A)
  <2>1. CASE CanApply(w)
    BY <1>0, <2>1, ClaimedFacts DEF CanApply
  <2>2. CASE ApplySucceeds(w)
    BY <1>0, <2>2, ItemFacts DEF ApplySucceeds
  <2>3. CASE ApplyFails(w)
    <3>1. work[w].item \in Claimed
      BY <1>0, <2>3, ItemFacts DEF ApplyFails
    <3>2. PICK permanent \in BOOLEAN, reached \in BOOLEAN :
            answers' = Answered(work[w].item, (IF permanent THEN {"permanent"} ELSE {})
                                              \cup (IF reached THEN {"delivered"} ELSE {}))
      BY <2>3 DEF ApplyFails
    <3> QED
      BY <3>1, <3>2
  <2> QED
    BY <2>1, <2>2, <2>3
<1>3. PICK c \in Claimed, A \in SUBSET {"delivered", "permanent"} : answers' = Answered(c, A)
  BY <1>2
<1>4. queueDelivered' \in {queueDelivered, queueDelivered \cup {c.id}}
  BY <1>0, <1>3, AnswerSeen
<1>5. queueState' = queueState /\ RedactedIsCanceled' /\ c.id \in Messages
  BY <1>1 DEF queueState, RInv, RedactedIsCanceled, Claimed
<1>6. CASE queueDelivered' = queueDelivered
  BY <1>1, <1>5, <1>6 DEF Seen, Promise!vars
<1>7. CASE queueDelivered' = queueDelivered \cup {c.id}
  <2>1. Promise!Deliver(c.id)
    BY <1>1, <1>5, <1>7 DEF Promise!Deliver
  <2> QED
    BY <1>5, <2>1 DEF Seen, Promise!Next
<1> QED
  BY <1>4, <1>6, <1>7

\* A settlement under the claim's own lease moves an open item.
LEMMA SettleSeen ==
  ASSUME RInv, NEW w \in Workers, work[w].item \in work[w].batch, NEW row, Settle(w, row),
         UNCHANGED <<gate, answers>>,
         Owns(work[w].item) => /\ row.payload = rows[work[w].item.id].payload
                               /\ ItemState(row) \in {"open", "dead", "canceled"}
  PROVE  Seen
<1> DEFINE c == work[w].item
<1>1. c.id \in Messages
  BY ClaimedFacts DEF RInv, IInv
<1>2. CASE Writable /\ Owns(c)
  <2>1. rows' = [rows EXCEPT ![c.id] = row]
    BY <1>2 DEF Settle
  <2>2. rows[c.id].status = "processing" /\ rows[c.id].payload # "redacted"
    BY <1>1, <1>2 DEF Owns, RInv, RedactedIsCanceled
  <2>3. ItemState(rows[c.id]) = "open"
    BY <2>2 DEF ItemState
  <2>4. queueDelivered' = queueDelivered
    BY DEF queueDelivered
  <2> QED
    BY <1>1, <1>2, <2>1, <2>2, <2>3, <2>4, MoveSeen DEF Writable
<1>3. CASE ~(Writable /\ Owns(c))
  BY <1>3, UnseenStep DEF Settle, Unseen, Seen
<1> QED
  BY <1>2, <1>3

\* The statements that settle an item after its consumer has answered.
LEMMA SettleItemSeen ==
  ASSUME RInv, NEW w \in Workers, SettleItem(w)
  PROVE  Seen
<1> DEFINE c == work[w].item
           r == rows[c.id]
<1>1. work[w].pc \in {"cancel", "applied", "failed"} /\ UNCHANGED <<gate, answers>>
  BY DEF SettleItem
<1>2. IInv /\ TInv /\ c \in work[w].batch /\ c.id \in Messages
  BY <1>1, ItemFacts DEF RInv, IInv
<1>3. r \in Row /\ (Owns(c) => r.payload # "redacted")
  BY <1>2 DEF TInv, TypeOK, RInv, RedactedIsCanceled, Owns
<1>4. CASE work[w].pc = "cancel"
  <2>1. CASE UNCHANGED rows /\ NextItem(w)
    BY <1>1, <2>1, UnseenStep DEF Unseen, Seen
  <2>2. ASSUME NEW why \in Refusals, Settle(w, Canceled(r, why)) PROVE Seen
    BY <1>1, <1>2, <1>3, <2>2, SettledItem, KeepsPayload, SettleSeen
  <2> QED
    BY <1>4, <2>1, <2>2 DEF SettleItem
<1>5. CASE work[w].pc = "applied"
  <2>1. Settle(w, MarkApplied(r))
    BY <1>5 DEF SettleItem
  <2>2. CASE Writable /\ Owns(c)
    <3>1. /\ rows' = [rows EXCEPT ![c.id] = MarkApplied(r)]
          /\ r.status = "processing" /\ gate.open
      BY <2>1, <2>2 DEF Settle, Owns, Writable
    <3>2. "delivered" \in answers[c.id]
      BY <1>2, <1>5, <2>2, OwnerIsCurrent DEF IInv, ClaimInv, DeliveredKept
    <3>3. queueDelivered' = queueDelivered /\ c.id \in queueDelivered
      BY <1>1, <1>2, <3>2 DEF queueDelivered
    <3> QED
      BY <1>1, <1>2, <3>1, <3>3, CompleteSeen
  <2>3. CASE ~(Writable /\ Owns(c))
    BY <1>1, <2>1, <2>3, UnseenStep DEF Settle, Unseen, Seen
  <2> QED
    BY <2>2, <2>3
<1>6. CASE work[w].pc = "failed"
  <2>1. \/ Settle(w, MarkFailed(r, TRUE, work[w].now))
        \/ \E d : Settle(w, MarkFailed(r, FALSE, work[w].now + d))
    BY <1>6 DEF SettleItem
  <2>2. CASE Settle(w, MarkFailed(r, TRUE, work[w].now))
    BY <1>1, <1>2, <1>3, <2>2, SettledItem, KeepsPayload, SettleSeen
  <2>3. ASSUME NEW d, Settle(w, MarkFailed(r, FALSE, work[w].now + d)) PROVE Seen
    BY <1>1, <1>2, <1>3, <2>3, SettledItem, KeepsPayload, SettleSeen
  <2> QED
    BY <2>1, <2>2, <2>3
<1> QED
  BY <1>1, <1>4, <1>5, <1>6

\* A consumer that settles the row with its own effect delivers and completes at once.
LEMMA ApplyFinalizesSeen ==
  ASSUME RInv, NEW w \in Workers, ApplyFinalizes(w)
  PROVE  Seen
<1> DEFINE c == work[w].item
           r == rows[c.id]
<1>1. /\ IInv /\ TInv /\ c \in work[w].batch /\ c \in Claimed /\ c.id \in Messages
      /\ gate' = gate
  BY ItemFacts DEF RInv, IInv, ApplyFinalizes
<1>2. CASE Writable /\ Owns(c)
  <2>1. PICK row \in {MarkApplied(r), MarkDeferred(r, clock + DeferDelay)}
                      \cup {Canceled(r, why) : why \in Refusals} :
          /\ rows' = [rows EXCEPT ![c.id] = row]
          /\ answers' = Answered(c, IF row.status = "applied" THEN {"delivered"} ELSE {})
    BY <1>2 DEF ApplyFinalizes
  <2>2. /\ r \in Row /\ r.status = "processing" /\ gate.open
        /\ r.payload # "redacted" /\ ItemState(r) = "open" /\ Current(c)
    BY <1>1, <1>2, OwnerIsCurrent DEF TInv, TypeOK, Owns, Writable, RInv, RedactedIsCanceled, ItemState
  <2>3. CASE row = MarkApplied(r)
    <3>1. row.status = "applied"
      BY <2>2, <2>3, SettledStatus
    <3>2. answers' = Answered(c, {"delivered"})
      BY <2>1, <3>1
    <3>3. queueDelivered' \in {queueDelivered, queueDelivered \cup {c.id}} /\ c.id \in queueDelivered'
      BY <1>1, <2>2, <3>2, AnswerSeen
    <3> QED
      BY <1>1, <2>1, <2>2, <2>3, <3>3, CompleteSeen
  <2>4. CASE row # MarkApplied(r)
    <3>1. \/ row = MarkDeferred(r, clock + DeferDelay)
          \/ \E why : row = Canceled(r, why)
      BY <2>1, <2>4
    <3>2. /\ row.payload # "redacted" /\ row.status # "applied"
          /\ ItemState(row) \in {"open", "canceled"}
      <4>1. CASE row = MarkDeferred(r, clock + DeferDelay)
        BY <2>2, <4>1, DeferredOrCanceled
      <4>2. ASSUME NEW why, row = Canceled(r, why)
            PROVE  /\ row.payload # "redacted" /\ row.status # "applied"
                   /\ ItemState(row) \in {"open", "canceled"}
        BY <2>2, <4>2, DeferredOrCanceled
      <4> QED
        BY <3>1, <4>1, <4>2
    <3>3. queueDelivered' = queueDelivered
      BY <1>1, <2>1, <3>2, AnswerSeen
    <3> QED
      BY <1>1, <2>1, <2>2, <3>2, <3>3, MoveSeen
  <2> QED
    BY <2>3, <2>4
<1>3. CASE ~(Writable /\ Owns(c))
  BY <1>1, <1>3, UnseenStep DEF ApplyFinalizes, Unseen, Seen
<1> QED
  BY <1>2, <1>3

\* A scrub erases every item: while the gate is closed every row is old.
LEMMA ScrubSeen ==
  ASSUME RInv, RedactTx
  PROVE  Seen
<1>1. \A m \in Messages : rows[m] \in Row
  BY DEF RInv, IInv, TInv, TypeOK
<1>2. ~gate.open /\ gate' = gate /\ answers' = answers
  BY DEF RedactTx
<1>3. \A m \in Messages : Old(m) <=> rows[m].status # "absent"
  BY <1>2 DEF RInv, ClosedMeansOld, Old
<1>4. \A m \in Messages :
        rows'[m] = IF rows[m].status = "absent" THEN rows[m] ELSE Redacted(rows[m])
  BY <1>3 DEF RedactTx
<1>5. \A m \in Messages : ItemState(rows'[m]) = IF ItemState(rows[m]) = "absent" THEN "absent" ELSE "erased"
  BY <1>1, <1>4, ScrubbedItem DEF ItemState, Row, Statuses
<1>6. queueState' = [i \in Messages |-> IF queueState[i] = "absent" THEN "absent" ELSE "erased"]
  <2>1. queueState' = [n \in Messages |-> ItemState(rows'[n])]
    BY DEF queueState, ItemState
  <2>2. queueState = [n \in Messages |-> ItemState(rows[n])]
    BY DEF queueState
  <2> QED
    BY <1>5, <2>1, <2>2, Zenon
<1>7. RedactedIsCanceled'
  BY <1>1, <1>4, ScrubbedItem DEF RInv, RedactedIsCanceled
<1>8. Promise!Erase
  BY <1>2, <1>6 DEF Promise!Erase, queueDelivered
<1> QED
  BY <1>7, <1>8 DEF Seen, Promise!Next

\* The gate closes and, when no residue is left, opens.
LEMMA GateSeen ==
  ASSUME RInv, CloseGeneration \/ OpenGeneration
  PROVE  Seen
<1>1. queueState' = queueState /\ queueDelivered' = queueDelivered /\ RedactedIsCanceled'
  BY DEF CloseGeneration, OpenGeneration, queueState, queueDelivered, RInv, RedactedIsCanceled
<1>2. CASE CloseGeneration
  <2>1. Promise!BeginErasure
    BY <1>1, <1>2 DEF CloseGeneration, Promise!BeginErasure
  <2> QED
    BY <1>1, <2>1 DEF Seen, Promise!Next
<1>3. CASE OpenGeneration
  <2>1. ~gate.open /\ gate'.open
    BY <1>3 DEF OpenGeneration, RInv, IInv, TInv, TypeOK
  <2>2. ASSUME NEW m \in Messages, rows[m].status # "absent" PROVE ItemState(rows[m]) = "erased"
    <3>1. rows[m] \in Row /\ Old(m)
      BY <2>1, <2>2 DEF RInv, ClosedMeansOld, Old, IInv, TInv, TypeOK
    <3>2. rows[m] = Redacted(rows[m])
      BY <1>3, <3>1 DEF OpenGeneration, Residual
    <3> QED
      BY <3>1, <3>2, ScrubbedItem
  <2>3. \A m \in Messages : queueState[m] \in {"absent", "erased"}
    BY <2>2 DEF queueState, ItemState
  <2>4. Promise!EndErasure
    BY <1>1, <2>1, <2>3 DEF Promise!EndErasure
  <2> QED
    BY <1>1, <2>4 DEF Seen, Promise!Next
<1> QED
  BY <1>2, <1>3

-----------------------------------------------------------------------------
(* The theorem.                                                            *)

\* Every step of the outbox is a step of the queue or is not seen by callers.
LEMMA StepSeen ==
  ASSUME RInv, [Next]_vars
  PROVE  Seen
<1>1. ASSUME NEW w \in Workers, Begin(w) \/ Crash(w) PROVE Seen
  BY <1>1, UnseenStep DEF Begin, Crash, Unseen, Seen
<1>2. ASSUME Tick \/ UNCHANGED vars PROVE Seen
  BY <1>2, UnseenStep DEF Tick, vars, Unseen, Seen
<1> QED
  BY <1>1, <1>2, OwnerSeen, ClaimSeen, AnswersSeen, SettleItemSeen, ApplyFinalizesSeen,
     ScrubSeen, GateSeen DEF Next, WorkerStep

\* No row is newer than its gate, and a closed gate has only older rows.
LEMMA ClosedMeansOldNext ==
  ASSUME RInv, [Next]_vars
  PROVE  ClosedMeansOld'
<1>0. TInv /\ gate.generation \in Nat /\ \A m \in Messages : rows[m] \in Row
  BY DEF RInv, IInv, TInv, TypeOK
<1>1. CASE CloseGeneration
  BY <1>0, <1>1 DEF CloseGeneration, ClosedMeansOld, RInv, Row
<1>2. CASE OpenGeneration
  BY <1>0, <1>2 DEF OpenGeneration, ClosedMeansOld, RInv, TInv, TypeOK
<1>3. CASE gate' = gate /\ \A m \in Messages : RowChange(m)
  <2> SUFFICES ASSUME NEW m \in Messages, rows'[m].status # "absent"
               PROVE  /\ rows'[m].generation <= gate.generation
                      /\ ~gate.open => rows'[m].generation < gate.generation
    BY <1>3 DEF ClosedMeansOld
  <2>1. CASE rows'[m] = rows[m]
    BY <2>1 DEF RInv, ClosedMeansOld
  <2>2. CASE Inserted(m)
    BY <1>0, <2>2 DEF Inserted
  <2>3. CASE Advanced(m)
    BY <2>3 DEF Advanced, RInv, ClosedMeansOld
  <2>4. CASE Scrubbed(m)
    BY <1>0, <2>4, ScrubbedItem DEF Scrubbed, Old, Row
  <2> QED
    BY <1>3, <2>1, <2>2, <2>3, <2>4 DEF RowChange
<1> QED
  BY <1>0, <1>1, <1>2, <1>3, StepChange

\* The outbox keeps its promise to the owners of messages: whatever workers, leases,
\* crashes, retries and late settlements do, what Enqueue, CancelWith and RequeueDeadWith
\* see is the abstract queue.
THEOREM KeepsPromiseHolds == Spec => KeepsPromise
<1>1. Init => RInv
  BY IInit DEF Init, RInv, RedactedIsCanceled, ClosedMeansOld, NoRow
<1>2. RInv /\ [Next]_vars => RInv'
  BY INext, StepSeen, ClosedMeansOldNext DEF RInv, Seen
<1>3. Init => Promise!Init
  <2> SUFFICES ASSUME Init PROVE Promise!Init
    OBVIOUS
  <2>1. queueState = [i \in Messages |-> "absent"]
    BY DEF Init, queueState, ItemState, NoRow
  <2>2. queueDelivered = {} /\ gate.open
    BY DEF Init, queueDelivered
  <2> QED
    BY <2>1, <2>2 DEF Promise!Init
<1>4. RInv /\ [Next]_vars => [Promise!Next]_(Promise!vars)
  BY StepSeen DEF Seen
<1> QED
  BY <1>1, <1>2, <1>3, <1>4, PTL DEF Spec, KeepsPromise, Promise!Spec

=============================================================================
