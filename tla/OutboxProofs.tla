---------------------------- MODULE OutboxProofs ----------------------------
(* Proofs about Outbox for every number of messages and workers and every  *)
(* value of the batch, lease, backoff and bound parameters.                *)
EXTENDS Outbox, TLAPS

\* Past the consumer's decision a worker settles a claim of its own batch.
ItemInBatch ==
  \A w \in Workers : work[w].pc \in {"apply", "cancel", "applied", "failed"}
                       => work[w].item \in work[w].batch

TInv == TypeOK /\ ItemInBatch

-----------------------------------------------------------------------------
(* What the row operations return.                                         *)

\* Giving the lease back sets the status, clears the token and touches nothing else.
LEMMA UnleasedType ==
  ASSUME NEW r \in Row, NEW s \in Statuses \cup {"absent"}
  PROVE  /\ Unleased(r, s) \in Row
         /\ Unleased(r, s).status = s
         /\ Unleased(r, s).leaseToken = NoToken
         /\ Unleased(r, s).disposition = r.disposition
BY DEF Unleased, Row, NoToken, NoTime

\* The shapes the CHECK constraints of the table demand.
RowShape(r) == /\ (r.status = "processing") <=> (r.leaseToken # NoToken)
               /\ (r.status = "canceled") <=> (r.disposition # "none")

\* Every row a settlement, requeue or scrub statement writes has the shape the table
\* demands.
LEMMA SettlementShape ==
  ASSUME NEW r \in Row, RowShape(r), NEW n \in Nat, NEW why \in Dispositions
  PROVE  /\ r.status # "canceled" =>
              /\ MarkApplied(r) \in Row /\ RowShape(MarkApplied(r))
              /\ MarkFailed(r, TRUE, n) \in Row /\ RowShape(MarkFailed(r, TRUE, n))
              /\ MarkFailed(r, FALSE, n) \in Row /\ RowShape(MarkFailed(r, FALSE, n))
         /\ MarkDeferred(r, n) \in Row /\ RowShape(MarkDeferred(r, n))
         /\ Canceled(r, why) \in Row /\ RowShape(Canceled(r, why))
         /\ Requeued(r, n) \in Row /\ RowShape(Requeued(r, n))
         /\ Redacted(r) \in Row /\ RowShape(Redacted(r))
<1> USE DEF RowShape, Row, Statuses, Dispositions, NoToken
<1>1. r.status # "canceled" => MarkApplied(r) \in Row /\ RowShape(MarkApplied(r))
  BY UnleasedType DEF MarkApplied
<1>2. ASSUME r.status # "canceled", NEW dead \in BOOLEAN
      PROVE  MarkFailed(r, dead, n) \in Row /\ RowShape(MarkFailed(r, dead, n))
  <2> DEFINE s == IF dead THEN "dead" ELSE "pending"
  <2> HIDE DEF s
  <2>1. s \in {"dead", "pending"}
    BY DEF s
  <2>2. Unleased(r, s) \in Row /\ RowShape(Unleased(r, s))
    BY <1>2, <2>1, UnleasedType
  <2> QED
    BY <2>1, <2>2, UnleasedType DEF MarkFailed, s
<1>3. MarkDeferred(r, n) \in Row /\ RowShape(MarkDeferred(r, n))
  <2> DEFINE u == Unleased(r, "pending")
             a == IF u.attempts > 0 THEN u.attempts - 1 ELSE 0
  <2>1. u \in Row /\ u.status = "pending" /\ u.leaseToken = NoToken
    BY UnleasedType
  <2>2. a \in Nat
    BY <2>1
  <2>3. MarkDeferred(r, n) = [u EXCEPT !.availableAt = n, !.disposition = "none", !.attempts = a]
    BY DEF MarkDeferred
  <2> HIDE DEF u, a
  <2> QED
    BY <2>1, <2>2, <2>3
<1>4. Canceled(r, why) \in Row /\ RowShape(Canceled(r, why))
  BY UnleasedType DEF Canceled
<1>5. Requeued(r, n) \in Row /\ RowShape(Requeued(r, n))
  BY ZenonT(60), UnleasedType DEF Requeued
<1>6. Redacted(r) \in Row /\ RowShape(Redacted(r))
  BY ZenonT(60), UnleasedType DEF Redacted, Canceled
<1> QED
  BY <1>1, <1>2, <1>3, <1>4, <1>5, <1>6

-----------------------------------------------------------------------------
(* What the worker's bookkeeping preserves.                                *)

\* What a worker holds are claims on messages.
LEMMA ClaimedFacts ==
  ASSUME TInv, NEW w \in Workers, NEW c \in work[w].batch
  PROVE  c \in Claimed /\ c.id \in Messages
BY DEF TInv, TypeOK, Work, Claimed

\* Past the decision, the item a worker settles is one of its claims.
LEMMA ItemFacts ==
  ASSUME TInv, NEW w \in Workers, work[w].pc \in {"apply", "cancel", "applied", "failed"}
  PROVE  /\ work[w].item \in work[w].batch
         /\ work[w].item \in Claimed /\ work[w].item.id \in Messages
BY ClaimedFacts DEF TInv, ItemInBatch

\* Ending a batch with an error keeps the worker well formed.
LEMMA AbortType ==
  ASSUME TInv, NEW w \in Workers, Abort(w)
  PROVE  work' \in [Workers -> Work] /\ ItemInBatch'
BY DEF TInv, TypeOK, ItemInBatch, Abort, Idle, Work, Pcs, NoClaim

\* Going on to the next item keeps the worker well formed.
LEMMA NextItemType ==
  ASSUME TInv, NEW w \in Workers, NextItem(w)
  PROVE  work' \in [Workers -> Work] /\ ItemInBatch'
<1> DEFINE rest == work[w].batch \ {work[w].item}
           new == IF rest = {} THEN Idle
                  ELSE [work[w] EXCEPT !.pc = "decide", !.batch = rest, !.item = NoClaim,
                                       !.permanent = FALSE]
<1>1. work' = [work EXCEPT ![w] = new]
  BY DEF NextItem
<1>2. new \in Work /\ new.pc \in {"idle", "decide"}
  BY ZenonT(60) DEF TInv, TypeOK, Idle, Work, Pcs, NoClaim
<1> HIDE DEF new
<1> QED
  BY <1>1, <1>2 DEF TInv, TypeOK, ItemInBatch

\* Replacing the local variables of one worker by well-formed ones keeps all of them so.
LEMMA WorkUpdate ==
  ASSUME TInv, NEW w \in Workers, NEW new \in Work,
         new.pc \in {"apply", "cancel", "applied", "failed"} => new.item \in new.batch,
         work' = [work EXCEPT ![w] = new]
  PROVE  work' \in [Workers -> Work] /\ ItemInBatch'
BY DEF TInv, TypeOK, ItemInBatch

\* Moving within an item keeps the worker well formed.
LEMMA GotoType ==
  ASSUME TInv, NEW w \in Workers, NEW pc \in Pcs, Goto(w, pc), work[w].item \in work[w].batch
  PROVE  work' \in [Workers -> Work] /\ ItemInBatch'
BY DEF TInv, TypeOK, ItemInBatch, Goto, Work

RowsOK == rows \in [Messages -> Row] /\ \A m \in Messages : RowShape(rows[m])

\* Writing one well-formed row keeps the table well formed.
LEMMA RowUpdate ==
  ASSUME TInv, NEW m \in Messages, NEW row \in Row, RowShape(row),
         rows' = [rows EXCEPT ![m] = row]
  PROVE  RowsOK'
BY DEF TInv, TypeOK, RowsOK, RowShape

\* A settlement statement keeps the table and the worker well formed, whether it finds its
\* lease or not.
LEMMA SettleType ==
  ASSUME TInv, NEW w \in Workers, work[w].item \in work[w].batch, NEW row,
         Owns(work[w].item) => row \in Row /\ RowShape(row),
         Settle(w, row)
  PROVE  RowsOK' /\ work' \in [Workers -> Work] /\ ItemInBatch'
<1>1. CASE Writable /\ Owns(work[w].item)
  BY <1>1, ClaimedFacts, NextItemType, RowUpdate DEF Settle
<1>2. CASE ~(Writable /\ Owns(work[w].item))
  BY <1>2, AbortType DEF Settle, TInv, TypeOK, RowsOK, RowShape
<1> QED
  BY <1>1, <1>2

\* Jitter and doubling stay within the cap.
LEMMA BackoffType == \A a : Backoffs(a) \subseteq Nat
BY OutboxAssumption DEF Backoffs

\* The empty table and idle workers are well typed.
LEMMA TypeInit == Init => TInv
BY DEF Init, TInv, TypeOK, ItemInBatch, NoRow, Row, Statuses, Dispositions, Idle, Work, Pcs,
       NoClaim, NoToken, NoTime

-----------------------------------------------------------------------------
(* Every action keeps the types.                                           *)

\* The type invariant from its parts, as the actions establish them.
LEMMA TypeFromParts ==
  ASSUME TInv, RowsOK', work' \in [Workers -> Work], ItemInBatch',
         lastClaim' \in [Messages -> Nat],
         gate' \in [generation : Nat, open : BOOLEAN],
         clock' \in Nat, disruptions' \in Nat, replays' \in Nat,
         answers' \in [Messages -> SUBSET {"delivered", "permanent"}]
  PROVE  TInv'
BY DEF TInv, TypeOK, RowsOK, RowShape

\* Remembering an answer keeps the history well typed.
LEMMA AnsweredType ==
  ASSUME TInv, NEW c \in Claimed, NEW A \in SUBSET {"delivered", "permanent"}
  PROVE  Answered(c, A) \in [Messages -> SUBSET {"delivered", "permanent"}]
BY DEF TInv, TypeOK, Answered, Claimed

\* The claim statement: each row taken was pending or processing, so the new lease fits it.
LEMMA ClaimType ==
  ASSUME TInv, NEW w \in Workers, Claim(w)
  PROVE  TInv'
<1> DEFINE now == work[w].now
<1>1. PICK S \in Batches(now) :
        LET taken == IF Writable THEN S ELSE {}
        IN /\ rows' = [m \in Messages |-> IF m \in taken THEN ClaimedRow(m, now) ELSE rows[m]]
           /\ lastClaim' = [m \in Messages |-> IF m \in taken THEN lastClaim[m] + 1 ELSE lastClaim[m]]
           /\ work' = [work EXCEPT ![w] =
                IF taken = {} THEN Idle
                ELSE [@ EXCEPT !.pc = "decide",
                        !.batch = {[id |-> m, token |-> lastClaim[m] + 1,
                                    attempts |-> rows[m].attempts + 1,
                                    expires |-> now + Lease] : m \in taken}]]
           /\ answers' = [m \in Messages |-> IF m \in taken THEN {} ELSE answers[m]]
  BY DEF Claim
<1> DEFINE taken == IF Writable THEN S ELSE {}
           batch == {[id |-> m, token |-> lastClaim[m] + 1,
                      attempts |-> rows[m].attempts + 1,
                      expires |-> now + Lease] : m \in taken}
           new == IF taken = {} THEN Idle ELSE [work[w] EXCEPT !.pc = "decide", !.batch = batch]
<1>2. taken \subseteq Messages /\ \A m \in taken : Claimable(m, now)
  BY DEF Batches
<1>3. now \in Nat /\ now + Lease \in Nat
  BY OutboxAssumption DEF TInv, TypeOK, Work
<1>4. \A m \in taken : ClaimedRow(m, now) \in Row /\ RowShape(ClaimedRow(m, now))
  <2> TAKE m \in taken
  <2> DEFINE until == now + Lease
             token == lastClaim[m] + 1
             tries == rows[m].attempts + 1
  <2>1. m \in Messages /\ rows[m] \in Row /\ rows[m].disposition = "none"
    BY <1>2 DEF TInv, TypeOK, Claimable
  <2>2. token \in Nat /\ token # NoToken /\ until \in Nat /\ tries \in Nat
    BY <1>3, <2>1 DEF TInv, TypeOK, NoToken, Row
  <2>3. ClaimedRow(m, now) = [rows[m] EXCEPT !.status = "processing",
          !.attempts = tries, !.leaseToken = token, !.leaseExpiresAt = until]
    BY DEF ClaimedRow
  <2> HIDE DEF until, token, tries, now
  <2> QED
    BY <2>1, <2>2, <2>3 DEF Row, RowShape, Statuses
<1>5. RowsOK'
  BY <1>1, <1>2, <1>4 DEF TInv, TypeOK, RowsOK, RowShape
<1>6. batch \subseteq Claimed
  BY <1>2, <1>3 DEF TInv, TypeOK, Row, Claimed
<1>7. new \in Work /\ new.pc \in {"idle", "decide"}
  <2> HIDE DEF batch, taken
  <2> QED
    BY <1>6 DEF TInv, TypeOK, Idle, Work, Pcs, NoClaim
<1>8. work' = [work EXCEPT ![w] = new]
  BY <1>1
<1>9. work' \in [Workers -> Work] /\ ItemInBatch'
  <2> HIDE DEF new
  <2> QED
    BY <1>7, <1>8 DEF TInv, TypeOK, ItemInBatch
<1>10. /\ lastClaim' \in [Messages -> Nat]
       /\ answers' \in [Messages -> SUBSET {"delivered", "permanent"}]
  BY <1>1 DEF TInv, TypeOK
<1> QED
  BY <1>5, <1>9, <1>10, TypeFromParts DEF Claim, TInv, TypeOK

\* The settlements of the worker, one case per report.
LEMMA SettleItemType ==
  ASSUME TInv, NEW w \in Workers, SettleItem(w)
  PROVE  TInv'
<1> DEFINE c == work[w].item
           r == rows[c.id]
<1>1. work[w].pc \in {"cancel", "applied", "failed"}
  BY DEF SettleItem
<1>2. c \in work[w].batch /\ c.id \in Messages
  BY <1>1, ItemFacts
<1>3. r \in Row /\ RowShape(r)
  BY <1>2 DEF TInv, TypeOK, RowShape
<1>4. Owns(c) => r.status # "canceled"
  BY DEF Owns
<1>5. work[w].now \in Nat
  BY DEF TInv, TypeOK, Work
<1>6. RowsOK' /\ work' \in [Workers -> Work] /\ ItemInBatch'
  <2>1. CASE UNCHANGED rows /\ NextItem(w)
    BY <2>1, NextItemType DEF TInv, TypeOK, RowsOK, RowShape
  <2>2. ASSUME NEW why \in Refusals, Settle(w, Canceled(r, why))
        PROVE  RowsOK' /\ work' \in [Workers -> Work] /\ ItemInBatch'
    <3>1. Canceled(r, why) \in Row /\ RowShape(Canceled(r, why))
      BY <1>3, SettlementShape DEF Dispositions, Refusals
    <3> QED
      BY <2>2, <3>1, <1>2, SettleType
  <2>3. CASE Settle(w, MarkApplied(r))
    <3>1. r.status # "canceled" => MarkApplied(r) \in Row /\ RowShape(MarkApplied(r))
      BY <1>3, SettlementShape DEF Dispositions
    <3> QED
      BY <2>3, <3>1, <1>2, <1>4, SettleType
  <2>4. CASE Settle(w, MarkFailed(r, TRUE, work[w].now))
    <3>1. r.status # "canceled" => /\ MarkFailed(r, TRUE, work[w].now) \in Row
                                   /\ RowShape(MarkFailed(r, TRUE, work[w].now))
      BY <1>3, <1>5, SettlementShape DEF Dispositions
    <3> QED
      BY <2>4, <3>1, <1>2, <1>4, SettleType
  <2>5. ASSUME NEW d \in Backoffs(c.attempts), Settle(w, MarkFailed(r, FALSE, work[w].now + d))
        PROVE  RowsOK' /\ work' \in [Workers -> Work] /\ ItemInBatch'
    <3>1. work[w].now + d \in Nat
      BY <1>5, BackoffType
    <3>2. r.status # "canceled" => /\ MarkFailed(r, FALSE, work[w].now + d) \in Row
                                   /\ RowShape(MarkFailed(r, FALSE, work[w].now + d))
      BY <1>3, <3>1, SettlementShape DEF Dispositions
    <3> QED
      BY <2>5, <3>2, <1>2, <1>4, SettleType
  <2> QED
    BY <2>1, <2>2, <2>3, <2>4, <2>5 DEF SettleItem
<1> QED
  BY <1>6, TypeFromParts DEF SettleItem, TInv, TypeOK

\* The settlement a consumer makes in its own transaction.
LEMMA ApplyFinalizesType ==
  ASSUME TInv, NEW w \in Workers, ApplyFinalizes(w)
  PROVE  TInv'
<1> DEFINE c == work[w].item
           r == rows[c.id]
<1>1. c \in work[w].batch /\ c \in Claimed /\ c.id \in Messages
  BY ItemFacts DEF ApplyFinalizes
<1>2. r \in Row /\ RowShape(r)
  BY <1>1 DEF TInv, TypeOK, RowShape
<1>3. CASE Writable /\ Owns(c)
  <2>1. PICK row \in {MarkApplied(r), MarkDeferred(r, clock + DeferDelay)}
                      \cup {Canceled(r, why) : why \in Refusals} :
          /\ rows' = [rows EXCEPT ![c.id] = row]
          /\ IF row.status = "pending" THEN replays' = replays + 1 ELSE UNCHANGED replays
          /\ answers' = Answered(c, IF row.status = "applied" THEN {"delivered"} ELSE {})
          /\ NextItem(w)
    BY <1>3 DEF ApplyFinalizes
  <2>2. clock + DeferDelay \in Nat
    BY OutboxAssumption DEF TInv, TypeOK
  <2>3. row \in Row /\ RowShape(row)
    BY <1>2, <1>3, <2>1, <2>2, SettlementShape DEF Owns, Dispositions, Refusals
  <2>4. RowsOK'
    BY <2>1, <2>3, <1>1, RowUpdate
  <2>5. answers' \in [Messages -> SUBSET {"delivered", "permanent"}]
    BY <2>1, <1>1, AnsweredType
  <2> QED
    BY <2>1, <2>4, <2>5, NextItemType, TypeFromParts DEF ApplyFinalizes, TInv, TypeOK
<1>4. CASE ~(Writable /\ Owns(c))
  <2>1. (Goto(w, "failed") \/ NextItem(w)) /\ UNCHANGED <<rows, replays, answers>>
    BY <1>4 DEF ApplyFinalizes
  <2>2. work' \in [Workers -> Work] /\ ItemInBatch'
    BY <2>1, <1>1, GotoType, NextItemType DEF Pcs
  <2> QED
    BY <2>1, <2>2, TypeFromParts DEF ApplyFinalizes, TInv, TypeOK, RowsOK, RowShape
<1> QED
  BY <1>3, <1>4

\* Every action keeps the type invariant.
LEMMA TypeNext == TInv /\ [Next]_vars => TInv'
<1> SUFFICES ASSUME TInv, [Next]_vars PROVE TInv'
  OBVIOUS
<1>0. RowsOK /\ ItemInBatch /\ work \in [Workers -> Work]
  BY DEF TInv, TypeOK, RowsOK, RowShape
<1>1. ASSUME NEW m \in Messages, Enqueue(m) PROVE TInv'
  <2> DEFINE row == NewMessage(clock, gate.generation)
  <2>1. rows' = [rows EXCEPT ![m] = row]
    BY <1>1 DEF Enqueue
  <2>3. row \in Row /\ RowShape(row)
    BY DEF TInv, TypeOK, NewMessage, NoRow, Row, RowShape, Statuses, Dispositions, NoToken, NoTime
  <2>4. RowsOK'
    BY <2>1, <2>3, RowUpdate
  <2> QED
    BY <1>0, <1>1, <2>4, TypeFromParts DEF Enqueue, TInv, TypeOK, ItemInBatch
<1>2. ASSUME NEW m \in Messages, NEW why \in Dispositions,
             NEW payload \in {"content", "tombstone", "redacted"}, CancelByOwner(m, why, payload)
      PROVE  TInv'
  <2> DEFINE row == [Canceled(rows[m], why) EXCEPT !.payload = payload]
  <2>1. Canceled(rows[m], why) \in Row /\ RowShape(Canceled(rows[m], why))
    BY <1>0, SettlementShape DEF RowsOK
  <2>2. row \in Row /\ RowShape(row)
    BY <2>1 DEF Row, RowShape
  <2>3. RowsOK'
    BY <1>2, <2>2, RowUpdate DEF CancelByOwner
  <2> QED
    BY <1>0, <1>2, <2>3, TypeFromParts DEF CancelByOwner, TInv, TypeOK, ItemInBatch
<1>3. ASSUME NEW m \in Messages, RequeueDead(m) PROVE TInv'
  <2>1. Requeued(rows[m], clock) \in Row /\ RowShape(Requeued(rows[m], clock))
    BY <1>0, SettlementShape DEF RowsOK, TInv, TypeOK, Dispositions
  <2>2. RowsOK'
    BY <1>3, <2>1, RowUpdate DEF RequeueDead
  <2> QED
    BY <1>0, <1>3, <2>2, TypeFromParts DEF RequeueDead, TInv, TypeOK, ItemInBatch
<1>4. ASSUME NEW w \in Workers, Begin(w) PROVE TInv'
  <2> DEFINE new == [work[w] EXCEPT !.pc = "claim", !.now = clock]
  <2>1. new \in Work /\ new.pc = "claim"
    BY DEF TInv, TypeOK, Work, Pcs
  <2>2. work' = [work EXCEPT ![w] = new]
    BY <1>4 DEF Begin
  <2> HIDE DEF new
  <2>3. work' \in [Workers -> Work]
    BY <1>0, <2>1, <2>2
  <2>4. ItemInBatch'
    BY <1>0, <2>1, <2>2 DEF ItemInBatch
  <2> QED
    BY <1>0, <1>4, <2>3, <2>4, TypeFromParts DEF Begin, TInv, TypeOK, RowsOK, RowShape
<1>5. ASSUME NEW w \in Workers, Claim(w) PROVE TInv'
  BY <1>5, ClaimType
<1>6. ASSUME NEW w \in Workers, CanApply(w) PROVE TInv'
  <2>1. PICK c \in work[w].batch, pc \in {"apply", "cancel", "failed"}, permanent \in BOOLEAN :
          /\ work' = [work EXCEPT ![w].pc = pc, ![w].item = c, ![w].permanent = permanent]
          /\ answers' = Answered(c, IF permanent THEN {"permanent"} ELSE {})
    BY <1>6 DEF CanApply
  <2>2. c \in Claimed
    BY ClaimedFacts
  <2> DEFINE new == [work[w] EXCEPT !.pc = pc, !.item = c, !.permanent = permanent]
  <2>3. /\ new \in Work
        /\ new.item \in new.batch
    BY <2>2 DEF TInv, TypeOK, Work, Pcs
  <2>4. work' = [work EXCEPT ![w] = new]
    BY <2>1
  <2>5. work' \in [Workers -> Work] /\ ItemInBatch'
    <3> HIDE DEF new
    <3> QED
      BY <2>3, <2>4, WorkUpdate
  <2>6. answers' \in [Messages -> SUBSET {"delivered", "permanent"}]
    BY <2>1, <2>2, AnsweredType
  <2> QED
    BY <1>0, <1>6, <2>5, <2>6, TypeFromParts DEF CanApply, TInv, TypeOK, RowsOK, RowShape
<1>7. ASSUME NEW w \in Workers, ApplySucceeds(w) PROVE TInv'
  <2>1. work[w].item \in work[w].batch /\ work[w].item \in Claimed
    BY <1>7, ItemFacts DEF ApplySucceeds
  <2>2. work' \in [Workers -> Work] /\ ItemInBatch'
    BY <1>7, <2>1, GotoType DEF ApplySucceeds, Pcs
  <2>3. answers' \in [Messages -> SUBSET {"delivered", "permanent"}]
    BY <1>7, <2>1, AnsweredType DEF ApplySucceeds
  <2> QED
    BY <1>0, <1>7, <2>2, <2>3, TypeFromParts DEF ApplySucceeds, TInv, TypeOK, RowsOK, RowShape
<1>8. ASSUME NEW w \in Workers, ApplyFails(w) PROVE TInv'
  <2>1. work[w].item \in work[w].batch /\ work[w].item \in Claimed
    BY <1>8, ItemFacts DEF ApplyFails
  <2>2. PICK permanent \in BOOLEAN, reached \in BOOLEAN :
          /\ work' = [work EXCEPT ![w].pc = "failed", ![w].permanent = permanent]
          /\ answers' = Answered(work[w].item, (IF permanent THEN {"permanent"} ELSE {})
                                                \cup (IF reached THEN {"delivered"} ELSE {}))
    BY <1>8 DEF ApplyFails
  <2> DEFINE new == [work[w] EXCEPT !.pc = "failed", !.permanent = permanent]
  <2>3. /\ new \in Work
        /\ new.item \in new.batch
    BY <2>1 DEF TInv, TypeOK, Work, Pcs
  <2>4. work' = [work EXCEPT ![w] = new]
    BY <2>2
  <2>5. work' \in [Workers -> Work] /\ ItemInBatch'
    <3> HIDE DEF new
    <3> QED
      BY <2>3, <2>4, WorkUpdate
  <2>6. answers' \in [Messages -> SUBSET {"delivered", "permanent"}]
    BY <2>1, <2>2, AnsweredType
  <2> QED
    BY <1>0, <1>8, <2>5, <2>6, TypeFromParts DEF ApplyFails, TInv, TypeOK, RowsOK, RowShape
<1>9. ASSUME NEW w \in Workers, ApplyFinalizes(w) PROVE TInv'
  BY <1>9, ApplyFinalizesType
<1>10. ASSUME NEW w \in Workers, SettleItem(w) PROVE TInv'
  BY <1>10, SettleItemType
<1>11. ASSUME NEW w \in Workers, Crash(w) PROVE TInv'
  BY <1>0, <1>11, AbortType, TypeFromParts DEF Crash, TInv, TypeOK, RowsOK, RowShape
<1>12. ASSUME RedactTx PROVE TInv'
  <2>1. \A m \in Messages : Redacted(rows[m]) \in Row /\ RowShape(Redacted(rows[m]))
    BY <1>0, SettlementShape DEF RowsOK, Dispositions
  <2>2. RowsOK'
    BY <1>0, <1>12, <2>1 DEF RedactTx, RowsOK, RowShape
  <2> QED
    BY <1>0, <1>12, <2>2, TypeFromParts DEF RedactTx, TInv, TypeOK, ItemInBatch
<1>13. ASSUME CloseGeneration \/ OpenGeneration \/ Tick PROVE TInv'
  <2>1. gate' \in [generation : Nat, open : BOOLEAN]
    <3>1. CASE CloseGeneration
      BY <3>1 DEF CloseGeneration, TInv, TypeOK
    <3>2. CASE OpenGeneration
      BY <3>2 DEF OpenGeneration, TInv, TypeOK
    <3>3. CASE Tick
      BY <3>3 DEF Tick, TInv, TypeOK
    <3> QED
      BY <1>13, <3>1, <3>2, <3>3
  <2>2. clock' \in Nat /\ disruptions' \in Nat
    BY <1>13 DEF CloseGeneration, OpenGeneration, Tick, TInv, TypeOK
  <2> QED
    BY <1>0, <1>13, <2>1, <2>2, TypeFromParts
    DEF CloseGeneration, OpenGeneration, Tick, TInv, TypeOK, RowsOK, RowShape, ItemInBatch
<1>14. ASSUME UNCHANGED vars PROVE TInv'
  BY <1>14 DEF vars, TInv, TypeOK, ItemInBatch
<1>15. ASSUME NEW m \in Messages, OwnerStep(m) PROVE TInv'
  <2>1. rows[m].payload \in {"content", "tombstone", "redacted"}
    BY <1>0 DEF RowsOK, Row
  <2> QED
    BY <1>1, <1>2, <1>3, <1>15, <2>1 DEF OwnerStep, Dispositions
<1> QED
  BY <1>4, <1>5, <1>6, <1>7, <1>8, <1>9, <1>10, <1>11, <1>12, <1>13, <1>14, <1>15
  DEF Next, WorkerStep

\* The types and the row shapes that the table's CHECK constraints demand hold for
\* every set of messages and workers: no statement of the store runs into them.
THEOREM TypeCorrect == Spec => []TypeOK
<1>1. TInv => TypeOK
  BY DEF TInv
<1> QED
  BY TypeInit, TypeNext, <1>1, PTL DEF Spec

-----------------------------------------------------------------------------
(* Settlements are justified.                                              *)

\* The lease of a row is its newest claim.
LeaseCurrent ==
  \A m \in Messages : rows[m].status = "processing" => rows[m].leaseToken = lastClaim[m]

\* A worker holds no claim that was not handed out.
ClaimsIssued ==
  \A w \in Workers : \A c \in work[w].batch : c.token <= lastClaim[c.id]

\* The snapshot of a claim that still owns its row has the row's attempt count.
AttemptsKnown ==
  \A w \in Workers : \A c \in work[w].batch :
    Owns(c) => c.attempts = rows[c.id].attempts

\* What a worker is about to report is what the consumer answered to its claim.
Current(c) == c.token = lastClaim[c.id]
DeliveredKept ==
  \A w \in Workers : work[w].pc = "applied" /\ Current(work[w].item)
    => "delivered" \in answers[work[w].item.id]
PermanentKept ==
  \A w \in Workers : work[w].pc = "failed" /\ work[w].permanent /\ Current(work[w].item)
    => "permanent" \in answers[work[w].item.id]

\* A permanent error is on its way to be reported.
PermanentFailed == \A w \in Workers : work[w].pc = "apply" => ~work[w].permanent

ClaimInv == ClaimsIssued /\ DeliveredKept /\ PermanentKept /\ PermanentFailed
RowInv == LeaseCurrent /\ AttemptsKnown /\ AppliedByItsDelivery /\ DeadJustified
IInv == TInv /\ ClaimInv /\ RowInv

\* Answers are only forgotten by a new claim.
Quiet == /\ lastClaim' = lastClaim
         /\ \A m \in Messages : answers[m] \subseteq answers'[m]
         /\ \A w \in Workers : work'[w].batch \subseteq work[w].batch

\* A worker that has no new report to make keeps the claim facts.
LEMMA ClaimFacts ==
  ASSUME IInv, TInv', Quiet,
         \A w \in Workers : work'[w].pc \in {"apply", "applied", "failed"} => work'[w] = work[w]
  PROVE  ClaimInv'
<1>1. ClaimsIssued'
  BY DEF IInv, ClaimInv, ClaimsIssued, Quiet
<1>2. ASSUME NEW w \in Workers, work'[w].pc \in {"applied", "failed"}
      PROVE  work'[w] = work[w] /\ work[w].item.id \in Messages
  BY <1>2, ItemFacts DEF IInv
<1>3. DeliveredKept'
  BY <1>2 DEF IInv, ClaimInv, DeliveredKept, Quiet, Current
<1>4. PermanentKept'
  BY <1>2 DEF IInv, ClaimInv, PermanentKept, Quiet, Current
<1>5. PermanentFailed'
  BY DEF IInv, ClaimInv, PermanentFailed
<1> QED
  BY <1>1, <1>3, <1>4, <1>5 DEF ClaimInv

\* So do rows that stay, or leave processing for a justified status.
JustifiedChange(m) ==
  \/ rows'[m] = rows[m]
  \/ /\ rows'[m].status # "processing"
     /\ rows'[m].status = "applied" => "delivered" \in answers'[m]
     /\ rows'[m].status = "dead" => rows'[m].attempts >= MaxAttempts \/ "permanent" \in answers'[m]

\* Rows that change only so keep the row facts.
LEMMA RowFacts ==
  ASSUME IInv, TInv', Quiet, \A m \in Messages : JustifiedChange(m)
  PROVE  RowInv'
<1>1. LeaseCurrent'
  BY DEF IInv, RowInv, LeaseCurrent, Quiet, JustifiedChange
<1>2. AppliedByItsDelivery'
  BY DEF IInv, RowInv, AppliedByItsDelivery, Quiet, JustifiedChange
<1>3. DeadJustified'
  BY DEF IInv, RowInv, DeadJustified, Quiet, JustifiedChange
<1>4. AttemptsKnown'
  <2> SUFFICES ASSUME NEW w \in Workers, NEW c \in work'[w].batch, Owns(c)'
               PROVE  c.attempts = rows'[c.id].attempts
    BY DEF AttemptsKnown
  <2>1. c \in work[w].batch /\ c.id \in Messages
    BY ClaimedFacts DEF Quiet, IInv
  <2>2. rows'[c.id] = rows[c.id]
    BY <2>1 DEF JustifiedChange, Owns
  <2> QED
    BY <2>1, <2>2 DEF IInv, RowInv, AttemptsKnown, Owns
<1> QED
  BY <1>1, <1>2, <1>3, <1>4 DEF RowInv

\* An answer is added to what is known of the newest claim, and nothing is forgotten.
LEMMA AnswersGrow ==
  ASSUME TInv, NEW c \in Claimed, NEW A \in SUBSET {"delivered", "permanent"},
         answers' = Answered(c, A)
  PROVE  /\ \A m \in Messages : answers[m] \subseteq answers'[m]
         /\ Current(c) => A \subseteq answers'[c.id]
BY DEF TInv, TypeOK, Answered, Claimed, Current

\* Leaving an item, or the batch, takes nothing up and reports nothing.
LEMMA NextItemQuiet ==
  ASSUME TInv, NEW w \in Workers, NextItem(w) \/ Abort(w)
  PROVE  /\ \A v \in Workers : work'[v].batch \subseteq work[v].batch
         /\ \A v \in Workers : work'[v].pc \in {"apply", "applied", "failed"} => work'[v] = work[v]
<1> DEFINE rest == work[w].batch \ {work[w].item}
           new == IF Abort(w) \/ rest = {} THEN Idle
                  ELSE [work[w] EXCEPT !.pc = "decide", !.batch = rest, !.item = NoClaim,
                                       !.permanent = FALSE]
<1>1. work' = [work EXCEPT ![w] = new]
  BY DEF NextItem, Abort
<1>2. new.batch \subseteq work[w].batch /\ new.pc \in {"idle", "decide"}
  BY DEF TInv, TypeOK, Idle, Work
<1> HIDE DEF new
<1> QED
  BY <1>1, <1>2 DEF TInv, TypeOK

\* A step that changes neither claims nor answers, and no worker but to leave an item,
\* keeps the invariant when its row changes are justified.
LEMMA QuietStep ==
  ASSUME IInv, TInv', Quiet, \A m \in Messages : JustifiedChange(m),
         \A w \in Workers : work'[w].pc \in {"apply", "applied", "failed"} => work'[w] = work[w]
  PROVE  IInv'
BY ClaimFacts, RowFacts DEF IInv

\* The consumer's answer to the newest claim is remembered when the worker moves on to
\* report it.
LEMMA AnswerKept ==
  ASSUME IInv, TInv', NEW w \in Workers, NEW c \in work[w].batch,
         NEW A \in SUBSET {"delivered", "permanent"}, answers' = Answered(c, A),
         NEW new \in Work, new.batch = work[w].batch, new.item = c,
         work' = [work EXCEPT ![w] = new],
         new.pc = "applied" => "delivered" \in A,
         new.permanent => new.pc = "failed" /\ "permanent" \in A,
         UNCHANGED <<rows, lastClaim>>
  PROVE  IInv'
<1>1. TInv /\ c \in Claimed /\ c.id \in Messages
  BY ClaimedFacts DEF IInv
<1>2. /\ \A m \in Messages : answers[m] \subseteq answers'[m]
      /\ Current(c) => A \subseteq answers'[c.id]
  BY <1>1, AnswersGrow
<1>3. work'[w] = new /\ \A v \in Workers \ {w} : work'[v] = work[v]
  BY <1>1 DEF TInv, TypeOK
<1>4. Quiet
  BY <1>2, <1>3 DEF Quiet
<1>5. RowInv'
  BY <1>4, RowFacts DEF JustifiedChange
<1>6. ClaimsIssued'
  BY <1>4 DEF IInv, ClaimInv, ClaimsIssued, Quiet
<1>7. \A v \in Workers : work[v].pc \in {"applied", "failed"} => work[v].item.id \in Messages
  BY <1>1, ItemFacts
<1>8. DeliveredKept'
  <2> SUFFICES ASSUME NEW v \in Workers, work'[v].pc = "applied", Current(work[v].item)'
               PROVE  "delivered" \in answers'[work'[v].item.id]
    BY DEF DeliveredKept
  <2>1. CASE v = w
    BY <2>1, <1>2, <1>3 DEF Current
  <2>2. CASE v # w
    BY <2>2, <1>2, <1>3, <1>7 DEF Current, IInv, ClaimInv, DeliveredKept
  <2> QED
    BY <2>1, <2>2
<1>9. PermanentKept'
  <2> SUFFICES ASSUME NEW v \in Workers, work'[v].pc = "failed", work'[v].permanent,
                      Current(work[v].item)'
               PROVE  "permanent" \in answers'[work'[v].item.id]
    BY DEF PermanentKept
  <2>1. CASE v = w
    BY <2>1, <1>2, <1>3 DEF Current
  <2>2. CASE v # w
    BY <2>2, <1>2, <1>3, <1>7 DEF Current, IInv, ClaimInv, PermanentKept
  <2> QED
    BY <2>1, <2>2
<1>10. PermanentFailed'
  BY <1>3 DEF IInv, ClaimInv, PermanentFailed
<1> QED
  BY <1>5, <1>6, <1>8, <1>9, <1>10 DEF IInv, ClaimInv

\* A claim that owns its row is the newest claim of it, and its snapshot is exact.
LEMMA OwnerIsCurrent ==
  ASSUME IInv, NEW w \in Workers, NEW c \in work[w].batch, Owns(c)
  PROVE  Current(c) /\ c.attempts = rows[c.id].attempts
<1>1. c.id \in Messages
  BY ClaimedFacts DEF IInv
<1> QED
  BY <1>1 DEF IInv, RowInv, LeaseCurrent, AttemptsKnown, Owns, Current

\* A settlement is justified when the row it writes is, under the claim's own lease.
LEMMA SettleStep ==
  ASSUME IInv, TInv', NEW w \in Workers, work[w].item \in work[w].batch, NEW row,
         Settle(w, row), UNCHANGED <<lastClaim, answers>>,
         row.status # "processing",
         Owns(work[w].item) =>
           /\ row.status = "applied" => "delivered" \in answers[work[w].item.id]
           /\ row.status = "dead" => \/ row.attempts >= MaxAttempts
                                     \/ "permanent" \in answers[work[w].item.id]
  PROVE  IInv'
<1> DEFINE c == work[w].item
<1>1. TInv /\ c.id \in Messages
  BY ClaimedFacts DEF IInv
<1>2. NextItem(w) \/ Abort(w)
  BY DEF Settle
<1>3. /\ \A v \in Workers : work'[v].batch \subseteq work[v].batch
      /\ \A v \in Workers : work'[v].pc \in {"apply", "applied", "failed"} => work'[v] = work[v]
  BY <1>1, <1>2, NextItemQuiet
<1>4. Quiet
  BY <1>3 DEF Quiet
<1>5. \A m \in Messages : JustifiedChange(m)
  <2>1. CASE Writable /\ Owns(c)
    <3>1. rows' = [rows EXCEPT ![c.id] = row]
      BY <2>1 DEF Settle
    <3>2. \A m \in Messages : rows'[m] = IF m = c.id THEN row ELSE rows[m]
      BY <1>1, <3>1 DEF TInv, TypeOK
    <3> QED
      BY <2>1, <3>2 DEF JustifiedChange
  <2>2. CASE ~(Writable /\ Owns(c))
    BY <2>2 DEF Settle, JustifiedChange
  <2> QED
    BY <2>1, <2>2
<1> QED
  BY <1>3, <1>4, <1>5, QuietStep

\* The statuses the settlements write, and the attempts a failure keeps.
LEMMA SettledStatus ==
  ASSUME NEW r \in Row, NEW n, NEW why
  PROVE  /\ MarkApplied(r).status = "applied"
         /\ Canceled(r, why).status = "canceled"
         /\ Redacted(r).status = "canceled"
         /\ Requeued(r, n).status = "pending"
         /\ MarkDeferred(r, n).status = "pending"
         /\ MarkFailed(r, FALSE, n).status = "pending"
         /\ MarkFailed(r, TRUE, n).status = "dead"
         /\ MarkFailed(r, TRUE, n).attempts = r.attempts
<1> USE DEF Row, Unleased
<1>1. MarkApplied(r).status = "applied"
  BY DEF MarkApplied
<1>2. Canceled(r, why).status = "canceled"
  BY DEF Canceled
<1>3. Redacted(r).status = "canceled"
  BY DEF Canceled, Redacted
<1>4. Requeued(r, n).status = "pending"
  BY DEF Requeued
<1>5. MarkDeferred(r, n).status = "pending"
  BY DEF MarkDeferred
<1>6. MarkFailed(r, FALSE, n).status = "pending"
  BY DEF MarkFailed
<1>7. MarkFailed(r, TRUE, n).status = "dead" /\ MarkFailed(r, TRUE, n).attempts = r.attempts
  BY DEF MarkFailed
<1> QED
  BY <1>1, <1>2, <1>3, <1>4, <1>5, <1>6, <1>7

\* The worker's own settlements.
LEMMA SettleItemStep ==
  ASSUME IInv, TInv', NEW w \in Workers, SettleItem(w)
  PROVE  IInv'
<1> DEFINE c == work[w].item
           r == rows[c.id]
<1>1. work[w].pc \in {"cancel", "applied", "failed"} /\ UNCHANGED <<lastClaim, answers>>
  BY DEF SettleItem
<1>2. TInv /\ c \in work[w].batch /\ c.id \in Messages
  BY <1>1, ItemFacts DEF IInv
<1>3. r \in Row
  BY <1>2 DEF TInv, TypeOK
<1>4. Owns(c) => Current(c) /\ c.attempts = r.attempts
  BY <1>2, OwnerIsCurrent
<1>5. CASE work[w].pc = "cancel"
  <2>1. CASE UNCHANGED rows /\ NextItem(w)
    <3>1. Quiet /\ \A v \in Workers : work'[v].pc \in {"apply", "applied", "failed"} => work'[v] = work[v]
      BY <1>1, <1>2, <2>1, NextItemQuiet DEF Quiet
    <3> QED
      BY <2>1, <3>1, QuietStep DEF JustifiedChange
  <2>2. ASSUME NEW why \in Refusals, Settle(w, Canceled(r, why)) PROVE IInv'
    BY <1>1, <1>2, <1>3, <2>2, SettledStatus, SettleStep
  <2> QED
    BY <1>5, <2>1, <2>2 DEF SettleItem
<1>6. CASE work[w].pc = "applied"
  <2>1. Settle(w, MarkApplied(r))
    BY <1>6 DEF SettleItem
  <2>2. Owns(c) => "delivered" \in answers[c.id]
    BY <1>4, <1>6 DEF IInv, ClaimInv, DeliveredKept
  <2> QED
    BY <1>1, <1>2, <1>3, <2>1, <2>2, SettledStatus, SettleStep
<1>7. CASE work[w].pc = "failed" /\ (work[w].permanent \/ Exhausted(c))
  <2>1. Settle(w, MarkFailed(r, TRUE, work[w].now))
    BY <1>7 DEF SettleItem
  <2>2. Owns(c) => r.attempts >= MaxAttempts \/ "permanent" \in answers[c.id]
    BY <1>4, <1>7 DEF IInv, ClaimInv, PermanentKept, Exhausted
  <2> QED
    BY <1>1, <1>2, <1>3, <2>1, <2>2, SettledStatus, SettleStep
<1>8. CASE work[w].pc = "failed" /\ ~(work[w].permanent \/ Exhausted(c))
  <2>1. PICK d \in Backoffs(c.attempts) : Settle(w, MarkFailed(r, FALSE, work[w].now + d))
    BY <1>8 DEF SettleItem
  <2> QED
    BY <1>1, <1>2, <1>3, <2>1, SettledStatus, SettleStep
<1> QED
  BY <1>1, <1>5, <1>6, <1>7, <1>8

\* The settlement a consumer makes in its own transaction.
LEMMA ApplyFinalizesStep ==
  ASSUME IInv, TInv', NEW w \in Workers, ApplyFinalizes(w)
  PROVE  IInv'
<1> DEFINE c == work[w].item
           r == rows[c.id]
<1>1. /\ TInv /\ c \in work[w].batch /\ c \in Claimed /\ c.id \in Messages
      /\ work[w].pc = "apply" /\ lastClaim' = lastClaim
  BY ItemFacts DEF IInv, ApplyFinalizes
<1>2. r \in Row
  BY <1>1 DEF TInv, TypeOK
<1>3. CASE Writable /\ Owns(c)
  <2>1. PICK row \in {MarkApplied(r), MarkDeferred(r, clock + DeferDelay)}
                      \cup {Canceled(r, why) : why \in Refusals} :
          /\ rows' = [rows EXCEPT ![c.id] = row]
          /\ answers' = Answered(c, IF row.status = "applied" THEN {"delivered"} ELSE {})
          /\ NextItem(w)
    BY <1>3 DEF ApplyFinalizes
  <2> DEFINE A == IF row.status = "applied" THEN {"delivered"} ELSE {}
  <2>2. row.status \in {"applied", "canceled", "pending"}
    BY ZenonT(60), <1>2, <2>1, SettledStatus
  <2>3. /\ \A m \in Messages : answers[m] \subseteq answers'[m]
        /\ Current(c) => A \subseteq answers'[c.id]
    BY <1>1, <2>1, AnswersGrow
  <2>4. Current(c)
    BY <1>1, <1>3, OwnerIsCurrent
  <2>5. Quiet /\ \A v \in Workers : work'[v].pc \in {"apply", "applied", "failed"} => work'[v] = work[v]
    BY <1>1, <2>1, <2>3, NextItemQuiet DEF Quiet
  <2>6. \A m \in Messages : rows'[m] = IF m = c.id THEN row ELSE rows[m]
    BY <1>1, <2>1 DEF TInv, TypeOK
  <2>7. \A m \in Messages : JustifiedChange(m)
    BY <2>2, <2>3, <2>4, <2>6 DEF JustifiedChange
  <2> QED
    BY <2>5, <2>7, QuietStep
<1>4. CASE NextItem(w) /\ UNCHANGED <<rows, answers>>
  <2>1. Quiet /\ \A v \in Workers : work'[v].pc \in {"apply", "applied", "failed"} => work'[v] = work[v]
    BY <1>1, <1>4, NextItemQuiet DEF Quiet
  <2> QED
    BY <1>4, <2>1, QuietStep DEF JustifiedChange
<1>5. CASE Goto(w, "failed") /\ UNCHANGED <<rows, replays, answers>>
  <2>1. Goto(w, "failed") /\ UNCHANGED <<rows, replays, answers>>
    BY <1>5
  <2> DEFINE new == [work[w] EXCEPT !.pc = "failed"]
  <2>2. work' = [work EXCEPT ![w] = new]
    BY <2>1 DEF Goto
  <2>3. new \in Work /\ new.batch = work[w].batch /\ new.item = c /\ new.pc = "failed" /\ ~new.permanent
    BY <1>1 DEF TInv, TypeOK, Work, Pcs, IInv, ClaimInv, PermanentFailed
  <2>4. answers' = Answered(c, {})
    BY <1>1, <2>1 DEF Answered, TInv, TypeOK
  <2> HIDE DEF new, c
  <2> QED
    BY <1>1, <2>1, <2>2, <2>3, <2>4, AnswerKept DEF c
<1> QED
  BY <1>3, <1>4, <1>5 DEF ApplyFinalizes

\* A claim takes the rows it touches away from every older claim: the fresh token
\* exceeds all that were handed out.
LEMMA ClaimStep ==
  ASSUME IInv, TInv', NEW w \in Workers, Claim(w)
  PROVE  IInv'
<1> DEFINE now == work[w].now
<1>1. PICK S \in Batches(now) :
        LET taken == IF Writable THEN S ELSE {}
        IN /\ rows' = [m \in Messages |-> IF m \in taken THEN ClaimedRow(m, now) ELSE rows[m]]
           /\ lastClaim' = [m \in Messages |-> IF m \in taken THEN lastClaim[m] + 1 ELSE lastClaim[m]]
           /\ work' = [work EXCEPT ![w] =
                IF taken = {} THEN Idle
                ELSE [@ EXCEPT !.pc = "decide",
                        !.batch = {[id |-> m, token |-> lastClaim[m] + 1,
                                    attempts |-> rows[m].attempts + 1,
                                    expires |-> now + Lease] : m \in taken}]]
           /\ answers' = [m \in Messages |-> IF m \in taken THEN {} ELSE answers[m]]
  BY DEF Claim
<1> DEFINE taken == IF Writable THEN S ELSE {}
           batch == {[id |-> m, token |-> lastClaim[m] + 1,
                      attempts |-> rows[m].attempts + 1,
                      expires |-> now + Lease] : m \in taken}
           new == IF taken = {} THEN Idle ELSE [work[w] EXCEPT !.pc = "decide", !.batch = batch]
<1>2. taken \subseteq Messages
  BY DEF Batches
<1>3. /\ \A m \in taken : /\ rows'[m].status = "processing"
                          /\ rows'[m].leaseToken = lastClaim[m] + 1
                          /\ rows'[m].attempts = rows[m].attempts + 1
                          /\ lastClaim'[m] = lastClaim[m] + 1
      /\ \A m \in Messages \ taken : /\ rows'[m] = rows[m]
                                     /\ lastClaim'[m] = lastClaim[m]
                                     /\ answers'[m] = answers[m]
      /\ lastClaim \in [Messages -> Nat]
  <2>1. /\ rows' = [m \in Messages |-> IF m \in taken THEN ClaimedRow(m, now) ELSE rows[m]]
        /\ lastClaim' = [m \in Messages |-> IF m \in taken THEN lastClaim[m] + 1 ELSE lastClaim[m]]
        /\ answers' = [m \in Messages |-> IF m \in taken THEN {} ELSE answers[m]]
    BY <1>1
  <2> HIDE DEF taken, now
  <2>2. \A m \in taken : /\ ClaimedRow(m, now).status = "processing"
                         /\ ClaimedRow(m, now).leaseToken = lastClaim[m] + 1
                         /\ ClaimedRow(m, now).attempts = rows[m].attempts + 1
    BY <1>2 DEF ClaimedRow, IInv, TInv, TypeOK, Row
  <2> QED
    BY <1>2, <2>1, <2>2 DEF IInv, TInv, TypeOK
<1>4. work' = [work EXCEPT ![w] = new]
  BY <1>1
<1>5. /\ new.pc \in {"idle", "decide"}
      /\ \A c \in new.batch : /\ c.id \in taken
                              /\ c.token = lastClaim[c.id] + 1
                              /\ c.attempts = rows[c.id].attempts + 1
  <2>1. \A c \in batch : /\ c.id \in taken
                         /\ c.token = lastClaim[c.id] + 1
                         /\ c.attempts = rows[c.id].attempts + 1
    OBVIOUS
  <2>2. Idle.pc = "idle" /\ Idle.batch = {}
    BY DEF Idle
  <2> HIDE DEF batch, taken
  <2>3. new = Idle \/ (new.pc = "decide" /\ new.batch = batch)
    BY DEF IInv, TInv, TypeOK, Work
  <2> QED
    BY <2>1, <2>2, <2>3
<1> HIDE DEF new, taken
<1>6. work'[w] = new /\ \A v \in Workers \ {w} : work'[v] = work[v]
  BY <1>4 DEF IInv, TInv, TypeOK
<1>7. \A v \in Workers : \A c \in work[v].batch :
        c.id \in Messages /\ c.token \in Nat /\ c.token <= lastClaim[c.id]
  <2> TAKE v \in Workers
  <2> TAKE c \in work[v].batch
  <2>1. c \in Claimed
    BY ClaimedFacts DEF IInv
  <2> QED
    BY <2>1 DEF Claimed, IInv, ClaimInv, ClaimsIssued
<1>8. ClaimsIssued'
  <2> SUFFICES ASSUME NEW v \in Workers, NEW c \in work'[v].batch
               PROVE  c.token <= lastClaim'[c.id]
    BY DEF ClaimsIssued
  <2>1. CASE v = w
    BY <2>1, <1>2, <1>3, <1>5, <1>6
  <2>2. CASE v # w
    BY <2>2, <1>2, <1>3, <1>6, <1>7
  <2> QED
    BY <2>1, <2>2
<1>9. ASSUME NEW v \in Workers, work'[v].pc \in {"apply", "applied", "failed"}
      PROVE  /\ v # w /\ work'[v] = work[v]
             /\ work[v].item \in work[v].batch
             /\ Current(work[v].item)' =>
                  Current(work[v].item) /\ answers'[work[v].item.id] = answers[work[v].item.id]
  <2>1. v # w /\ work'[v] = work[v]
    BY <1>5, <1>6, <1>9
  <2>2. work[v].item \in work[v].batch
    BY <1>9, <2>1, ItemFacts DEF IInv
  <2> QED
    BY <2>1, <2>2, <1>2, <1>3, <1>7 DEF Current
<1>10. DeliveredKept' /\ PermanentKept' /\ PermanentFailed'
  BY <1>9 DEF IInv, ClaimInv, DeliveredKept, PermanentKept, PermanentFailed
<1>11. LeaseCurrent' /\ AppliedByItsDelivery' /\ DeadJustified'
  BY <1>3 DEF IInv, RowInv, LeaseCurrent, AppliedByItsDelivery, DeadJustified
<1>12. AttemptsKnown'
  <2> SUFFICES ASSUME NEW v \in Workers, NEW c \in work'[v].batch, Owns(c)'
               PROVE  c.attempts = rows'[c.id].attempts
    BY DEF AttemptsKnown
  <2>1. CASE v = w
    BY <2>1, <1>3, <1>5, <1>6
  <2>2. CASE v # w
    <3>1. c \in work[v].batch
      BY <2>2, <1>6
    <3>2. c.id \in Messages \ taken
      BY <3>1, <1>2, <1>3, <1>7 DEF Owns
    <3> QED
      BY <3>1, <3>2, <1>3 DEF IInv, RowInv, AttemptsKnown, Owns
  <2> QED
    BY <2>1, <2>2
<1> QED
  BY <1>8, <1>10, <1>11, <1>12 DEF IInv, ClaimInv, RowInv

\* The invariant holds of the empty table.
LEMMA IInit == Init => IInv
<1> SUFFICES ASSUME Init PROVE IInv
  OBVIOUS
<1>1. TInv
  BY TypeInit
<1>2. ClaimInv
  BY DEF Init, ClaimInv, ClaimsIssued, DeliveredKept, PermanentKept, PermanentFailed, Idle
<1>3. RowInv
  BY DEF Init, RowInv, LeaseCurrent, AttemptsKnown, AppliedByItsDelivery, DeadJustified, NoRow, Idle
<1> QED
  BY <1>1, <1>2, <1>3 DEF IInv

\* Every action keeps the invariant.
LEMMA INext == IInv /\ [Next]_vars => IInv'
<1> SUFFICES ASSUME IInv, [Next]_vars PROVE IInv'
  OBVIOUS
<1>0. TInv /\ TInv' /\ \A m \in Messages : rows[m] \in Row
  BY TypeNext DEF IInv, TInv, TypeOK
<1>1. ASSUME UNCHANGED <<lastClaim, work, answers>>,
             \A m \in Messages : \/ rows'[m] = rows[m]
                                 \/ rows'[m].status \in {"pending", "canceled"}
      PROVE  IInv'
  BY <1>0, <1>1, QuietStep DEF Quiet, JustifiedChange
<1>2. ASSUME NEW m \in Messages, OwnerStep(m) PROVE IInv'
  <2>1. NewMessage(clock, gate.generation).status = "pending"
    BY DEF NewMessage, NoRow
  <2>2. ASSUME NEW why, NEW payload
        PROVE  [Canceled(rows[m], why) EXCEPT !.payload = payload].status = "canceled"
    BY <1>0 DEF Canceled, Unleased, Row
  <2>3. Requeued(rows[m], clock).status = "pending"
    BY <1>0, SettledStatus
  <2>4. \E row : rows' = [rows EXCEPT ![m] = row] /\ row.status \in {"pending", "canceled"}
    <3>1. CASE Enqueue(m)
      BY <3>1, <2>1 DEF Enqueue
    <3>2. CASE RequeueDead(m)
      BY <3>2, <2>3 DEF RequeueDead
    <3>3. ASSUME NEW why, NEW payload, CancelByOwner(m, why, payload)
          PROVE  \E row : rows' = [rows EXCEPT ![m] = row] /\ row.status \in {"pending", "canceled"}
      BY <3>3, <2>2 DEF CancelByOwner
    <3> QED
      BY <1>2, <3>1, <3>2, <3>3 DEF OwnerStep
  <2>5. UNCHANGED <<lastClaim, work, answers>>
    BY <1>2 DEF OwnerStep, Enqueue, RequeueDead, CancelByOwner
  <2> QED
    BY <1>0, <1>1, <2>4, <2>5 DEF TInv, TypeOK
<1>3. ASSUME NEW w \in Workers, Begin(w) PROVE IInv'
  <2> DEFINE new == [work[w] EXCEPT !.pc = "claim", !.now = clock]
  <2>1. work' = [work EXCEPT ![w] = new]
    BY <1>3 DEF Begin
  <2>2. new.pc = "claim" /\ new.batch = work[w].batch
    BY <1>0 DEF TInv, TypeOK, Work
  <2> HIDE DEF new
  <2>3. work'[w] = new /\ \A v \in Workers \ {w} : work'[v] = work[v]
    BY <1>0, <2>1 DEF TInv, TypeOK
  <2>4. Quiet /\ \A v \in Workers : work'[v].pc \in {"apply", "applied", "failed"} => work'[v] = work[v]
    BY <1>3, <2>2, <2>3 DEF Begin, Quiet
  <2> QED
    BY <1>0, <1>3, <2>4, QuietStep DEF Begin, JustifiedChange
<1>4. ASSUME NEW w \in Workers, Claim(w) PROVE IInv'
  BY <1>0, <1>4, ClaimStep
<1>5. ASSUME NEW w \in Workers, CanApply(w) PROVE IInv'
  <2>1. PICK c \in work[w].batch, pc \in {"apply", "cancel", "failed"}, permanent \in BOOLEAN :
          /\ permanent => pc = "failed"
          /\ work' = [work EXCEPT ![w].pc = pc, ![w].item = c, ![w].permanent = permanent]
          /\ answers' = Answered(c, IF permanent THEN {"permanent"} ELSE {})
    BY <1>5 DEF CanApply
  <2> DEFINE new == [work[w] EXCEPT !.pc = pc, !.item = c, !.permanent = permanent]
             A == IF permanent THEN {"permanent"} ELSE {}
  <2>2. /\ new \in Work /\ new.batch = work[w].batch /\ new.item = c
        /\ new.pc = pc /\ new.permanent = permanent
    BY ZenonT(60), <1>0, ClaimedFacts DEF TInv, TypeOK, Work, Pcs
  <2>3. work' = [work EXCEPT ![w] = new] /\ answers' = Answered(c, A)
    BY <2>1
  <2>4. A \in SUBSET {"delivered", "permanent"} /\ (permanent => "permanent" \in A)
    OBVIOUS
  <2>5. new.pc # "applied" /\ (new.permanent => new.pc = "failed" /\ "permanent" \in A)
    BY <2>1, <2>2, <2>4
  <2> HIDE DEF new, A
  <2> QED
    BY <1>0, <1>5, <2>2, <2>3, <2>4, <2>5, AnswerKept DEF CanApply
<1>6. ASSUME NEW w \in Workers, ApplySucceeds(w) PROVE IInv'
  <2> DEFINE new == [work[w] EXCEPT !.pc = "applied"]
  <2>1. work[w].item \in work[w].batch /\ work[w].pc = "apply"
    BY <1>0, <1>6, ItemFacts DEF ApplySucceeds
  <2>2. work' = [work EXCEPT ![w] = new]
    BY <1>6 DEF ApplySucceeds, Goto
  <2>3. /\ new \in Work /\ new.batch = work[w].batch /\ new.item = work[w].item
        /\ new.pc = "applied" /\ ~new.permanent
    BY ZenonT(60), <1>0, <2>1 DEF TInv, TypeOK, Work, Pcs, IInv, ClaimInv, PermanentFailed
  <2> HIDE DEF new
  <2> QED
    BY <1>0, <1>6, <2>1, <2>2, <2>3, AnswerKept DEF ApplySucceeds
<1>7. ASSUME NEW w \in Workers, ApplyFails(w) PROVE IInv'
  <2>1. work[w].item \in work[w].batch
    BY <1>0, <1>7, ItemFacts DEF ApplyFails
  <2>2. PICK permanent \in BOOLEAN, reached \in BOOLEAN :
          /\ work' = [work EXCEPT ![w].pc = "failed", ![w].permanent = permanent]
          /\ answers' = Answered(work[w].item, (IF permanent THEN {"permanent"} ELSE {})
                                                \cup (IF reached THEN {"delivered"} ELSE {}))
    BY <1>7 DEF ApplyFails
  <2> DEFINE new == [work[w] EXCEPT !.pc = "failed", !.permanent = permanent]
             A == (IF permanent THEN {"permanent"} ELSE {}) \cup (IF reached THEN {"delivered"} ELSE {})
  <2>3. /\ new \in Work /\ new.batch = work[w].batch /\ new.item = work[w].item
        /\ new.pc = "failed" /\ new.permanent = permanent
    BY ZenonT(60), <1>0 DEF TInv, TypeOK, Work, Pcs
  <2>4. work' = [work EXCEPT ![w] = new] /\ answers' = Answered(work[w].item, A)
    BY <2>2
  <2>5. A \in SUBSET {"delivered", "permanent"} /\ (permanent => "permanent" \in A)
    OBVIOUS
  <2> HIDE DEF new, A
  <2> QED
    BY <1>0, <1>7, <2>1, <2>3, <2>4, <2>5, AnswerKept DEF ApplyFails
<1>8. ASSUME NEW w \in Workers, ApplyFinalizes(w) PROVE IInv'
  BY <1>0, <1>8, ApplyFinalizesStep
<1>9. ASSUME NEW w \in Workers, SettleItem(w) PROVE IInv'
  BY <1>0, <1>9, SettleItemStep
<1>10. ASSUME NEW w \in Workers, Crash(w) PROVE IInv'
  <2>1. Quiet /\ \A v \in Workers : work'[v].pc \in {"apply", "applied", "failed"} => work'[v] = work[v]
    BY <1>0, <1>10, NextItemQuiet DEF Crash, Quiet
  <2> QED
    BY <1>0, <1>10, <2>1, QuietStep DEF Crash, JustifiedChange
<1>11. ASSUME RedactTx PROVE IInv'
  <2>1. \A m \in Messages : Redacted(rows[m]).status = "canceled"
    BY <1>0, SettledStatus
  <2> QED
    BY <1>1, <1>11, <2>1 DEF RedactTx
<1>12. ASSUME CloseGeneration \/ OpenGeneration \/ Tick \/ UNCHANGED vars PROVE IInv'
  BY <1>1, <1>12 DEF CloseGeneration, OpenGeneration, Tick, vars
<1> QED
  BY <1>2, <1>3, <1>4, <1>5, <1>6, <1>7, <1>8, <1>9, <1>10, <1>11, <1>12 DEF Next, WorkerStep

\* A row is marked applied only by the claim that delivered it, for any number of
\* workers racing on expired leases: a worker whose lease was taken over cannot settle
\* the row for its successor.
THEOREM AppliedByItsDeliveryHolds == Spec => []AppliedByItsDelivery
<1>1. IInv => AppliedByItsDelivery
  BY DEF IInv, RowInv
<1> QED
  BY IInit, INext, <1>1, PTL DEF Spec

\* A row dies only of a permanent error of its newest claim or of a retry budget used up
\* on the row itself.
THEOREM DeadJustifiedHolds == Spec => []DeadJustified
<1>1. IInv => DeadJustified
  BY DEF IInv, RowInv
<1> QED
  BY IInit, INext, <1>1, PTL DEF Spec

-----------------------------------------------------------------------------
(* Settled rows and erased generations.                                    *)

\* How one step may change a row: an insertion, a change of an unsettled row under an
\* open gate, or a scrub under a closed one.
Inserted(m) == /\ gate.open /\ rows[m].status = "absent"
               /\ rows'[m].generation = gate.generation
Advanced(m) == /\ gate.open /\ rows[m].status \in {"pending", "processing", "dead"}
               /\ rows'[m].generation = rows[m].generation
Scrubbed(m) == ~gate.open /\ Old(m) /\ rows'[m] = Redacted(rows[m])
RowChange(m) == rows'[m] = rows[m] \/ Inserted(m) \/ Advanced(m) \/ Scrubbed(m)

\* No settlement touches the generation.
LEMMA KeepsGeneration ==
  ASSUME NEW r \in Row, NEW n, NEW why
  PROVE  /\ MarkApplied(r).generation = r.generation
         /\ MarkFailed(r, TRUE, n).generation = r.generation
         /\ MarkFailed(r, FALSE, n).generation = r.generation
         /\ MarkDeferred(r, n).generation = r.generation
         /\ Canceled(r, why).generation = r.generation
         /\ Requeued(r, n).generation = r.generation
<1> USE DEF Row, Unleased
<1>1. MarkApplied(r).generation = r.generation
  BY DEF MarkApplied
<1>2. /\ MarkFailed(r, TRUE, n).generation = r.generation
      /\ MarkFailed(r, FALSE, n).generation = r.generation
  BY DEF MarkFailed
<1>3. MarkDeferred(r, n).generation = r.generation
  BY DEF MarkDeferred
<1>4. Canceled(r, why).generation = r.generation
  BY DEF Canceled
<1>5. Requeued(r, n).generation = r.generation
  BY DEF Requeued
<1> QED
  BY <1>1, <1>2, <1>3, <1>4, <1>5

\* A settlement changes only a row it owns under an open gate.
LEMMA SettleChange ==
  ASSUME TInv, NEW w \in Workers, work[w].item \in work[w].batch, NEW row, Settle(w, row),
         row.generation = rows[work[w].item.id].generation
  PROVE  \A m \in Messages : RowChange(m)
<1> DEFINE c == work[w].item
<1>1. c.id \in Messages
  BY ClaimedFacts
<1>2. CASE Writable /\ Owns(c)
  <2>1. \A m \in Messages : rows'[m] = IF m = c.id THEN row ELSE rows[m]
    BY <1>1, <1>2 DEF Settle, TInv, TypeOK
  <2> QED
    BY <1>2, <2>1 DEF RowChange, Advanced, Owns, Writable
<1>3. CASE ~(Writable /\ Owns(c))
  BY <1>3 DEF Settle, RowChange
<1> QED
  BY <1>2, <1>3

\* Every step changes rows in one of these ways.
LEMMA StepChange ==
  ASSUME TInv, [Next]_vars
  PROVE  \/ (CloseGeneration \/ OpenGeneration) /\ rows' = rows
         \/ gate' = gate /\ \A m \in Messages : RowChange(m)
<1>0. \A m \in Messages : rows[m] \in Row
  BY DEF TInv, TypeOK
<1> DEFINE Goal == gate' = gate /\ \A m \in Messages : RowChange(m)
<1>1. ASSUME NEW m \in Messages, OwnerStep(m) PROVE Goal
  <2>1. gate' = gate
    BY <1>1 DEF OwnerStep, Enqueue, RequeueDead, CancelByOwner
  <2>2. \E row : /\ rows' = [rows EXCEPT ![m] = row]
                 /\ \/ rows[m].status = "absent" /\ row.generation = gate.generation
                    \/ /\ rows[m].status \in {"pending", "dead", "processing"}
                       /\ row.generation = rows[m].generation
    <3>1. CASE Enqueue(m)
      <4>1. NewMessage(clock, gate.generation).generation = gate.generation
        BY DEF NewMessage, NoRow
      <4> QED
        BY <3>1, <4>1 DEF Enqueue
    <3>2. CASE RequeueDead(m)
      <4>1. Requeued(rows[m], clock).generation = rows[m].generation
        BY <1>0, KeepsGeneration
      <4>2. /\ rows' = [rows EXCEPT ![m] = Requeued(rows[m], clock)]
            /\ rows[m].status = "dead"
        BY <3>2 DEF RequeueDead
      <4> QED
        BY <4>1, <4>2
    <3>3. ASSUME NEW why, NEW payload, CancelByOwner(m, why, payload)
          PROVE  /\ rows' = [rows EXCEPT ![m] = [Canceled(rows[m], why) EXCEPT !.payload = payload]]
                 /\ rows[m].status \in {"pending", "dead", "processing"}
                 /\ [Canceled(rows[m], why) EXCEPT !.payload = payload].generation = rows[m].generation
      BY <1>0, <3>3 DEF CancelByOwner, Canceled, Unleased, Row
    <3> QED
      BY <1>1, <3>1, <3>2, <3>3 DEF OwnerStep
  <2>3. gate.open
    BY <1>1 DEF OwnerStep, Enqueue, RequeueDead, CancelByOwner, Writable
  <2> QED
    BY <2>1, <2>2, <2>3 DEF RowChange, Inserted, Advanced, TInv, TypeOK
<1>2. ASSUME NEW w \in Workers, Claim(w) PROVE Goal
  <2>1. PICK S \in Batches(work[w].now) :
          rows' = [m \in Messages |-> IF m \in (IF Writable THEN S ELSE {})
                                      THEN ClaimedRow(m, work[w].now) ELSE rows[m]]
    BY <1>2 DEF Claim
  <2>2. \A m \in S : m \in Messages /\ rows[m].status \in {"pending", "processing"}
    BY DEF Batches, Claimable
  <2>3. \A m \in S : ClaimedRow(m, work[w].now).generation = rows[m].generation
    BY <1>0, <2>2 DEF ClaimedRow, Row
  <2> QED
    BY <1>2, <2>1, <2>2, <2>3 DEF Claim, RowChange, Advanced, Writable
<1>3. ASSUME NEW w \in Workers, ApplyFinalizes(w) PROVE Goal
  <2> DEFINE c == work[w].item
  <2>1. c \in work[w].batch /\ c.id \in Messages
    BY <1>3, ItemFacts DEF ApplyFinalizes
  <2>2. CASE Writable /\ Owns(c)
    <3>1. PICK row \in {MarkApplied(rows[c.id]), MarkDeferred(rows[c.id], clock + DeferDelay)}
                        \cup {Canceled(rows[c.id], why) : why \in Refusals} :
            rows' = [rows EXCEPT ![c.id] = row]
      BY <1>3, <2>2 DEF ApplyFinalizes
    <3>2. row.generation = rows[c.id].generation
      <4>1. /\ MarkApplied(rows[c.id]).generation = rows[c.id].generation
            /\ \A why : Canceled(rows[c.id], why).generation = rows[c.id].generation
            /\ MarkDeferred(rows[c.id], clock + DeferDelay).generation = rows[c.id].generation
        BY <1>0, <2>1, KeepsGeneration
      <4> QED
        BY <3>1, <4>1
    <3>3. \A m \in Messages : rows'[m] = IF m = c.id THEN row ELSE rows[m]
      BY <2>1, <3>1 DEF TInv, TypeOK
    <3> QED
      BY <1>3, <2>2, <3>2, <3>3 DEF ApplyFinalizes, RowChange, Advanced, Owns, Writable
  <2>3. CASE ~(Writable /\ Owns(c))
    BY <1>3, <2>3 DEF ApplyFinalizes, RowChange
  <2> QED
    BY <2>2, <2>3
<1>4. ASSUME NEW w \in Workers, SettleItem(w) PROVE Goal
  <2> DEFINE c == work[w].item
             r == rows[c.id]
  <2>1. work[w].pc \in {"cancel", "applied", "failed"} /\ gate' = gate
    BY <1>4 DEF SettleItem
  <2>2. c \in work[w].batch /\ r \in Row
    BY <1>0, <2>1, ItemFacts
  <2>3. \/ rows' = rows
        \/ \E row : Settle(w, row) /\ row.generation = r.generation
    <3>1. /\ \A why : Canceled(r, why).generation = r.generation
          /\ MarkApplied(r).generation = r.generation
          /\ MarkFailed(r, TRUE, work[w].now).generation = r.generation
          /\ \A d : MarkFailed(r, FALSE, work[w].now + d).generation = r.generation
      BY <2>2, KeepsGeneration
    <3>2. CASE work[w].pc = "cancel"
      BY <1>4, <3>1, <3>2 DEF SettleItem
    <3>3. CASE work[w].pc = "applied"
      BY <1>4, <3>1, <3>3 DEF SettleItem
    <3>4. CASE work[w].pc = "failed"
      BY <1>4, <3>1, <3>4 DEF SettleItem
    <3> QED
      BY <2>1, <3>2, <3>3, <3>4
  <2>4. \A m \in Messages : RowChange(m)
    BY <2>2, <2>3, SettleChange DEF RowChange
  <2> QED
    BY <2>1, <2>4
<1>5. ASSUME RedactTx PROVE Goal
  BY <1>5 DEF RedactTx, RowChange, Scrubbed
<1>6. ASSUME NEW w \in Workers, Begin(w) \/ CanApply(w) \/ ApplySucceeds(w) \/ ApplyFails(w) \/ Crash(w)
      PROVE  Goal
  BY <1>6 DEF Begin, CanApply, ApplySucceeds, ApplyFails, Crash, RowChange
<1>7. ASSUME Tick \/ UNCHANGED vars PROVE Goal
  BY <1>7 DEF Tick, vars, RowChange
<1>8. ASSUME CloseGeneration \/ OpenGeneration PROVE rows' = rows
  BY <1>8 DEF CloseGeneration, OpenGeneration
<1> QED
  BY <1>1, <1>2, <1>3, <1>4, <1>5, <1>6, <1>7, <1>8 DEF Next, WorkerStep

\* Opening the generation finds no residue, and from then on nothing but an insertion
\* (of the new generation) or a change of an unsettled row (never of an erased one) happens.
LEMMA NoSurvivorNext ==
  ASSUME TInv, NoSurvivorAfterErasure, [Next]_vars
  PROVE  NoSurvivorAfterErasure'
<1>1. CASE CloseGeneration
  BY <1>1 DEF CloseGeneration, NoSurvivorAfterErasure
<1>2. CASE OpenGeneration
  BY <1>2 DEF OpenGeneration, Residual, NoSurvivorAfterErasure, Old, TInv, TypeOK
<1>3. CASE gate' = gate /\ \A m \in Messages : RowChange(m)
  <2> SUFFICES ASSUME gate.open, NEW m \in Messages, Old(m)'
               PROVE  rows'[m] = Redacted(rows'[m])
    BY <1>3 DEF NoSurvivorAfterErasure
  <2>1. rows[m] \in Row /\ gate.generation \in Nat
    BY DEF TInv, TypeOK
  <2>2. ~Inserted(m)
    BY <1>3, <2>1 DEF Inserted, Old
  <2>3. ASSUME Advanced(m) PROVE FALSE
    <3>1. Old(m)
      BY <1>3, <2>3 DEF Advanced, Old
    <3>2. rows[m].status = "canceled"
      BY <2>1, <3>1, SettledStatus DEF NoSurvivorAfterErasure
    <3> QED
      BY <2>3, <3>2 DEF Advanced
  <2>4. rows'[m] = rows[m]
    BY <1>3, <2>2, <2>3 DEF RowChange, Scrubbed
  <2> QED
    BY <1>3, <2>4 DEF NoSurvivorAfterErasure, Old
<1> QED
  BY <1>1, <1>2, <1>3, StepChange

\* An erasure is complete and stays so: whatever workers, owners and late settlements do,
\* a row of an erased generation is a scrubbed row once the gate is open again.
THEOREM ErasureIsComplete == Spec => []NoSurvivorAfterErasure
<1>1. Init => NoSurvivorAfterErasure
  BY DEF Init, NoSurvivorAfterErasure, Old, NoRow
<1> QED
  BY TypeInit, TypeNext, NoSurvivorNext, <1>1, PTL DEF Spec

\* Once applied or canceled, a row is changed by the privacy scrub alone.
THEOREM SettledRowsAreFinal == Spec => SettledIsFinal
<1>1. ASSUME TInv, [Next]_vars, NEW m \in Messages,
             rows[m].status \in {"applied", "canceled"}, rows'[m] # rows[m]
      PROVE  ~gate.open /\ rows'[m] = Redacted(rows[m])
  BY <1>1, StepChange DEF RowChange, Inserted, Advanced, Scrubbed
<1>2. TInv /\ [Next]_vars =>
        [\A m \in Messages :
           rows[m].status \in {"applied", "canceled"} /\ rows'[m] # rows[m]
             => ~gate.open /\ rows'[m] = Redacted(rows[m])]_vars
  BY <1>1
<1> QED
  BY TypeInit, TypeNext, <1>2, PTL DEF Spec, SettledIsFinal

-----------------------------------------------------------------------------
(* Leases exclude.                                                         *)

\* A claim is held once.
HeldOnce ==
  \A v, w \in Workers : \A c \in work[v].batch, d \in work[w].batch :
    c.id = d.id /\ c.token = d.token => v = w /\ c = d

\* A claim with a successor has outlived its lease.
OutlivedWhenReplaced ==
  \A w \in Workers : \A c \in work[w].batch : c.token < lastClaim[c.id] => c.expires <= clock

\* A claim without one still has its lease, unless a scrub took the row.
LeaseStands(c) == /\ rows[c.id].status = "processing" /\ rows[c.id].leaseToken = c.token
                  /\ rows[c.id].leaseExpiresAt = c.expires
NewestHasLease ==
  \A w \in Workers : \A c \in work[w].batch :
    Current(c) => rows[c.id].status = "canceled" \/ LeaseStands(c)

\* A worker judges expiry by a clock it read before the claim.
ClockRead == \A w \in Workers : work[w].now <= clock

LInv == IInv /\ HeldOnce /\ OutlivedWhenReplaced /\ NewestHasLease /\ ClockRead

\* A step that hands out no claim keeps the lease facts if it leaves the rows of the
\* newest claims alone or cancels them.
LEMMA LeaseQuiet ==
  ASSUME LInv, IInv', clock' \in Nat, clock <= clock', lastClaim' = lastClaim, ClockRead',
         \A w \in Workers : work'[w].batch \subseteq work[w].batch,
         \A w \in Workers : \A c \in work'[w].batch :
           Current(c) => rows'[c.id] = rows[c.id] \/ rows'[c.id].status = "canceled"
  PROVE  LInv'
<1>1. HeldOnce'
  BY DEF LInv, HeldOnce
<1>2. OutlivedWhenReplaced'
  <2> SUFFICES ASSUME NEW w \in Workers, NEW c \in work'[w].batch, c.token < lastClaim[c.id]
               PROVE  c.expires <= clock'
    BY DEF OutlivedWhenReplaced
  <2>1. c \in work[w].batch /\ c \in Claimed /\ clock \in Nat
    BY ClaimedFacts DEF LInv, IInv, TInv, TypeOK
  <2>2. c.expires <= clock
    BY <2>1 DEF LInv, OutlivedWhenReplaced
  <2> QED
    BY <2>1, <2>2 DEF Claimed
<1>3. NewestHasLease'
  BY DEF LInv, NewestHasLease, Current, LeaseStands
<1> QED
  BY <1>1, <1>2, <1>3 DEF LInv

\* Leaving an item drops its claim and reads no clock.
LEMMA NextItemDrops ==
  ASSUME TInv, NEW w \in Workers, NextItem(w) \/ Abort(w)
  PROVE  /\ work'[w].batch \subseteq work[w].batch \ {work[w].item}
         /\ \A v \in Workers \ {w} : work'[v] = work[v]
         /\ work'[w].now \in {0, work[w].now}
<1> DEFINE rest == work[w].batch \ {work[w].item}
           new == IF Abort(w) \/ rest = {} THEN Idle
                  ELSE [work[w] EXCEPT !.pc = "decide", !.batch = rest, !.item = NoClaim,
                                       !.permanent = FALSE]
<1>1. work' = [work EXCEPT ![w] = new]
  BY DEF NextItem, Abort
<1>2. new.batch \subseteq rest /\ new.now \in {0, work[w].now}
  BY DEF TInv, TypeOK, Idle, Work
<1> HIDE DEF new
<1> QED
  BY <1>1, <1>2 DEF TInv, TypeOK

\* A settled claim is dropped, so no newest claim of its row is held any more.
LEMMA LeaseSettle ==
  ASSUME LInv, IInv', NEW w \in Workers, work[w].item \in work[w].batch,
         NextItem(w) \/ Abort(w), UNCHANGED <<lastClaim, clock>>,
         \A m \in Messages : \/ rows'[m] = rows[m]
                             \/ m = work[w].item.id /\ Current(work[w].item)
  PROVE  LInv'
<1> DEFINE c == work[w].item
<1>0. IInv /\ TInv /\ clock \in Nat
  BY DEF LInv, IInv, TInv, TypeOK
<1>1. /\ work'[w].batch \subseteq work[w].batch \ {c}
      /\ \A v \in Workers \ {w} : work'[v] = work[v]
      /\ work'[w].now \in {0, work[w].now}
  BY <1>0, NextItemDrops
<1>2. \A v \in Workers : work'[v].batch \subseteq work[v].batch
  BY <1>1
<1>3. ClockRead'
  BY <1>0, <1>1 DEF ClockRead, LInv
<1>4. ASSUME NEW v \in Workers, NEW d \in work'[v].batch, Current(d)
      PROVE  rows'[d.id] = rows[d.id]
  <2>1. d \in work[v].batch /\ d.id \in Messages
    BY <1>0, <1>2, <1>4, ClaimedFacts
  <2>2. ~(d.id = c.id /\ Current(c))
    <3> SUFFICES ASSUME d.id = c.id, Current(c) PROVE FALSE
      OBVIOUS
    <3>1. v = w /\ d = c
      BY <1>4, <2>1 DEF LInv, HeldOnce, Current
    <3> QED
      BY <1>1, <1>4, <3>1
  <2> QED
    BY <2>1, <2>2
<1> QED
  BY <1>0, <1>2, <1>3, <1>4, LeaseQuiet

\* A claim replaces a newest claim only past its lease, judged by a clock that is not ahead.
LEMMA LeaseClaim ==
  ASSUME LInv, IInv', NEW w \in Workers, Claim(w)
  PROVE  LInv'
<1> DEFINE now == work[w].now
<1>0. IInv /\ TInv /\ now \in Nat /\ clock \in Nat /\ now <= clock /\ clock' = clock
  BY DEF LInv, IInv, TInv, TypeOK, Work, ClockRead, Claim
<1>1. PICK S \in Batches(now) :
        LET taken == IF Writable THEN S ELSE {}
        IN /\ rows' = [m \in Messages |-> IF m \in taken THEN ClaimedRow(m, now) ELSE rows[m]]
           /\ lastClaim' = [m \in Messages |-> IF m \in taken THEN lastClaim[m] + 1 ELSE lastClaim[m]]
           /\ work' = [work EXCEPT ![w] =
                IF taken = {} THEN Idle
                ELSE [@ EXCEPT !.pc = "decide",
                        !.batch = {[id |-> m, token |-> lastClaim[m] + 1,
                                    attempts |-> rows[m].attempts + 1,
                                    expires |-> now + Lease] : m \in taken}]]
  BY DEF Claim
<1> DEFINE taken == IF Writable THEN S ELSE {}
           claim(m) == [id |-> m, token |-> lastClaim[m] + 1,
                        attempts |-> rows[m].attempts + 1, expires |-> now + Lease]
           batch == {claim(m) : m \in taken}
           new == IF taken = {} THEN Idle ELSE [work[w] EXCEPT !.pc = "decide", !.batch = batch]
<1>2. taken \subseteq Messages /\ \A m \in taken : Claimable(m, now)
  BY DEF Batches
<1>3. work' = [work EXCEPT ![w] = new]
  BY <1>1
<1>4. /\ \A m \in taken : /\ rows'[m].status = "processing"
                          /\ rows'[m].leaseToken = lastClaim[m] + 1
                          /\ rows'[m].leaseExpiresAt = now + Lease
                          /\ lastClaim'[m] = lastClaim[m] + 1
      /\ \A m \in Messages \ taken : rows'[m] = rows[m] /\ lastClaim'[m] = lastClaim[m]
  <2>1. /\ rows' = [m \in Messages |-> IF m \in taken THEN ClaimedRow(m, now) ELSE rows[m]]
        /\ lastClaim' = [m \in Messages |-> IF m \in taken THEN lastClaim[m] + 1 ELSE lastClaim[m]]
    BY <1>1
  <2> HIDE DEF taken, now
  <2>2. \A m \in taken : /\ ClaimedRow(m, now).status = "processing"
                         /\ ClaimedRow(m, now).leaseToken = lastClaim[m] + 1
                         /\ ClaimedRow(m, now).leaseExpiresAt = now + Lease
    BY <1>0, <1>2 DEF ClaimedRow, TInv, TypeOK, Row
  <2> QED
    BY <1>2, <2>1, <2>2
<1>5. /\ new.now \in {0, now}
      /\ \A c \in new.batch : c.id \in taken /\ c = claim(c.id)
  <2>1. \A c \in batch : c.id \in taken /\ c = claim(c.id)
    OBVIOUS
  <2>2. Idle.now = 0 /\ Idle.batch = {}
    BY DEF Idle
  <2> HIDE DEF batch, taken
  <2>3. new = Idle \/ (new.now = now /\ new.batch = batch)
    BY <1>0 DEF TInv, TypeOK, Work
  <2> HIDE DEF claim, new
  <2> QED
    BY <2>1, <2>2, <2>3
<1>6. \A m \in Messages : lastClaim[m] \in Nat
  BY <1>0 DEF TInv, TypeOK
<1>7. /\ \A m : claim(m).id = m /\ claim(m).token = lastClaim[m] + 1 /\ claim(m).expires = now + Lease
  OBVIOUS
<1> HIDE DEF new, taken, claim, batch, now
<1>8. work'[w] = new /\ \A v \in Workers \ {w} : work'[v] = work[v]
  BY <1>0, <1>3 DEF TInv, TypeOK
\* Claims held by others are older than what is handed out.
<1>9. \A v \in Workers \ {w} : \A c \in work'[v].batch :
        /\ c \in work[v].batch /\ c.id \in Messages /\ c.token \in Nat /\ c.expires \in Nat
        /\ c.token <= lastClaim[c.id]
  <2> TAKE v \in Workers \ {w}
  <2> TAKE c \in work'[v].batch
  <2>1. c \in work[v].batch
    BY <1>8
  <2>2. c \in Claimed
    BY <1>0, <2>1, ClaimedFacts
  <2> QED
    BY <1>0, <2>1, <2>2 DEF Claimed, IInv, ClaimInv, ClaimsIssued
<1>10. \A c \in work'[w].batch :
         /\ c.id \in taken /\ c.id \in Messages /\ c = claim(c.id)
         /\ c.token = lastClaim[c.id] + 1 /\ c.expires = now + Lease
  BY <1>2, <1>5, <1>7, <1>8
<1>11. HeldOnce'
  <2> SUFFICES ASSUME NEW u \in Workers, NEW v \in Workers,
                      NEW c \in work'[u].batch, NEW d \in work'[v].batch,
                      c.id = d.id, c.token = d.token
               PROVE  u = v /\ c = d
    BY DEF HeldOnce
  <2>1. CASE u = w /\ v = w
    BY <2>1, <1>10
  <2>2. CASE u # w /\ v # w
    BY <2>2, <1>9 DEF LInv, HeldOnce
  <2>3. CASE u = w /\ v # w
    BY <2>3, <1>6, <1>9, <1>10
  <2>4. CASE u # w /\ v = w
    BY <2>4, <1>6, <1>9, <1>10
  <2> QED
    BY <2>1, <2>2, <2>3, <2>4
<1>12. OutlivedWhenReplaced'
  <2> SUFFICES ASSUME NEW v \in Workers, NEW c \in work'[v].batch, c.token < lastClaim'[c.id]
               PROVE  c.expires <= clock
    BY <1>0 DEF OutlivedWhenReplaced
  <2>1. CASE v = w
    BY <2>1, <1>4, <1>6, <1>10
  <2>2. CASE v # w
    <3>1. CASE c.token < lastClaim[c.id]
      BY <2>2, <3>1, <1>9 DEF LInv, OutlivedWhenReplaced
    <3>2. CASE c.id \in taken /\ c.token = lastClaim[c.id]
      <4>1. rows[c.id].status = "canceled" \/ LeaseStands(c)
        BY <2>2, <3>2, <1>9 DEF LInv, NewestHasLease, Current
      <4>2. rows[c.id].leaseExpiresAt <= now /\ rows[c.id].leaseExpiresAt = c.expires
        BY <1>2, <3>2, <4>1 DEF Claimable, LeaseStands
      <4> QED
        BY <2>2, <4>2, <1>0, <1>9
    <3> QED
      BY <2>2, <3>1, <3>2, <1>4, <1>6, <1>9
  <2> QED
    BY <2>1, <2>2
<1>13. NewestHasLease'
  <2> SUFFICES ASSUME NEW v \in Workers, NEW c \in work'[v].batch, c.token = lastClaim'[c.id]
               PROVE  rows'[c.id].status = "canceled" \/ LeaseStands(c)'
    BY DEF NewestHasLease, Current
  <2>1. CASE v = w
    BY <2>1, <1>4, <1>10 DEF LeaseStands
  <2>2. CASE v # w
    <3>1. c.id \in Messages \ taken
      BY <2>2, <1>4, <1>6, <1>9
    <3>2. Current(c)
      BY <3>1, <1>4 DEF Current
    <3> QED
      BY <2>2, <3>1, <3>2, <1>4, <1>9 DEF LInv, NewestHasLease, LeaseStands
  <2> QED
    BY <2>1, <2>2
<1>14. ClockRead'
  BY <1>0, <1>5, <1>8 DEF LInv, ClockRead, now
<1> QED
  BY <1>11, <1>12, <1>13, <1>14 DEF LInv

\* Every action keeps the lease facts.
LEMMA LNext == LInv /\ [Next]_vars => LInv'
<1> SUFFICES ASSUME LInv, [Next]_vars PROVE LInv'
  OBVIOUS
<1>0. IInv /\ IInv' /\ TInv /\ clock \in Nat
  BY INext DEF LInv, IInv, TInv, TypeOK
<1>1. \A w \in Workers : \A c \in work[w].batch :
        c.id \in Messages /\ (Current(c) => rows[c.id].status \in {"canceled", "processing"})
  BY <1>0, ClaimedFacts DEF LInv, NewestHasLease, LeaseStands
<1>2. ASSUME UNCHANGED <<lastClaim, work, clock>>,
             \A m \in Messages : \/ rows'[m] = rows[m]
                                 \/ rows[m].status \notin {"canceled", "processing"}
                                 \/ rows'[m].status = "canceled"
      PROVE  LInv'
  BY <1>0, <1>1, <1>2, LeaseQuiet DEF LInv, ClockRead
<1>3. ASSUME NEW m \in Messages, OwnerStep(m) PROVE LInv'
  <2>1. UNCHANGED <<lastClaim, work, clock>>
    BY <1>3 DEF OwnerStep, Enqueue, RequeueDead, CancelByOwner
  <2>2. /\ \E row : rows' = [rows EXCEPT ![m] = row]
        /\ rows[m].status \in {"absent", "pending", "dead"} \/ rows'[m].status = "canceled"
    <3>1. CASE Enqueue(m) \/ RequeueDead(m)
      BY <3>1 DEF Enqueue, RequeueDead
    <3>2. ASSUME NEW why, NEW payload, CancelByOwner(m, why, payload)
          PROVE  /\ rows' = [rows EXCEPT ![m] = [Canceled(rows[m], why) EXCEPT !.payload = payload]]
                 /\ rows'[m].status = "canceled"
      <4>1. [Canceled(rows[m], why) EXCEPT !.payload = payload].status = "canceled"
        BY <1>0 DEF TInv, TypeOK, Row, Canceled, Unleased
      <4> QED
        BY <1>0, <3>2, <4>1 DEF CancelByOwner, TInv, TypeOK
    <3> QED
      BY <1>3, <3>1, <3>2 DEF OwnerStep
  <2>3. \A n \in Messages \ {m} : rows'[n] = rows[n]
    BY <1>0, <2>2 DEF TInv, TypeOK
  <2> QED
    BY <1>2, <2>1, <2>2, <2>3
<1>4. ASSUME NEW w \in Workers, Claim(w) PROVE LInv'
  BY <1>0, <1>4, LeaseClaim
<1>5. ASSUME NEW w \in Workers, Begin(w) PROVE LInv'
  <2>1. /\ \A v \in Workers : work'[v].batch = work[v].batch
        /\ \A v \in Workers : work'[v].now \in {work[v].now, clock}
    BY <1>0, <1>5 DEF Begin, TInv, TypeOK, Work
  <2>2. UNCHANGED <<rows, lastClaim, clock>>
    BY <1>5 DEF Begin
  <2>3. ClockRead'
    BY <1>0, <2>1, <2>2 DEF LInv, ClockRead
  <2> QED
    BY <1>0, <2>1, <2>2, <2>3, LeaseQuiet
<1>6. ASSUME NEW w \in Workers, CanApply(w) \/ ApplySucceeds(w) \/ ApplyFails(w)
      PROVE  LInv'
  <2>1. \A v \in Workers : work'[v].batch = work[v].batch /\ work'[v].now = work[v].now
    <3>1. CASE CanApply(w)
      BY <1>0, <3>1 DEF CanApply, TInv, TypeOK, Work
    <3>2. CASE ApplySucceeds(w)
      BY <1>0, <3>2 DEF ApplySucceeds, Goto, TInv, TypeOK, Work
    <3>3. CASE ApplyFails(w)
      BY <1>0, <3>3 DEF ApplyFails, TInv, TypeOK, Work
    <3> QED
      BY <1>6, <3>1, <3>2, <3>3
  <2>2. UNCHANGED <<rows, lastClaim, clock>>
    BY <1>6 DEF CanApply, ApplySucceeds, ApplyFails
  <2>3. ClockRead'
    BY <2>1, <2>2 DEF LInv, ClockRead
  <2> QED
    BY <1>0, <2>1, <2>2, <2>3, LeaseQuiet
<1>7. ASSUME NEW w \in Workers, ApplyFinalizes(w) PROVE LInv'
  <2> DEFINE c == work[w].item
  <2>1. c \in work[w].batch /\ c.id \in Messages /\ UNCHANGED <<lastClaim, clock>>
    BY <1>0, <1>7, ItemFacts DEF ApplyFinalizes
  <2>2. CASE Writable /\ Owns(c)
    <3>1. NextItem(w) /\ \E row : rows' = [rows EXCEPT ![c.id] = row]
      BY <1>7, <2>2 DEF ApplyFinalizes
    <3>2. Current(c)
      BY <1>0, <2>1, <2>2, OwnerIsCurrent
    <3>3. \A m \in Messages : rows'[m] = rows[m] \/ (m = c.id /\ Current(c))
      BY <1>0, <3>1, <3>2 DEF TInv, TypeOK
    <3> QED
      BY <1>0, <2>1, <3>1, <3>3, LeaseSettle
  <2>3. CASE ~(Writable /\ Owns(c))
    <3>1. (Goto(w, "failed") \/ NextItem(w)) /\ UNCHANGED rows
      BY <1>7, <2>3 DEF ApplyFinalizes
    <3>2. CASE NextItem(w)
      BY <1>0, <2>1, <3>1, <3>2, LeaseSettle
    <3>3. CASE Goto(w, "failed")
      <4>1. \A v \in Workers : work'[v].batch = work[v].batch /\ work'[v].now = work[v].now
        BY <1>0, <3>3 DEF Goto, TInv, TypeOK, Work
      <4>2. ClockRead'
        BY <2>1, <4>1 DEF LInv, ClockRead
      <4> QED
        BY <1>0, <2>1, <3>1, <4>1, <4>2, LeaseQuiet
    <3> QED
      BY <3>1, <3>2, <3>3
  <2> QED
    BY <2>2, <2>3
<1>8. ASSUME NEW w \in Workers, SettleItem(w) PROVE LInv'
  <2> DEFINE c == work[w].item
  <2>1. work[w].pc \in {"cancel", "applied", "failed"} /\ UNCHANGED <<lastClaim, clock>>
    BY <1>8 DEF SettleItem
  <2>2. c \in work[w].batch /\ c.id \in Messages
    BY <1>0, <2>1, ItemFacts
  <2>3. (rows' = rows /\ NextItem(w)) \/ \E row : Settle(w, row)
    <3>1. CASE work[w].pc = "cancel"
      BY <1>8, <3>1 DEF SettleItem
    <3>2. CASE work[w].pc = "applied"
      BY <1>8, <3>2 DEF SettleItem
    <3>3. CASE work[w].pc = "failed"
      BY <1>8, <3>3 DEF SettleItem
    <3> QED
      BY <2>1, <3>1, <3>2, <3>3
  <2>4. /\ NextItem(w) \/ Abort(w)
        /\ \/ rows' = rows
           \/ Owns(c) /\ \E row : rows' = [rows EXCEPT ![c.id] = row]
    BY <2>3 DEF Settle
  <2>5. Owns(c) => Current(c)
    BY <1>0, <2>2, OwnerIsCurrent
  <2>6. \A m \in Messages : rows'[m] = rows[m] \/ (m = c.id /\ Current(c))
    BY <1>0, <2>4, <2>5 DEF TInv, TypeOK
  <2> QED
    BY <1>0, <2>1, <2>2, <2>4, <2>6, LeaseSettle
<1>9. ASSUME NEW w \in Workers, Crash(w) PROVE LInv'
  <2>1. Abort(w) /\ UNCHANGED <<rows, lastClaim, clock>>
    BY <1>9 DEF Crash
  <2>2. /\ \A v \in Workers : work'[v].batch \subseteq work[v].batch
        /\ \A v \in Workers : work'[v].now \in {0, work[v].now}
    BY <1>0, <2>1, NextItemDrops
  <2>3. ClockRead'
    BY <1>0, <2>1, <2>2 DEF LInv, ClockRead
  <2> QED
    BY <1>0, <2>1, <2>2, <2>3, LeaseQuiet
<1>10. ASSUME RedactTx PROVE LInv'
  <2>1. \A m \in Messages : Redacted(rows[m]).status = "canceled"
    BY <1>0, SettledStatus DEF TInv, TypeOK
  <2> QED
    BY <1>2, <1>10, <2>1 DEF RedactTx
<1>11. ASSUME CloseGeneration \/ OpenGeneration \/ UNCHANGED vars PROVE LInv'
  BY <1>2, <1>11 DEF CloseGeneration, OpenGeneration, vars
<1>12. ASSUME Tick PROVE LInv'
  <2>1. clock' = clock + 1 /\ UNCHANGED <<rows, lastClaim, work>>
    BY <1>12 DEF Tick
  <2>2. \A w \in Workers : work[w].now \in Nat
    BY <1>0 DEF TInv, TypeOK, Work
  <2>3. ClockRead'
    BY <1>0, <2>1, <2>2 DEF LInv, ClockRead
  <2> QED
    BY <1>0, <2>1, <2>3, LeaseQuiet
<1> QED
  BY <1>3, <1>4, <1>5, <1>6, <1>7, <1>8, <1>9, <1>10, <1>11, <1>12 DEF Next, WorkerStep

\* Inside a lease a message is with one worker, for any number of workers, batch sizes
\* and interleavings of clock reads, claims, crashes and late settlements.
THEOREM LeaseExclusionHolds == Spec => []LeaseExclusion
<1>1. Init => LInv
  <2> SUFFICES ASSUME Init PROVE LInv
    OBVIOUS
  <2>1. IInv
    BY IInit
  <2> QED
    BY <2>1 DEF Init, LInv, HeldOnce, OutlivedWhenReplaced, NewestHasLease, ClockRead, Idle
<1>2. LInv => LeaseExclusion
  <2> SUFFICES ASSUME LInv, NEW v \in Workers, NEW w \in Workers,
                      NEW c \in work[v].batch, NEW d \in work[w].batch, v # w, c.id = d.id
               PROVE  c.token # d.token /\ (c.token < d.token => c.expires <= clock)
    BY DEF LeaseExclusion, Held
  <2>1. c.token # d.token
    BY DEF LInv, HeldOnce
  <2>2. ASSUME c.token < d.token PROVE c.expires <= clock
    <3>1. c \in Claimed /\ d \in Claimed /\ d.token <= lastClaim[d.id]
      BY ClaimedFacts DEF LInv, IInv, ClaimInv, ClaimsIssued
    <3>2. lastClaim[d.id] \in Nat
      BY <3>1 DEF LInv, IInv, TInv, TypeOK, Claimed
    <3>3. c.token < lastClaim[c.id]
      BY <2>2, <3>1, <3>2 DEF Claimed
    <3> QED
      BY <3>3 DEF LInv, OutlivedWhenReplaced
  <2> QED
    BY <2>1, <2>2
<1> QED
  BY LNext, <1>1, <1>2, PTL DEF Spec
=============================================================================
