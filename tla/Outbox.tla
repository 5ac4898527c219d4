------------------------------- MODULE Outbox -------------------------------
(***************************************************************************)
(* The transactional outbox of the server                                  *)
(* (server/internal/platform/outbox): the table outbox_messages as the     *)
(* PostgreSQL store keeps it, the workers that claim batches of it under   *)
(* leases and report back, the owners that enqueue, cancel and requeue     *)
(* messages, and the privacy owner that closes the outbox generation and   *)
(* scrubs it.                                                              *)
(*                                                                         *)
(* One SQL statement (or one caller-owned transaction) is one step.  A     *)
(* worker's RunOnce is split where it calls out: clock read, claim,        *)
(* consumer decision, consumer effect, settlement.                         *)
(***************************************************************************)
EXTENDS Integers, FiniteSets

CONSTANTS
  Messages,        \* idempotency keys; the store's unique index makes a key a row
  Workers,         \* outbox.Worker instances, in any number of processes
  Aggregate,       \* [Messages -> aggregate identity]
  Revision,        \* [Messages -> revision within the aggregate]
  BatchSize, Lease, BaseBackoff, MaxBackoff, MaxAttempts,
  DeferDelay,      \* how far in the future a consumer defers a message
  Horizon,         \* bound: free-running time; later only awaited time passes
  MaxDisruptions,  \* bound: crashes, store errors and stalls beyond a lease
  MaxReplays,      \* bound: requeues of dead messages plus deferrals
  MaxGeneration    \* bound: privacy erasures

ASSUME OutboxAssumption ==
  /\ BatchSize \in Nat \ {0} /\ Lease \in Nat \ {0}
  /\ BaseBackoff \in Nat \ {0} /\ MaxBackoff \in Nat /\ MaxBackoff >= BaseBackoff
  /\ MaxAttempts \in Nat \ {0} /\ DeferDelay \in Nat \ {0}
  /\ Horizon \in Nat /\ MaxDisruptions \in Nat /\ MaxReplays \in Nat
  /\ MaxGeneration \in Nat
  /\ Revision \in [Messages -> Nat]

VARIABLES
  rows,        \* outbox_messages, by idempotency key
  lastClaim,   \* lease tokens handed out for a message (the newest one)
  work,        \* the local variables of RunOnce, by worker
  gate,        \* the outbox row of privacy_owner_generation_gates
  clock,       \* wall clock
  disruptions, replays,  \* how much of the bounds is used
  answers      \* history: what the consumer answered to the newest claim

vars == <<rows, lastClaim, work, gate, clock, disruptions, replays, answers>>

-----------------------------------------------------------------------------
(* Rows.                                                                   *)

Statuses == {"pending", "processing", "applied", "dead", "canceled"}
Dispositions == {"fenced", "superseded", "privacy_erasure", "expired",
                 "permanently_rejected", "deleted", "review_required"}
\* Why a consumer drops a message, as far as a repeated cancel tells it: it is out of date
\* (superseded and its like), or its generation is fenced.
Refusals == {"superseded", "privacy_erasure"}
NoToken == 0
NoTime == 0

Row == [status : Statuses \cup {"absent"}, generation : Nat,
        createdAt : Nat, availableAt : Nat, attempts : Nat,
        leaseToken : Nat, leaseExpiresAt : Nat,
        disposition : Dispositions \cup {"none"},
        payload : {"content", "tombstone", "redacted"}]

NoRow == [status |-> "absent", generation |-> 0, createdAt |-> 0,
          availableAt |-> 0, attempts |-> 0,
          leaseToken |-> NoToken, leaseExpiresAt |-> NoTime,
          disposition |-> "none", payload |-> "content"]

NewMessage(now, g) ==
  [NoRow EXCEPT !.status = "pending", !.generation = g,
                !.createdAt = now, !.availableAt = now]

\* The assignments every settlement shares: the lease columns become NULL.
Unleased(r, status) == [r EXCEPT !.status = status, !.leaseToken = NoToken,
                                 !.leaseExpiresAt = NoTime]

MarkApplied(r) == Unleased(r, "applied")
\* Slip: the failure report forgets to give the lease back.
MarkFailedKeepingLease(r, dead, next) ==
  [r EXCEPT !.status = IF dead THEN "dead" ELSE "pending", !.availableAt = next]
MarkFailed(r, dead, next) ==
  [Unleased(r, IF dead THEN "dead" ELSE "pending") EXCEPT !.availableAt = next]
MarkDeferred(r, at) ==
  [Unleased(r, "pending") EXCEPT !.availableAt = at, !.disposition = "none",
     !.attempts = IF @ > 0 THEN @ - 1 ELSE 0]
Canceled(r, why) == [Unleased(r, "canceled") EXCEPT !.disposition = why]
Requeued(r, now) == [Unleased(r, "pending") EXCEPT !.availableAt = now,
                                        !.attempts = 0, !.disposition = "none"]
Redacted(r) == [Canceled(r, "privacy_erasure") EXCEPT !.payload = "redacted"]

-----------------------------------------------------------------------------
(* Workers.                                                                *)

\* What a claim returns of a row: its identity, the fresh token, the attempt count
\* and the expiry the lease was given.
Claimed == [id : Messages, token : Nat, attempts : Nat, expires : Nat]
NoClaim == [id |-> "none", token |-> NoToken, attempts |-> 0, expires |-> NoTime]

Pcs == {"idle", "claim", "decide", "apply", "cancel", "applied", "failed"}
Idle == [pc |-> "idle", now |-> 0, batch |-> {}, item |-> NoClaim,
         permanent |-> FALSE]

Goto(w, pc) == work' = [work EXCEPT ![w].pc = pc]
Abort(w) == work' = [work EXCEPT ![w] = Idle]

\* The loop of RunOnce: the settled item leaves the batch, the last one ends it.
NextItem(w) ==
  LET rest == work[w].batch \ {work[w].item}
  IN work' = [work EXCEPT ![w] = IF rest = {} THEN Idle
       ELSE [@ EXCEPT !.pc = "decide", !.batch = rest, !.item = NoClaim,
                      !.permanent = FALSE]]

\* Slip: the settlement is guarded by the status alone, not by the lease token.
OwnsAnyProcessing(c) == rows[c.id].status = "processing"
\* Slip: the settlement is guarded by the row's identity alone.
OwnsExisting(c) == rows[c.id].status # "absent"
Owns(c) == /\ rows[c.id].status = "processing"
           /\ rows[c.id].leaseToken = c.token

\* privacy_enforce_owner_write: a closed gate refuses every write but the scrub's.
Writable == gate.open

\* Slip: the budget is judged one attempt too early.
ExhaustedEarly(c) == c.attempts + 1 >= MaxAttempts
\* message.Attempts >= message.MaxAttempts, on the snapshot the claim returned.
Exhausted(c) == c.attempts >= MaxAttempts

\* A settlement statement: it changes the row only under the claim's own token,
\* and any error (lease lost, gate closed) ends the batch.
Settle(w, row) ==
  LET c == work[w].item
  IN IF Writable /\ Owns(c)
     THEN rows' = [rows EXCEPT ![c.id] = row] /\ NextItem(w)
     ELSE UNCHANGED rows /\ Abort(w)

\* worker.backoff without its jitter: doubled per attempt, capped.
BackoffDelay[a \in Nat] ==
  IF a <= 1 THEN BaseBackoff
  ELSE LET d == BackoffDelay[a - 1]
       IN IF d >= MaxBackoff THEN d
          ELSE IF d > MaxBackoff \div 2 THEN MaxBackoff ELSE 2 * d

\* backoff: every value the default jitter can produce, capped again.
Backoffs(a) ==
  LET d == BackoffDelay[a]
  IN {b \in 0 .. MaxBackoff :
        \E j \in 0 .. d \div 4 : b = IF d + j > MaxBackoff THEN MaxBackoff ELSE d + j}

-----------------------------------------------------------------------------
Init ==
  /\ rows = [m \in Messages |-> NoRow]
  /\ lastClaim = [m \in Messages |-> NoToken]
  /\ work = [w \in Workers |-> Idle]
  /\ gate = [generation |-> 1, open |-> TRUE]
  /\ clock = 0
  /\ disruptions = 0 /\ replays = 0
  /\ answers = [m \in Messages |-> {}]

-----------------------------------------------------------------------------
(* Owners of the messages.                                                 *)

\* EnqueueWith: inserts the row; a second message for the key changes nothing.
Enqueue(m) ==
  /\ Writable
  /\ rows[m].status = "absent"
  /\ \A n \in Messages : Aggregate[n] = Aggregate[m] /\ Revision[n] < Revision[m]
       => rows[n].status # "absent"
  /\ rows' = [rows EXCEPT ![m] = NewMessage(clock, gate.generation)]
  /\ UNCHANGED <<lastClaim, work, gate, clock, disruptions, replays, answers>>

\* CancelWith by the owner of the message, optionally replacing the payload; a row in
\* processing is canceled with the lease token the owner (cancelOutboxLocked of the memory
\* store) reads from the locked row.
CancelByOwner(m, why, payload) ==
  /\ Writable
  /\ rows[m].status \in {"pending", "dead", "processing"}
  /\ rows' = [rows EXCEPT ![m] = [Canceled(@, why) EXCEPT !.payload = payload]]
  /\ UNCHANGED <<lastClaim, work, gate, clock, disruptions, replays, answers>>

\* Slip: a requeue that also revives canceled rows.
RequeueUnsettled(m) ==
  /\ Writable
  /\ rows[m].status \in {"dead", "canceled"}
  /\ rows[m].payload = "content" /\ rows[m].generation = gate.generation
  /\ replays < MaxReplays
  /\ replays' = replays + 1
  /\ rows' = [rows EXCEPT ![m] = Requeued(@, clock)]
  /\ UNCHANGED <<lastClaim, work, gate, clock, disruptions, answers>>

\* RequeueDeadWith: a dead row whose delivery tuple still matches.
RequeueDead(m) ==
  /\ Writable
  /\ rows[m].status = "dead"
  /\ rows[m].payload = "content" /\ rows[m].generation = gate.generation
  /\ replays < MaxReplays
  /\ replays' = replays + 1
  /\ rows' = [rows EXCEPT ![m] = Requeued(@, clock)]
  /\ UNCHANGED <<lastClaim, work, gate, clock, disruptions, answers>>

-----------------------------------------------------------------------------
(* Worker.RunOnce.                                                         *)

\* now := w.now(), before the claim statement runs.
Begin(w) ==
  /\ work[w].pc = "idle"
  /\ work' = [work EXCEPT ![w].pc = "claim", ![w].now = clock]
  /\ UNCHANGED <<rows, lastClaim, gate, clock, disruptions, replays, answers>>

\* Slip: a processing row is claimable whether or not its lease expired.
ClaimableUnexpired(m, now) ==
  \/ rows[m].status = "pending" /\ rows[m].availableAt <= now
  \/ rows[m].status = "processing"
\* Slip: a processing row is never claimable again.
ClaimablePending(m, now) == rows[m].status = "pending" /\ rows[m].availableAt <= now

Claimable(m, now) ==
  \/ rows[m].status = "pending" /\ rows[m].availableAt <= now
  \/ rows[m].status = "processing" /\ rows[m].leaseExpiresAt <= now

Before(m, n) == \/ rows[m].availableAt < rows[n].availableAt
                \/ /\ rows[m].availableAt = rows[n].availableAt
                   /\ rows[m].createdAt < rows[n].createdAt

\* ORDER BY available_at, created_at, id LIMIT BatchSize over the claimable rows; the
\* identifiers are random, so they may break a tie either way.
Batches(now) ==
  LET candidates == {m \in Messages : Claimable(m, now)}
  IN {S \in SUBSET candidates :
        /\ Cardinality(S) <= BatchSize
        /\ Cardinality(S) < BatchSize => S = candidates
        /\ \A m \in S, n \in candidates \ S : ~Before(n, m)}

ClaimedRow(m, now) ==
  [rows[m] EXCEPT !.status = "processing", !.attempts = @ + 1,
     !.leaseToken = lastClaim[m] + 1, !.leaseExpiresAt = now + Lease]

\* ClaimBusinessTypes: an empty or refused claim ends the pass.
Claim(w) ==
  /\ work[w].pc = "claim"
  /\ \E S \in Batches(work[w].now) :
       LET now == work[w].now
           taken == IF Writable THEN S ELSE {}
       IN /\ rows' = [m \in Messages |-> IF m \in taken THEN ClaimedRow(m, now) ELSE rows[m]]
          /\ lastClaim' = [m \in Messages |-> IF m \in taken THEN lastClaim[m] + 1 ELSE lastClaim[m]]
          /\ work' = [work EXCEPT ![w] =
               IF taken = {} THEN Idle
               ELSE [@ EXCEPT !.pc = "decide",
                       !.batch = {[id |-> m, token |-> lastClaim[m] + 1,
                                   attempts |-> rows[m].attempts + 1,
                                   expires |-> now + Lease] : m \in taken}]]
          /\ answers' = [m \in Messages |-> IF m \in taken THEN {} ELSE answers[m]]
  /\ UNCHANGED <<gate, clock, disruptions, replays>>

\* Only the answer to the newest claim of a message is remembered.
Answered(c, A) ==
  IF c.token = lastClaim[c.id] THEN [answers EXCEPT ![c.id] = @ \cup A] ELSE answers

\* consumer.CanApply on the next message: apply it, drop it, or an error.
CanApply(w) ==
  /\ work[w].pc = "decide"
  /\ \E c \in work[w].batch, pc \in {"apply", "cancel", "failed"}, permanent \in BOOLEAN :
       /\ permanent => pc = "failed"
       /\ work' = [work EXCEPT ![w].pc = pc, ![w].item = c, ![w].permanent = permanent]
       /\ answers' = Answered(c, IF permanent THEN {"permanent"} ELSE {})
  /\ UNCHANGED <<rows, lastClaim, gate, clock, disruptions, replays>>

\* consumer.Apply returned nil: the target has the effect, the row is not settled yet.
ApplySucceeds(w) ==
  /\ work[w].pc = "apply"
  /\ answers' = Answered(work[w].item, {"delivered"})
  /\ Goto(w, "applied")
  /\ UNCHANGED <<rows, lastClaim, gate, clock, disruptions, replays>>

\* consumer.Apply returned an error; the effect may have happened all the same.
ApplyFails(w) ==
  /\ work[w].pc = "apply"
  /\ \E permanent \in BOOLEAN, reached \in BOOLEAN :
       /\ work' = [work EXCEPT ![w].pc = "failed", ![w].permanent = permanent]
       /\ answers' = Answered(work[w].item, (IF permanent THEN {"permanent"} ELSE {})
                                             \cup (IF reached THEN {"delivered"} ELSE {}))
  /\ UNCHANGED <<rows, lastClaim, gate, clock, disruptions, replays>>

\* ErrConsumerFinalized: the consumer settles the row in the transaction of its own
\* effect, holding the row; without the lease the transaction rolls back and Apply fails,
\* unless the generation is fenced and the cancel only repeats the scrub's.
ApplyFinalizes(w) ==
  LET c == work[w].item
  IN /\ work[w].pc = "apply"
     /\ IF Writable /\ Owns(c)
        THEN \E row \in {MarkApplied(rows[c.id]), MarkDeferred(rows[c.id], clock + DeferDelay)}
                          \cup {Canceled(rows[c.id], why) : why \in Refusals} :
               /\ rows' = [rows EXCEPT ![c.id] = row]
               /\ IF row.status = "pending"
                  THEN replays < MaxReplays /\ replays' = replays + 1
                  ELSE UNCHANGED replays
               /\ answers' = Answered(c, IF row.status = "applied" THEN {"delivered"} ELSE {})
               /\ NextItem(w)
        ELSE /\ \/ Goto(w, "failed")
                \/ /\ rows[c.id].status = "canceled" /\ rows[c.id].disposition = "privacy_erasure"
                   /\ NextItem(w)
             /\ UNCHANGED <<rows, replays, answers>>
     /\ UNCHANGED <<lastClaim, gate, clock, disruptions>>

\* The statement that settles the item, by what the consumer answered.
SettleItem(w) ==
  LET c == work[w].item
      r == rows[c.id]
      dead == work[w].permanent \/ Exhausted(c)
  IN /\ \/ /\ work[w].pc = "cancel"
           /\ \E why \in Refusals :
                IF r.status = "canceled" /\ r.disposition = why
                THEN UNCHANGED rows /\ NextItem(w)    \* CancelWith verifies a repeated cancel
                ELSE Settle(w, Canceled(r, why))
        \/ work[w].pc = "applied" /\ Settle(w, MarkApplied(r))
        \/ /\ work[w].pc = "failed"
           /\ IF dead THEN Settle(w, MarkFailed(r, TRUE, work[w].now))
              ELSE \E d \in Backoffs(c.attempts) :
                     Settle(w, MarkFailed(r, FALSE, work[w].now + d))
     /\ UNCHANGED <<lastClaim, gate, clock, disruptions, replays, answers>>

\* The process dies, or the store fails, anywhere in RunOnce: nothing is reported
\* and the claimed rows wait for their leases to expire.
Crash(w) ==
  /\ work[w].pc # "idle"
  /\ disruptions < MaxDisruptions
  /\ disruptions' = disruptions + 1
  /\ Abort(w)
  /\ UNCHANGED <<rows, lastClaim, gate, clock, replays, answers>>

-----------------------------------------------------------------------------
(* Privacy erasure of the outbox owner.                                    *)

CloseGeneration ==
  /\ gate.open
  /\ gate.generation < MaxGeneration
  /\ gate' = [generation |-> gate.generation + 1, open |-> FALSE]
  /\ UNCHANGED <<rows, lastClaim, work, clock, disruptions, replays, answers>>

Old(m) == rows[m].status # "absent" /\ rows[m].generation < gate.generation

\* RedactTx: one UPDATE over every older row, whoever holds its lease.
RedactTx ==
  /\ ~gate.open
  /\ rows' = [m \in Messages |-> IF Old(m) THEN Redacted(rows[m]) ELSE rows[m]]
  /\ UNCHANGED <<lastClaim, work, gate, clock, disruptions, replays, answers>>

\* Slip: the residue check leaves out rows that a worker holds.
ResidualUnheld == {m \in Messages : /\ Old(m) /\ rows[m] # Redacted(rows[m])
                                    /\ rows[m].status # "processing"}
\* OpenGenerationTx: the receipt it needs exists once VerifyRedacted counts no residue.
Residual == {m \in Messages : Old(m) /\ rows[m] # Redacted(rows[m])}

OpenGeneration ==
  /\ ~gate.open
  /\ Residual = {}
  /\ gate' = [gate EXCEPT !.open = TRUE]
  /\ UNCHANGED <<rows, lastClaim, work, clock, disruptions, replays, answers>>

-----------------------------------------------------------------------------
(* Time.                                                                   *)

Held(w) == work[w].batch

\* Somebody waits for a moment still to come.
Awaited == \E m \in Messages :
             \/ rows[m].status = "pending" /\ rows[m].availableAt > clock
             \/ rows[m].status = "processing" /\ rows[m].leaseExpiresAt > clock

\* The next instant takes a lease away from a worker that is still at work.
Overtakes == \E w \in Workers : \E c \in Held(w) :
               Owns(c) /\ rows[c.id].leaseExpiresAt = clock + 1

Tick ==
  /\ clock < Horizon \/ Awaited
  /\ clock' = clock + 1
  /\ IF Overtakes THEN disruptions < MaxDisruptions /\ disruptions' = disruptions + 1
                  ELSE UNCHANGED disruptions
  /\ UNCHANGED <<rows, lastClaim, work, gate, replays, answers>>

-----------------------------------------------------------------------------
WorkerStep(w) == \/ Begin(w) \/ Claim(w) \/ CanApply(w)
                 \/ ApplySucceeds(w) \/ ApplyFails(w) \/ ApplyFinalizes(w)
                 \/ SettleItem(w)

OwnerStep(m) == \/ Enqueue(m) \/ RequeueDead(m)
                \/ CancelByOwner(m, "fenced", rows[m].payload)
                \/ CancelByOwner(m, "expired", "tombstone")

Next ==
  \/ \E m \in Messages : OwnerStep(m)
  \/ \E w \in Workers : WorkerStep(w) \/ Crash(w)
  \/ CloseGeneration \/ RedactTx \/ OpenGeneration
  \/ Tick

Spec == Init /\ [][Next]_vars

\* The server calls RunOnce in a loop and the erasure coordinator resumes an
\* unfinished erasure; nobody is obliged to enqueue, cancel, requeue or crash.
Fairness == /\ \A w \in Workers : WF_vars(WorkerStep(w))
            /\ WF_vars(RedactTx) /\ WF_vars(OpenGeneration)
            /\ WF_vars(Tick)

LiveSpec == Spec /\ Fairness

-----------------------------------------------------------------------------
(* Properties.                                                             *)

Work == [pc : Pcs, now : Nat, batch : SUBSET Claimed,
         item : Claimed \cup {NoClaim}, permanent : BOOLEAN]

\* Every variable keeps its type, and the row shapes the table's CHECK constraints demand
\* (a lease exactly while processing, a disposition exactly when canceled) are never
\* at risk, so no statement of the store can be refused by them.
TypeOK ==
  /\ rows \in [Messages -> Row]
  /\ lastClaim \in [Messages -> Nat]
  /\ work \in [Workers -> Work]
  /\ gate \in [generation : Nat, open : BOOLEAN]
  /\ clock \in Nat /\ disruptions \in Nat /\ replays \in Nat
  /\ answers \in [Messages -> SUBSET {"delivered", "permanent"}]
  /\ \A m \in Messages :
       /\ (rows[m].status = "processing") <=> (rows[m].leaseToken # NoToken)
       /\ (rows[m].status = "canceled") <=> (rows[m].disposition # "none")

\* Two workers hold the same message only when the older claim has outlived its
\* lease: inside a lease the claim statement hands a message to one worker.
LeaseExclusion ==
  \A v, w \in Workers : \A c \in Held(v), d \in Held(w) :
    v # w /\ c.id = d.id =>
      /\ c.token # d.token
      /\ c.token < d.token => c.expires <= clock

\* A row is marked applied only by the claim that delivered it: a worker whose
\* lease was taken over cannot settle the row for its successor.
AppliedByItsDelivery ==
  \A m \in Messages : rows[m].status = "applied" => "delivered" \in answers[m]

\* A row dies only when its newest claim failed permanently or the retry budget
\* on the row itself (not on a stale snapshot of it) is used up.
DeadJustified ==
  \A m \in Messages : rows[m].status = "dead" =>
    \/ rows[m].attempts >= MaxAttempts
    \/ "permanent" \in answers[m]

\* Once the generation is open again, every row of an erased generation is
\* scrubbed, and no worker that was at work during the erasure brings one back.
NoSurvivorAfterErasure ==
  gate.open => \A m \in Messages : Old(m) => rows[m] = Redacted(rows[m])

\* A settled row (applied or canceled) is changed by a privacy scrub and nothing
\* else: no late report, requeue or claim reopens it.
SettledIsFinal ==
  [][\A m \in Messages :
       rows[m].status \in {"applied", "canceled"} /\ rows'[m] # rows[m]
         => ~gate.open /\ rows'[m] = Redacted(rows[m])]_vars

\* Work that entered the outbox is eventually applied, canceled or dead, whatever
\* crashes, stalls and erasures happen (finitely often) on the way.
EventuallySettled ==
  \A m \in Messages :
    (rows[m].status \in {"pending", "processing"})
      ~> (rows[m].status \in {"applied", "dead", "canceled"})

\* The outbox as its callers see it: leases, attempts and claims are hidden.
ItemState(r) ==
  IF r.status = "absent" THEN "absent"
  ELSE IF r.payload = "redacted" THEN "erased"
  ELSE IF r.status \in {"pending", "processing"} THEN "open" ELSE r.status

queueState == [m \in Messages |-> ItemState(rows[m])]
queueDelivered == {m \in Messages : "delivered" \in answers[m]}

Promise == INSTANCE WorkQueue WITH Items <- Messages, state <- queueState,
             delivered <- queueDelivered, erasing <- ~gate.open

\* Claims, leases, retries, crashes and late reports implement the queue that
\* the callers of Enqueue, CancelWith and RequeueDeadWith rely on.
KeepsPromise == Promise!Spec
=============================================================================
