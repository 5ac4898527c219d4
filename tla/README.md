# edu-agent: TLA+ models, checks and proofs

This directory holds a formal model of the parts of edu-agent that are hardest to test: work
that survives crashes, leases that expire under a running worker, commands that race with
executions, remote calls whose outcome is unknown, and privacy erasure that has to reach
everything. Each definition is translated from the code under `src/`; `PROJECT.json` names the
lines ("map"), the runs, the mutants, the hazards, the findings and the theorems.

| module | what it models | runs |
|---|---|---|
| `Outbox` | the transactional outbox: rows, workers, owners, erasure | `MCOutbox` |
| `WorkQueue` | what the outbox promises, as an abstract specification | (property `KeepsPromise` of `MCOutbox`) |
| `OutboxProofs` | theorems about `Outbox` for every value of its constants | |
| `OutboxRefinement` | the proof that `Outbox` implements `WorkQueue` | |
| `MentorRun` | durable mentor runs: rows, processes, workers, commands, erasure | `MCMentorRun`, `MCMentorStop` (and `MCMentorRest.cfg`) |
| `ModelGateway` | the CLI model gateway: admission, leases, dispatch, output, recovery | `MCModelGateway` |
| `ReadPermits` | read permits and the privacy barrier | `MCReadPermits`, `MCPermitsControl` |
| `PrivacyErasure` | one erasure from its barrier to "verified" | `MCPrivacyErasure`, `MCErasurePartial` |
| `Companion` | the local companion: page, broker, native program, mentor run | `MCCompanion` |
| `MemoryDelivery` | delivery, correction, expiry and deletion of one memory in Nocturne | `MCMemoryDelivery`, `MCMemoryUnsent`, `MCMemoryDelete` |

| `MentorRunProofs`, `ModelGatewayProofs`, `ReadPermitsProofs`, `PrivacyErasureProofs`, `CompanionProofs`, `MemoryDeliveryProofs` | theorems about those modules for every value of their constants | |

Each `MC...` module instantiates its specification for TLC. Run a model with
`tlc -config MCOutbox.cfg MCOutbox` and the proofs of a module with `tlapm OutboxProofs.tla`.

## 1. The system

The server is one Go program (`server/`), run as one or more processes over one PostgreSQL
database. Processes share nothing but the database, and keep the bodies of *temporary* mentor
runs in memory only. Clients are a CLI (`clients/cli-go`) and a web application
(`clients/web`), both able to work offline.

| component | state it keeps | operations | interacts with | what is hard |
|---|---|---|---|---|
| outbox (`platform/outbox`) | `outbox_messages` | enqueue, claim, apply, fail, defer, cancel, requeue, scrub | memory, notesync, offline evaluation (consumers); privacy | lease expiry under a working consumer, late reports, crash between effect and settlement, erasure in between |
| mentor runs (`mentorrun`) | `learning_mentor_runs`, operations, process entries, temporary bodies in memory | create, stop, clear, respond, resume, retry, claim, model call, tool step, finish, sweep | model admission and ledger, privacy, goals and materials, agent core | paid calls with unknown outcome, stop against execution, failed commits after caching, process death |
| model admission (`modeladmission`) | execution leases | check, acquire, renew, release | mentor runs, model gateway | renewal against expiry and admission |
| model usage (`modelusage`) | `learning_model_calls` | begin, dispatch, finish, recover | mentor runs, gateway | a call recovered while its worker is about to send it |
| model gateway (`modelgateway`) | CLI model requests, leases, notifications | accept, dispatch, stream, finish, renew, cancel, sweep | admission, usage, privacy | stop against a send in progress, client retries, cancellation before lease expiry |
| privacy (`privacy`) | owner gates, erasures, receipts, read permits | close, drain, scrub, verify, open | every owner | many owners, resumption after a crash, readers in flight |
| memory (`memory`, `integrations/nocturne`) | records, deliveries, attempts, reconciliations, delete plans | admit, correct, delete, prepare, send, reconcile, expire, replay | outbox, Nocturne | outcome unknown after a send, a sidecar without idempotency |
| knowledge, notesync (`knowledge`, `integrations/notesync`) | revisions, publications, reviews | import, publish, review | outbox, remote vault | remote write before local commit, overtaking revisions |
| learning (`learning`) | events, projections, goals, offline bundles | commands, reduction, offline evaluation | outbox, mentor runs | replays of offline answers |
| learning change, content, start, space, direction | proposals, documents, studio jobs | propose, apply, publish | mentor runs | stale versions |
| tutoring, identity, settings | sessions, devices, configuration | commands | all | revocation and change during an execution |
| agent core (`packages/agentcore`) | none durable; companion broker connections | runner loop, context projection, broker exchange | mentor runs, CLI | once-only delivery to the companion |
| CLI offline, agent sessions, file effects | encrypted journals, leases on files | record, sync, batch, restore | server, workspace | crash between journal and effect |
| web offline | encrypted vault | queue, sync | server | lost and repeated uploads |
| transport, integrations, research, PDF, assets, key rotation, composition | none of their own | I/O | all | out of scope |

For each of them the properties that make it correct are: **outbox** - exclusion inside a
lease, justified and final settlements, complete erasure, eventual settlement; **mentor runs** -
no unordered second payment, stop is an irrevocable intent, only the lease holder publishes,
unknown results are recorded, erasure reaches memory; **admission** - never more live leases
than the capacity; **usage** - a call that was sent is counted; **gateway** - a stop is effective
at its commit, one sender per request; **privacy** - no reader or writer of an old generation past
the barrier, nothing reopened before it is scrubbed; **memory, notesync** - the remote and the local
record agree or the difference is recorded; **broker** - what is reported as not executed was not;
**offline** - an answer counts once.

`PROJECT.json` "hazards" lists the exact lines where these can go wrong, and which property
catches it.

## 2. Outbox

`Outbox.tla` models the table by idempotency key (the unique index makes a key one row).
The `Messages` constant is the set of keys. One SQL statement, or one transaction of a caller,
is one step; `Worker.RunOnce` is split wherever it leaves the process: clock read (`Begin`),
claim (`Claim`), consumer decision (`CanApply`), consumer effect (`ApplySucceeds`,
`ApplyFails`, `ApplyFinalizes`), settlement (`SettleItem`).

| state | code |
|---|---|
| `rows[m]` | the columns status, generation, created_at, available_at, attempts, lease, terminal disposition; the payload as content, tombstone or redacted |
| `lastClaim[m]` | lease tokens are random UUIDs in the code; here they are counted, so "newest" can be said |
| `work[w]` | the locals of `RunOnce`: clock value, claimed batch, current message |
| `gate` | the outbox row of `privacy_owner_generation_gates`; `Writable` is the row-level trigger |
| `clock` | wall clock; a tick is free until `Horizon`, later only while somebody waits |
| `answers[m]` | history: what the consumer answered to the newest claim (properties and refinement only) |

Points where the model follows the code rather than intuition: the batch is one lease, so an
item can outlive it before it is looked at; a settlement error ends the batch; death is decided
on the snapshot the claim returned; a deferral gives an attempt back; a repeated cancel with the
same disposition succeeds; an owner may cancel a message *in processing*, with the token read
from the locked row (memory delivery does); a consumer may settle the row in its own transaction
(notesync publication), and that transaction is refused without the lease. Backoff is the
doubling of `backoff` with every jitter it may add.

Abstracted: error categories and timestamps that nobody reads back, audit metadata, business
types (a worker without a consumer for a type behaves as a permanent failure), the
disposition of a consumer's cancel down to "out of date" and "fenced". Enqueueing follows
revision order within an aggregate, as the owners do.

`WorkQueue.tla` is the outbox as its callers see it: an item is submitted, attempted, delivered
(perhaps late, perhaps twice), completed only with a delivery of the attempt in progress, given
up, revived, withdrawn, erased; while an erasure is in progress nothing else happens. `Outbox`
instantiates it (`Promise`) with rows mapped by `ItemState`, deliveries by `answers` and the
erasure by the closed gate.

## 3. Mentor runs

`MentorRun.tla` models a run's row, the processes with their in-memory bodies, the workers and
the learner's commands. Every transaction is a step with one of three outcomes: committed,
rolled back, or committed with the caller seeing an error.

| state | code |
|---|---|
| `run[r]` | `learning_mentor_runs`: status, saved, process, generation, lease, `call_started`, `ResultUnknown`, requests used, body, expiry |
| `run[r].todo` | what the body still has to do: a pending tool call, an open interaction, a tool-step count at its limit |
| `memory[p]` | `Service.temporary` and its generation; an entry is described by how its version relates to the row's |
| `procs[p]` | process up, entry in `learning_mentor_processes` live |
| `work[w]` | where `RunOnce` is, its lease, the error that ends it, the state of its ledger call |
| `context[r]` | goal, materials and device still match |
| `done` | operations with a receipt |
| `openCall[r]` | history: the lease under which a call began that no transaction has recorded an answer for |

Statuses are grouped by what the code does with them: `waiting_input` and `waiting_approval`
are "waiting", `partial` is a kind of "failed". Time is present only as the events it
causes (lease, run and process-entry expiry). A model answer carries at most one tool call.
A lease identifier is one not in use, which stands for a fresh UUID.

Not modelled: streamed output flushes, deletion of conversations, the assessment, studio,
research, source-research and topic-index kinds, quotas, encryption and key failures, numeric
versions (only how a cached version compares with the row's).

## 4. Model gateway

`ModelGateway.tla` follows `invokeHTTP` from registration to the last byte. A step is a
transaction, an upstream call or a write.

| state | code |
|---|---|
| `row[r]` | `learning_cli_model_requests`: state and the execution that holds it |
| `leased`, `ttl[x]`, `born[x]` | `learning_model_execution_leases`; time is in ticks of the renewal interval |
| `call[x][n]` | `learning_model_calls`, attempt `n`: dispatch state, settled ones as counted or not dispatched |
| `ex[x]` | the execution: where it is, why its context is cancelled, the state it will record |
| `ready`, `notices[p]` | the process's LISTEN connection and the notifications under way |
| `revoked`, `capacity` | device revocation and the concurrency setting |
| `sent`, `done` | history: attempts whose bytes are out, requests whose final output the client has |

`guard` holds the device and request rows from its checks until the request is written upstream
(`Dispatch`, `Send`, `WroteRequest`) or the output is written (`WriteBegin`, `Write`), so
`Cancel`, `Revoke` and `Recover` wait for `RowsFree`. `Maintain` is the pair `Renew`,
`RenewFailed`; `LeaseInTime` is its margin: time does not pass a maintained lease without the
cancellation it promises. Left out: validation, response formats, token counts, and the privacy
gates (`ReadPermits`).

## 5. Read permits and the barrier

`ReadPermits.tla` models the permit manager of each process (`mgr[p]`: owners closed, their
generation), the requests (`rd[r]`: what they read, which gates they hold), the barrier
transaction (`bar`) and the reopening erasure. There are three kinds of response: *buffered*
(read, then one `CommitResponse`), *output* (a gateway stream: the guard transaction is taken
inside `CommitResponse`), *control* (the guard transaction is held around `CommitResponse`).
The barrier takes the owners' advisory locks in order, closes and cancels the permits of its
process, waits for them to drain, closes every owner at the next generation and commits; a
failure aborts the close. `Reopen` and the later `OpenPermits` are the erasure's reopening
commit and the in-memory call after it, which may be late or lost. `privacy_lock_owner_gate`
also refuses transactions older than the gate's last change; the model does without it, which
only allows more.

The barrier cancels and drains the permits of *its own* process. What protects a *control* or
*output* response is its guard transaction, which holds in any process
(`WriterHoldsItsGatesHolds`); what protects a *buffered* response is the drain alone. So
`NoRedactedOutput` is checked, and proved, for one process, which is how
`docs/comet/specs/platform-foundation/spec.md:5` describes the service; with two processes a
buffered response of the other one may be written after the barrier.

## 6. Privacy erasure

`PrivacyErasure.tla` starts at the committed barrier. Handlers (the request and its replays) and
resume workers are actors that read the head outside a transaction and act on it inside one.

| state | code |
|---|---|
| `status` | `privacy_erasure_heads.status` |
| `receipt[s]`, `remote`, `backup`, `offline` | step receipts (the three Nocturne stores move together) |
| `child[d]` | the offline purge of one device |
| `open`, `content`, `remoteContent` | which owners are reopened, which stores still hold old content |
| `planned` | memory's scrub has materialised the remote cleanup plan |
| `act[a]`, `lock` | what an actor has read; the session lock of the remote erase |

`RedactHalfDone` is a scrub whose transaction commits without its receipt; `LoseLock` is the
connection that carries the session lock breaking while `Erase` runs. `PreflightMismatch` is a
preflight of `RunNocturne` that finds a sidecar of another contract: unless that is already on
record (`remote = "mismatch"`), the actor goes on with an eraser that always answers a mismatch
(`pc = "mismatch"`), which `NocturneBegin` lets through and `CommitNocturne` records whatever the
receipts were. So the receipts of local stores are never taken back, those of Nocturne can be.
The preflight of a process keeps a mismatch until the process ends; the model lets any later
preflight succeed (the process was replaced) and counts mismatches as faults, so they are finitely
many. Left out: creation of backups, the migration lease, and the "unknown" offline step of a
server without a challenge keyring.

## 7. Companion

`Companion.tla` has the page (`panel[k]`), the broker's connection (`conn[k]`: phase, browser
lease, queue, receipts), the native program (`native[k]`: `Client.Run` and its provider), the
exchanges under way (`requests`, `reply`) and the mentor run's `localOperation` (`run[o]`).
Broker methods hold one mutex and are single steps; handlers that call several are several
steps, so a permission may be withdrawn between `CheckExchange` and `Exchange`. A sequence
number is its lead over the last accepted one; a lease is fresh or expired; tools, plans and
payloads are left out.

## 8. Memory delivery

`MemoryDelivery.tla` follows one record through its admission and one later correction or
delete.

| state | code |
|---|---|
| `del[k]`, `msg[k]` | `memory_deliveries` and their outbox messages (open, dead, closed) |
| `att[a]` | `memory_delivery_attempt_heads`: state, lease holder, boot epoch recorded at the send |
| `row[a]` | `memory_expiry_reconciliations` |
| `plan[k]` | the stored remote delete plan |
| `remote` | the sidecar: boot epoch, node at the path, contents of all nodes, mutations under way |
| `actor[w]` | the outbox consumer, the reconciler of unknown attempts, the reconciler of expiries |
| `unrecorded` | history: a mutation left in another boot than its attempt records |

Deliveries and attempts are numbered as they are created. The sidecar is external and modelled
from how the client uses it: no idempotency, a mutation may land after its caller gave up
(`Land`), a restart forgets what was under way. `Readback`, the two reads of `reconcile` and each
call of the purge are steps of their own. Left out: candidates and quotas,
`PermanentlyRejectDelivery` (a second check of immutable data), `FenceDelivery` (called by tests
only), the erasure path and the gates, the versions of a node (kept as one content); the reads of
a purge and the storing of its plan are one step.

## 9. Runs

| run | instance | states | result |
|---|---|---|---|
| `MCOutbox` | 1 message, 2 workers, 1 disruption, 1 replay, 1 erasure | 411,351 | safety, refinement of `WorkQueue` and liveness hold |
| `MCMentorRun` | 1 run, 2 processes with a worker each, 1 command, 3 calls, 1 disruption, 1 erasure | 332,372 | safety and liveness hold |
| `MCMentorStop` | as `MCMentorRun`, a saved run, no erasure | | a request goes out after the stop (finding) |
| `MCModelGateway` | 2 calls carrying one request or two, 2 upstream attempts, lease of 2 ticks, 1 disruption | 259,338 | holds |
| `MCReadPermits` | a buffered read of 2 owners and a stream, 2 barriers, 2 faults | 63,364 | holds |
| `MCPermitsControl` | 1 control response, 1 barrier, no fault | | barrier and response wait for each other (finding) |
| `MCPrivacyErasure` | 4 stores of 3 owners, 1 device, 1 handler, 2 workers, 2 faults | 180,374 | holds |
| `MCErasurePartial` | as above, 1 worker | | memory reopens unpurged (finding) |
| `MCCompanion` | 1 pairing, 1 operation of a run and 1 of the page, 2 faults | 134,800 | holds |
| `MCMemoryDelivery` | 2 deliveries, 3 attempts, 2 boots, 2 faults | 158,702 | holds |
| `MCMemoryUnsent` | 1 delivery, 1 attempt, no fault | | content after "expired" (finding) |
| `MCMemoryDelete` | admission and delete, 1 fault | | a delete nobody drives (finding) |

Two more configurations are kept beside the runs; TLC refutes the property of each:

| configuration | command | instance | result |
|---|---|---|---|
| `MCMentorRest.cfg` | `tlc -config MCMentorRest.cfg MCMentorRun` | 1 crash, 3 calls | `RunsComeToRest` violated: a run is claimed for ever |
| `MCErasureMismatch.cfg` | `tlc -config MCErasureMismatch.cfg MCPrivacyErasure` | 1 handler, 1 worker, 1 fault | `EventuallyVerified` violated by a late mismatch |

**Why the bounds are enough to meet the cases.** *Outbox*: a takeover needs two workers and one
expired lease; `MaxAttempts = 2` lets a message fail, retry and die; one replay covers a requeue
or a deferral; `Lease = 2` leaves a moment inside the lease. Messages interact only in a batch
that outlives its lease; the theorems of section 11 cover batches of any size. *Mentor runs*: a
failure needs one holder and one successor in another process; a command may meet every point of
either (two commands in a row, a retry and then a stop, are covered by the theorems only); three
calls are a first answer, the summary at the tool-step limit and the call after a resume. The
processes are alike, so runs are created at one of them (`Entry`). `Concurrency` does not bind
with one run; capacity is checked in `ModelGateway`.
*Gateway*: two executions show a retry beside its original and a successor beside a call that is
being closed, and with one upstream retry the second attempt of a request that was stopped in
between; `Capacity = 2` leaves the CLI one place. *Permits*: the second barrier meets the late
reopening of the first. *Erasure*: an owner with two stores, identity first and memory last as in
`LocalManagedSlots`; two workers besides the handler overlap in every step. *Companion*: two
faults lose an exchange and its repetition. *Memory*: three attempts are an admission, its retry
after a restart and the correction or delete; two boots are one restart.

**Fairness.** `app.go` calls `RunOnce`, `Sweep`, the reconcilers and the erasure worker in
periodic loops; a model call ends at its timeout; time passes; a lease that nobody works under
runs out; the sidecar finishes what it was sent; HTTP handlers run to their end. Those steps are
weakly fair. Waiting for a lock is strongly fair in `ReadPermits`: PostgreSQL queues requests for
a lock, and a Go mutex does not starve a waiter. Nobody has to enqueue, cancel, command, correct,
delete, connect or crash; the expiry of a run (seven days) and the passing of a deadline are not
fair. In `Companion` a closed page goes silent, and the native program and the server keep
exchanging. Disruptions and faults are bounded, so liveness says: after finitely many of them.

**Deadlock** is checked in `MCOutbox`, `MCMentorRun` and `MCModelGateway`. The other systems may
stop: no request, no further barrier, a verified erasure, a program that has ended, a record at
rest.

`PurgeBeforeReopen` and `EventuallyVerified` are stated for erasures that do not become partial
before their local stores are scrubbed: that behaviour is the finding `MCErasurePartial`.
`EventuallyVerified` is violated, by a mismatch recorded over a finished purge
(`MCErasureMismatch.cfg`); `VerifiedWhilePurgeStands` is the same promise for the behaviours in which
that does not happen, with mismatches at any time before the purge.
`SettledIsQuiet` and `LateContentIsPurged` are stated for behaviours in which every mutation ran
in the boot its attempt records (`unrecorded`): the code reads the epoch in a call of its own.

Every property of a passing run has a mutant: a definition of the model with a plausible slip
(under a comment "Slip") that makes TLC find the property violated.

## 10. What the findings say

* `MCMentorStop`: a stop that commits between `model_started` and the ledger's dispatch does not
  keep the request from being sent, while `openapi.yaml:1966` and `model-usage.md:181` say that
  nothing is dispatched after a stop. `StopIsMonotonic` states what does hold: no call is begun
  after the stop, and the one that may still be sent is the run's open call, begun and counted
  under the lease that its settlement looks at.
* `MCPermitsControl`: `controlResponse` of the gateway holds the owner gates in one transaction
  and asks for them in another; a barrier queued in between waits for the first and blocks the
  second. It ends only when a context is cancelled.
* `MCErasurePartial`: a device's failed acknowledgement makes an erasure partial although its
  local scrub is not over; the worker no longer scrubs, and the remote step reports success
  without a plan and reopens memory.
* `MCMemoryUnsent`: the deadline passes between claim and send; `TransitionAttempt` expires the
  delivery and returns no error; the consumer sends all the same.
* `MCMemoryDelete`: a delete that is late loses its message as "expired", and every other path
  refuses it.

The two further configurations show two more faults of the code:

* `MCMentorRest.cfg`: when a tool step asks a question and reaches the tool-step limit, `Execute`
  checkpoints the question with the run still "running" (`core.go:286-293`) and then requests the
  summary. After a crash in between the next claim skips the runner (`worker.go:536`) and nothing
  settles the run: it is claimed afresh each time its lease runs out, until a stop or its
  seven-day expiry. `docs/design/model-usage.md:191` says that it enters `paused_tool_steps`.
* `MCErasureMismatch.cfg`: after the purge, with a device or a backup outstanding, a preflight
  that finds another contract runs the mismatch eraser without looking at the receipts
  (`app/privacy_adapter.go:83`); `RunNocturneErase` accepts a partial erasure (`remote.go:58-62`)
  and `commitNocturneErase` replaces the succeeded receipts. Memory is open already, so
  `OpenGenerationTx` rolls every later success back, and the erasure stays partial for good.
  `docs/comet/specs/memory-bridge/spec.md:121` says that remote steps resume from their durable
  receipt and that finished steps are idempotent.

Divergences of documents met on the way, without a run of their own: the claim of the outbox
orders by availability and never by aggregate, while `docs/design/notesync-bridge.md:204` speaks
of "Outbox aggregate ordering"; the clear command ends a run with an open call without recording its unknown result, while
`docs/design/mentor-runtime.md:13` says it is recorded.

## 11. Proofs

Every safety invariant and every action property that a passing run checks is also a theorem,
for all values of the constants that satisfy the module's named ASSUME. All proofs have the same
shape: an inductive invariant, one lemma per action, one lemma for `[Next]_vars`, and a short
derivation of each property. Every inductive invariant was checked with TLC on the instance of
its run before it was proved.

### Outbox

`OutboxProofs.tla` proves, for every set of messages and workers and all parameters that satisfy
`OutboxAssumption` (positive batch size, lease, backoff, attempts and deferral; natural bounds):

| theorem | statement |
|---|---|
| `TypeCorrect` | `Spec => []TypeOK` |
| `AppliedByItsDeliveryHolds` | `Spec => []AppliedByItsDelivery` |
| `DeadJustifiedHolds` | `Spec => []DeadJustified` |
| `ErasureIsComplete` | `Spec => []NoSurvivorAfterErasure` |
| `SettledRowsAreFinal` | `Spec => SettledIsFinal` |
| `LeaseExclusionHolds` | `Spec => []LeaseExclusion` |

None of the invariants is inductive alone. The argument:

1. `TInv` adds to `TypeOK` that a busy worker's item is in its batch.
2. `IInv` adds what ties claims to rows. *Claims were issued* (no token exceeds `lastClaim`, and
   a claim that is the newest has the row's attempt count); *a row in processing holds the newest
   token*; *a worker that is about to report success or a permanent failure for the newest claim
   has that answer in the history*. So a worker that passes the token test is the newest
   claimant, its snapshot is the row's, and what it writes is justified:
   `AppliedByItsDelivery` and `DeadJustified` follow.
3. `LInv` adds that a token is held once, that a claim that is no longer the newest had outlived
   its lease when it was replaced, that the newest claim's expiry is the row's while the row is
   in processing, and that a clock value read by a worker is not in the future. The claim
   statement then hands a message over only after the older lease ran out, although it uses a
   clock read earlier: `LeaseExclusion`.
4. For erasure and finality every step is classified by what it may do to a row (`StepChange`):
   insert it with the current generation, advance an unsettled row with the gate open, or scrub
   it with the gate closed. `SettledIsFinal` is immediate from the classification, and
   `NoSurvivorAfterErasure` follows since opening requires that no residue is left.

### The outbox implements WorkQueue

`OutboxRefinement.tla` proves `KeepsPromiseHolds`: `Spec => KeepsPromise`, that is, `Outbox`
implements `WorkQueue`. Its invariant `RInv` adds to `IInv` that *only a scrub writes the redacted
payload, and cancels the row*, and that *every row is older than a closed generation*: an "erased"
item is then recognised by its payload alone, and the end of an erasure leaves no item behind.
The proof maps each action to one step of the queue: a claim to `Attempt` of its batch (a retry
begins with nothing delivered), the consumer's success to `Deliver`, also when it comes from a
worker that has lost its lease (then to a stutter, since only the newest claim's answers count),
a settlement to `Complete`, `GiveUp` or `Withdraw` (its guard is `AppliedByItsDelivery`'s
argument: who passes the token test is the newest claimant, whose delivery is in the history),
a consumer that finalizes to `Complete` together with its delivery, and the privacy operations to
`BeginErasure`, `Erase`, `EndErasure`. Ticks, crashes and clock reads are stutters.

### Mentor runs

`MentorRunProofs.tla`, for any runs, processes, workers and operations (`MentorAssumption`: a
worker belongs to a process, natural limits, a mark that is no lease):

| theorem | statement |
|---|---|
| `TypeCorrect` | `Spec => []TypeOK` |
| `InterruptedCallsAreUnknownHolds` | `Spec => []InterruptedCallsAreUnknown` |
| `DecodesCommittedBodyHolds` | `Spec => []DecodesCommittedBody` |
| `NoAutomaticReplayHolds` | `Spec => NoAutomaticReplay` |
| `StopIsMonotonicHolds` | `Spec => StopIsMonotonic` |
| `SuccessUnderOwnLeaseHolds` | `Spec => SuccessUnderOwnLease` |

`Inv` is `TypeOK` and three parts. `RowsOK` ties a row to the call that is open on it: there is a
lease exactly while the run is executed, an open call is marked as started and belongs to the
lease of a running run, a run at rest has no call marked, and a run that ended with its body in
place and an open call says that its result is unknown. `NeverForged` says that the process that
holds a temporary body never meets the row's version with another body. `WorkInv` says that a
worker's run exists, that no two workers share a lease, and that a worker that still holds the
run's lease while it calls owns the open call. The action properties come from the same
case analysis: each action lemma also shows that the step is `Lawful`, a statement about one row
before and after, of which the action properties are consequences.

What `StopIsMonotonic` says of requests that are sent needs a second invariant, `PreparedHolds`:
a call that is prepared in the ledger belongs to a worker that is about to send it or has failed,
and that worker still holds its run's lease unless the run is over and has no body. A claim that
takes the lease over writes the prepared call off in the same transaction, a sweep, a clear and an
erasure leave no body, and no other worker has a prepared call under the lease that a transaction
gives up (`PreparedAlone`). A run being cancelled is not over, so what is sent for it is under its
lease, and with `WorkInv` it is the open call.

### Model gateway

`ModelGatewayProofs.tla`, for any number of processes, calls, requests, devices and upstream
attempts, any lease length and capacity:

| theorem | statement |
|---|---|
| `TypeCorrect` | `Spec => []TypeOK` |
| `UpstreamWithinCapacityHolds` | `Spec => []UpstreamWithinCapacity` |
| `SentCallsAreCountedHolds` | `Spec => []SentCallsAreCounted` |
| `OneSenderPerRequestHolds` | `Spec => []OneSenderPerRequest` |
| `FinalOutputIsRecordedHolds` | `Spec => []FinalOutputIsRecorded` |
| `NothingAfterStopHolds` | `Spec => NothingAfterStop` |

The invariant ties an execution to the rows it works under: once accepted it is its request's
holder for good (`HolderOK`); while it holds the row locks its request is open and its device
valid (`HoldingOK`); a lease that is maintained is live (`LeaseOK`); an execution that sends has
its attempt dispatched in the ledger (`SendingOK`, `SentOK`); the live leases and the live leases
of each device are within the bounds of admission (`PoolOK`). Capacity is a counting argument:
open upstream calls map into live leases, and only `Accept` adds one, after `CheckTx` counted
them; the cardinality facts are cited from `FiniteSetTheorems`. All other steps are shown to obey
one `Law` about a single execution, and `LawKeeps` derives the invariant from it once.

### Read permits

`ReadPermitsProofs.tla`, for any processes, requests, owners, read sets and kinds of response:

| theorem | statement |
|---|---|
| `TypeCorrect` | `Spec => []TypeOK` |
| `DrainedAtCommitHolds` | `Spec => DrainedAtCommit` |
| `WriterHoldsItsGatesHolds` | `Spec => []WriterHoldsItsGates` |
| `NoRedactedOutputHolds` | `SingleProcess` implies `Spec => []NoRedactedOutput` |

`ReadersOK` gives, for every kind of response and every place, the locks it holds, and that
locked owners are open and not the barrier's; `BarrierOK` what the barrier holds, aims at and has
closed in its process; `PendingOK` that no late `OpenPermits` comes from the future, so that it
cannot reopen a newer close. `SingleProcess` (any two processes are equal) is used in one step:
at the commit the drained process is the process of every buffered response (section 5).

### Privacy erasure

`PrivacyErasureProofs.tla`, for any list of stores and owners, any handlers, workers, devices and
faults:

| theorem | statement |
|---|---|
| `TypeCorrect` | `Spec => []TypeOK` |
| `OwnerReopensScrubbedHolds` | `Spec => []OwnerReopensScrubbed` |
| `VerifiedMeansErasedHolds` | `Spec => []VerifiedMeansErased` |
| `PurgeBeforeReopenHolds` | `Spec => PurgeBeforeReopen` |

Actors decide on a head they read earlier, so the invariant is about receipts. Those of the local
stores are never taken back: a receipt means a scrubbed store, an owner other than memory is open exactly with all
its receipts, memory is opened by the purge only, an offline success means all devices, a
verified head is complete, and the remote plan comes with memory's scrub. `PurgeBeforeReopen` has
a second invariant, `PurgeInv`, that is inductive for the erasures the property is about (those
that do not become partial before `LocalDone`; see section 9).

### Companion

`CompanionProofs.tla`, for any connections, operations, faults and size of the receipt store:
`TypeCorrect` (`Spec => []TypeOK`) and `NotExecutedIsTrueHolds` (`Spec => []NotExecutedIsTrue`).
`CompanionAssumption` says that operations of the page and of runs are distinct (they are fresh
UUIDs). Besides types the invariant says that *what has reached a program was handed out by the
broker* and no record goes back behind that (`ReachedWasHanded`), that *nothing of a run's
operation exists before the run submits it* (`NothingBeforeRun`), where an operation may be
(`Places`), and that a program leads the broker by the exchange it waits for and the failed ones
before it (`LeadsBounded`).

### Memory delivery

`MemoryDeliveryProofs.tla`, for any number of deliveries, attempts, boots and faults:

| theorem | statement |
|---|---|
| `TypeCorrect` | `Spec => []TypeOK` |
| `AppliedIsStoredHolds` | `Spec => []AppliedIsStored` |
| `SettledIsQuietHolds` | `Spec => []SettledIsQuiet` |

`Inv` is about what is at the path. Only an applied delivery has a successor (`Chain`); a
mutation leaves once (`SentOnce`); a correction is tried once, because its path is not empty
while it waits (`OneCorrection`); its content is at the path only when that attempt is over
(`CorrectionLanded`); so a path that holds the last revision is not overwritten (`PathOK`).

`QuietInv` is about what may still arrive. Attempts and observations never run ahead of the
sidecar's boot (`EpochsOK`), which makes a double absent read in a later boot conclusive; a sent
attempt of an expired delivery has a reconciliation (`RowsOK`). As long as every mutation ran in
the boot its attempt records: an attempt with a successor is *dead*, nothing of it can arrive
any more, and so are all attempts of the admission once one of them has landed (`Arrivals`); at
most one node holds content, the one at the path or in the plan (`Nodes`); a delivery is expired
only when the sidecar is clean and its attempts are dead, or nothing was ever sent, and while it
is reconciled some reconciliation is open unless the sidecar is clean (`Accounts`). Both
invariants were also checked with TLC on instances larger than the run's: three deliveries, four
attempts, three boots, two faults (2.5 million states), and two deliveries, three attempts, three
boots, three faults (3.7 million).

### What the proofs changed

Proving found places where a model said more or less than the code. `Companion.Answer` let an
answer to an exchange whose number the broker had already passed reach the program; it is
dropped now. `Companion.Stored` and `MemoryDelivery.ClaimOpen` used a CASE whose alternatives
overlapped, of which TLC takes the first; they are disjoint now. `MentorRun.Claim` names the bound it runs under: an unused lease
must be left.

### Only model-checked

Liveness, since fairness is out of the prover's reach: `EventuallySettled` (outbox and gateway),
`StopSettles`, `ErasureReachesMemory`, `BarrierTerminates`, `VerifiedWhilePurgeStands`,
`ClosedPageEndsNative`, `DisallowedEndsNative`, `LateContentIsPurged`. The five runs that expect
a violation have no theorem.

## 12. Not modelled, and the plan

The repository has some 183,000 lines of implementation; most of them are user interfaces (web,
terminal), HTTP plumbing, prompts and content, parsers, cryptographic containers and clients of
external services, with a single actor and no state that outlives a call. The models cover the
state that several actors share. Left for later, in this order:

1. notesync publication over the outbox: remote document, mapping and reviews;
2. offline evaluation as another consumer, with the clients' offline stores (CLI journal, web
   vault) and an answer that counts once;
3. CLI agent sessions and file effects: journal, batch, crash, restore;
4. learning changes against goal versions; the learning reducer as a recursive function;
5. a counted connection pool in `ReadPermits`, two runs of one session in `MentorRun`.

Proofs to come: abstract specifications of the gateway and of memory delivery, as `WorkQueue` is
one of the outbox, and the proofs that the detailed modules implement them.
