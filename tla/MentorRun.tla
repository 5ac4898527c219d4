----------------------------- MODULE MentorRun -----------------------------
(***************************************************************************)
(* Durable mentor runs (server/internal/mentorrun): the rows of            *)
(* learning_mentor_runs, the server processes that hold the bodies of      *)
(* temporary runs in memory, the workers that execute a run under a lease  *)
(* and pay for model calls, the commands of the learner, the sweeper and   *)
(* the privacy erasure of the learning owner.                              *)
(*                                                                         *)
(* A transaction is one step; it ends in "ok", "lost" (rolled back) or     *)
(* "unreported" (committed, but the caller sees an error).  Time appears   *)
(* only as the moments it makes pass: a lease, a run or a process entry    *)
(* expires.  A lease identifier is any one not in use.  A model answer     *)
(* carries at most one tool call.                                          *)
(***************************************************************************)
EXTENDS Integers, FiniteSets

CONSTANTS
  Runs,
  Procs,            \* server processes: a restart is another process
  Entry,            \* bound: the processes at which runs are created
  Workers,          \* RunOnce loops
  ProcOf,           \* [Workers -> Procs]
  Session,          \* [Runs -> session]
  Startable,        \* runs that carry a StartLearning state
  SavedModes,       \* the values of Create.save in play
  Ops,              \* operation identifiers of commands
  Leases,           \* lease identifiers
  Concurrency,      \* Limits.Concurrency
  MaxCalls,         \* bound: model calls per run
  MaxDisruptions,   \* bound: failed commits, crashes, lost leases, lapses,
                    \* changed contexts, expired runs
  MaxGeneration     \* bound: privacy erasures

NoLease == 0

ASSUME MentorAssumption ==
  /\ ProcOf \in [Workers -> Procs]
  /\ Entry \subseteq Procs
  /\ Startable \subseteq Runs
  /\ SavedModes \subseteq BOOLEAN
  /\ NoLease \notin Leases
  /\ Concurrency \in Nat \ {0} /\ MaxCalls \in Nat
  /\ MaxDisruptions \in Nat /\ MaxGeneration \in Nat

VARIABLES
  run,          \* learning_mentor_runs
  context,      \* the goal, its materials and the device still match the run
  gate,         \* the learning row of privacy_owner_generation_gates
  procs,        \* is the process up, is its entry in learning_mentor_processes live
  memory,       \* Service.temporary and temporaryGeneration, by process
  work,         \* the execution each worker is in
  done,         \* learning_mentor_operations: the commands with a receipt
  disruptions,  \* how much of MaxDisruptions is used
  openCall      \* history: the lease under which a model call began whose answer
                \* no later transaction has recorded

vars == <<run, context, gate, procs, memory, work, done, disruptions, openCall>>

-----------------------------------------------------------------------------
(* Rows.                                                                   *)

TerminalStatuses == {"succeeded", "failed", "cancelled"}  \* failed includes partial
RestingStatuses == {"waiting", "paused"}  \* waiting_input/_approval, paused_tool_steps
Statuses == {"none", "queued", "running", "cancelling"} \cup RestingStatuses \cup TerminalStatuses

terminal(status) == status \in TerminalStatuses

\* What a body still has to do: an unexecuted tool call, a question to the learner,
\* a tool-step count that has reached its limit.
Todo == {"call", "question", "limit"}

Row == [status : Statuses, saved : BOOLEAN, proc : Procs \cup {"none"}, generation : Nat,
        lease : Leases \cup {NoLease}, leaseLive : BOOLEAN,
        callStarted : BOOLEAN, resultUnknown : BOOLEAN, requests : Nat,
        body : BOOLEAN, todo : SUBSET Todo, expired : BOOLEAN]

NoRow == [status |-> "none", saved |-> FALSE, proc |-> "none", generation |-> 0,
          lease |-> NoLease, leaseLive |-> FALSE,
          callStarted |-> FALSE, resultUnknown |-> FALSE, requests |-> 0,
          body |-> FALSE, todo |-> {}, expired |-> FALSE]

Unleased(row) == [row EXCEPT !.lease = NoLease, !.leaseLive = FALSE]
Bodiless(row) == [row EXCEPT !.body = FALSE, !.todo = {}]

Active(r) == run[r].status # "none" /\ ~terminal(run[r].status)

\* A run whose lease counts against the concurrency limit.
Leased(r) == run[r].status \in {"running", "cancelling"} /\ run[r].leaseLive

-----------------------------------------------------------------------------
(* Bodies of temporary runs.                                               *)
(* A cache entry is described by how its Version compares with the row's:  *)
(* "current" equals it and is the body the row was saved with, "ahead" is  *)
(* the body of a save that was rolled back, "forged" equals the row's      *)
(* Version by accident of a later save, "behind" is older.                 *)

Entries == {"none", "current", "ahead", "forged", "behind"}
NoBodies == [r \in Runs |-> "none"]

\* A save of r that process p does not cache moves the row past p's entry.
Overtaken(entry) == CASE entry = "none" -> "none" [] entry = "ahead" -> "forged"
                      [] OTHER -> "behind"

\* Service.cache in process p, called before the commit of a save of r.
Cached(p, r, row, committed) ==
  IF row.saved THEN memory
  ELSE [q \in Procs |->
         IF q # p
         THEN IF committed THEN [memory[q] EXCEPT !.bodies[r] = Overtaken(@)] ELSE memory[q]
         ELSE [generation |-> row.generation,
               bodies |-> [(IF memory[p].generation = row.generation
                            THEN memory[p].bodies ELSE NoBodies)
                           EXCEPT ![r] = IF ~row.body THEN "none"
                                         ELSE IF committed THEN "current" ELSE "ahead"]]]

\* Slip: the cached body is used whatever its version.
DecodableAnyVersion(p, r) ==
  \/ ~run[r].body \/ run[r].saved
  \/ run[r].proc = p /\ memory[p].bodies[r] # "none"
\* decode: a temporary body is readable in its own process at the row's version only.
Decodable(p, r) ==
  \/ ~run[r].body \/ run[r].saved
  \/ run[r].proc = p /\ memory[p].bodies[r] \in {"current", "forged"}

Drop(p, r) == [memory EXCEPT ![p].bodies[r] = "none"]

-----------------------------------------------------------------------------
(* Transactions.                                                           *)

Outcomes == {"ok"} \cup IF disruptions < MaxDisruptions THEN {"lost", "unreported"} ELSE {}

\* The tail every handler shares: save the row, cache the body, commit.
Commit(p, r, row, open, outcome) ==
  /\ run' = IF outcome = "lost" THEN run ELSE [run EXCEPT ![r] = row]
  /\ openCall' = IF outcome = "lost" THEN openCall ELSE [openCall EXCEPT ![r] = open]
  /\ memory' = Cached(p, r, row, outcome # "lost")
  /\ disruptions' = IF outcome = "ok" THEN disruptions ELSE disruptions + 1

-----------------------------------------------------------------------------
(* Workers.                                                                *)

Pcs == {"idle", "ready", "dispatch", "calling", "answered", "tools", "finish"}
Executing == Pcs \ {"idle", "finish"}
NoWork == [pc |-> "idle", run |-> "none", lease |-> NoLease, cause |-> "none", call |-> "none"]

Fail(w, cause) == work' = [work EXCEPT ![w].pc = "finish", ![w].cause = cause]

\* Slip: the lease is checked to be live, not to be this worker's.
HoldsAnyLease(w) == run[work[w].run].leaseLive
HoldsLease(w) == LET row == run[work[w].run]
                 IN row.lease = work[w].lease /\ row.leaseLive

\* Slip: a run that is being cancelled still accepts results.
RunningOrCancelling(row) == row.status \in {"running", "cancelling"}
Running(row) == row.status = "running"

\* The checks of mutateTx before it changes anything.
CanMutate(w) ==
  LET r == work[w].run
  IN /\ gate.open /\ gate.generation = run[r].generation
     /\ context[r]
     /\ HoldsLease(w) /\ Running(run[r]) /\ run[r].body /\ ~run[r].expired
     /\ Decodable(ProcOf[w], r)

\* Which error mutateTx returns, as far as finish tells them apart: ErrInactive,
\* ErrConflict and ErrLease ("changed") or anything else.
Cause(w) ==
  LET r == work[w].run
  IN IF gate.open /\ (\/ gate.generation # run[r].generation \/ ~context[r] \/ ~HoldsLease(w)
                      \/ ~Running(run[r]) \/ ~run[r].body \/ run[r].expired)
     THEN "changed" ELSE "other"

\* Slip: a run that waits for the learner keeps its lease.
RestedWhenOver(row) == IF terminal(row.status) THEN Unleased(row) ELSE row
Rested(row) == IF terminal(row.status) \/ row.status \in RestingStatuses THEN Unleased(row) ELSE row

\* mutateTx with a change: on success the worker continues with next.
Mutate(w, row, open, next) ==
  IF CanMutate(w)
  THEN \E outcome \in Outcomes :
         /\ Commit(ProcOf[w], work[w].run, Rested(row), open, outcome)
         /\ IF outcome = "ok" THEN work' = [work EXCEPT ![w] = next] ELSE Fail(w, "other")
  ELSE Fail(w, Cause(w)) /\ UNCHANGED <<run, openCall, memory, disruptions>>

\* modelusage.RecoverTx: a prepared call is written off when no live lease covers it.
Covered(w) == HoldsLease(w) /\ run[work[w].run].status \in {"running", "cancelling"}
Recovered == [w \in Workers |-> IF work[w].call = "prepared" /\ ~Covered(w)
                                THEN [work[w] EXCEPT !.call = "written_off"] ELSE work[w]]

-----------------------------------------------------------------------------
Init ==
  /\ run = [r \in Runs |-> NoRow]
  /\ context = [r \in Runs |-> TRUE]
  /\ gate = [open |-> TRUE, generation |-> 1]
  /\ procs = [p \in Procs |-> [up |-> TRUE, live |-> TRUE]]
  /\ memory = [p \in Procs |-> [generation |-> 0, bodies |-> NoBodies]]
  /\ work = [w \in Workers |-> NoWork]
  /\ done = {} /\ disruptions = 0
  /\ openCall = [r \in Runs |-> NoLease]

-----------------------------------------------------------------------------
(* Commands of the learner.  A repeated operation only reads its receipt,  *)
(* and a command with a stale expected version is refused (stop excepted): *)
(* neither changes anything.                                               *)

\* Create: refused while the session has an active run.
Create(p, r, saved) ==
  /\ procs[p].up /\ gate.open /\ context[r]
  /\ run[r].status = "none"
  /\ ~ \E q \in Runs : Session[q] = Session[r] /\ Active(q)
  /\ \E outcome \in Outcomes :
       LET row == [NoRow EXCEPT !.status = "queued", !.saved = saved, !.proc = p,
                                !.generation = gate.generation, !.body = TRUE]
       IN /\ run' = IF outcome = "lost" THEN run ELSE [run EXCEPT ![r] = row]
          /\ memory' = [Cached(p, r, row, TRUE) EXCEPT
                          ![p].bodies[r] = IF outcome = "ok" THEN @ ELSE "none"]
          /\ disruptions' = IF outcome = "ok" THEN disruptions ELSE disruptions + 1
  /\ UNCHANGED <<context, gate, procs, work, done, openCall>>

CommandGate(p, op, r) ==
  /\ procs[p].up /\ gate.open /\ op \notin done
  /\ run[r].status # "none" /\ run[r].generation = gate.generation

CommandTail(p, op, r, row, open) ==
  /\ \E outcome \in Outcomes :
       /\ Commit(p, r, row, open, outcome)
       /\ done' = IF outcome = "lost" THEN done ELSE done \cup {op}
  /\ UNCHANGED <<context, gate, procs, work>>

Stop(p, op, r) ==
  /\ CommandGate(p, op, r)
  /\ IF terminal(run[r].status) \/ run[r].status = "cancelling"
     THEN /\ done' = done \cup {op}
          /\ UNCHANGED <<run, context, gate, procs, memory, work, disruptions, openCall>>
     ELSE /\ Decodable(p, r)
          /\ CommandTail(p, op, r,
               [run[r] EXCEPT !.status = IF @ = "running" THEN "cancelling" ELSE "cancelled"],
               openCall[r])

\* Clear needs no body, so any process can do it.
Clear(p, op, r) ==
  /\ CommandGate(p, op, r)
  /\ run[r].body
  /\ CommandTail(p, op, r,
       Unleased(Bodiless([run[r] EXCEPT !.status = "cancelled"])), openCall[r])

CanContinue(p, op, r) ==
  /\ CommandGate(p, op, r) /\ context[r]
  /\ run[r].body /\ Decodable(p, r) /\ run[r].requests < MaxCalls

Respond(p, op, r) ==
  /\ CanContinue(p, op, r) /\ ~run[r].expired
  /\ run[r].status = "waiting" /\ "question" \in run[r].todo
  /\ CommandTail(p, op, r, [run[r] EXCEPT !.status = "queued", !.todo = @ \ {"question"}],
                 openCall[r])

\* resume and retry_start count tool steps afresh; a question still open is asked first.
Requeued(row) ==
  [row EXCEPT !.status = IF "question" \in row.todo THEN "waiting" ELSE "queued",
              !.todo = @ \ {"limit"}]

Resume(p, op, r) ==
  /\ CanContinue(p, op, r) /\ ~run[r].expired
  /\ run[r].status = "paused"
  /\ CommandTail(p, op, r, Requeued(run[r]), openCall[r])

\* retry_start is the learner's explicit order to go on after an unknown result.
RetryStart(p, op, r) ==
  /\ CanContinue(p, op, r)
  /\ r \in Startable /\ run[r].status = "failed"
  /\ CommandTail(p, op, r,
       [Requeued(run[r]) EXCEPT !.callStarted = FALSE, !.resultUnknown = FALSE], NoLease)

-----------------------------------------------------------------------------
(* Service.claim.                                                          *)

\* Slip: a run being cancelled is left to its worker for good.
ClaimableRunning(p, r) ==
  /\ run[r].status # "none" /\ run[r].generation = gate.generation /\ ~run[r].expired
  /\ run[r].saved \/ run[r].proc = p
  /\ \/ run[r].status = "queued"
     \/ run[r].status = "running" /\ ~run[r].leaseLive
Claimable(p, r) ==
  /\ run[r].status # "none" /\ run[r].generation = gate.generation /\ ~run[r].expired
  /\ run[r].saved \/ run[r].proc = p
  /\ \/ run[r].status = "queued"
     \/ run[r].status \in {"running", "cancelling"} /\ ~run[r].leaseLive

\* Slip: only a cancellation is settled; an open call is simply run again.
MustSettleCancelled(row) == row.status = "cancelling"
\* A call already begun is never begun again: the run is settled instead.
MustSettle(row) == row.callStarted \/ row.status = "cancelling"

InUse == {run[r].lease : r \in Runs} \cup {openCall[r] : r \in Runs}
           \cup {work[w].lease : w \in Workers}

ClaimedRow(p, r, lease) ==
  LET row == run[r]
  IN IF ~Decodable(p, r) THEN Unleased(Bodiless([row EXCEPT !.status = "failed"]))
     ELSE IF MustSettle(row)
     THEN Unleased([row EXCEPT !.status = IF @ = "cancelling" THEN "cancelled" ELSE "failed",
                               !.resultUnknown = row.callStarted])
     ELSE [row EXCEPT !.status = "running", !.lease = lease, !.leaseLive = TRUE]

\* Where RunOnce enters a claimed body: a pending tool call, an open question (nothing
\* to execute: it returns), or the next model call; under another configuration than the
\* run's it finishes at once.
EntryPoints(r, lease) ==
  LET at(pc, cause) ==
        [NoWork EXCEPT !.pc = pc, !.run = r, !.lease = lease, !.cause = cause]
  IN {at("finish", "changed"),
      IF "call" \in run[r].todo THEN at("tools", "none")
      ELSE IF "question" \in run[r].todo THEN NoWork ELSE at("ready", "none")}

\* CheckTx admits a server claim while fewer than Concurrency leases are live; the
\* claim draws a fresh identifier (bound: Leases holds one).
Claim(w) ==
  LET p == ProcOf[w]
      candidates == {r \in Runs : Claimable(p, r)}
  IN /\ work[w].pc = "idle" /\ procs[p].up /\ gate.open
     /\ Cardinality({r \in Runs : Leased(r)}) < Concurrency
     /\ ~(Leases \subseteq InUse)
     /\ \/ /\ candidates = {}
           /\ work' = Recovered
           /\ UNCHANGED <<run, memory, disruptions, openCall>>
        \/ \E r \in candidates, outcome \in Outcomes :
             LET lease == CHOOSE l \in Leases : l \notin InUse
                 row == ClaimedRow(p, r, lease)
             IN /\ Commit(p, r, row, openCall[r], outcome)
                /\ IF outcome = "ok" /\ row.status = "running"
                   THEN \E entry \in EntryPoints(r, lease) :
                          work' = [Recovered EXCEPT ![w] = entry]
                   ELSE work' = IF outcome = "lost" THEN work ELSE Recovered
     /\ UNCHANGED <<context, gate, procs, done>>

-----------------------------------------------------------------------------
(* Execution of a claimed run.                                             *)

At(w, pc, call) == [work[w] EXCEPT !.pc = pc, !.call = call]
OthersUnchanged == UNCHANGED <<context, gate, procs, done>>

\* budgetTransport: model_started is committed before anything is sent.
StartCall(w) ==
  /\ work[w].pc = "ready"
  /\ run[work[w].run].requests < MaxCalls
  /\ Mutate(w, [run[work[w].run] EXCEPT !.requests = @ + 1, !.callStarted = TRUE],
            work[w].lease, At(w, "dispatch", "prepared"))
  /\ OthersUnchanged

\* modelusage.Dispatch, then the request goes out.
Dispatch(w) ==
  /\ work[w].pc = "dispatch"
  /\ IF gate.open /\ gate.generation = run[work[w].run].generation /\ work[w].call = "prepared"
     THEN work' = [work EXCEPT ![w] = At(w, "calling", "sent")]
     ELSE Fail(w, IF gate.open THEN "changed" ELSE "other")
  /\ OthersUnchanged /\ UNCHANGED <<run, memory, disruptions, openCall>>

ModelAnswers(w) ==
  /\ work[w].pc = "calling"
  /\ work' = [work EXCEPT ![w] = At(w, "answered", "none")]
  /\ OthersUnchanged /\ UNCHANGED <<run, memory, disruptions, openCall>>

\* The provider refuses a streaming option: the shared client sends the request again,
\* and the transport begins (and pays) another call under the same lease.
CompatibilityRetry(w) ==
  /\ work[w].pc = "calling"
  /\ work' = [work EXCEPT ![w] = At(w, "ready", "none")]
  /\ OthersUnchanged /\ UNCHANGED <<run, memory, disruptions, openCall>>

\* The context does not fit, the call fails, or its answer or tool call is invalid.
ModelFails(w) ==
  /\ work[w].pc \in {"ready", "calling", "answered", "tools"}
  /\ Fail(w, "other")
  /\ OthersUnchanged /\ UNCHANGED <<run, memory, disruptions, openCall>>

\* MentorClient returns another configuration when the call is about to begin: ErrInactive.
Reconfigured(w) ==
  /\ work[w].pc = "ready"
  /\ Fail(w, "changed")
  /\ OthersUnchanged /\ UNCHANGED <<run, memory, disruptions, openCall>>

\* A write that records the answer of the last call.
Recorded(r) == [run[r] EXCEPT !.callStarted = FALSE]

\* AppendAssistant: the answer and its tool call become the checkpoint.
AppendAssistant(w) ==
  LET r == work[w].run
  IN /\ work[w].pc = "answered" /\ "limit" \notin run[r].todo
     /\ run[r].requests < MaxCalls
     /\ Mutate(w, [Recorded(r) EXCEPT !.todo = @ \cup {"call"}], NoLease, At(w, "tools", "none"))
     /\ OthersUnchanged

\* Complete; a start-learning run without sources completes as partial.
Complete(w) ==
  LET r == work[w].run
  IN /\ work[w].pc = "answered" /\ "limit" \notin run[r].todo
     /\ \E status \in {"succeeded"} \cup IF r \in Startable THEN {"failed"} ELSE {} :
          Mutate(w, [Recorded(r) EXCEPT !.status = status], NoLease, NoWork)
     /\ OthersUnchanged

\* pauseForToolSteps, after its summary call was answered.
PauseForToolSteps(w) ==
  LET r == work[w].run
  IN /\ work[w].pc = "answered" /\ "limit" \in run[r].todo
     /\ Mutate(w, [Recorded(r) EXCEPT !.status = "paused"], NoLease, NoWork)
     /\ OthersUnchanged

\* Execute of a tool call: a result, or a question that waits for the learner.  When
\* the step reaches the limit the question is only checkpointed and the summary follows.
Execute(w) ==
  LET r == work[w].run
      without == [Recorded(r) EXCEPT !.todo = @ \ {"call"}]
  IN /\ work[w].pc = "tools"
     /\ \E asks \in BOOLEAN, limit \in BOOLEAN :
          LET row == [without EXCEPT !.todo = @ \cup (IF asks THEN {"question"} ELSE {})
                                                \cup (IF limit THEN {"limit"} ELSE {})]
          IN IF asks /\ ~limit
             THEN Mutate(w, [row EXCEPT !.status = "waiting"], NoLease, NoWork)
             ELSE Mutate(w, row, NoLease, At(w, "ready", "none"))
     /\ OthersUnchanged

\* The renewal goroutine: success only prolongs the lease, failure cancels the execution.
RenewalFails(w) ==
  /\ work[w].pc \in Executing
  /\ ~CanMutate(w)
  /\ Fail(w, Cause(w))
  /\ OthersUnchanged /\ UNCHANGED <<run, memory, disruptions, openCall>>

\* Slip: the settlement forgets the call that was under way.
FinishedForgettingCall(row, cause) ==
  Unleased([row EXCEPT !.status = IF @ = "cancelling" \/ cause = "changed"
                                  THEN "cancelled" ELSE "failed"])
Finished(row, cause) ==
  Unleased([row EXCEPT !.status = IF @ = "cancelling" \/ cause = "changed"
                                  THEN "cancelled" ELSE "failed",
                       !.resultUnknown = @ \/ row.callStarted])

\* finish: settles the run while the lease is still this worker's, else leaves it alone.
Finish(w) ==
  LET p == ProcOf[w]
      r == work[w].run
      row == IF Decodable(p, r) THEN run[r] ELSE Bodiless(run[r])
  IN /\ work[w].pc = "finish"
     /\ IF /\ gate.open /\ gate.generation = run[r].generation
           /\ HoldsLease(w) /\ ~terminal(run[r].status)
        THEN \E outcome \in Outcomes :
               Commit(p, r, Finished(row, work[w].cause), openCall[r], outcome)
        ELSE /\ memory' = IF gate.open /\ gate.generation # run[r].generation
                          THEN Drop(p, r) ELSE memory
             /\ UNCHANGED <<run, disruptions, openCall>>
     /\ work' = [work EXCEPT ![w] = NoWork]
     /\ OthersUnchanged

-----------------------------------------------------------------------------
(* Sweep.                                                                  *)

Sweepable(p, r) ==
  /\ run[r].generation = gate.generation /\ run[r].body
  /\ \/ run[r].expired
     \/ /\ ~run[r].saved /\ run[r].proc # p
        /\ ~procs[run[r].proc].live /\ ~run[r].leaseLive

Swept(row) ==
  Unleased(Bodiless([row EXCEPT !.status = IF terminal(@) THEN @ ELSE "failed",
                                !.resultUnknown = @ \/ row.callStarted]))

\* Slip: an erased generation stays in memory.
ReleasedSweptOnly(p, swept) ==
  [r \in Runs |-> IF r \in swept THEN "none" ELSE memory[p].bodies[r]]
\* After the commit: bodies of another generation and of the swept runs go.
Released(p, swept) ==
  [r \in Runs |-> IF memory[p].generation # gate.generation \/ r \in swept
                  THEN "none" ELSE memory[p].bodies[r]]

Sweep(p) ==
  LET swept == {r \in Runs : Sweepable(p, r)}
  IN /\ procs[p].up
     /\ IF gate.open
        THEN /\ run' = [r \in Runs |-> IF r \in swept THEN Swept(run[r]) ELSE run[r]]
             /\ memory' = [q \in Procs |->
                  IF q = p THEN [generation |-> gate.generation, bodies |-> Released(p, swept)]
                  ELSE [memory[q] EXCEPT !.bodies = [r \in Runs |->
                          IF r \in swept THEN Overtaken(@[r]) ELSE @[r]]]]
             /\ procs' = [procs EXCEPT ![p].live = TRUE]
             /\ work' = Recovered
        ELSE /\ memory' = [memory EXCEPT ![p].bodies = NoBodies]
             /\ UNCHANGED <<run, procs, work>>
     /\ UNCHANGED <<context, gate, done, disruptions, openCall>>

-----------------------------------------------------------------------------
(* Privacy erasure of the learning owner.                                  *)

CloseLearning ==
  /\ gate.open /\ gate.generation < MaxGeneration
  /\ gate' = [open |-> FALSE, generation |-> gate.generation + 1]
  /\ UNCHANGED <<run, context, procs, memory, work, done, disruptions, openCall>>

Scrubbed(row) == IF row.status = "none" THEN row
                 ELSE Unleased(Bodiless([row EXCEPT !.status = "cancelled", !.callStarted = FALSE]))

\* One transaction over every run; it forgets the open calls with the rest.
ScrubLearning ==
  /\ ~gate.open
  /\ run' = [r \in Runs |-> Scrubbed(run[r])]
  /\ openCall' = [r \in Runs |-> NoLease]
  /\ UNCHANGED <<context, gate, procs, memory, work, done, disruptions>>

OpenLearning ==
  /\ ~gate.open /\ run = [r \in Runs |-> Scrubbed(run[r])]
  /\ gate' = [gate EXCEPT !.open = TRUE]
  /\ UNCHANGED <<run, context, procs, memory, work, done, disruptions, openCall>>

-----------------------------------------------------------------------------
(* The surroundings.                                                       *)

Disruption == disruptions < MaxDisruptions /\ disruptions' = disruptions + 1

\* A lease runs out; it is a disruption when its worker is still at it.
LeaseExpires(r) ==
  /\ run[r].leaseLive
  /\ run' = [run EXCEPT ![r].leaseLive = FALSE]
  /\ IF \E w \in Workers : work[w].run = r /\ work[w].lease = run[r].lease
     THEN Disruption ELSE UNCHANGED disruptions
  /\ UNCHANGED <<context, gate, procs, memory, work, done, openCall>>

\* Seven days after its creation.
RunExpires(r) ==
  /\ run[r].status # "none" /\ ~run[r].expired
  /\ Disruption
  /\ run' = [run EXCEPT ![r].expired = TRUE]
  /\ UNCHANGED <<context, gate, procs, memory, work, done, openCall>>

\* The goal moves on, a material is withdrawn, or the device is revoked.
ContextChanges(r) ==
  /\ context[r]
  /\ Disruption
  /\ context' = [context EXCEPT ![r] = FALSE]
  /\ UNCHANGED <<run, gate, procs, memory, work, done, openCall>>

\* The process entry is thirty seconds old.
LivenessLapses(p) ==
  /\ procs[p].live
  /\ IF procs[p].up THEN Disruption ELSE UNCHANGED disruptions
  /\ procs' = [procs EXCEPT ![p].live = FALSE]
  /\ UNCHANGED <<run, context, gate, memory, work, done, openCall>>

\* Another process goes on (or takes the place of this one).
Crash(p) ==
  /\ procs[p].up /\ \E q \in Procs \ {p} : procs[q].up
  /\ Disruption
  /\ procs' = [procs EXCEPT ![p].up = FALSE]
  /\ memory' = [memory EXCEPT ![p].bodies = NoBodies]
  /\ work' = [w \in Workers |-> IF ProcOf[w] = p THEN NoWork ELSE work[w]]
  /\ UNCHANGED <<run, context, gate, done, openCall>>

-----------------------------------------------------------------------------
WorkerStep(w) ==
  \/ Claim(w) \/ StartCall(w) \/ Dispatch(w) \/ ModelAnswers(w) \/ ModelFails(w)
  \/ CompatibilityRetry(w)
  \/ Reconfigured(w) \/ AppendAssistant(w) \/ Complete(w) \/ PauseForToolSteps(w)
  \/ Execute(w) \/ RenewalFails(w) \/ Finish(w)

CommandStep(p, op, r) ==
  \/ Stop(p, op, r) \/ Clear(p, op, r) \/ Respond(p, op, r)
  \/ Resume(p, op, r) \/ RetryStart(p, op, r)

Next ==
  \/ \E p \in Entry, r \in Runs, saved \in SavedModes : Create(p, r, saved)
  \/ \E p \in Procs, op \in Ops, r \in Runs : CommandStep(p, op, r)
  \/ \E w \in Workers : WorkerStep(w)
  \/ \E p \in Procs : Sweep(p) \/ LivenessLapses(p) \/ Crash(p)
  \/ CloseLearning \/ ScrubLearning \/ OpenLearning
  \/ \E r \in Runs : LeaseExpires(r) \/ RunExpires(r) \/ ContextChanges(r)

Spec == Init /\ [][Next]_vars

\* RunOnce and Sweep run periodically in every process, a model call ends by its
\* timeout, time passes, and the erasure coordinator resumes what it began.
Fairness ==
  /\ \A w \in Workers : WF_vars(WorkerStep(w))
  /\ \A p \in Procs : WF_vars(Sweep(p)) /\ WF_vars(LivenessLapses(p))
  /\ \A r \in Runs : WF_vars(LeaseExpires(r))
  /\ WF_vars(ScrubLearning) /\ WF_vars(OpenLearning)

LiveSpec == Spec /\ Fairness

-----------------------------------------------------------------------------
(* Properties.                                                             *)

\* Every variable keeps its type, and a run holds a lease exactly while a worker may
\* be executing it: no handler settles a run and leaves its capacity taken.
TypeOK ==
  /\ run \in [Runs -> Row]
  /\ context \in [Runs -> BOOLEAN]
  /\ gate \in [open : BOOLEAN, generation : Nat]
  /\ procs \in [Procs -> [up : BOOLEAN, live : BOOLEAN]]
  /\ memory \in [Procs -> [generation : Nat, bodies : [Runs -> Entries]]]
  /\ work \in [Workers -> [pc : Pcs, run : Runs \cup {"none"}, lease : Leases \cup {NoLease},
                           cause : {"none", "changed", "other"},
                           call : {"none", "prepared", "written_off", "sent"}]]
  /\ done \subseteq Ops
  /\ disruptions \in 0 .. MaxDisruptions
  /\ openCall \in [Runs -> Leases \cup {NoLease}]
  /\ \A r \in Runs :
       /\ run[r].status \in {"running", "cancelling"} <=> run[r].lease # NoLease
       /\ run[r].leaseLive => run[r].lease # NoLease

\* A model call is begun only when no earlier call of the run is still unanswered,
\* unless the learner retried: crashes, lost leases and new claims never pay twice.
NoAutomaticReplay ==
  [][\A r \in Runs : run'[r].requests > run[r].requests
       => openCall[r] \in {NoLease, run[r].lease}]_vars

\* A run that ended with its body in place and a call still unanswered says so.
InterruptedCallsAreUnknown ==
  \A r \in Runs : terminal(run[r].status) /\ run[r].body /\ openCall[r] # NoLease
                    => run[r].resultUnknown

\* Worker w sends its request to the provider in this step: its call goes from prepared
\* to sent in the ledger.
Sends(w) == work[w].call = "prepared" /\ work'[w].call = "sent"

\* Stop is a monotonic intent: a run being cancelled never continues, never succeeds
\* and begins no further call; it ends cancelled, or failed once its body is lost.  What
\* may still be sent for it is the call it had begun and counted before the stop, whose
\* lease its settlement looks at: Dispatch does not ask for the run's status.
StopIsMonotonic ==
  [][\A r \in Runs : run[r].status = "cancelling" =>
       /\ \/ run'[r].status \in {"cancelling", "cancelled"}
          \/ run'[r].status = "failed" /\ ~run'[r].body
       /\ run'[r].requests = run[r].requests
       /\ \A w \in Workers : work[w].run = r /\ Sends(w) => openCall[r] = work[w].lease]_vars

\* What the API description and docs/design/model-usage.md say of a stop: once it is
\* accepted no request is dispatched.
NothingSentAfterStop ==
  [][\A w \in Workers : Sends(w) => run[work[w].run].status # "cancelling"]_vars

\* Only the answer to the run's own open call, under the lease it was begun with,
\* completes the run: a worker that lost its lease publishes nothing.
SuccessUnderOwnLease ==
  [][\A r \in Runs : run'[r].status = "succeeded" /\ run[r].status # "succeeded"
       => run[r].leaseLive /\ openCall[r] = run[r].lease]_vars

\* Whatever commits fail, a temporary body that can be decoded is the one its row was
\* last saved with.
DecodesCommittedBody ==
  \A p \in Procs, r \in Runs :
    run[r].body /\ ~run[r].saved /\ Decodable(p, r) => memory[p].bodies[r] = "current"

\* A stop is eventually done, whatever crashes and lost leases come between.
StopSettles ==
  \A r \in Runs : (run[r].status = "cancelling") ~> terminal(run[r].status)

\* After an erasure every process forgets the temporary bodies of the old generation.
ErasureReachesMemory ==
  \A r \in Runs : (run[r].status # "none" /\ run[r].generation < gate.generation)
    ~> (\A p \in Procs : memory[p].bodies[r] = "none")

\* What docs/design/model-usage.md says of tool steps: a run that reached the limit
\* goes on to paused_tool_steps; no run stays in execution for ever.  (RunExpires is not
\* fair: the behaviours judged are those within the run's seven days.)
RunsComeToRest ==
  \A r \in Runs : (run[r].status = "running") ~> (run[r].status # "running")
=============================================================================
