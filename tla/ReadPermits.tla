---------------------------- MODULE ReadPermits ----------------------------
(***************************************************************************)
(* Read permits and the privacy barrier.                                   *)
(*                                                                         *)
(* A request that returns learner content holds a permit of its process    *)
(* from before the first read until its last byte is written               *)
(* (privacy/permit.go).  The bytes are written inside CommitResponse, which *)
(* first takes the persistent owner gates in a read transaction of its own  *)
(* (privacy/postgresstore/response_commit_gate.go) and then the write gates *)
(* of the process.  A privacy barrier (commitBarrier in                    *)
(* privacy/postgresstore/store.go) takes the owner gates exclusively,       *)
(* closes and drains the permits of ITS process, closes every owner at the  *)
(* next generation and commits; the erasure then scrubs and reopens the     *)
(* owners one by one.                                                      *)
(*                                                                         *)
(* Owners are numbered in the order of privacy.AllOwners, the order in      *)
(* which every locker takes them.  The barrier is the only exclusive        *)
(* locker and PostgreSQL queues it fairly, so a shared request is granted   *)
(* exactly when the barrier neither holds the owner nor waits for it.       *)
(***************************************************************************)
EXTENDS Naturals, FiniteSets

CONSTANTS
    Processes,       \* server processes on one database
    NoProcess,       \* a value that is no process
    Readers,         \* requests in flight, reused when one ends
    OwnerCount,      \* len(privacy.AllOwners)
    Kind,            \* how each reader responds, see Kinds
    ReadSet,         \* the owners each reader's permit covers
    MaxGeneration,   \* bound: the last generation a barrier may commit
    MaxFaults        \* bound: client cancels, lost replies, failures, crashes

Owners == 1..OwnerCount

\* buffered: the body is read first and flushed in one CommitResponse.
\* output:   a gateway stream; each write re-checks the request in a guard
\*           transaction on a second connection, inside CommitResponse.
\* control:  a gateway control response; the guard transaction is opened
\*           first and held across CommitResponse.
Kinds == {"buffered", "output", "control"}

ASSUME ConstantsAssumption ==
    /\ NoProcess \notin Processes
    /\ OwnerCount \in Nat \ {0}
    /\ Kind \in [Readers -> Kinds]
    /\ ReadSet \in [Readers -> SUBSET Owners]
    /\ \A r \in Readers : ReadSet[r] # {}
    /\ MaxGeneration \in Nat /\ MaxGeneration >= 1
    /\ MaxFaults \in Nat

VARIABLES
    generation,   \* learner_generation of privacy_owner_generation_gates
    open,         \* the owners whose read_open and write_open are set
    erasing,      \* an erasure head is not yet 'verified'
    mgr,          \* mgr[p]: the ReadPermitManager of process p
    rd,           \* rd[r]: a request and its permit
    bar,          \* the barrier in progress (session lock: at most one)
    pending,      \* permits.Open calls not yet made, after a reopening commit
    faults        \* faults so far

vars == <<generation, open, erasing, mgr, rd, bar, pending, faults>>

Idle == [pc |-> "idle", proc |-> NoProcess, cancelled |-> FALSE, seen |-> 0,
         guard |-> {}, gates |-> {}, wgs |-> {}]

NoBarrier == [pc |-> "idle", proc |-> NoProcess, held |-> {}, wgs |-> {},
              target |-> 0]

\* Slip: generations count from zero.
FreshManagerZero == [closed |-> {}, gen |-> [o \in Owners |-> 0]]

FreshManager == [closed |-> {}, gen |-> [o \in Owners |-> 1]]

Init ==
    /\ generation = 1
    /\ open = Owners
    /\ erasing = FALSE
    /\ mgr = [p \in Processes |-> FreshManager]
    /\ rd = [r \in Readers |-> Idle]
    /\ bar = NoBarrier
    /\ pending = {}
    /\ faults = 0

-----------------------------------------------------------------------------
(* Locks *)

\* Every locker takes the owners it lacks in ascending order.
Least(S) == CHOOSE o \in S : \A x \in S : o <= x

Active(p) == {r \in Readers : rd[r].pc # "idle" /\ rd[r].proc = p}

\* The shared lock of privacy_lock_owner_gate is granted unless the barrier
\* holds it or is queued for it.
SharedGranted(o) ==
    /\ o \notin bar.held
    /\ ~(bar.pc = "lock" /\ o = Least(Owners \ bar.held))

ExclusiveGranted(o) ==
    \A r \in Readers : o \notin rd[r].guard \cup rd[r].gates

WriteGateFree(p, o) ==
    /\ \A r \in Active(p) : o \notin rd[r].wgs
    /\ bar.proc = p => o \notin bar.wgs

Fault == faults < MaxFaults /\ faults' = faults + 1

-----------------------------------------------------------------------------
(* Requests *)

\* ReadPermitManager.Acquire on behalf of a request that reached process p.
Acquire(r, p) ==
    /\ rd[r].pc = "idle"
    /\ ReadSet[r] \cap mgr[p].closed = {}
    /\ rd' = [rd EXCEPT ![r] = [Idle EXCEPT
                !.pc = IF Kind[r] = "control" THEN "guard" ELSE "reading",
                !.proc = p]]
    /\ UNCHANGED <<generation, open, erasing, mgr, bar, pending, faults>>

\* The handler reads in a transaction that holds the owner gates shared; for
\* an output the content is the answer to a prompt of this generation.
ReadContent(r) ==
    /\ rd[r].pc = "reading"
    /\ \A o \in ReadSet[r] : SharedGranted(o)
    /\ ReadSet[r] \subseteq open
    /\ rd' = [rd EXCEPT ![r].pc = "gates", ![r].seen = generation]
    /\ UNCHANGED <<generation, open, erasing, mgr, bar, pending, faults>>

\* The request fails: write gates, transactions and the permit are given up.
Fail(r) ==
    /\ rd' = [rd EXCEPT ![r] = Idle]
    /\ UNCHANGED <<generation, open, erasing, mgr, bar, pending, faults>>

\* WithReadGates locks the next owner of the permit and refuses a closed one.
\* Reads pass no expected generation: privacy_lock_owner_gate gets NULL.
LockReadGate(r) ==
    LET o == Least(ReadSet[r] \ rd[r].gates) IN
    /\ rd[r].pc = "gates"
    /\ SharedGranted(o)
    /\ o \in open
    /\ rd' = [rd EXCEPT ![r].gates = @ \cup {o},
                        ![r].pc = IF ReadSet[r] = rd[r].gates \cup {o}
                                  THEN "writegates" ELSE @]
    /\ UNCHANGED <<generation, open, erasing, mgr, bar, pending, faults>>

LockWriteGate(r) ==
    LET o == Least(ReadSet[r] \ rd[r].wgs) IN
    /\ rd[r].pc = "writegates"
    /\ WriteGateFree(rd[r].proc, o)
    /\ rd' = [rd EXCEPT ![r].wgs = @ \cup {o},
                        ![r].pc = IF ReadSet[r] = rd[r].wgs \cup {o}
                                  THEN "check" ELSE @]
    /\ UNCHANGED <<generation, open, erasing, mgr, bar, pending, faults>>

\* commitResponse looks at the permit again, under the write gates.
Revalidate(r) ==
    /\ rd[r].pc = "check"
    /\ ~rd[r].cancelled
    /\ ReadSet[r] \cap mgr[rd[r].proc].closed = {}
    /\ rd' = [rd EXCEPT ![r].pc = IF Kind[r] = "output" THEN "guard"
                                  ELSE "writing"]
    /\ UNCHANGED <<generation, open, erasing, mgr, bar, pending, faults>>

\* Service.guard locks the next owner on its own connection; it checks the
\* generation of the request once it has them all.
LockGuard(r) ==
    LET o == Least(ReadSet[r] \ rd[r].guard)
        last == ReadSet[r] = rd[r].guard \cup {o}
    IN
    /\ rd[r].pc = "guard"
    /\ SharedGranted(o)
    /\ o \in open
    /\ last /\ Kind[r] = "output" => rd[r].seen = generation
    /\ rd' = [rd EXCEPT
                ![r].guard = @ \cup {o},
                ![r].seen = IF last THEN generation ELSE @,
                ![r].pc = IF ~last THEN @
                          ELSE IF Kind[r] = "output" THEN "writing" ELSE "gates"]
    /\ UNCHANGED <<generation, open, erasing, mgr, bar, pending, faults>>

\* The last byte of the response is written; a stream may write again.
FinishWrite(r) ==
    /\ rd[r].pc = "writing"
    /\ \/ rd' = [rd EXCEPT ![r] = Idle]
       \/ /\ Kind[r] = "output"
          /\ rd' = [rd EXCEPT ![r].pc = "gates", ![r].gates = {},
                              ![r].guard = {}, ![r].wgs = {}]
    /\ UNCHANGED <<generation, open, erasing, mgr, bar, pending, faults>>

\* A wait that the permit's context ends, or a check that fails.
Refused(r) ==
    /\ rd[r].pc \in {"reading", "guard", "gates", "writegates", "check"}
    /\ \/ rd[r].cancelled
       \/ rd[r].pc = "reading" /\ ~(ReadSet[r] \subseteq open)
       \/ rd[r].pc = "gates" /\ Least(ReadSet[r] \ rd[r].gates) \notin open
       \/ rd[r].pc = "guard" /\ Least(ReadSet[r] \ rd[r].guard) \notin open
       \/ rd[r].pc = "guard" /\ Kind[r] = "output" /\ rd[r].seen # generation
       \/ rd[r].pc = "check" /\ ReadSet[r] \cap mgr[rd[r].proc].closed # {}
    /\ Fail(r)

\* A guard inside an output runs under the execution's context, which
\* Maintain cancels when the model lease cannot be renewed in time.
GuardDeadline(r) ==
    /\ rd[r].pc = "guard" /\ Kind[r] = "output"
    /\ Fail(r)

\* The client of the request goes away.
ClientCancel(r) ==
    /\ rd[r].pc # "idle" /\ ~rd[r].cancelled
    /\ Fault
    /\ rd' = [rd EXCEPT ![r].cancelled = TRUE]
    /\ UNCHANGED <<generation, open, erasing, mgr, bar, pending>>

-----------------------------------------------------------------------------
(* The barrier *)

\* commitBarrier has the session lock and opens its serializable transaction.
\* What it reads of heads and gates is the snapshot of its first statement:
\* target stays 0 when that shows an active erasure or a closed owner.
BarrierBegin(p) ==
    /\ bar.pc = "idle"
    /\ generation < MaxGeneration
    /\ bar' = [NoBarrier EXCEPT
                !.pc = "lock", !.proc = p,
                !.target = IF erasing \/ open # Owners THEN 0 ELSE generation + 1]
    /\ UNCHANGED <<generation, open, erasing, mgr, rd, pending, faults>>

\* The next owner is locked exclusively; with the last one the barrier is
\* refused if an erasure was active.
BarrierLock ==
    LET o == Least(Owners \ bar.held)
        last == Owners = bar.held \cup {o}
    IN
    /\ bar.pc = "lock"
    /\ ExclusiveGranted(o)
    /\ bar' = IF last /\ bar.target = 0 THEN NoBarrier
              ELSE [bar EXCEPT !.held = @ \cup {o},
                               !.pc = IF last THEN "wgates" ELSE @]
    /\ UNCHANGED <<generation, open, erasing, mgr, rd, pending, faults>>

\* Slip: permits already given out are neither cancelled nor drained.
BarrierCloseOnly ==
    /\ bar.pc = "wgates"
    /\ bar' = [bar EXCEPT !.pc = "commit"]
    /\ mgr' = [mgr EXCEPT ![bar.proc] =
                 [closed |-> Owners, gen |-> [w \in Owners |-> bar.target]]]
    /\ UNCHANGED <<generation, open, erasing, rd, pending, faults>>

\* Slip: the drain waits for permits it has not cancelled.
BarrierCloseUncancelled ==
    /\ bar.pc = "wgates"
    /\ bar' = [bar EXCEPT !.pc = "drain"]
    /\ mgr' = [mgr EXCEPT ![bar.proc] =
                 [closed |-> Owners, gen |-> [w \in Owners |-> bar.target]]]
    /\ UNCHANGED <<generation, open, erasing, rd, pending, faults>>

\* CloseAndDrain, first half: with every write gate of the process in hand it
\* marks the owners closed at the target and cancels the active permits.
BarrierClose ==
    LET o == Least(Owners \ bar.wgs)
        last == Owners = bar.wgs \cup {o}
    IN
    /\ bar.pc = "wgates"
    /\ WriteGateFree(bar.proc, o)
    /\ IF last
       THEN /\ bar' = [bar EXCEPT !.wgs = {}, !.pc = "drain"]
            /\ mgr' = [mgr EXCEPT ![bar.proc] =
                         [closed |-> Owners, gen |-> [w \in Owners |-> bar.target]]]
            /\ rd' = [r \in Readers |->
                        IF r \in Active(bar.proc)
                        THEN [rd[r] EXCEPT !.cancelled = TRUE] ELSE rd[r]]
       ELSE /\ bar' = [bar EXCEPT !.wgs = @ \cup {o}]
            /\ UNCHANGED <<mgr, rd>>
    /\ UNCHANGED <<generation, open, erasing, pending, faults>>

\* CloseAndDrain, second half: no permit of the process is active any more.
BarrierDrained ==
    /\ bar.pc = "drain"
    /\ Active(bar.proc) = {}
    /\ bar' = [bar EXCEPT !.pc = "commit"]
    /\ UNCHANGED <<generation, open, erasing, mgr, rd, pending, faults>>

\* Every owner is closed at the target generation and the transaction
\* commits; if the reply is lost the code believes it has failed.
BarrierCommit(lost) ==
    /\ bar.pc = "commit"
    /\ IF lost THEN Fault ELSE UNCHANGED faults
    /\ generation' = bar.target
    /\ open' = {}
    /\ erasing' = TRUE
    /\ bar' = IF lost THEN [bar EXCEPT !.pc = "abort", !.held = {}]
              ELSE NoBarrier
    /\ UNCHANGED <<mgr, rd, pending>>

\* The client goes away or the database fails: the transaction rolls back.
BarrierFail ==
    /\ bar.pc \in {"lock", "wgates", "drain", "commit"}
    /\ Fault
    /\ bar' = IF bar.pc = "lock" THEN NoBarrier
              ELSE [bar EXCEPT !.pc = "abort", !.held = {}, !.wgs = {}]
    /\ UNCHANGED <<generation, open, erasing, mgr, rd, pending>>

\* AbortClose restores the owners this barrier had closed.
AbortClose ==
    LET o == Least(Owners \ bar.wgs)
        last == Owners = bar.wgs \cup {o}
        m == mgr[bar.proc]
        mine == {w \in m.closed : m.gen[w] = bar.target}
    IN
    /\ bar.pc = "abort"
    /\ WriteGateFree(bar.proc, o)
    /\ IF last
       THEN /\ bar' = NoBarrier
            /\ mgr' = [mgr EXCEPT ![bar.proc] =
                 [closed |-> m.closed \ mine,
                  gen |-> [w \in Owners |-> IF w \in mine THEN bar.target - 1
                                            ELSE m.gen[w]]]]
       ELSE /\ bar' = [bar EXCEPT !.wgs = @ \cup {o}]
            /\ UNCHANGED mgr
    /\ UNCHANGED <<generation, open, erasing, rd, pending, faults>>

-----------------------------------------------------------------------------
(* The erasure reopens the owners *)

\* A scrub or the remote purge is verified and its transaction opens the
\* owner at the generation of the erasure, or finds it already open; the
\* permits of the process follow, unless the reply to the commit was lost.
Reopen(p, o, lost) ==
    /\ erasing
    /\ open' = open \cup {o}
    /\ IF lost THEN Fault /\ UNCHANGED pending
       ELSE /\ UNCHANGED faults
            /\ pending' = pending \cup
                            {[proc |-> p, owner |-> o, gen |-> generation]}
    /\ UNCHANGED <<generation, erasing, mgr, rd, bar>>

\* Slip: a late Open of an earlier erasure opens whatever is closed now.
OpenPermitsAnyGeneration(c) ==
    /\ c \in pending
    /\ WriteGateFree(c.proc, c.owner)
    /\ pending' = pending \ {c}
    /\ mgr' = [mgr EXCEPT ![c.proc].closed = @ \ {c.owner}]
    /\ UNCHANGED <<generation, open, erasing, rd, bar, faults>>

\* ReadPermitManager.Open for one owner.
OpenPermits(c) ==
    /\ c \in pending
    /\ WriteGateFree(c.proc, c.owner)
    /\ pending' = pending \ {c}
    /\ mgr' = IF c.gen >= mgr[c.proc].gen[c.owner]
              THEN [mgr EXCEPT ![c.proc].gen[c.owner] = c.gen,
                               ![c.proc].closed = @ \ {c.owner}]
              ELSE mgr
    /\ UNCHANGED <<generation, open, erasing, rd, bar, faults>>

\* The erasure is verified: a new barrier is allowed.
Verified ==
    /\ erasing
    /\ open = Owners
    /\ erasing' = FALSE
    /\ UNCHANGED <<generation, open, mgr, rd, bar, pending, faults>>

\* A process stops: its requests and its barrier are gone, and its manager
\* starts over open; PostgreSQL rolls its transactions back.
Crash(p) ==
    /\ Fault
    /\ mgr' = [mgr EXCEPT ![p] = FreshManager]
    /\ rd' = [r \in Readers |-> IF r \in Active(p) THEN Idle ELSE rd[r]]
    /\ bar' = IF bar.proc = p THEN NoBarrier ELSE bar
    /\ pending' = {c \in pending : c.proc # p}
    /\ UNCHANGED <<generation, open, erasing>>

-----------------------------------------------------------------------------

ReaderStep(r) ==
    \/ ReadContent(r)
    \/ LockReadGate(r)
    \/ LockWriteGate(r)
    \/ Revalidate(r)
    \/ LockGuard(r)
    \/ FinishWrite(r)
    \/ Refused(r)
    \/ GuardDeadline(r)

BarrierStep ==
    \/ BarrierLock
    \/ BarrierClose
    \/ BarrierDrained
    \/ BarrierCommit(FALSE)
    \/ AbortClose

ErasureStep ==
    \/ \E p \in Processes, o \in Owners : o \notin open /\ Reopen(p, o, FALSE)
    \/ \E c \in pending : OpenPermits(c)
    \/ Verified

Next ==
    \/ \E r \in Readers, p \in Processes : Acquire(r, p)
    \/ \E r \in Readers : ReaderStep(r) \/ ClientCancel(r)
    \/ \E p \in Processes : BarrierBegin(p) \/ Crash(p)
    \/ BarrierStep \/ BarrierCommit(TRUE) \/ BarrierFail
    \/ \E p \in Processes, o \in Owners, lost \in BOOLEAN : Reopen(p, o, lost)
    \/ \E c \in pending : OpenPermits(c)
    \/ Verified

\* The goroutines of a request and of the barrier run on, and the erasure
\* worker keeps working.  Fairness is strong because PostgreSQL and a Go channel
\* both queue in order: who waits for a lock is served before a later request
\* for it.  Nothing makes a client go away, so ClientCancel is not fair.
Fairness ==
    /\ \A r \in Readers : SF_vars(ReaderStep(r))
    /\ SF_vars(BarrierStep)
    /\ WF_vars(ErasureStep)

Spec == Init /\ [][Next]_vars /\ Fairness

-----------------------------------------------------------------------------
(* Properties *)

ReaderPC == {"idle", "reading", "guard", "gates", "writegates", "check",
             "writing"}

TypeOK ==
    /\ generation \in 1..MaxGeneration
    /\ open \subseteq Owners
    /\ erasing \in BOOLEAN
    /\ mgr \in [Processes -> [closed : SUBSET Owners,
                              gen : [Owners -> 1..MaxGeneration]]]
    /\ rd \in [Readers -> [pc : ReaderPC, proc : Processes \cup {NoProcess},
                           cancelled : BOOLEAN, seen : 0..MaxGeneration,
                           guard : SUBSET Owners, gates : SUBSET Owners,
                           wgs : SUBSET Owners]]
    /\ bar \in [pc : {"idle", "lock", "wgates", "drain", "commit", "abort"},
               proc : Processes \cup {NoProcess}, held : SUBSET Owners,
               wgs : SUBSET Owners, target : 0..MaxGeneration]
    /\ pending \subseteq [proc : Processes, owner : Owners,
                          gen : 1..MaxGeneration]
    /\ faults \in 0..MaxFaults

\* No byte of content read before a barrier is written after it committed:
\* while a response is written its content is of the current generation and
\* the owners it covers are open.  Reads take the gates without an expected
\* generation, so a response whose gates have been closed AND reopened since
\* it read is stopped by nothing but the drain of its own process.
NoRedactedOutput ==
    \A r \in Readers :
        rd[r].pc = "writing" =>
            rd[r].seen = generation /\ ReadSet[r] \subseteq open

\* When a barrier commits, no permit of its process is active: the receipt
\* 'in_process_reads_drained' it writes for the process cache is true.  A
\* reopening of the last erasure that comes late, an aborted close or a crash
\* must not let a request in between the drain and the commit.
DrainedAtCommit ==
    [][generation' # generation => Active(bar.proc) = {}]_vars

\* A barrier ends, committed or not: requests that hold owner gates or write
\* gates, or wait for them, never block it for good.
BarrierTerminates == bar.pc # "idle" ~> bar.pc = "idle"

=============================================================================
