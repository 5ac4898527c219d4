--------------------------- MODULE PrivacyErasure ---------------------------
(***************************************************************************)
(* One privacy erasure, from its committed barrier to 'verified'.          *)
(*                                                                         *)
(* The barrier closes every owner and inserts one receipt per store        *)
(* (commitBarrier).  Two kinds of actor then drive the receipts: the HTTP   *)
(* handler that asked for the erasure, again on every replay of its        *)
(* operation, and the resume worker of app/workers.go.  Each scrubs the     *)
(* local stores in order (RedactTx), erases the remote memory under a       *)
(* session lock (RunNocturneErase) and the worker verifies the managed      *)
(* backups (RunManagedBackupVerification).  Devices that hold offline       *)
(* copies acknowledge their own purge at any time.                          *)
(*                                                                         *)
(* Every transaction locks the erasure head first, so each one is a single  *)
(* action; what an actor read outside a transaction it keeps in act[a].     *)
(***************************************************************************)
EXTENDS Naturals, FiniteSets

CONSTANTS
    StoreCount,     \* local stores, numbered in the order of LocalManagedSlots
    OwnerOf,        \* OwnerForStore
    Identity,       \* the owner that authentication reads
    Memory,         \* the owner whose gate waits for the remote erase
    Devices,        \* devices with an offline possession at the barrier
    Handlers,       \* concurrent requests and replays of the operation
    Workers,        \* resume workers, one per process
    NoActor,        \* a value that is no actor
    MaxFaults       \* bound: failures, cancellations, crashes, failed purges

Stores == 1..StoreCount
Owners == {OwnerOf[s] : s \in Stores}
StoresOf(o) == {s \in Stores : OwnerOf[s] = o}
Actors == Handlers \union Workers

ASSUME ConstantsAssumption ==
    /\ StoreCount \in Nat \ {0}
    /\ DOMAIN OwnerOf = Stores
    /\ Identity \in Owners /\ Memory \in Owners /\ Identity # Memory
    /\ Handlers \intersect Workers = {}
    /\ NoActor \notin Actors
    /\ MaxFaults \in Nat

VARIABLES
    status,     \* privacy_erasure_heads.status
    receipt,    \* receipt[s]: step receipt of a local store
    remote,     \* step receipt of the three Nocturne stores, appended together;
                \* "mismatch" is partial for the reason nocturne_contract_mismatch
    backup,     \* step receipt of managed_backup
    offline,    \* step receipt of offline_device_cache
    child,      \* child[d]: offline purge of one device
    open,       \* owners whose persistent gate is open again
    content,    \* stores that still hold old-generation content
    remoteContent, \* Nocturne still holds old-generation content
    planned,    \* memory's scrub has materialised the remote cleanup
    act,        \* act[a]: where an actor is and what it has read
    lock,       \* holder of the privacy-nocturne-erasure session lock
    faults      \* faults so far

receipts == <<status, receipt, remote, backup, offline, child>>
vars == <<receipts, open, content, remoteContent, planned, act, lock, faults>>

Statuses == {"barrier_committed", "local_scrubbed", "remote_draining",
             "remote_purged", "verified", "partial", "blocked"}

CanTransitionErasure(from, to) ==
    \/ from = "barrier_committed" /\ to \in {"local_scrubbed", "partial", "blocked"}
    \/ from = "local_scrubbed" /\ to \in {"remote_draining", "remote_purged",
                                          "partial", "blocked"}
    \/ from = "remote_draining" /\ to \in {"remote_purged", "partial", "blocked"}
    \/ from = "remote_purged" /\ to \in {"verified", "partial", "blocked"}
    \/ from = "partial" /\ to \in {"local_scrubbed", "remote_draining",
                                   "remote_purged", "verified", "blocked"}
    \/ from = "blocked" /\ to = "partial"

\* pc      idle, local (next store), nocturne, mismatch (the preflight has
\*         failed), remote (Erase is running), commit, decided (after
\*         RunNocturne), verify, vcommit
\* current the receipt version it read is still the head's
\* result  what the eraser or the backup verifier answered
NotRunning == [pc |-> "idle", next |-> 1, current |-> TRUE, result |-> "none"]

Init ==
    /\ status = "barrier_committed"
    /\ receipt = [s \in Stores |-> "pending"]
    /\ remote = "pending"
    /\ backup = "pending"
    /\ offline = IF Devices = {} THEN "succeeded" ELSE "pending"
    /\ child = [d \in Devices |-> "pending"]
    /\ open = {}
    /\ content = Stores
    /\ remoteContent \in BOOLEAN
    /\ planned = FALSE
    /\ act = [a \in Actors |-> NotRunning]
    /\ lock = NoActor
    /\ faults = 0

Fault == faults < MaxFaults /\ faults' = faults + 1

Ended(a) == [act EXCEPT ![a] = NotRunning]
At(a, pc) == [act EXCEPT ![a] = [NotRunning EXCEPT !.pc = pc]]
Unlocked(a) == IF lock = a THEN NoActor ELSE lock

LocalDone == \A s \in Stores : receipt[s] = "succeeded"

\* Slip: a partial erasure is not resumed.
RemoteReadyNotPartial == status \in {"local_scrubbed", "remote_draining"}

RemoteReady == status \in {"local_scrubbed", "remote_draining", "partial"}
VerifyReady == status \in {"remote_purged", "partial"}

----------------------------------------------------------------------------
(* Starting a run. *)

\* The handler has its barrier receipt, or a replay of it, and runs the local
\* scrub and the remote erase unless the erasure is already verified.
HandlerStart(a) ==
    /\ a \in Handlers
    /\ act[a].pc = "idle"
    /\ status # "verified"
    /\ act' = At(a, "local")
    /\ UNCHANGED <<receipts, open, content, remoteContent, planned, lock, faults>>

\* What the worker does after the local scrub, on the receipt it has read.
NextAfterLocal(a) ==
    CASE remote # "succeeded" /\ RemoteReady -> At(a, "nocturne")
      [] remote = "succeeded" /\ VerifyReady -> At(a, "verify")
      [] OTHER -> Ended(a)

\* The worker loads the first erasure that is not verified; only one whose
\* barrier is its last step is scrubbed locally.
WorkerStart(a) ==
    /\ a \in Workers
    /\ act[a].pc = "idle"
    /\ status # "verified"
    /\ act' = IF status = "barrier_committed" THEN At(a, "local")
                                              ELSE NextAfterLocal(a)
    /\ UNCHANGED <<receipts, open, content, remoteContent, planned, lock, faults>>

LocalFinished(a) ==
    /\ act[a].pc = "local"
    /\ act[a].next > StoreCount
    /\ act' = IF a \in Handlers THEN At(a, "nocturne") ELSE NextAfterLocal(a)
    /\ UNCHANGED <<receipts, open, content, remoteContent, planned, lock, faults>>

----------------------------------------------------------------------------
(* RunLocalScrub: RedactTx for one store after the other. *)

\* privacy_begin_owner_scrub gives a permit only while the owner is closed.
ScrubPermitted(s) == OwnerOf[s] \notin open

\* Slip: memory's scrub does not list what the remote erase must purge.
ScrubWithoutPlan(s) ==
    /\ content' = content \ {s}
    /\ planned' = planned

\* port.RedactTx and VerifyRedacted, in a transaction of the owner's own.
Scrub(s) ==
    /\ content' = content \ {s}
    /\ planned' = (planned \/ OwnerOf[s] = Memory)

\* Slip: one finished store counts for its owner.
OwnerCompleteByOne(o, done) == \E s \in StoresOf(o) : done[s] = "succeeded"

OwnerComplete(o, done) == \A s \in StoresOf(o) : done[s] = "succeeded"

\* Slip: the last local store moves the summary one status too far.
SummaryAfterScrubDraining(done) ==
    IF status = "barrier_committed" /\ \A s \in Stores : done[s] = "succeeded"
    THEN "remote_draining" ELSE status

SummaryAfterScrub(done) ==
    IF status = "barrier_committed" /\ \A s \in Stores : done[s] = "succeeded"
    THEN "local_scrubbed" ELSE status

\* A pending store is scrubbed and its receipt appended; a finished one only
\* repeats what follows: its owner reopens, except memory, once all its stores
\* are done, and the last store moves the summary on from the barrier.
RedactStore(a) ==
    LET s == act[a].next
        done == [receipt EXCEPT ![s] = "succeeded"]
    IN  /\ act[a].pc = "local" /\ s \in Stores
        /\ status # "verified"
        /\ \/ receipt[s] = "pending" /\ ScrubPermitted(s) /\ Scrub(s)
           \/ receipt[s] = "succeeded" /\ UNCHANGED <<content, planned>>
        /\ receipt' = done
        /\ open' = IF OwnerOf[s] # Memory /\ OwnerComplete(OwnerOf[s], done)
                   THEN open \union {OwnerOf[s]} ELSE open
        /\ status' = SummaryAfterScrub(done)
        /\ act' = [act EXCEPT ![a].next = s + 1]
        /\ UNCHANGED <<remote, backup, offline, child, remoteContent, lock, faults>>

\* The head is verified, or the owner's gate is already open: the run ends.
RedactRefused(a) ==
    LET s == act[a].next
    IN  /\ act[a].pc = "local" /\ s \in Stores
        /\ status = "verified" \/ (receipt[s] = "pending" /\ ~ScrubPermitted(s))
        /\ act' = Ended(a)
        /\ UNCHANGED <<receipts, open, content, remoteContent, planned, lock, faults>>

\* The owner's transaction commits and the receipt's does not.
RedactHalfDone(a) ==
    LET s == act[a].next
    IN  /\ act[a].pc = "local" /\ s \in Stores
        /\ status # "verified" /\ receipt[s] = "pending" /\ ScrubPermitted(s)
        /\ Fault
        /\ Scrub(s)
        /\ act' = Ended(a)
        /\ UNCHANGED <<receipts, open, remoteContent, lock>>

----------------------------------------------------------------------------
(* RunNocturne: the preflight, then RunNocturneErase. *)

\* Where an actor goes that has a receipt from RunNocturne.
AfterNocturne(a) ==
    IF a \in Handlers THEN NotRunning ELSE [NotRunning EXCEPT !.pc = "decided"]

\* The preflight finds a sidecar of another contract.  Unless that is on record,
\* RunNocturneErase is called with an eraser that always answers a mismatch,
\* whatever the receipts say.
PreflightMismatch(a) ==
    /\ act[a].pc = "nocturne"
    /\ Fault
    /\ act' = IF remote = "mismatch" THEN [act EXCEPT ![a] = AfterNocturne(a)]
                                     ELSE At(a, "mismatch")
    /\ UNCHANGED <<receipts, open, content, remoteContent, planned, lock>>

\* pg_try_advisory_lock, then the checks on the receipt just read.  A loser,
\* and a run that finds remote_purged, return the receipt as it is; any other
\* unready status is an error.  The sidecar's eraser refuses a finished path
\* receipt before it does anything; the mismatch eraser does not look at it.
NocturneBegin(a) ==
    LET erases == act[a].pc = "nocturne"
    IN  /\ act[a].pc \in {"nocturne", "mismatch"}
        /\ \/ /\ lock # NoActor \/ status = "remote_purged"
              /\ act' = [act EXCEPT ![a] = AfterNocturne(a)]
              /\ UNCHANGED lock
           \/ /\ lock = NoActor /\ RemoteReady
              /\ erases /\ remote # "succeeded"
              /\ act' = At(a, "remote")
              /\ lock' = a
           \/ /\ lock = NoActor /\ RemoteReady
              /\ ~erases
              /\ act' = [At(a, "commit") EXCEPT ![a].result = "mismatch"]
              /\ lock' = a
           \/ /\ lock = NoActor /\ status # "remote_purged"
              /\ ~RemoteReady \/ (erases /\ remote = "succeeded")
              /\ act' = Ended(a)
              /\ UNCHANGED lock
        /\ UNCHANGED <<receipts, open, content, remoteContent, planned, faults>>

\* RemoteEraser.Erase, outside any transaction: it purges what the plan of
\* memory's scrub lists and reports success when nothing listed is pending.
Erase(a) ==
    /\ act[a].pc = "remote"
    /\ \/ /\ act[a].current
          /\ remoteContent' = (remoteContent /\ ~planned)
          /\ act' = [act EXCEPT ![a].pc = "commit", ![a].result = "succeeded"]
          /\ UNCHANGED <<lock, faults>>
       \/ /\ Fault
          /\ act' = [act EXCEPT ![a].pc = "commit", ![a].result = "partial"]
          /\ UNCHANGED <<remoteContent, lock>>
       \/ /\ ~act[a].current
          /\ act' = Ended(a)
          /\ lock' = Unlocked(a)
          /\ UNCHANGED <<remoteContent, faults>>
    /\ UNCHANGED <<receipts, open, content, planned>>

\* A new head: what every other actor in one of these places read is stale.
Superseded(a, places, after) ==
    [b \in Actors |-> IF b = a THEN after
                      ELSE IF act[b].pc \in places THEN [act[b] EXCEPT !.current = FALSE]
                      ELSE act[b]]

\* commitNocturneErase: nothing is written unless the status is still one the
\* erase may run in, the receipts are the ones read and, on success, memory's
\* gate is still closed.  A result other than success replaces the receipts
\* also when they had succeeded and opened that gate.
CommitNocturne(a) ==
    /\ act[a].pc = "commit"
    /\ lock' = Unlocked(a)
    /\ \/ /\ RemoteReady /\ act[a].current
          /\ act[a].result = "succeeded" /\ Memory \notin open
          /\ remote' = "succeeded"
          /\ open' = open \union {Memory}
          /\ status' = "remote_purged"
          /\ act' = Superseded(a, {"remote", "commit"}, AfterNocturne(a))
       \/ /\ RemoteReady /\ act[a].current
          /\ act[a].result \in {"partial", "mismatch"}
          /\ remote' = act[a].result
          /\ status' = "partial"
          /\ act' = Superseded(a, {"remote", "commit"}, AfterNocturne(a))
          /\ UNCHANGED open
       \/ /\ ~(RemoteReady /\ act[a].current)
             \/ (act[a].result = "succeeded" /\ Memory \in open)
          /\ act' = Ended(a)
          /\ UNCHANGED <<remote, status, open>>
    /\ UNCHANGED <<receipt, backup, offline, child, content, remoteContent,
                   planned, faults>>

\* The worker reads the receipt RunNocturne returned.
AfterNocturneDecide(a) ==
    /\ act[a].pc = "decided"
    /\ act' = IF remote = "succeeded" /\ VerifyReady THEN At(a, "verify") ELSE Ended(a)
    /\ UNCHANGED <<receipts, open, content, remoteContent, planned, lock, faults>>

----------------------------------------------------------------------------
(* RunManagedBackupVerification. *)

\* The receipt is read and, unless it is already done, the verifier is asked.
VerifyBegin(a) ==
    /\ act[a].pc = "verify"
    /\ \/ /\ ~(VerifyReady /\ remote = "succeeded")
          /\ act' = Ended(a)
          /\ UNCHANGED faults
       \/ /\ VerifyReady /\ remote = "succeeded" /\ backup = "succeeded"
          /\ act' = At(a, "vcommit")
          /\ UNCHANGED faults
       \/ /\ VerifyReady /\ remote = "succeeded" /\ backup # "succeeded"
          /\ \/ /\ act' = [At(a, "vcommit") EXCEPT ![a].result = "succeeded"]
                /\ UNCHANGED faults
             \/ /\ act' = [At(a, "vcommit") EXCEPT ![a].result = "partial"]
                /\ Fault
    /\ UNCHANGED <<receipts, open, content, remoteContent, planned, lock>>

\* Slip: the verification does not count the offline devices.
StepSetCompleteWithoutDevices(b, o) == LocalDone /\ remote = "succeeded" /\ b = "succeeded"

\* Every receipt slot is done; process_cache and external_provider always are.
StepSetComplete(b, o) ==
    LocalDone /\ remote = "succeeded" /\ b = "succeeded" /\ o = "succeeded"

VerifyCommit(a) ==
    LET b == IF act[a].result = "none" THEN backup ELSE act[a].result
    IN  /\ act[a].pc = "vcommit"
        /\ \/ /\ VerifyReady /\ act[a].current
              /\ backup' = b
              /\ status' = IF StepSetComplete(b, offline) THEN "verified" ELSE "partial"
              /\ act' = IF act[a].result = "none" THEN Ended(a)
                        ELSE Superseded(a, {"vcommit"}, NotRunning)
           \/ /\ ~(VerifyReady /\ act[a].current)
              /\ act' = Ended(a)
              /\ UNCHANGED <<backup, status>>
        /\ UNCHANGED <<receipt, remote, offline, child, open, content,
                       remoteContent, planned, lock, faults>>

----------------------------------------------------------------------------
(* Offline devices.  Their requests authenticate, so identity must be open. *)

\* CurrentOfflineDevicePurge issues a new challenge to a device that failed.
IssueChallenge(d) ==
    /\ Identity \in open
    /\ child[d] = "failed"
    /\ child' = [child EXCEPT ![d] = "pending"]
    /\ offline' = "pending"
    /\ UNCHANGED <<status, receipt, remote, backup, open, content, remoteContent,
                   planned, act, lock, faults>>

\* advanceOfflineDeviceParentTx after a success, with the step's new status.
ParentAfterSuccess(o) ==
    CASE o # "succeeded" -> status
      [] o = "succeeded" /\ VerifyReady ->
            IF StepSetComplete(backup, o) THEN "verified" ELSE "partial"
      [] o = "succeeded" /\ status = "blocked" -> "partial"
      [] OTHER -> status

AckSucceeded(d) ==
    /\ Identity \in open
    /\ child[d] = "pending"
    /\ child' = [child EXCEPT ![d] = "succeeded"]
    /\ offline' = IF \A e \in Devices : child'[e] = "succeeded" THEN "succeeded"
                                                             ELSE "partial"
    /\ status' = ParentAfterSuccess(offline')
    /\ UNCHANGED <<receipt, remote, backup, open, content, remoteContent,
                   planned, act, lock, faults>>

\* A reported failure makes the erasure partial, whatever it was before.
AckFailed(d) ==
    /\ Identity \in open
    /\ child[d] = "pending"
    /\ status = "partial" \/ CanTransitionErasure(status, "partial")
    /\ Fault
    /\ child' = [child EXCEPT ![d] = "failed"]
    /\ offline' = "partial"
    /\ status' = "partial"
    /\ UNCHANGED <<receipt, remote, backup, open, content, remoteContent,
                   planned, act, lock>>

----------------------------------------------------------------------------
(* Failures. *)

\* A request is cancelled, a call fails or the process stops: the run ends
\* without the step it was at, and its session lock goes with it.
Stop(a) ==
    /\ act[a].pc # "idle"
    /\ Fault
    /\ act' = Ended(a)
    /\ lock' = Unlocked(a)
    /\ UNCHANGED <<receipts, open, content, remoteContent, planned>>

\* The connection that holds the session lock breaks during the remote call;
\* the receipts are committed on another one.
LoseLock ==
    /\ lock # NoActor
    /\ Fault
    /\ lock' = NoActor
    /\ UNCHANGED <<receipts, open, content, remoteContent, planned, act>>

----------------------------------------------------------------------------

Step(a) ==
    \/ LocalFinished(a) \/ RedactStore(a) \/ RedactRefused(a)
    \/ NocturneBegin(a) \/ Erase(a) \/ CommitNocturne(a)
    \/ AfterNocturneDecide(a) \/ VerifyBegin(a) \/ VerifyCommit(a)

Next ==
    \/ \E a \in Actors : HandlerStart(a) \/ WorkerStart(a) \/ Step(a)
                          \/ RedactHalfDone(a) \/ PreflightMismatch(a) \/ Stop(a)
    \/ \E d \in Devices : IssueChallenge(d) \/ AckSucceeded(d) \/ AckFailed(d)
    \/ LoseLock

\* The resume worker runs on a timer for the life of the process, and a run in
\* progress goes on; requests and devices come as they like.
Fairness ==
    /\ \A a \in Workers : WF_vars(WorkerStart(a))
    /\ \A a \in Actors : WF_vars(Step(a))

Spec == Init /\ [][Next]_vars /\ Fairness

----------------------------------------------------------------------------
(* Properties. *)

StepStatuses == {"pending", "partial", "mismatch", "succeeded"}

\* The rows and the actors' memory hold the values the code gives them.
TypeOK ==
    /\ status \in Statuses \ {"remote_draining", "blocked"}
    /\ receipt \in [Stores -> {"pending", "succeeded"}]
    /\ remote \in StepStatuses
    /\ backup \in StepStatuses
    /\ offline \in StepStatuses
    /\ child \in [Devices -> {"pending", "failed", "succeeded"}]
    /\ open \subseteq Owners
    /\ content \subseteq Stores
    /\ remoteContent \in BOOLEAN
    /\ planned \in BOOLEAN
    /\ act \in [Actors -> [pc : {"idle", "local", "nocturne", "mismatch", "remote",
                                 "commit", "decided", "verify", "vcommit"},
                           next : 1..(StoreCount + 1),
                           current : BOOLEAN,
                           result : {"none", "succeeded", "partial", "mismatch"}]]
    /\ lock \in Actors \union {NoActor}
    /\ faults \in 0..MaxFaults

\* An erasure reported as verified has scrubbed every local store, heard every
\* device, verified the backups and reopened every owner, whichever actor wrote
\* the last receipt (erasureStepSetCompleteTx, commitManagedBackupVerification).
VerifiedMeansErased ==
    status = "verified" =>
        /\ content = {}
        /\ open = Owners
        /\ remote = "succeeded" /\ backup = "succeeded"
        /\ \A d \in Devices : child[d] = "succeeded"

\* An owner other than memory is readable again only when all of its stores
\* are scrubbed, through half-done scrubs, replays and concurrent runs
\* (RedactTx, ownerComplete).
OwnerReopensScrubbed ==
    \A o \in open \ {Memory} : \A s \in StoresOf(o) : s \notin content

\* Memory is readable again only when its local content and what Nocturne held
\* of it are gone (memory-bridge spec: the gate waits for the verified purge).
MemoryReopensPurged ==
    Memory \in open => ~remoteContent /\ \A s \in StoresOf(Memory) : s \notin content

\* ... and that does hold as long as no erasure becomes partial before its
\* local stores are scrubbed, through lost locks and concurrent erases.
PurgeBeforeReopen ==
    [](status = "partial" => LocalDone) => []MemoryReopensPurged

\* Every device having answered, the erasure is verified in the end: no lost
\* lock, stale receipt, sidecar of another contract or half-done scrub leaves
\* it waiting for ever (memory-bridge spec: the remote steps resume from their
\* receipts, and finished steps are treated idempotently).
EventuallyVerified ==
    /\ [](status = "partial" => LocalDone)
    /\ \A d \in Devices : []<>(child[d] = "succeeded")
    => <>(status = "verified")

\* The receipts of the purge that reopened memory are still the current ones.
PurgeStands == Memory \in open => remote = "succeeded"

\* ... and that does hold as long as no mismatch is recorded over a finished
\* purge (commitNocturneErase, OpenGenerationTx), also when one is recorded
\* before the purge.
VerifiedWhilePurgeStands == []PurgeStands => EventuallyVerified

=============================================================================
