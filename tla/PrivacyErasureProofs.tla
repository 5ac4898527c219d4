------------------------ MODULE PrivacyErasureProofs ------------------------
(* Proofs about PrivacyErasure for every list of stores and owners, every  *)
(* number of handlers, workers and devices, and every number of faults.    *)
EXTENDS PrivacyErasure, TLAPS

\* act[a] of TypeOK.
PCs == {"idle", "local", "nocturne", "mismatch", "remote", "commit", "decided", "verify",
        "vcommit"}
Actor == [pc : PCs, next : 1..(StoreCount + 1), current : BOOLEAN,
          result : {"none", "succeeded", "partial", "mismatch"}]

\* A receipt is appended after its store is scrubbed, and content never returns.
ReceiptMeansScrubbed ==
  \A s \in Stores : receipt[s] = "succeeded" => s \notin content

\* An owner other than memory is open exactly when its last receipt is there:
\* the two are written by one transaction.
OpenIffComplete ==
  \A o \in Owners \ {Memory} : o \in open <=> OwnerComplete(o, receipt)

\* A remote success and memory's gate are written by one transaction; the receipt may
\* be replaced later, the gate stays open.
PurgeOpensMemory == remote = "succeeded" => Memory \in open

\* The step of the devices is done only when each of them is.
OfflineMeansAll == offline = "succeeded" => \A d \in Devices : child[d] = "succeeded"

\* A verified erasure has every receipt: no transaction replaces one of its receipts.
VerifiedIsComplete == status = "verified" => StepSetComplete(backup, offline)

\* The plan of the remote purge is made in the transaction that scrubs memory.
PlannedWithScrub ==
  \A s \in StoresOf(Memory) : receipt[s] = "succeeded" => planned

Inv == /\ TypeOK
       /\ ReceiptMeansScrubbed /\ OpenIffComplete /\ PurgeOpensMemory
       /\ OfflineMeansAll /\ VerifiedIsComplete /\ PlannedWithScrub

-----------------------------------------------------------------------------
(* What the actors' bookkeeping returns.                                   *)

\* Ending a run and moving it to another place leave every actor well formed.
LEMMA MovedActor ==
  ASSUME act \in [Actors -> Actor], NEW a \in Actors, NEW pc \in PCs
  PROVE  /\ Ended(a) \in [Actors -> Actor]
         /\ At(a, pc) \in [Actors -> Actor]
         /\ \A b \in Actors : b # a => Ended(a)[b] = act[b] /\ At(a, pc)[b] = act[b]
         /\ Ended(a)[a].pc = "idle"
         /\ At(a, pc)[a].pc = pc
<1>1. NotRunning \in Actor /\ NotRunning.pc = "idle"
  BY ConstantsAssumption DEF ConstantsAssumption, NotRunning, Actor, PCs
<1>2. /\ [NotRunning EXCEPT !.pc = pc] \in Actor
      /\ [NotRunning EXCEPT !.pc = pc].pc = pc
  BY <1>1 DEF Actor, NotRunning
<1> QED
  BY <1>1, <1>2 DEF Ended, At

\* A new head changes nothing of another actor but what it holds to be current.
LEMMA SupersededActor ==
  ASSUME act \in [Actors -> Actor], NEW a \in Actors, NEW places, NEW after \in Actor
  PROVE  /\ Superseded(a, places, after) \in [Actors -> Actor]
         /\ Superseded(a, places, after)[a] = after
         /\ \A b \in Actors : b # a => 
              /\ Superseded(a, places, after)[b].pc = act[b].pc
              /\ Superseded(a, places, after)[b].result = act[b].result
              /\ Superseded(a, places, after)[b].current => act[b].current
<1>1. ASSUME NEW b \in Actors
      PROVE  /\ [act[b] EXCEPT !.current = FALSE] \in Actor
             /\ [act[b] EXCEPT !.current = FALSE].pc = act[b].pc
             /\ [act[b] EXCEPT !.current = FALSE].result = act[b].result
             /\ [act[b] EXCEPT !.current = FALSE].current = FALSE
  BY DEF Actor
<1> QED
  BY <1>1 DEF Superseded

\* The place an actor goes to after the remote erase is a place.
LEMMA AfterNocturneActor ==
  ASSUME NEW a \in Actors
  PROVE  /\ AfterNocturne(a) \in Actor
         /\ AfterNocturne(a).pc \in {"idle", "decided"}
         /\ NotRunning \in Actor /\ NotRunning.pc = "idle"
<1>1. NotRunning \in Actor /\ NotRunning.pc = "idle"
  BY ConstantsAssumption DEF ConstantsAssumption, NotRunning, Actor, PCs
<1>2. /\ [NotRunning EXCEPT !.pc = "decided"] \in Actor
      /\ [NotRunning EXCEPT !.pc = "decided"].pc = "decided"
  BY <1>1 DEF Actor, PCs, NotRunning
<1> QED
  BY <1>1, <1>2 DEF AfterNocturne

\* The run that goes on to commit a mismatch.
Refusing(a) == [At(a, "commit") EXCEPT ![a].result = "mismatch"]

\* The places RunNocturne sends an actor to: back with a receipt, or to the commit of
\* a mismatch.
LEMMA NocturneMoves ==
  ASSUME act \in [Actors -> Actor], NEW a \in Actors
  PROVE  /\ [act EXCEPT ![a] = AfterNocturne(a)] \in [Actors -> Actor]
         /\ [act EXCEPT ![a] = AfterNocturne(a)][a].pc \in {"idle", "decided"}
         /\ \A b \in Actors : b # a => [act EXCEPT ![a] = AfterNocturne(a)][b] = act[b]
         /\ Refusing(a) \in [Actors -> Actor]
         /\ Refusing(a)[a].pc = "commit" /\ Refusing(a)[a].result = "mismatch"
         /\ \A b \in Actors : b # a => Refusing(a)[b] = act[b]
<1> DEFINE f == [act EXCEPT ![a] = AfterNocturne(a)]
           h == At(a, "commit")
           g == [h EXCEPT ![a].result = "mismatch"]
<1>1. /\ f \in [Actors -> Actor] /\ f[a].pc \in {"idle", "decided"}
      /\ \A b \in Actors : b # a => f[b] = act[b]
  BY AfterNocturneActor
<1>2. /\ h \in [Actors -> Actor] /\ h[a].pc = "commit"
      /\ \A b \in Actors : b # a => h[b] = act[b]
  BY MovedActor DEF PCs
<1> HIDE DEF h
<1>3. /\ g \in [Actors -> Actor] /\ g[a].pc = "commit" /\ g[a].result = "mismatch"
      /\ \A b \in Actors : b # a => g[b] = act[b]
  BY <1>2 DEF Actor
<1> QED
  BY <1>1, <1>3 DEF h, Refusing

\* A finished store's receipt stays, so no owner becomes incomplete.
LEMMA ReceiptsGrow ==
  ASSUME receipt \in [Stores -> {"pending", "succeeded"}], NEW s \in Stores
  PROVE  LET done == [receipt EXCEPT ![s] = "succeeded"]
         IN  /\ done \in [Stores -> {"pending", "succeeded"}]
             /\ \A t \in Stores : done[t] = (IF t = s THEN "succeeded" ELSE receipt[t])
             /\ \A o \in Owners : OwnerComplete(o, receipt) => OwnerComplete(o, done)
             /\ \A o \in Owners \ {OwnerOf[s]} :
                  OwnerComplete(o, done) <=> OwnerComplete(o, receipt)
BY DEF OwnerComplete, StoresOf

-----------------------------------------------------------------------------
(* The invariant.                                                          *)

\* The session lock and the fault counter stay in their ranges.
LEMMA LockAndFaults ==
  ASSUME TypeOK, NEW a \in Actors
  PROVE  /\ Unlocked(a) \in Actors \union {NoActor}
         /\ Fault => faults' \in 0..MaxFaults
BY ConstantsAssumption DEF ConstantsAssumption, TypeOK, Unlocked, Fault

\* A step that writes no receipt, gate or store keeps the invariant: what an actor
\* holds in memory is not part of it.
LEMMA QuietStep ==
  ASSUME Inv, UNCHANGED <<receipts, open, content, planned>>,
         act' \in [Actors -> Actor], lock' \in Actors \union {NoActor},
         faults' \in 0..MaxFaults, remoteContent' \in BOOLEAN
  PROVE  Inv'
<1> USE DEF receipts
<1>1. TypeOK'
  BY DEF Inv, TypeOK, Actor, PCs
<1>2. ReceiptMeansScrubbed' /\ PurgeOpensMemory' /\ OfflineMeansAll'
  BY DEF Inv, ReceiptMeansScrubbed, PurgeOpensMemory, OfflineMeansAll
<1>3. OpenIffComplete' /\ PlannedWithScrub'
  BY DEF Inv, OpenIffComplete, PlannedWithScrub, OwnerComplete
<1>4. VerifiedIsComplete'
  BY DEF Inv, VerifiedIsComplete, StepSetComplete, LocalDone
<1> QED
  BY <1>1, <1>2, <1>3, <1>4 DEF Inv

\* The barrier's own state satisfies the invariant: every owner has a pending store.
LEMMA InitInv == Init => Inv
<1> SUFFICES ASSUME Init
             PROVE  Inv
  OBVIOUS
<1>1. TypeOK
  <2>1. NotRunning \in Actor
    BY ConstantsAssumption DEF ConstantsAssumption, NotRunning, Actor, PCs
  <2>2. act \in [Actors -> Actor]
    BY <2>1 DEF Init
  <2>3. faults \in 0..MaxFaults
    BY ConstantsAssumption DEF ConstantsAssumption, Init
  <2>4. offline \in StepStatuses
    BY DEF Init, StepStatuses
  <2> QED
    BY <2>2, <2>3, <2>4 DEF Init, TypeOK, Statuses, StepStatuses, Actor, PCs
<1>2. OpenIffComplete
  <2> SUFFICES ASSUME NEW o \in Owners
               PROVE  ~OwnerComplete(o, receipt)
    BY DEF Init, OpenIffComplete
  <2>1. PICK s \in Stores : OwnerOf[s] = o
    BY DEF Owners
  <2> QED
    BY <2>1 DEF Init, OwnerComplete, StoresOf
<1>3. OfflineMeansAll
  BY DEF Init, OfflineMeansAll
<1> QED
  BY <1>1, <1>2, <1>3
  DEF Init, Inv, ReceiptMeansScrubbed, PurgeOpensMemory, VerifiedIsComplete,
      PlannedWithScrub, StoresOf

\* A scrubbed store, its receipt, its owner's gate and the summary change together.
LEMMA RedactStoreInv ==
  ASSUME Inv, NEW a \in Actors, RedactStore(a)
  PROVE  Inv'
<1> DEFINE s == act[a].next
           done == [receipt EXCEPT ![s] = "succeeded"]
<1>1. act \in [Actors -> Actor] /\ receipt \in [Stores -> {"pending", "succeeded"}]
  BY DEF Inv, TypeOK, Actor, PCs
<1>2. s \in Stores /\ receipt' = done
  BY DEF RedactStore
<1>3. /\ done \in [Stores -> {"pending", "succeeded"}]
      /\ \A t \in Stores : done[t] = (IF t = s THEN "succeeded" ELSE receipt[t])
      /\ \A o \in Owners : OwnerComplete(o, receipt) => OwnerComplete(o, done)
      /\ \A o \in Owners \ {OwnerOf[s]} :
           OwnerComplete(o, done) <=> OwnerComplete(o, receipt)
  BY <1>1, <1>2, ReceiptsGrow
<1>4. /\ content' \subseteq content
      /\ receipt[s] = "succeeded" \/ s \notin content'
      /\ planned => planned'
      /\ planned' \in BOOLEAN
      /\ receipt[s] = "pending" /\ OwnerOf[s] = Memory => planned'
  <2>1. \/ receipt[s] = "pending" /\ Scrub(s)
        \/ receipt[s] = "succeeded" /\ UNCHANGED <<content, planned>>
    BY DEF RedactStore
  <2>2. planned \in BOOLEAN
    BY DEF Inv, TypeOK
  <2> HIDE DEF s
  <2>3. CASE receipt[s] = "pending" /\ Scrub(s)
    BY <2>2, <2>3, Zenon DEF Scrub
  <2>4. CASE receipt[s] = "succeeded" /\ UNCHANGED <<content, planned>>
    BY <2>2, <2>4, Zenon
  <2> QED
    BY <2>1, <2>3, <2>4
<1>5. OwnerOf[s] \in Owners
  BY <1>2 DEF Owners
<1>6. open' = IF OwnerOf[s] # Memory /\ OwnerComplete(OwnerOf[s], done)
              THEN open \union {OwnerOf[s]} ELSE open
  BY DEF RedactStore
<1>7. status' = SummaryAfterScrub(done)
  BY DEF RedactStore
<1>8. act' \in [Actors -> Actor]
  <2>1. s + 1 \in 1..(StoreCount + 1)
    BY <1>2, ConstantsAssumption DEF ConstantsAssumption, Stores
  <2>2. act' = [act EXCEPT ![a].next = s + 1]
    BY DEF RedactStore
  <2> HIDE DEF s
  <2> QED
    BY <1>1, <2>1, <2>2 DEF Actor
<1>9. UNCHANGED <<remote, backup, offline, child, remoteContent, lock, faults>>
  BY DEF RedactStore
<1> HIDE DEF s, done
<1>10. TypeOK'
  <2>1. status' \in Statuses \ {"remote_draining", "blocked"}
    BY <1>7 DEF Inv, TypeOK, SummaryAfterScrub, Statuses
  <2>2. open' \subseteq Owners /\ content' \subseteq Stores
    BY <1>4, <1>5, <1>6 DEF Inv, TypeOK
  <2> QED
    BY <1>2, <1>3, <1>4, <1>8, <1>9, <2>1, <2>2 DEF Inv, TypeOK, Actor, PCs
<1>11. ReceiptMeansScrubbed'
  BY <1>2, <1>3, <1>4 DEF Inv, ReceiptMeansScrubbed
<1>12. OpenIffComplete'
  BY <1>2, <1>3, <1>5, <1>6 DEF Inv, OpenIffComplete
<1>13. PlannedWithScrub'
  BY <1>1, <1>2, <1>3, <1>4 DEF Inv, PlannedWithScrub, StoresOf
<1>14. VerifiedIsComplete'
  <2>1. status' # "verified"
    BY <1>7 DEF RedactStore, SummaryAfterScrub
  <2> QED
    BY <2>1 DEF VerifiedIsComplete
<1>15. PurgeOpensMemory' /\ OfflineMeansAll'
  BY <1>6, <1>9 DEF Inv, PurgeOpensMemory, OfflineMeansAll
<1> QED
  BY <1>10, <1>11, <1>12, <1>13, <1>14, <1>15 DEF Inv

\* A half-done scrub takes content away without a receipt.
LEMMA RedactHalfDoneInv ==
  ASSUME Inv, NEW a \in Actors, RedactHalfDone(a)
  PROVE  Inv'
<1>1. act \in [Actors -> Actor]
  BY DEF Inv, TypeOK, Actor, PCs
<1>2. act' \in [Actors -> Actor]
  BY <1>1, MovedActor DEF RedactHalfDone, PCs
<1>3. faults' \in 0..MaxFaults
  BY LockAndFaults DEF RedactHalfDone, Inv
<1>4. content' \subseteq content /\ UNCHANGED <<receipts, open, remoteContent, lock>>
  BY DEF RedactHalfDone, Scrub
<1>5. (planned => planned') /\ planned' \in BOOLEAN
  <2>1. planned' = (planned \/ OwnerOf[act[a].next] = Memory)
    BY DEF RedactHalfDone, Scrub
  <2>2. planned \in BOOLEAN
    BY DEF Inv, TypeOK
  <2> QED
    BY <2>1, <2>2, Zenon
<1> USE DEF receipts
<1>6. TypeOK'
  BY <1>2, <1>3, <1>4, <1>5 DEF Inv, TypeOK, Actor, PCs
<1>7. ReceiptMeansScrubbed' /\ PurgeOpensMemory' /\ OfflineMeansAll'
  BY <1>4 DEF Inv, ReceiptMeansScrubbed, PurgeOpensMemory, OfflineMeansAll
<1>8. OpenIffComplete' /\ VerifiedIsComplete'
  BY <1>4 DEF Inv, OpenIffComplete, OwnerComplete, VerifiedIsComplete, StepSetComplete,
              LocalDone
<1>9. PlannedWithScrub'
  BY <1>4, <1>5 DEF Inv, PlannedWithScrub
<1> QED
  BY <1>6, <1>7, <1>8, <1>9 DEF Inv

\* The receipt of the remote erase and memory's gate change together, and neither
\* changes once the erasure is verified.
LEMMA CommitNocturneInv ==
  ASSUME Inv, NEW a \in Actors, CommitNocturne(a)
  PROVE  Inv'
<1>1. act \in [Actors -> Actor] /\ lock' \in Actors \union {NoActor}
  BY LockAndFaults DEF CommitNocturne, Inv, TypeOK, Actor, PCs
<1>2. act' \in [Actors -> Actor]
  BY <1>1, MovedActor, SupersededActor, AfterNocturneActor DEF CommitNocturne, PCs
<1>3. UNCHANGED <<receipt, backup, offline, child, content, remoteContent, planned, faults>>
  BY DEF CommitNocturne
<1>4. \/ /\ RemoteReady
         /\ remote' = "succeeded" /\ open' = open \union {Memory} /\ status' = "remote_purged"
      \/ /\ RemoteReady
         /\ remote' \in {"partial", "mismatch"} /\ open' = open /\ status' = "partial"
      \/ UNCHANGED <<remote, status, open>>
  BY DEF CommitNocturne
<1>5. TypeOK'
  <2>1. open' \subseteq Owners
    BY <1>4, ConstantsAssumption DEF ConstantsAssumption, Inv, TypeOK
  <2>2. /\ status' \in Statuses \ {"remote_draining", "blocked"}
        /\ remote' \in StepStatuses
    BY <1>4 DEF Inv, TypeOK, Statuses, StepStatuses
  <2> QED
    BY <1>1, <1>2, <1>3, <2>1, <2>2 DEF Inv, TypeOK, Actor, PCs
<1>6. ReceiptMeansScrubbed' /\ OfflineMeansAll' /\ PlannedWithScrub'
  BY <1>3 DEF Inv, ReceiptMeansScrubbed, OfflineMeansAll, PlannedWithScrub
<1>7. OpenIffComplete' /\ PurgeOpensMemory'
  BY <1>3, <1>4 DEF Inv, OpenIffComplete, OwnerComplete, PurgeOpensMemory
<1>8. VerifiedIsComplete'
  BY <1>3, <1>4 DEF Inv, VerifiedIsComplete, StepSetComplete, LocalDone
<1> QED
  BY <1>5, <1>6, <1>7, <1>8 DEF Inv

\* The verification writes 'verified' only over the complete set of receipts.
LEMMA VerifyCommitInv ==
  ASSUME Inv, NEW a \in Actors, VerifyCommit(a)
  PROVE  Inv'
<1> DEFINE b == IF act[a].result = "none" THEN backup ELSE act[a].result
<1>1. act \in [Actors -> Actor]
  BY DEF Inv, TypeOK, Actor, PCs
<1>2. act' \in [Actors -> Actor]
  BY <1>1, MovedActor, SupersededActor, AfterNocturneActor DEF VerifyCommit, PCs
<1>3. b \in StepStatuses
  BY <1>1 DEF Inv, TypeOK, StepStatuses, Actor
<1>4. UNCHANGED <<receipt, remote, offline, child, open, content, remoteContent, planned,
                  lock, faults>>
  BY DEF VerifyCommit
<1>5. \/ /\ backup' = b
         /\ status' = IF StepSetComplete(b, offline) THEN "verified" ELSE "partial"
      \/ UNCHANGED <<backup, status>>
  BY DEF VerifyCommit
<1> HIDE DEF b
<1>6. TypeOK'
  <2>1. backup' \in StepStatuses /\ status' \in Statuses \ {"remote_draining", "blocked"}
    BY <1>3, <1>5 DEF Inv, TypeOK, Statuses
  <2> QED
    BY <1>2, <1>4, <2>1 DEF Inv, TypeOK, Actor, PCs
<1>7. /\ ReceiptMeansScrubbed' /\ OfflineMeansAll' /\ PlannedWithScrub'
      /\ OpenIffComplete' /\ PurgeOpensMemory'
  BY <1>4 DEF Inv, ReceiptMeansScrubbed, OfflineMeansAll, PlannedWithScrub,
              OpenIffComplete, OwnerComplete, PurgeOpensMemory
<1>8. VerifiedIsComplete'
  BY <1>4, <1>5 DEF Inv, VerifiedIsComplete, StepSetComplete, LocalDone
<1> QED
  BY <1>6, <1>7, <1>8 DEF Inv

\* A device's answer moves its own row, the step over all of them and the summary; a
\* verified erasure waits for no device, so none of them answers it.
LEMMA DeviceInv ==
  ASSUME Inv, NEW d \in Devices,
         IssueChallenge(d) \/ AckSucceeded(d) \/ AckFailed(d)
  PROVE  Inv'
<1>1. /\ child \in [Devices -> {"pending", "failed", "succeeded"}]
      /\ status \in Statuses \ {"remote_draining", "blocked"}
      /\ TypeOK
  BY DEF Inv, TypeOK
<1>2. status # "verified"
  BY <1>1 DEF Inv, VerifiedIsComplete, StepSetComplete, OfflineMeansAll, IssueChallenge,
              AckSucceeded, AckFailed
<1>3. UNCHANGED <<receipt, remote, backup, open, content, remoteContent, planned, act, lock>>
  BY DEF IssueChallenge, AckSucceeded, AckFailed
<1>4. faults' \in 0..MaxFaults
  BY <1>1, ConstantsAssumption
  DEF IssueChallenge, AckSucceeded, AckFailed, Fault, TypeOK, ConstantsAssumption
<1>5. child' \in [Devices -> {"pending", "failed", "succeeded"}]
  BY <1>1 DEF IssueChallenge, AckSucceeded, AckFailed
<1>6. offline' \in StepStatuses /\ OfflineMeansAll'
  BY DEF IssueChallenge, AckSucceeded, AckFailed, OfflineMeansAll, StepStatuses
<1>7. /\ status' \in Statuses \ {"remote_draining", "blocked"}
      /\ status' = "verified" => StepSetComplete(backup, offline')
  <2>1. CASE IssueChallenge(d)
    BY <1>1, <1>2, <2>1 DEF IssueChallenge
  <2>2. CASE AckSucceeded(d)
    <3>1. status' = ParentAfterSuccess(offline')
      BY <2>2 DEF AckSucceeded
    <3> QED
      BY <1>1, <1>2, <3>1 DEF ParentAfterSuccess, Statuses
  <2>3. CASE AckFailed(d)
    BY <2>3 DEF AckFailed, Statuses
  <2> QED
    BY <2>1, <2>2, <2>3
<1>8. TypeOK'
  BY <1>1, <1>3, <1>4, <1>5, <1>6, <1>7 DEF TypeOK
<1>9. VerifiedIsComplete'
  BY <1>3, <1>7 DEF VerifiedIsComplete, StepSetComplete, LocalDone
<1>10. /\ ReceiptMeansScrubbed' /\ PlannedWithScrub'
       /\ OpenIffComplete' /\ PurgeOpensMemory'
  BY <1>3 DEF Inv, ReceiptMeansScrubbed, PlannedWithScrub,
              OpenIffComplete, OwnerComplete, PurgeOpensMemory
<1> QED
  BY <1>6, <1>8, <1>9, <1>10 DEF Inv

\* The other steps write nothing but what an actor holds, the session lock, the fault
\* counter and, in Nocturne, the remote content.
LEMMA QuietActions ==
  ASSUME Inv, NEW a \in Actors,
         \/ HandlerStart(a) \/ WorkerStart(a) \/ LocalFinished(a) \/ RedactRefused(a)
         \/ NocturneBegin(a) \/ Erase(a) \/ AfterNocturneDecide(a) \/ VerifyBegin(a)
         \/ PreflightMismatch(a) \/ Stop(a)
  PROVE  /\ UNCHANGED <<receipts, open, content, planned>>
         /\ act' \in [Actors -> Actor]
         /\ lock' \in Actors \union {NoActor}
         /\ faults' \in 0..MaxFaults
         /\ remoteContent' \in BOOLEAN /\ (remoteContent' => remoteContent)
<1> DEFINE Quiet == /\ UNCHANGED <<receipts, open, content, planned>>
                    /\ act' \in [Actors -> Actor]
                    /\ lock' \in Actors \union {NoActor}
                    /\ faults' \in 0..MaxFaults
                    /\ remoteContent' \in BOOLEAN /\ (remoteContent' => remoteContent)
<1>1. /\ act \in [Actors -> Actor]
      /\ lock \in Actors \union {NoActor}
      /\ faults \in 0..MaxFaults
      /\ remoteContent \in BOOLEAN /\ planned \in BOOLEAN
  BY DEF Inv, TypeOK, Actor, PCs
<1>2. /\ Ended(a) \in [Actors -> Actor]
      /\ \A pc \in PCs : At(a, pc) \in [Actors -> Actor]
  BY <1>1, MovedActor DEF PCs
<1>3. Unlocked(a) \in Actors \union {NoActor} /\ (Fault => faults' \in 0..MaxFaults)
  BY LockAndFaults DEF Inv
<1>4. NextAfterLocal(a) \in [Actors -> Actor]
  BY <1>2 DEF NextAfterLocal, PCs
<1>5. ASSUME HandlerStart(a) \/ WorkerStart(a) \/ LocalFinished(a) \/ RedactRefused(a)
      PROVE  Quiet
  <2>1. act' \in [Actors -> Actor]
    BY <1>2, <1>4, <1>5 DEF HandlerStart, WorkerStart, LocalFinished, RedactRefused, PCs
  <2> QED
    BY <1>1, <1>5, <2>1 DEF HandlerStart, WorkerStart, LocalFinished, RedactRefused
<1>6. ASSUME NocturneBegin(a)
      PROVE  Quiet
  <2>1. \/ act' = Ended(a) \/ act' = At(a, "remote")
        \/ act' = [act EXCEPT ![a] = AfterNocturne(a)]
        \/ act' = Refusing(a)
    BY <1>6 DEF NocturneBegin, Refusing
  <2>2. act' \in [Actors -> Actor]
    BY <1>1, <1>2, <2>1, NocturneMoves DEF PCs
  <2>3. lock' \in Actors \union {NoActor}
    BY <1>1, <1>6 DEF NocturneBegin
  <2> QED
    BY <1>1, <1>6, <2>2, <2>3 DEF NocturneBegin
<1>7. ASSUME Erase(a)
      PROVE  Quiet
  <2>1. act' \in [Actors -> Actor]
    <3>1. ASSUME NEW r \in {"succeeded", "partial"}
          PROVE  [act EXCEPT ![a].pc = "commit", ![a].result = r] \in [Actors -> Actor]
      BY <1>1 DEF Actor, PCs
    <3> QED
      BY <1>2, <1>7, <3>1 DEF Erase
  <2>2. lock' \in Actors \union {NoActor} /\ faults' \in 0..MaxFaults
    BY <1>1, <1>3, <1>7 DEF Erase
  <2>3. remoteContent' = remoteContent \/ remoteContent' = (remoteContent /\ ~planned)
    BY <1>7 DEF Erase
  <2>4. remoteContent' \in BOOLEAN /\ (remoteContent' => remoteContent)
    <3>1. CASE remoteContent' = remoteContent
      BY <1>1, <3>1
    <3>2. CASE remoteContent' = (remoteContent /\ ~planned)
      BY <1>1, <3>2
    <3> QED
      BY <2>3, <3>1, <3>2
  <2>5. UNCHANGED <<receipts, open, content, planned>>
    BY <1>7 DEF Erase
  <2> QED
    BY <2>1, <2>2, <2>4, <2>5
<1>8. ASSUME AfterNocturneDecide(a)
      PROVE  Quiet
  <2>1. act' \in [Actors -> Actor]
    BY <1>2, <1>8 DEF AfterNocturneDecide, PCs
  <2> QED
    BY <1>1, <1>8, <2>1 DEF AfterNocturneDecide
<1>9. ASSUME VerifyBegin(a)
      PROVE  Quiet
  <2>1. act' \in [Actors -> Actor]
    <3>1. ASSUME NEW r \in {"succeeded", "partial"}
          PROVE  [At(a, "vcommit") EXCEPT ![a].result = r] \in [Actors -> Actor]
      <4> DEFINE f == At(a, "vcommit")
      <4>1. f \in [Actors -> Actor]
        BY <1>2 DEF PCs
      <4> HIDE DEF f
      <4>2. [f EXCEPT ![a].result = r] \in [Actors -> Actor]
        BY <4>1 DEF Actor
      <4> QED
        BY <4>2 DEF f
    <3> QED
      BY <1>2, <1>9, <3>1 DEF VerifyBegin, PCs
  <2>2. faults' \in 0..MaxFaults
    BY <1>1, <1>3, <1>9 DEF VerifyBegin
  <2> QED
    BY <1>1, <1>9, <2>1, <2>2 DEF VerifyBegin
<1>10. ASSUME Stop(a)
       PROVE  Quiet
  <2>1. act' \in [Actors -> Actor] /\ lock' \in Actors \union {NoActor}
        /\ faults' \in 0..MaxFaults
    BY <1>2, <1>3, <1>10 DEF Stop
  <2> QED
    BY <1>1, <1>10, <2>1 DEF Stop
<1>11. ASSUME PreflightMismatch(a)
       PROVE  Quiet
  <2>1. act' \in [Actors -> Actor]
    BY <1>1, <1>2, <1>11, NocturneMoves DEF PreflightMismatch, PCs
  <2> QED
    BY <1>1, <1>3, <1>11, <2>1 DEF PreflightMismatch
<1> QED
  BY <1>5, <1>6, <1>7, <1>8, <1>9, <1>10, <1>11

\* Every step keeps the invariant.
LEMMA InvStep == Inv /\ [Next]_vars => Inv'
<1> SUFFICES ASSUME Inv, [Next]_vars
             PROVE  Inv'
  OBVIOUS
<1>1. ASSUME NEW a \in Actors,
             \/ HandlerStart(a) \/ WorkerStart(a) \/ LocalFinished(a) \/ RedactRefused(a)
             \/ NocturneBegin(a) \/ Erase(a) \/ AfterNocturneDecide(a) \/ VerifyBegin(a)
             \/ PreflightMismatch(a) \/ Stop(a)
      PROVE  Inv'
  <2>1. /\ UNCHANGED <<receipts, open, content, planned>>
        /\ act' \in [Actors -> Actor] /\ lock' \in Actors \union {NoActor}
        /\ faults' \in 0..MaxFaults /\ remoteContent' \in BOOLEAN
    BY <1>1, QuietActions
  <2> QED
    BY <2>1, QuietStep
<1>2. ASSUME NEW a \in Actors, RedactStore(a)
      PROVE  Inv'
  BY <1>2, RedactStoreInv
<1>3. ASSUME NEW a \in Actors, RedactHalfDone(a)
      PROVE  Inv'
  BY <1>3, RedactHalfDoneInv
<1>4. ASSUME NEW a \in Actors, CommitNocturne(a)
      PROVE  Inv'
  BY <1>4, CommitNocturneInv
<1>5. ASSUME NEW a \in Actors, VerifyCommit(a)
      PROVE  Inv'
  BY <1>5, VerifyCommitInv
<1>6. ASSUME NEW d \in Devices, IssueChallenge(d) \/ AckSucceeded(d) \/ AckFailed(d)
      PROVE  Inv'
  BY <1>6, DeviceInv
<1>7. CASE LoseLock \/ UNCHANGED vars
  <2>1. /\ UNCHANGED <<receipts, open, content, planned, act, remoteContent>>
        /\ lock' \in Actors \union {NoActor} /\ faults' \in 0..MaxFaults
    BY <1>7, ConstantsAssumption
    DEF LoseLock, Fault, vars, Inv, TypeOK, ConstantsAssumption
  <2>2. act' \in [Actors -> Actor] /\ remoteContent' \in BOOLEAN
    BY <2>1 DEF Inv, TypeOK, Actor, PCs
  <2> QED
    BY <2>1, <2>2, QuietStep
<1> QED
  BY <1>1, <1>2, <1>3, <1>4, <1>5, <1>6, <1>7 DEF Next, Step

\* In every reachable state the invariant holds.
LEMMA Invariance == Spec => []Inv
BY InitInv, InvStep, PTL DEF Spec

-----------------------------------------------------------------------------
(* The theorems.                                                           *)

\* The rows of the erasure and what its actors hold keep the values the code gives them.
THEOREM TypeCorrect == Spec => []TypeOK
<1>1. Inv => TypeOK
  BY DEF Inv
<1> QED
  BY <1>1, Invariance, PTL

\* An owner other than memory is readable again only with all of its stores scrubbed,
\* whatever scrubs are replayed, half done or run side by side.
THEOREM OwnerReopensScrubbedHolds == Spec => []OwnerReopensScrubbed
<1>1. Inv => OwnerReopensScrubbed
  BY DEF Inv, OwnerReopensScrubbed, ReceiptMeansScrubbed, OpenIffComplete, OwnerComplete,
         TypeOK, StoresOf
<1> QED
  BY <1>1, Invariance, PTL

\* An erasure reported as verified has scrubbed every store, heard every device,
\* verified the backups and reopened every owner.
THEOREM VerifiedMeansErasedHolds == Spec => []VerifiedMeansErased
<1>1. Inv => VerifiedMeansErased
  <2> SUFFICES ASSUME Inv, status = "verified"
               PROVE  /\ content = {} /\ open = Owners
                      /\ remote = "succeeded" /\ backup = "succeeded"
                      /\ \A d \in Devices : child[d] = "succeeded"
    BY DEF VerifiedMeansErased
  <2>1. LocalDone /\ remote = "succeeded" /\ backup = "succeeded" /\ offline = "succeeded"
    BY DEF Inv, VerifiedIsComplete, StepSetComplete
  <2>2. content = {}
    BY <2>1 DEF Inv, ReceiptMeansScrubbed, LocalDone, TypeOK
  <2>3. \A o \in Owners : o \in open
    BY <2>1 DEF Inv, OpenIffComplete, OwnerComplete, LocalDone, StoresOf, PurgeOpensMemory
  <2>4. open = Owners
    BY <2>3 DEF Inv, TypeOK
  <2> QED
    BY <2>1, <2>2, <2>4 DEF Inv, OfflineMeansAll
<1> QED
  BY <1>1, Invariance, PTL

-----------------------------------------------------------------------------
(* Memory's gate, while no erasure becomes partial before its local scrub. *)

PartialAfterScrub == status = "partial" => LocalDone

\* Past the local scrub every store has its receipt, an eraser runs only there, and
\* what it reports as purged, and the gate that opens on its word, leave nothing behind.
PurgeInv ==
  /\ status # "barrier_committed" => LocalDone
  /\ \A a \in Actors : act[a].pc \in {"remote", "commit"} => LocalDone
  /\ \A a \in Actors : act[a].pc = "commit" /\ act[a].result = "succeeded" => ~remoteContent
  /\ Memory \in open => LocalDone /\ ~remoteContent

\* The receipt of a local store is never taken back.
LEMMA LocalDoneStays == Inv /\ [Next]_vars /\ LocalDone => LocalDone'
<1> SUFFICES ASSUME Inv, [Next]_vars, LocalDone
             PROVE  LocalDone'
  OBVIOUS
<1>1. ASSUME NEW a \in Actors, RedactStore(a)
      PROVE  LocalDone'
  BY <1>1 DEF RedactStore, LocalDone, Inv, TypeOK
<1>2. ASSUME NEW a \in Actors,
             \/ HandlerStart(a) \/ WorkerStart(a) \/ LocalFinished(a) \/ RedactRefused(a)
             \/ NocturneBegin(a) \/ Erase(a) \/ AfterNocturneDecide(a) \/ VerifyBegin(a)
             \/ PreflightMismatch(a) \/ Stop(a)
      PROVE  receipt' = receipt
  BY <1>2, QuietActions DEF receipts
<1>3. ASSUME NEW a \in Actors, RedactHalfDone(a) \/ CommitNocturne(a) \/ VerifyCommit(a)
      PROVE  receipt' = receipt
  BY <1>3 DEF RedactHalfDone, CommitNocturne, VerifyCommit, receipts
<1>4. ASSUME NEW d \in Devices, IssueChallenge(d) \/ AckSucceeded(d) \/ AckFailed(d)
      PROVE  receipt' = receipt
  BY <1>4 DEF IssueChallenge, AckSucceeded, AckFailed
<1>5. CASE LoseLock \/ UNCHANGED vars
  BY <1>5 DEF LoseLock, vars, receipts, LocalDone
<1> QED
  BY <1>1, <1>2, <1>3, <1>4, <1>5 DEF Next, Step, LocalDone

\* Once every store has its receipt, memory's plan has been made.
LEMMA PlannedWhenDone == Inv /\ LocalDone => planned
<1> SUFFICES ASSUME Inv, LocalDone
             PROVE  planned
  OBVIOUS
<1>1. PICK s \in Stores : OwnerOf[s] = Memory
  BY ConstantsAssumption DEF ConstantsAssumption, Owners
<1> QED
  BY <1>1 DEF Inv, PlannedWithScrub, LocalDone, StoresOf

\* Starting, scrubbing, deciding, verifying and stopping bring no actor to the remote
\* erase and move no other actor.
LEMMA NotErasing ==
  ASSUME Inv, NEW a \in Actors,
         \/ HandlerStart(a) \/ WorkerStart(a) \/ LocalFinished(a) \/ RedactStore(a)
         \/ RedactRefused(a) \/ RedactHalfDone(a) \/ AfterNocturneDecide(a)
         \/ VerifyBegin(a) \/ PreflightMismatch(a) \/ Stop(a)
  PROVE  /\ act'[a].pc \notin {"remote", "commit"}
         /\ \A b \in Actors : b # a => act'[b] = act[b]
<1> DEFINE Good(f) == /\ f[a].pc \notin {"remote", "commit"}
                      /\ \A b \in Actors : b # a => f[b] = act[b]
<1>1. act \in [Actors -> Actor]
  BY DEF Inv, TypeOK, Actor, PCs
<1>2. /\ Good(Ended(a))
      /\ \A pc \in PCs \ {"remote", "commit"} : Good(At(a, pc))
      /\ \A pc \in PCs : At(a, pc) \in [Actors -> Actor]
  BY <1>1, MovedActor DEF PCs
<1>3. Good(NextAfterLocal(a))
  BY <1>2 DEF NextAfterLocal, PCs
<1>4. ASSUME NEW r
      PROVE  Good([At(a, "vcommit") EXCEPT ![a].result = r])
  <2> DEFINE f == At(a, "vcommit")
  <2>1. f \in [Actors -> Actor] /\ f[a].pc = "vcommit" /\ \A b \in Actors : b # a => f[b] = act[b]
    BY <1>1, MovedActor DEF PCs
  <2> HIDE DEF f
  <2>2. Good([f EXCEPT ![a].result = r])
    BY <2>1 DEF Actor
  <2> QED
    BY <2>2 DEF f
<1>5. ASSUME RedactStore(a)
      PROVE  Good(act')
  BY <1>1, <1>5 DEF RedactStore, Actor
<1>6. ASSUME \/ HandlerStart(a) \/ WorkerStart(a) \/ LocalFinished(a) \/ RedactRefused(a)
             \/ RedactHalfDone(a) \/ AfterNocturneDecide(a) \/ Stop(a)
      PROVE  Good(act')
  <2>1. \/ act' = Ended(a) \/ act' = NextAfterLocal(a)
        \/ \E pc \in PCs \ {"remote", "commit"} : act' = At(a, pc)
    BY <1>6 DEF HandlerStart, WorkerStart, LocalFinished, RedactRefused, RedactHalfDone,
                AfterNocturneDecide, Stop, PCs
  <2> QED
    BY <1>2, <1>3, <2>1
<1>7. ASSUME VerifyBegin(a)
      PROVE  Good(act')
  <2>1. \/ act' = Ended(a)
        \/ act' = At(a, "vcommit")
        \/ \E r \in {"succeeded", "partial"} : act' = [At(a, "vcommit") EXCEPT ![a].result = r]
    BY <1>7 DEF VerifyBegin
  <2> QED
    BY <1>2, <1>4, <2>1 DEF PCs
<1>8. ASSUME PreflightMismatch(a)
      PROVE  Good(act')
  <2>1. act' = [act EXCEPT ![a] = AfterNocturne(a)] \/ act' = At(a, "mismatch")
    BY <1>8 DEF PreflightMismatch
  <2>2. Good([act EXCEPT ![a] = AfterNocturne(a)])
    BY <1>1, NocturneMoves
  <2>3. Good(At(a, "mismatch"))
    BY <1>2 DEF PCs
  <2> QED
    BY <2>1, <2>2, <2>3
<1> QED
  BY <1>5, <1>6, <1>7, <1>8

\* A step that neither writes the remote receipt nor brings an actor to the remote erase
\* keeps PurgeInv.
LEMMA PurgeKept ==
  ASSUME Inv, PurgeInv, LocalDone => LocalDone',
         status' # "barrier_committed" => LocalDone',
         remoteContent' => remoteContent,
         Memory \in open' => Memory \in open,
         \A b \in Actors : act'[b].pc \in {"remote", "commit"} =>
            act'[b].pc = act[b].pc /\ act'[b].result = act[b].result
  PROVE  PurgeInv'
BY DEF PurgeInv

\* Every step keeps PurgeInv, as long as the erasure is not partial too early.
LEMMA PurgeStep == Inv /\ PurgeInv /\ PartialAfterScrub' /\ [Next]_vars => PurgeInv'
<1> SUFFICES ASSUME Inv, PurgeInv, PartialAfterScrub', [Next]_vars
             PROVE  PurgeInv'
  OBVIOUS
<1>1. LocalDone => LocalDone'
  BY LocalDoneStays
<1>2. act \in [Actors -> Actor]
  BY DEF Inv, TypeOK, Actor, PCs
<1>3. ASSUME NEW a \in Actors,
             \/ HandlerStart(a) \/ WorkerStart(a) \/ LocalFinished(a) \/ RedactRefused(a)
             \/ AfterNocturneDecide(a) \/ VerifyBegin(a) \/ PreflightMismatch(a) \/ Stop(a)
      PROVE  PurgeInv'
  <2>1. UNCHANGED <<status, open>> /\ (remoteContent' => remoteContent)
    BY <1>3, QuietActions DEF receipts
  <2>2. /\ act'[a].pc \notin {"remote", "commit"}
        /\ \A b \in Actors : b # a => act'[b] = act[b]
    BY <1>3, NotErasing
  <2> QED
    BY <1>1, <2>1, <2>2, PurgeKept DEF PurgeInv
<1>4. ASSUME NEW a \in Actors, RedactStore(a)
      PROVE  PurgeInv'
  <2>1. /\ act'[a].pc \notin {"remote", "commit"}
        /\ \A b \in Actors : b # a => act'[b] = act[b]
    BY <1>4, NotErasing
  <2>2. (Memory \in open' => Memory \in open) /\ remoteContent' = remoteContent
    BY <1>4 DEF RedactStore
  <2>3. status' # "barrier_committed" => LocalDone'
    BY <1>1, <1>4 DEF RedactStore, SummaryAfterScrub, LocalDone, PurgeInv
  <2> QED
    BY <1>1, <2>1, <2>2, <2>3, PurgeKept
<1>5. ASSUME NEW a \in Actors, RedactHalfDone(a)
      PROVE  PurgeInv'
  <2>1. /\ act'[a].pc \notin {"remote", "commit"}
        /\ \A b \in Actors : b # a => act'[b] = act[b]
    BY <1>5, NotErasing
  <2>2. UNCHANGED <<status, open, remoteContent>>
    BY <1>5 DEF RedactHalfDone, receipts
  <2> QED
    BY <1>1, <2>1, <2>2, PurgeKept DEF PurgeInv
<1>6. ASSUME NEW a \in Actors, NocturneBegin(a)
      PROVE  PurgeInv'
  <2>1. UNCHANGED <<status, open>> /\ UNCHANGED remoteContent
    BY <1>6 DEF NocturneBegin, receipts
  <2>2. /\ \A b \in Actors : b # a => act'[b] = act[b]
        /\ act'[a].pc = "commit" => act'[a].result = "mismatch"
        /\ act'[a].pc \in {"remote", "commit"} => RemoteReady
    <3>1. \/ act' = Ended(a) \/ act' = [act EXCEPT ![a] = AfterNocturne(a)]
          \/ act' = At(a, "remote") /\ RemoteReady
          \/ act' = Refusing(a) /\ RemoteReady
      BY <1>6 DEF NocturneBegin, Refusing
    <3>2. /\ \A b \in Actors : b # a => Ended(a)[b] = act[b]
          /\ Ended(a)[a].pc = "idle"
      BY <1>2, MovedActor DEF PCs
    <3>3. /\ \A b \in Actors : b # a => At(a, "remote")[b] = act[b]
          /\ At(a, "remote")[a].pc = "remote"
      BY <1>2, MovedActor DEF PCs
    <3> QED
      BY <1>2, <3>1, <3>2, <3>3, NocturneMoves
  <2> QED
    BY <1>1, <2>1, <2>2 DEF PurgeInv, RemoteReady
<1>7. ASSUME NEW a \in Actors, Erase(a)
      PROVE  PurgeInv'
  <2>1. UNCHANGED <<status, open, planned>> /\ (remoteContent' => remoteContent)
    BY <1>7, QuietActions DEF receipts
  <2>2. act[a].pc = "remote" /\ LocalDone /\ planned
    BY <1>7, PlannedWhenDone DEF Erase, PurgeInv
  <2>3. \A b \in Actors : b # a => act'[b] = act[b]
    BY <1>2, <1>7, MovedActor DEF Erase, PCs
  <2>4. act'[a].pc = "commit" /\ act'[a].result = "succeeded" => ~remoteContent'
    <3>1. CASE remoteContent' = (remoteContent /\ ~planned)
      BY <2>2, <3>1
    <3>2. CASE \/ act' = [act EXCEPT ![a].pc = "commit", ![a].result = "partial"]
               \/ act' = Ended(a)
      BY <1>2, <3>2, MovedActor DEF Actor, PCs
    <3> QED
      BY <1>7, <3>1, <3>2 DEF Erase
  <2> QED
    BY <1>1, <2>1, <2>2, <2>3, <2>4 DEF PurgeInv
<1>8. ASSUME NEW a \in Actors, CommitNocturne(a)
      PROVE  PurgeInv'
  <2>1. act[a].pc = "commit" /\ LocalDone /\ LocalDone' /\ UNCHANGED remoteContent
    BY <1>1, <1>8 DEF CommitNocturne, PurgeInv
  <2>2. Memory \in open' => Memory \in open \/ act[a].result = "succeeded"
    BY <1>8 DEF CommitNocturne
  <2>3. /\ act'[a].pc \in {"idle", "decided"}
        /\ \A b \in Actors : b # a => act'[b].pc = act[b].pc /\ act'[b].result = act[b].result
    <3>1. \/ act' = Ended(a) \/ act' = Superseded(a, {"remote", "commit"}, AfterNocturne(a))
      BY <1>8 DEF CommitNocturne
    <3>2. CASE act' = Ended(a)
      BY <1>2, <3>2, MovedActor DEF PCs
    <3>3. CASE act' = Superseded(a, {"remote", "commit"}, AfterNocturne(a))
      BY <1>2, <3>3, SupersededActor, AfterNocturneActor
    <3> QED
      BY <3>1, <3>2, <3>3
  <2> QED
    BY <2>1, <2>2, <2>3 DEF PurgeInv
<1>9. ASSUME NEW a \in Actors, VerifyCommit(a)
      PROVE  PurgeInv'
  <2>1. UNCHANGED <<open, remoteContent>> /\ (status' # status => VerifyReady)
    BY <1>9 DEF VerifyCommit
  <2>2. /\ act'[a].pc = "idle"
        /\ \A b \in Actors : b # a => act'[b].pc = act[b].pc /\ act'[b].result = act[b].result
    <3>1. \/ act' = Ended(a) \/ act' = Superseded(a, {"vcommit"}, NotRunning)
      BY <1>9 DEF VerifyCommit
    <3>2. CASE act' = Ended(a)
      BY <1>2, <3>2, MovedActor DEF PCs
    <3>3. CASE act' = Superseded(a, {"vcommit"}, NotRunning)
      BY <1>2, <3>3, SupersededActor, AfterNocturneActor
    <3> QED
      BY <3>1, <3>2, <3>3
  <2> QED
    BY <1>1, <2>1, <2>2, PurgeKept DEF PurgeInv, VerifyReady
<1>10. ASSUME NEW d \in Devices, IssueChallenge(d) \/ AckSucceeded(d) \/ AckFailed(d)
       PROVE  PurgeInv'
  <2>1. UNCHANGED <<open, remoteContent, act, receipt>>
    BY <1>10 DEF IssueChallenge, AckSucceeded, AckFailed
  <2>2. status' = status \/ status' = "partial" \/ (status' = "verified" /\ VerifyReady)
    BY <1>10 DEF IssueChallenge, AckSucceeded, AckFailed, ParentAfterSuccess
  <2> QED
    BY <1>1, <2>1, <2>2, PurgeKept DEF PurgeInv, VerifyReady, PartialAfterScrub
<1>11. CASE LoseLock \/ UNCHANGED vars
  BY <1>1, <1>11, PurgeKept DEF LoseLock, vars, receipts, PurgeInv
<1> QED
  BY <1>3, <1>4, <1>5, <1>6, <1>7, <1>8, <1>9, <1>10, <1>11 DEF Next, Step

\* Memory is readable again only when its stores are scrubbed and Nocturne holds nothing
\* of it, as long as no erasure becomes partial before its local stores are scrubbed.
THEOREM PurgeBeforeReopenHolds == Spec => PurgeBeforeReopen
<1>1. Init => PurgeInv
  BY DEF Init, PurgeInv, NotRunning
<1>2. Inv /\ PurgeInv => MemoryReopensPurged
  BY DEF Inv, PurgeInv, ReceiptMeansScrubbed, LocalDone, MemoryReopensPurged, StoresOf
<1>3. (status = "partial" => LocalDone) <=> PartialAfterScrub
  BY DEF PartialAfterScrub
<1> QED
  BY <1>1, <1>2, <1>3, Invariance, PurgeStep, PTL DEF Spec, PurgeBeforeReopen

=============================================================================
