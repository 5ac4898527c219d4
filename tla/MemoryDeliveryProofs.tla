------------------------ MODULE MemoryDeliveryProofs ------------------------
(***************************************************************************)
(* Theorems about the delivery of a remembered fact, for any number of      *)
(* deliveries, attempts, sidecar boots and faults.                          *)
(*                                                                         *)
(* The first invariant, Inv, is about what is at the path: as long as the   *)
(* last delivery waits or is applied nobody unlinks, a correction has one   *)
(* attempt, that attempt leaves once, and so nothing older lands on top of  *)
(* it.  The second, QuietInv, is about what may still arrive: as long as    *)
(* every mutation ran in the boot its attempt records, an attempt that is   *)
(* not the last of its delivery, that has landed, or that a later boot has  *)
(* outlived is dead, and the reconciliations account for the others.        *)
(***************************************************************************)
EXTENDS MemoryDelivery, TLAPS

Kinds == {"none", "admit", "correction", "delete"}
Statuses == {"none", "queued", "delete_pending", "applied", "permanently_rejected",
             "expiry_reconciling", "expired", "deleted"}
AttStates == {"none", "prepared", "sent", "unknown", "reconciling", "confirmed", "fenced"}
RowStatuses == {"none", "pending", "reconciling", "delete_pending", "absence_verified",
                "verified", "conflict"}
PCs == {"idle", "caps", "mark", "preflight", "send", "waiting", "readback", "applied",
        "reject", "unknown", "look", "first", "second", "authorize", "found", "conflict",
        "absent", "plan", "unlink", "erase", "verify", "purged"}

Delivery == [kind : Kinds, status : Statuses, late : BOOLEAN]
Attempt == [of : Deliveries \union {Nothing}, state : AttStates,
            holder : Actors \union {"nobody"}, live : BOOLEAN, epoch : 0..MaxEpochs]
Reconciliation == [status : RowStatuses, holder : {"nobody", "expiry"}, live : BOOLEAN]
Loop == [pc : PCs, a : Attempts \union {Nothing}, obs : 0..MaxEpochs]
Sidecar == [epoch : 1..MaxEpochs, linked : Attempts \union {Nothing},
            inflight : SUBSET Attempts, nodes : [Attempts -> Deliveries \union {Nothing}]]

Types ==
    /\ del \in [Deliveries -> Delivery]
    /\ msg \in [Deliveries -> {"none", "open", "dead", "closed"}]
    /\ att \in [Attempts -> Attempt]
    /\ row \in [Attempts -> Reconciliation]
    /\ plan \in [Deliveries -> Attempts \union {Nothing}]
    /\ remote \in Sidecar
    /\ actor \in [Actors -> Loop]
    /\ unrecorded \in BOOLEAN
    /\ faults \in 0..MaxFaults

----------------------------------------------------------------------------
(* What is at the path. *)

Expiring == {"expiry_reconciling", "expired"}
Deleting == {"delete_pending", "deleted"}
PreSend == {"preflight", "send"}
Purge == {"plan", "unlink", "erase", "verify", "purged"}
NotSent == {"none", "prepared"}

\* Only an applied delivery has a successor; the first is the admission, a delete
\* is never applied, and only what is being purged has a plan.
Chain ==
    /\ \A j, k \in Deliveries : j < k /\ del[k].status # "none" => del[j].status = "applied"
    /\ \A k \in Deliveries :
          /\ del[k].status = "none" <=> del[k].kind = "none"
          /\ k = 1 <=> del[k].kind = "admit"
          /\ del[k].kind = "delete" <=> del[k].status \in Deleting
          /\ plan[k] # Nothing => del[k].status \in Expiring \union Deleting

\* The CHECKs of the attempt's row; an attempt that exists is of a delivery.
AttShape(t) ==
    /\ t.state \in {"prepared", "sent", "unknown", "reconciling"} <=> t.holder # "nobody"
    /\ t.state \in {"sent", "unknown", "reconciling", "confirmed"} => t.epoch # Nothing
    /\ t.state = "prepared" => t.epoch = Nothing
    /\ t.state = "none" => t = NoAttempt
    /\ t.state # "none" => t.of # Nothing

AttemptsOK ==
    \A a \in Attempts :
        AttShape(att[a]) /\ (att[a].state # "none" => del[att[a].of].status # "none")

\* Where each loop may be, by what its attempt is about.
ActorOK(w) ==
    actor[w].pc # "idle" =>
        /\ actor[w].a \in Attempts /\ att[actor[w].a].state # "none"
        /\ w = "expiry" => del[Its(w)].status \in Expiring
        /\ actor[w].pc \in Purge /\ w # "expiry" => del[Its(w)].kind = "delete"
        /\ actor[w].pc \in {"preflight", "send", "waiting", "readback", "applied", "reject",
                            "look", "first", "second", "authorize"}
           => del[Its(w)].kind # "delete"
        /\ actor[w].pc \in {"mark", "first", "second", "authorize"} => actor[w].obs >= 1
        /\ actor[w].pc \in {"second", "authorize"} /\ del[Its(w)].kind = "correction"
           => del[Its(w)].status # "queued"

ActorsOK == \A w \in Actors : ActorOK(w)

\* A mutation leaves once: whoever is about to send is the only one, and what is
\* under way has nobody about to send it.
SentOnce ==
    /\ \A w \in Actors : actor[w].pc \in PreSend =>
          /\ att[actor[w].a].state \notin NotSent /\ actor[w].a \notin remote.inflight
          /\ \A v \in Actors : actor[v].pc \in PreSend /\ actor[v].a = actor[w].a => v = w
    /\ \A a \in remote.inflight :
          att[a].state \notin NotSent /\ del[att[a].of].kind # "delete"

\* A correction is never tried again: its path is not empty while it waits.
OneCorrection ==
    \A a, b \in Attempts :
        /\ att[a].of # Nothing /\ att[a].of = att[b].of
        /\ del[att[a].of].kind = "correction"
        => a = b

\* The attempt of a has left and is over as far as the sidecar is concerned.
Landed(a) ==
    /\ att[a].state \notin NotSent /\ a \notin remote.inflight
    /\ \A w \in Actors : actor[w].pc \in PreSend => actor[w].a # a

\* The content of a correction is written by its attempt, which is over then.
CorrectionLanded ==
    \A k \in Deliveries :
        /\ del[k].kind = "correction"
        /\ \/ del[k].status = "applied"
           \/ /\ del[k].status \in Expiring \union {"queued"}
              /\ Holds(k) \/ plan[k] # Nothing
        => \E a \in Of(k) : Landed(a)

\* What the path holds while the last delivery waits or is applied, and what a
\* loop that is about to report it applied has seen.
PathOK ==
    /\ \A k \in Deliveries : Lineage(k) /\ del[k].status \in {"queued", "applied"} =>
          /\ del[k].kind = "correction" =>
                remote.linked # Nothing /\ remote.nodes[remote.linked] \in {k - 1, k}
          /\ del[k].kind = "admit" /\ remote.linked # Nothing =>
                remote.nodes[remote.linked] = k
          /\ del[k].status = "applied" => Holds(k)
    /\ \A w \in Actors : actor[w].pc = "applied" /\ del[Its(w)].status = "queued" => Holds(Its(w))

Inv ==
    /\ Types /\ Chain /\ AttemptsOK /\ ActorsOK /\ SentOnce /\ OneCorrection
    /\ CorrectionLanded /\ PathOK

----------------------------------------------------------------------------
(* What may still arrive. *)

\* Nothing of the attempt can reach the sidecar in the boot it records.
Dead(a) ==
    /\ att[a].state \notin NotSent /\ a \notin remote.inflight
    /\ \A w \in Actors : actor[w].pc \in PreSend /\ actor[w].a = a =>
          att[a].epoch # remote.epoch

Looking == {"look", "first", "second", "authorize", "absent"}
Judging == {"look", "first", "second", "found", "absent", "conflict"}

\* Epochs only grow, and absence counts when the attempt's is over.
EpochsOK ==
    /\ \A a \in Attempts : att[a].epoch <= remote.epoch
    /\ \A w \in Actors : actor[w].obs <= remote.epoch
    /\ \A w \in Actors : actor[w].pc \in Looking => att[actor[w].a].state \notin NotSent
    /\ \A w \in Actors : actor[w].pc \in Looking \ {"look"} =>
          att[actor[w].a].epoch <= actor[w].obs
    /\ \A w \in Actors : actor[w].pc \in {"second", "authorize", "absent"} =>
          att[actor[w].a].epoch < remote.epoch

\* Attempts are numbered as they come.
Numbered == \A a, b \in Attempts : b < a /\ att[a].state # "none" => att[b].state # "none"

\* Who has a reconciliation, and what its loop does.
RowsOK ==
    /\ \A a \in Attempts :
          /\ row[a].status = "none" => row[a] = NoRow
          /\ row[a].status # "none" => WasSent(a) /\ del[att[a].of].status \in Expiring
          /\ att[a].of # Nothing /\ WasSent(a) /\ del[att[a].of].status \in Expiring
             => row[a].status # "none"
          /\ att[a].of # Nothing /\ del[att[a].of].status \in Expiring => ~Open(a)
    /\ actor["expiry"].pc \in Purge => row[actor["expiry"].a].status = "delete_pending"
    /\ actor["expiry"].pc \in Judging => row[actor["expiry"].a].status = "reconciling"
    /\ \A w \in Actors : actor[w].pc \in Purge \ {"plan"} => plan[Its(w)] # Nothing

Unsettled(a) == row[a].status \in {"pending", "reconciling", "delete_pending", "conflict"}

Clean == Absent /\ \A n \in Attempts : remote.nodes[n] = Nothing

\* The node that can hold content.
TheNode(k) == IF plan[k] # Nothing THEN plan[k] ELSE remote.linked

Arrivals ==
    /\ \A a \in remote.inflight : att[a].epoch = remote.epoch
    \* an earlier attempt is dead before a later one is made
    /\ \A a, b \in Attempts : att[a].of # Nothing /\ att[a].of = att[b].of /\ b < a => Dead(b)
    \* the admission's attempts, once one of them has landed
    /\ \A a \in Attempts : att[a].of = 1
          /\ (remote.linked # Nothing \/ plan[1] # Nothing \/ del[1].status = "applied")
          => Dead(a)
    /\ remote.linked # Nothing => att[remote.linked].of = 1
    /\ \A w \in Actors : actor[w].pc = "authorize" /\ del[Its(w)].status = "queued"
          /\ IsCurrent(actor[w].a) => Absent
    /\ \A n \in Attempts : remote.nodes[n] # Nothing =>
          \E a \in Attempts : att[a].of = remote.nodes[n] /\ WasSent(a)

Nodes ==
    \A k \in Deliveries : Lineage(k) =>
        /\ \A n \in Attempts : remote.nodes[n] # Nothing => n = TheNode(k)
        /\ plan[k] # Nothing => remote.linked \in {Nothing, plan[k]}

Accounts ==
    /\ \A w \in Actors : actor[w].pc = "purged" => Clean
    /\ \A a \in Attempts : row[a].status \in {"absence_verified", "verified"} => Dead(a)
    \* a plan under way is some reconciliation's
    /\ \A k \in Deliveries : del[k].status \in Expiring /\ plan[k] # Nothing =>
          Clean \/ \E a \in Of(k) : row[a].status = "delete_pending"
    /\ actor["expiry"].pc = "absent" =>
          Clean \/ \E b \in Of(Its("expiry")) : b # actor["expiry"].a /\ Unsettled(b)
    /\ \A k \in Deliveries : del[k].status = "expiry_reconciling" =>
          Clean \/ \E b \in Of(k) : Unsettled(b)
    /\ \A k \in Deliveries : del[k].status = "expired" =>
          \/ \A a \in Of(k) : ~WasSent(a)
          \/ Clean /\ \A a \in Of(k) : Dead(a)
    /\ \A k \in Deliveries : del[k].status = "deleted" => Clean

QuietInv ==
    /\ EpochsOK /\ Numbered /\ RowsOK
    /\ ~unrecorded => Arrivals /\ Nodes /\ Accounts

----------------------------------------------------------------------------
(* Types. *)

LEMMA ConstantFacts ==
    /\ MaxDeliveries \in Nat /\ MaxDeliveries >= 1 /\ MaxAttempts \in Nat /\ MaxAttempts >= 1
    /\ MaxEpochs \in Nat /\ MaxEpochs >= 1 /\ MaxFaults \in Nat
    /\ \A k \in Deliveries : k \in Nat /\ k >= 1
    /\ \A a \in Attempts : a \in Nat /\ a >= 1
    /\ 1 \in Deliveries
    /\ Nothing \notin Deliveries /\ Nothing \notin Attempts
<1>1. /\ MaxDeliveries \in Nat \ {0} /\ MaxAttempts \in Nat \ {0}
      /\ MaxEpochs \in Nat \ {0} /\ MaxFaults \in Nat
  BY MemoryAssumption DEF MemoryAssumption
<1>. QED
  BY <1>1 DEF Deliveries, Attempts, Nothing

LEMMA TypeFacts ==
    ASSUME Types
    PROVE  /\ \A k \in Deliveries :
                 /\ del[k] \in Delivery /\ del[k].kind \in Kinds /\ del[k].status \in Statuses
                 /\ del[k].late \in BOOLEAN /\ plan[k] \in Attempts \union {Nothing}
           /\ \A a \in Attempts :
                 /\ att[a] \in Attempt /\ att[a].of \in Deliveries \union {Nothing}
                 /\ att[a].state \in AttStates /\ att[a].holder \in Actors \union {"nobody"}
                 /\ att[a].live \in BOOLEAN /\ att[a].epoch \in 0..MaxEpochs
                 /\ row[a] \in Reconciliation /\ row[a].status \in RowStatuses
           /\ \A w \in Actors :
                 /\ actor[w] \in Loop /\ actor[w].pc \in PCs
                 /\ actor[w].a \in Attempts \union {Nothing} /\ actor[w].obs \in 0..MaxEpochs
           /\ remote \in Sidecar /\ remote.epoch \in 1..MaxEpochs
           /\ remote.linked \in Attempts \union {Nothing} /\ remote.inflight \subseteq Attempts
           /\ remote.nodes \in [Attempts -> Deliveries \union {Nothing}]
<1>1. \A k \in Deliveries : del[k] \in Delivery /\ plan[k] \in Attempts \union {Nothing}
  BY DEF Types
<1>2. \A a \in Attempts : att[a] \in Attempt /\ row[a] \in Reconciliation
  BY DEF Types
<1>3. \A w \in Actors : actor[w] \in Loop
  BY DEF Types
<1>4. remote \in Sidecar
  BY DEF Types
<1>5. \A k \in Deliveries :
         /\ del[k].kind \in Kinds /\ del[k].status \in Statuses /\ del[k].late \in BOOLEAN
  BY <1>1 DEF Delivery
<1>6. \A a \in Attempts :
         /\ att[a].of \in Deliveries \union {Nothing}
         /\ att[a].state \in AttStates /\ att[a].holder \in Actors \union {"nobody"}
         /\ att[a].live \in BOOLEAN /\ att[a].epoch \in 0..MaxEpochs
         /\ row[a].status \in RowStatuses
  BY <1>2 DEF Attempt, Reconciliation
<1>7. \A w \in Actors :
         /\ actor[w].pc \in PCs
         /\ actor[w].a \in Attempts \union {Nothing} /\ actor[w].obs \in 0..MaxEpochs
  BY <1>3 DEF Loop
<1>8. /\ remote.epoch \in 1..MaxEpochs
      /\ remote.linked \in Attempts \union {Nothing} /\ remote.inflight \subseteq Attempts
      /\ remote.nodes \in [Attempts -> Deliveries \union {Nothing}]
  BY <1>4 DEF Sidecar
<1>. QED
  BY <1>1, <1>2, <1>3, <1>4, <1>5, <1>6, <1>7, <1>8

----------------------------------------------------------------------------
(* The steps that leave the path alone: what they may do to each row and loop. *)

\* The life of a delivery.
DelLaw(k) ==
    /\ del'[k].kind = del[k].kind
    /\ \/ del'[k].status = del[k].status
       \/ del[k].status = "queued" /\ del'[k].status = "applied" /\ Holds(k)
       \/ del[k].status = "queued" /\ del'[k].status \in Expiring \union {"permanently_rejected"}
       \/ del[k].status = "delete_pending" /\ del'[k].status = "deleted"
       \/ del[k].status = "expiry_reconciling" /\ del'[k].status = "expired"

PlanLaw(k) ==
    \/ plan'[k] = plan[k]
    \/ Holds(k) /\ del[k].status \in {"expiry_reconciling", "delete_pending"}

Born(a) == att[a].state = "none" /\ att'[a].state # "none"

\* The life of an attempt.
AttLaw(a) ==
    /\ AttShape(att'[a])
    /\ \/ /\ Born(a)
          /\ att'[a].state = "prepared" /\ del[att'[a].of].status # "none"
          /\ del[att'[a].of].kind = "correction" => Of(att'[a].of) = {}
       \/ /\ att'[a].of = att[a].of
          /\ \/ att'[a].state = att[a].state /\ att'[a].epoch = att[a].epoch
             \/ att[a].state = "prepared" /\ att'[a].state = "sent"
             \/ /\ att[a].state = "prepared" /\ att'[a].state = "fenced"
                /\ att'[a].epoch = att[a].epoch
             \/ /\ att[a].state \notin NotSent /\ att'[a].state \notin NotSent
                /\ att'[a].epoch = att[a].epoch

\* The loop has just marked its prepared attempt, or fenced it.
Marks(w) ==
    /\ actor[w].pc = "mark" /\ actor'[w].a = actor[w].a
    /\ actor[w].a \in Attempts
    /\ att[actor[w].a].holder = w /\ att[actor[w].a].state = "prepared"
    /\ att'[actor[w].a].state \notin NotSent

ActLaw(w) ==
    \/ actor'[w] = actor[w]
    \/ actor'[w].pc = "idle"
    \/ /\ ActorOK(w)'
       /\ actor'[w].pc \in PreSend =>
             (actor[w].pc \in PreSend /\ actor'[w].a = actor[w].a) \/ Marks(w)
       /\ actor'[w].pc = "applied" =>
             Its(w)' \in Deliveries /\ (del[Its(w)'].status = "queued" => Holds(Its(w)'))

PathSame ==
    /\ remote'.linked = remote.linked /\ remote'.nodes = remote.nodes
    /\ \A x \in remote'.inflight :
          \/ x \in remote.inflight
          \/ \E w \in Actors : /\ actor[w].pc = "send" /\ actor[w].a = x
                               /\ actor'[w].pc \notin PreSend

Law ==
    /\ \A k \in Deliveries : DelLaw(k) /\ PlanLaw(k)
    /\ \A a \in Attempts : AttLaw(a)
    /\ \A a, b \in Attempts : Born(a) /\ Born(b) => a = b
    /\ \A w \in Actors : ActLaw(w)
    /\ PathSame

\* Facts that the law gives at once.
LEMMA DelLawFacts ==
    ASSUME NEW k \in Deliveries, DelLaw(k), del[k].status \in Statuses
    PROVE  /\ del'[k].kind = del[k].kind
           /\ del'[k].status = "none" <=> del[k].status = "none"
           /\ del[k].status = "applied" => del'[k].status = "applied"
           /\ del'[k].status = "applied" =>
                 del[k].status = "applied" \/ (del[k].status = "queued" /\ Holds(k))
           /\ del'[k].status = "queued" => del[k].status = "queued"
           /\ del[k].status \in Expiring => del'[k].status \in Expiring
           /\ del'[k].status \in Expiring => del[k].status \in Expiring \union {"queued"}
           /\ del[k].status \in Deleting <=> del'[k].status \in Deleting
BY DEF DelLaw, Expiring, Deleting, Statuses

LEMMA AttLawFacts ==
    ASSUME NEW a \in Attempts, AttLaw(a), AttShape(att[a]), att[a].state \in AttStates
    PROVE  /\ att[a].state # "none" => att'[a].state # "none" /\ att'[a].of = att[a].of
           /\ att[a].state \notin NotSent =>
                 att'[a].state \notin NotSent /\ att'[a].epoch = att[a].epoch
           /\ att'[a].of # Nothing => att'[a].state # "none"
           /\ ~Born(a) => att'[a].of = att[a].of
           /\ att'[a].state # "none" /\ att[a].state = "none" => Born(a)
<1>1. att'[a].of # Nothing => att'[a].state # "none"
  BY DEF AttLaw, AttShape, NoAttempt
<1>2. Born(a) => att[a].state = "none"
  BY DEF Born
<1>. QED
  BY <1>1, <1>2 DEF AttLaw, NotSent, Born

LEMMA HoldsSame ==
    ASSUME NEW k \in Deliveries, del'[k].kind = del[k].kind,
           remote'.linked = remote.linked, remote'.nodes = remote.nodes
    PROVE  Holds(k)' <=> Holds(k)
BY DEF Holds, Content

LEMMA LawKeeps ==
    ASSUME Inv, Types', Law
    PROVE  Inv'
<1>1. /\ Types /\ Chain /\ AttemptsOK /\ ActorsOK /\ SentOnce /\ OneCorrection
      /\ CorrectionLanded /\ PathOK
  BY DEF Inv
<1>2. /\ \A k \in Deliveries : DelLaw(k) /\ PlanLaw(k)
      /\ \A a \in Attempts : AttLaw(a)
      /\ \A a, b \in Attempts : Born(a) /\ Born(b) => a = b
      /\ \A w \in Actors : ActLaw(w)
      /\ PathSame
  BY DEF Law
<1>3. /\ \A k \in Deliveries : del[k].status \in Statuses
      /\ \A a \in Attempts : att[a].state \in AttStates
      /\ \A a \in Attempts : att[a].of \in Deliveries \union {Nothing}
      /\ \A w \in Actors : actor[w].a \in Attempts \union {Nothing}
  BY <1>1, TypeFacts
<1>4. \A k \in Deliveries :
         /\ del'[k].kind = del[k].kind
         /\ del'[k].status = "none" <=> del[k].status = "none"
         /\ del[k].status = "applied" => del'[k].status = "applied"
         /\ del'[k].status = "applied" =>
               del[k].status = "applied" \/ (del[k].status = "queued" /\ Holds(k))
         /\ del'[k].status = "queued" => del[k].status = "queued"
         /\ del[k].status \in Expiring => del'[k].status \in Expiring
         /\ del'[k].status \in Expiring => del[k].status \in Expiring \union {"queued"}
         /\ del[k].status \in Deleting <=> del'[k].status \in Deleting
  BY <1>2, <1>3, DelLawFacts
<1>5. \A a \in Attempts :
         /\ att[a].state # "none" => att'[a].state # "none" /\ att'[a].of = att[a].of
         /\ att[a].state \notin NotSent =>
               att'[a].state \notin NotSent /\ att'[a].epoch = att[a].epoch
         /\ att'[a].of # Nothing => att'[a].state # "none"
         /\ ~Born(a) => att'[a].of = att[a].of
         /\ att'[a].state # "none" /\ att[a].state = "none" => Born(a)
  BY <1>1, <1>2, <1>3, AttLawFacts DEF AttemptsOK
<1>6. \A k \in Deliveries : Holds(k)' <=> Holds(k)
  BY <1>2, <1>4, HoldsSame DEF PathSame
<1>7. \A k \in Deliveries : Lineage(k)' <=> Lineage(k)
  BY <1>4 DEF Lineage
<1>8. Chain'
  <2>1. \A j, k \in Deliveries :
           j < k /\ del'[k].status # "none" => del'[j].status = "applied"
    BY <1>1, <1>4 DEF Chain
  <2>2. ASSUME NEW k \in Deliveries
        PROVE  /\ del'[k].status = "none" <=> del'[k].kind = "none"
               /\ k = 1 <=> del'[k].kind = "admit"
               /\ del'[k].kind = "delete" <=> del'[k].status \in Deleting
    BY <1>1, <1>4 DEF Chain
  <2>3. ASSUME NEW k \in Deliveries, plan'[k] # Nothing
        PROVE  del'[k].status \in Expiring \union Deleting
    <3>1. plan[k] # Nothing \/ del[k].status \in {"expiry_reconciling", "delete_pending"}
      BY <1>2, <2>3 DEF PlanLaw
    <3>2. del[k].status \in Expiring \union Deleting
      BY <1>1, <3>1 DEF Chain, Expiring, Deleting
    <3>. QED
      BY <1>4, <3>2
  <2>. QED
    BY <2>1, <2>2, <2>3 DEF Chain
<1>9. AttemptsOK'
  <2> SUFFICES ASSUME NEW a \in Attempts
               PROVE  AttShape(att'[a])
                      /\ (att'[a].state # "none" => del'[att'[a].of].status # "none")
    BY DEF AttemptsOK
  <2>1. AttShape(att'[a])
    BY <1>2 DEF AttLaw
  <2>2. ASSUME att'[a].state # "none"
        PROVE  del'[att'[a].of].status # "none"
    <3>1. att'[a].of # Nothing /\ att'[a].of \in Deliveries \union {Nothing}
      BY <2>1, <2>2 DEF AttShape, Types, Attempt
    <3>0. att'[a].of \in Deliveries
      BY <3>1
    <3>2. CASE att[a].state = "none"
      <4>1. del[att'[a].of].status # "none"
        BY <1>2, <2>2, <3>2 DEF AttLaw, Born, NotSent
      <4>. QED
        BY <1>4, <3>0, <4>1
    <3>3. CASE att[a].state # "none"
      <4>1. att'[a].of = att[a].of
        BY <1>5, <3>3
      <4>2. del[att[a].of].status # "none"
        BY <1>1, <3>3 DEF AttemptsOK
      <4>. QED
        BY <1>4, <3>0, <4>1, <4>2
    <3>. QED
      BY <3>2, <3>3
  <2>. QED
    BY <2>1, <2>2
<1>10. ASSUME NEW w \in Actors, actor[w].pc # "idle", actor'[w] = actor[w]
       PROVE  /\ actor[w].a \in Attempts /\ Its(w)' = Its(w) /\ Its(w) \in Deliveries
              /\ att[actor[w].a].state # "none" /\ att'[actor[w].a].state # "none"
  <2>1. actor[w].a \in Attempts /\ att[actor[w].a].state # "none"
    BY <1>1, <1>10 DEF ActorsOK, ActorOK
  <2>2. Its(w) \in Deliveries
    BY <1>1, <1>3, <2>1 DEF AttemptsOK, AttShape, Its
  <2>. QED
    BY <1>5, <1>10, <2>1, <2>2 DEF Its
<1>11. ActorsOK'
  <2> SUFFICES ASSUME NEW w \in Actors
               PROVE  ActorOK(w)'
    BY DEF ActorsOK
  <2>1. CASE actor'[w] = actor[w]
    <3>1. CASE actor[w].pc = "idle"
      BY <2>1, <3>1 DEF ActorOK
    <3>2. CASE actor[w].pc # "idle"
      <4>1. ActorOK(w)
        BY <1>1 DEF ActorsOK
      <4>2. /\ actor[w].a \in Attempts /\ Its(w)' = Its(w) /\ Its(w) \in Deliveries
            /\ att'[actor[w].a].state # "none"
        BY <1>10, <2>1, <3>2
      <4>. QED
        BY <1>4, <2>1, <3>2, <4>1, <4>2 DEF ActorOK
    <3>. QED
      BY <3>1, <3>2
  <2>2. CASE actor'[w].pc = "idle"
    BY <2>2 DEF ActorOK
  <2>. QED
    BY <1>2, <2>1, <2>2 DEF ActLaw
\* Whoever is about to send was so before, or has just marked its attempt.
<1>12. ASSUME NEW w \in Actors, actor'[w].pc \in PreSend
       PROVE  /\ actor'[w].a = actor[w].a /\ actor[w].a \in Attempts
              /\ actor[w].pc \in PreSend \/ Marks(w)
              /\ att'[actor[w].a].state \notin NotSent
  <2>1. actor'[w].pc # "idle"
    BY <1>12 DEF PreSend
  <2>2. (actor[w].pc \in PreSend /\ actor'[w].a = actor[w].a) \/ Marks(w)
    BY <1>2, <1>12, <2>1 DEF ActLaw
  <2>3. CASE actor[w].pc \in PreSend /\ actor'[w].a = actor[w].a
    <3>1. actor[w].pc # "idle"
      BY <2>3 DEF PreSend
    <3>2. actor[w].a \in Attempts
      BY <1>1, <3>1 DEF ActorsOK, ActorOK
    <3>. QED
      BY <1>1, <1>5, <2>3, <3>2 DEF SentOnce
  <2>4. CASE Marks(w)
    BY <2>4 DEF Marks
  <2>. QED
    BY <2>2, <2>3, <2>4
<1>13. ASSUME NEW x \in remote'.inflight
       PROVE  /\ x \in Attempts /\ att[x].state \notin NotSent
              /\ del[att[x].of].kind # "delete"
              /\ x \in remote.inflight
                 \/ \E w \in Actors : /\ actor[w].pc = "send" /\ actor[w].a = x
                                      /\ actor'[w].pc \notin PreSend
  <2>1. x \in Attempts
    BY DEF Types, Sidecar
  <2>2. CASE x \in remote.inflight
    BY <1>1, <2>1, <2>2 DEF SentOnce
  <2>3. CASE \E w \in Actors : /\ actor[w].pc = "send" /\ actor[w].a = x
                               /\ actor'[w].pc \notin PreSend
    <3>1. PICK w \in Actors : actor[w].pc = "send" /\ actor[w].a = x
      BY <2>3
    <3>2. att[x].state \notin NotSent
      BY <1>1, <3>1 DEF SentOnce, PreSend
    <3>3. del[att[x].of].kind # "delete"
      BY <1>1, <3>1 DEF ActorsOK, ActorOK, Its
    <3>. QED
      BY <2>1, <2>3, <3>2, <3>3
  <2>. QED
    BY <1>2, <2>2, <2>3 DEF PathSame
<1>14. SentOnce'
  <2>1. ASSUME NEW w \in Actors, actor'[w].pc \in PreSend
        PROVE  actor'[w].a \notin remote'.inflight
    <3> SUFFICES ASSUME actor[w].a \in remote'.inflight
                 PROVE  FALSE
      BY <1>12, <2>1
    <3>1. att[actor[w].a].state \notin NotSent
      BY <1>13
    <3>2. actor[w].pc \in PreSend
      BY <1>12, <2>1, <3>1 DEF Marks, NotSent
    <3>3. actor[w].a \notin remote.inflight
      BY <1>1, <3>2 DEF SentOnce
    <3>4. PICK v \in Actors : /\ actor[v].pc = "send" /\ actor[v].a = actor[w].a
                              /\ actor'[v].pc \notin PreSend
      BY <1>13, <3>3
    <3>5. v = w
      BY <1>1, <3>2, <3>4 DEF SentOnce, PreSend
    <3>. QED
      BY <2>1, <3>4, <3>5
  <2>2. ASSUME NEW w \in Actors, NEW v \in Actors,
               actor'[w].pc \in PreSend, actor'[v].pc \in PreSend, actor'[v].a = actor'[w].a
        PROVE  v = w
    <3>1. /\ actor[v].a = actor[w].a
          /\ actor[w].pc \in PreSend \/ Marks(w)
          /\ actor[v].pc \in PreSend \/ Marks(v)
      BY <1>12, <2>2
    <3>2. CASE actor[w].pc \in PreSend /\ actor[v].pc \in PreSend
      BY <1>1, <3>1, <3>2 DEF SentOnce
    <3>3. CASE Marks(w) /\ Marks(v)
      BY <3>1, <3>3 DEF Marks
    <3>4. CASE actor[w].pc \in PreSend /\ Marks(v)
      BY <1>1, <3>1, <3>4 DEF SentOnce, Marks, NotSent
    <3>5. CASE Marks(w) /\ actor[v].pc \in PreSend
      BY <1>1, <3>1, <3>5 DEF SentOnce, Marks, NotSent
    <3>. QED
      BY <3>1, <3>2, <3>3, <3>4, <3>5
  <2>3. ASSUME NEW w \in Actors, actor'[w].pc \in PreSend
        PROVE  att'[actor'[w].a].state \notin NotSent
    BY <1>12, <2>3
  <2>4. ASSUME NEW x \in remote'.inflight
        PROVE  att'[x].state \notin NotSent /\ del'[att'[x].of].kind # "delete"
    <3>1. x \in Attempts /\ att[x].state \notin NotSent /\ del[att[x].of].kind # "delete"
      BY <1>13
    <3>2. /\ att'[x].state \notin NotSent /\ att[x].state # "none" /\ att'[x].of = att[x].of
      BY <1>5, <3>1 DEF NotSent
    <3>3. att[x].of \in Deliveries
      BY <1>1, <1>3, <3>1, <3>2 DEF AttemptsOK, AttShape
    <3>. QED
      BY <1>4, <3>1, <3>2, <3>3
  <2>. QED
    BY <2>1, <2>2, <2>3, <2>4 DEF SentOnce
<1>15. OneCorrection'
  <2> SUFFICES ASSUME NEW a \in Attempts, NEW b \in Attempts,
                      att'[a].of # Nothing, att'[a].of = att'[b].of,
                      del'[att'[a].of].kind = "correction"
               PROVE  a = b
    BY DEF OneCorrection
  <2>1. att'[a].of \in Deliveries
    BY DEF Types, Attempt
  <2>2. del[att'[a].of].kind = "correction"
    BY <1>4, <2>1
  <2>3. CASE Born(a) /\ Born(b)
    BY <1>2, <2>3
  <2>4. CASE ~Born(a) /\ ~Born(b)
    BY <1>1, <1>5, <2>2, <2>4 DEF OneCorrection
  <2>5. CASE Born(a) /\ ~Born(b)
    <3>1. Of(att'[a].of) = {}
      BY <1>2, <2>2, <2>5 DEF AttLaw, Born, NotSent
    <3>2. att[b].of = att'[a].of
      BY <1>5, <2>5
    <3>. QED
      BY <3>1, <3>2 DEF Of
  <2>6. CASE ~Born(a) /\ Born(b)
    <3>1. Of(att'[b].of) = {}
      BY <1>2, <2>2, <2>6 DEF AttLaw, Born, NotSent
    <3>2. att[a].of = att'[b].of
      BY <1>5, <2>6
    <3>. QED
      BY <3>1, <3>2 DEF Of
  <2>. QED
    BY <2>3, <2>4, <2>5, <2>6
<1>16. ASSUME NEW a \in Attempts, Landed(a)
       PROVE  Landed(a)'
  <2>1. att'[a].state \notin NotSent
    BY <1>5, <1>16 DEF Landed
  <2>2. a \notin remote'.inflight
    BY <1>13, <1>16 DEF Landed, PreSend
  <2>3. ASSUME NEW w \in Actors, actor'[w].pc \in PreSend
        PROVE  actor'[w].a # a
    BY <1>12, <1>16, <2>3 DEF Landed, Marks, NotSent
  <2>. QED
    BY <2>1, <2>2, <2>3 DEF Landed
<1>17. CorrectionLanded'
  <2> SUFFICES ASSUME NEW k \in Deliveries, del'[k].kind = "correction",
                      \/ del'[k].status = "applied"
                      \/ /\ del'[k].status \in Expiring \union {"queued"}
                         /\ Holds(k)' \/ plan'[k] # Nothing
               PROVE  \E a \in Attempts : att'[a].of = k /\ Landed(a)'
    BY DEF CorrectionLanded, Of
  <2>1. \/ del[k].status = "applied"
        \/ /\ del[k].status \in Expiring \union {"queued"}
           /\ Holds(k) \/ plan[k] # Nothing
    BY <1>2, <1>4, <1>6 DEF PlanLaw
  <2>2. \E a \in Of(k) : Landed(a)
    BY <1>1, <1>4, <2>1 DEF CorrectionLanded
  <2>3. PICK a \in Attempts : att[a].of = k /\ Landed(a)
    BY <2>2 DEF Of
  <2>4. att'[a].of = k
    BY <1>5, <2>3 DEF Landed, NotSent
  <2>. QED
    BY <1>16, <2>3, <2>4
<1>18. PathOK'
  <2>1. ASSUME NEW k \in Deliveries, Lineage(k)', del'[k].status \in {"queued", "applied"}
        PROVE  /\ del'[k].kind = "correction" =>
                     remote'.linked # Nothing /\ remote'.nodes[remote'.linked] \in {k - 1, k}
               /\ del'[k].kind = "admit" /\ remote'.linked # Nothing =>
                     remote'.nodes[remote'.linked] = k
               /\ del'[k].status = "applied" => Holds(k)'
    <3>1. Lineage(k) /\ del[k].status \in {"queued", "applied"}
      BY <1>4, <1>7, <2>1
    <3>2. /\ del[k].kind = "correction" =>
                remote.linked # Nothing /\ remote.nodes[remote.linked] \in {k - 1, k}
          /\ del[k].kind = "admit" /\ remote.linked # Nothing =>
                remote.nodes[remote.linked] = k
          /\ del[k].status = "applied" => Holds(k)
      BY <1>1, <3>1 DEF PathOK
    <3>. QED
      BY <1>2, <1>4, <1>6, <3>2 DEF PathSame
  <2>2. ASSUME NEW w \in Actors, actor'[w].pc = "applied", del'[Its(w)'].status = "queued"
        PROVE  Holds(Its(w))'
    <3>1. CASE actor'[w] = actor[w]
      <4>1. Its(w)' = Its(w) /\ Its(w) \in Deliveries
        BY <1>10, <2>2, <3>1
      <4>2. Holds(Its(w))
        BY <1>1, <1>4, <2>2, <3>1, <4>1 DEF PathOK
      <4>. QED
        BY <1>6, <4>1, <4>2
    <3>2. CASE actor'[w] # actor[w]
      <4>1. Its(w)' \in Deliveries /\ (del[Its(w)'].status = "queued" => Holds(Its(w)'))
        BY <1>2, <2>2, <3>2 DEF ActLaw
      <4>2. Holds(Its(w)')
        BY <1>4, <2>2, <4>1
      <4>. QED
        BY <1>2, <1>4, <4>1, <4>2 DEF Holds, Content, PathSame
    <3>. QED
      BY <3>1, <3>2
  <2>. QED
    BY <2>1, <2>2 DEF PathOK
<1>. QED
  BY <1>8, <1>9, <1>11, <1>14, <1>15, <1>17, <1>18 DEF Inv
----------------------------------------------------------------------------
(* The steps that leave the path alone, one by one. *)

\* What the invariant says of a loop that is at work.
LEMMA WorkerFacts ==
    ASSUME Inv, NEW w \in Actors, actor[w].pc # "idle"
    PROVE  /\ actor[w].a \in Attempts /\ Its(w) \in Deliveries
           /\ att[actor[w].a].state # "none" /\ ActorOK(w)
           /\ del[Its(w)].kind \in Kinds \ {"none"} /\ del[Its(w)].status \in Statuses \ {"none"}
           /\ actor[w] = [pc |-> actor[w].pc, a |-> actor[w].a, obs |-> actor[w].obs]
           /\ actor[w].obs \in 0..MaxEpochs
<1>1. Types /\ Chain /\ AttemptsOK /\ ActorsOK
  BY DEF Inv
<1>2. ActorOK(w) /\ actor[w].a \in Attempts /\ att[actor[w].a].state # "none"
  BY <1>1 DEF ActorsOK, ActorOK
<1>3. Its(w) \in Deliveries /\ del[Its(w)].status # "none"
  BY <1>1, <1>2, TypeFacts DEF AttemptsOK, AttShape, Its
<1>4. del[Its(w)].kind \in Kinds \ {"none"} /\ del[Its(w)].status \in Statuses \ {"none"}
  BY <1>1, <1>3, TypeFacts DEF Chain
<1>5. actor[w] = [pc |-> actor[w].pc, a |-> actor[w].a, obs |-> actor[w].obs]
  BY <1>1, TypeFacts DEF Loop
<1>6. actor[w].obs \in 0..MaxEpochs
  BY <1>1, TypeFacts
<1>. QED
  BY <1>2, <1>3, <1>4, <1>5, <1>6

\* A delivery that is not applied is the last one.
LEMMA WaitingIsLast ==
    ASSUME Inv, NEW k \in Deliveries, del[k].status \notin {"none", "applied"}
    PROVE  Lineage(k)
<1>1. \A j, l \in Deliveries : j < l /\ del[l].status # "none" => del[j].status = "applied"
  BY DEF Inv, Chain
<1>2. ASSUME NEW j \in Deliveries, del[j].status # "none"
      PROVE  j <= k
  BY <1>1, <1>2, ConstantFacts
<1>. QED
  BY <1>2 DEF Lineage

LEMMA AttSame ==
    ASSUME Inv, att' = att
    PROVE  \A a \in Attempts : AttLaw(a) /\ ~Born(a)
BY DEF Inv, AttemptsOK, AttLaw, Born

LEMMA DelSame ==
    ASSUME del' = del
    PROVE  \A k \in Deliveries : DelLaw(k)
BY DEF DelLaw

LEMMA PlanSame ==
    ASSUME plan' = plan
    PROVE  \A k \in Deliveries : PlanLaw(k)
BY DEF PlanLaw

LEMMA RemoteSame ==
    ASSUME remote' = remote
    PROVE  PathSame
BY DEF PathSame

\* One loop moves.
LEMMA OneMoves ==
    ASSUME Types, NEW w \in Actors, NEW v, actor' = [actor EXCEPT ![w] = v]
    PROVE  /\ actor'[w] = v
           /\ \A u \in Actors : u # w => actor'[u] = actor[u]
           /\ \A u \in Actors : u # w => ActLaw(u)
           /\ v \in Loop => actor' \in [Actors -> Loop]
BY DEF Types, ActLaw

\* A loop goes to another place with the same attempt, and only reads.
LEMMA PcStep ==
    ASSUME Inv, Types', NEW w \in Actors, actor[w].pc # "idle",
           NEW pc \in PCs, NEW obs \in 0..MaxEpochs,
           actor' = [actor EXCEPT ![w] = [pc |-> pc, a |-> actor[w].a, obs |-> obs]],
           del' = del, att' = att, PathSame, \A k \in Deliveries : PlanLaw(k),
           (pc \in Purge /\ w # "expiry") => del[Its(w)].kind = "delete",
           pc \in {"preflight", "send", "waiting", "readback", "applied", "reject",
                   "look", "first", "second", "authorize"} => del[Its(w)].kind # "delete",
           pc \in {"mark", "first", "second", "authorize"} => obs >= 1,
           (pc \in {"second", "authorize"} /\ del[Its(w)].kind = "correction")
               => del[Its(w)].status # "queued",
           pc \in PreSend => actor[w].pc \in PreSend,
           (pc = "applied" /\ del[Its(w)].status = "queued") => Holds(Its(w))
    PROVE  Inv' /\ Law
<1> DEFINE v == [pc |-> pc, a |-> actor[w].a, obs |-> obs]
<1>1. v.pc = pc /\ v.a = actor[w].a /\ v.obs = obs
  OBVIOUS
<1>2. actor'[w] = v /\ \A u \in Actors : u # w => ActLaw(u)
  BY OneMoves DEF Inv
<1> HIDE DEF v
<1>3. /\ actor[w].a \in Attempts /\ Its(w) \in Deliveries
      /\ att[actor[w].a].state # "none" /\ ActorOK(w)
  BY WorkerFacts
<1>4. Its(w)' = Its(w)
  BY <1>1, <1>2 DEF Its
<1>5. ActorOK(w)'
  BY <1>1, <1>2, <1>3, <1>4 DEF ActorOK
<1>6. ActLaw(w)
  BY <1>1, <1>2, <1>3, <1>4, <1>5 DEF ActLaw
<1>7. Law
  BY <1>2, <1>6, AttSame, DelSame DEF Law
<1>. QED
  BY <1>7, LawKeeps

\* Everybody stays where he is or goes home, rows move along their laws.
LEMMA HomeStep ==
    ASSUME Inv, Types', PathSame,
           \A k \in Deliveries : DelLaw(k) /\ PlanLaw(k),
           \A a \in Attempts : AttLaw(a) /\ ~Born(a),
           \A w \in Actors : actor'[w] = actor[w] \/ actor'[w].pc = "idle"
    PROVE  Inv' /\ Law
<1>1. Law
  BY DEF Law, ActLaw
<1>. QED
  BY <1>1, LawKeeps

\* Goto and Return.
LEMMA GotoFacts ==
    ASSUME Types, NEW w \in Actors, NEW pc \in PCs, Goto(w, pc)
    PROVE  /\ actor' = [actor EXCEPT ![w] = [pc |-> pc, a |-> actor[w].a, obs |-> actor[w].obs]]
           /\ actor' \in [Actors -> Loop]
<1>1. actor[w] \in Loop /\ actor \in [Actors -> Loop]
  BY DEF Types
<1>2. [actor[w] EXCEPT !.pc = pc] = [pc |-> pc, a |-> actor[w].a, obs |-> actor[w].obs]
  BY <1>1 DEF Loop
<1>3. actor' = [actor EXCEPT ![w] = [actor[w] EXCEPT !.pc = pc]]
  BY DEF Goto
<1>4. actor' = [actor EXCEPT ![w] = [pc |-> pc, a |-> actor[w].a, obs |-> actor[w].obs]]
  BY <1>2, <1>3
<1>5. [pc |-> pc, a |-> actor[w].a, obs |-> actor[w].obs] \in Loop
  BY <1>1 DEF Loop
<1>. QED
  BY <1>1, <1>4, <1>5

LEMMA ReturnFacts ==
    ASSUME Types, NEW w \in Actors, Return(w)
    PROVE  /\ actor' \in [Actors -> Loop] /\ actor'[w] = Idle
           /\ \A u \in Actors : actor'[u] = actor[u] \/ actor'[u].pc = "idle"
<1>1. Idle \in Loop /\ Idle.pc = "idle"
  BY ConstantFacts DEF Idle, Loop, PCs, Nothing
<1>. QED
  BY <1>1 DEF Types, Return
LEMMA FaultType ==
    ASSUME Types, Fault
    PROVE  faults' \in 0..MaxFaults
BY ConstantFacts DEF Types, Fault

\* The read only steps of the consumer.
LEMMA CapabilitiesInv ==
    ASSUME Inv, NEW w \in Actors, Capabilities(w) \/ LookEpoch(w)
    PROVE  Inv' /\ Law
<1> DEFINE pc == IF At(w, "caps") THEN "mark" ELSE "first"
           v == [pc |-> pc, a |-> actor[w].a, obs |-> remote.epoch]
<1>1. Types /\ actor[w] \in Loop /\ actor[w].pc # "idle" /\ remote.epoch \in 1..MaxEpochs
  BY TypeFacts DEF Inv, Capabilities, LookEpoch, At
<1>2. UNCHANGED <<del, msg, att, row, plan, remote, unrecorded, faults>>
  BY DEF Capabilities, LookEpoch
<1>3. /\ actor[w].pc = "caps" \/ actor[w].pc = "look"
      /\ actor' = [actor EXCEPT ![w].pc = pc, ![w].obs = remote.epoch]
  BY DEF Capabilities, LookEpoch, At
<1>4. pc \in {"mark", "first"} /\ (pc = "first" => actor[w].pc = "look")
  BY <1>3 DEF At
<1> HIDE DEF pc
<1>5. [[actor[w] EXCEPT !.pc = pc] EXCEPT !.obs = remote.epoch] = v
  <2> DEFINE f == [actor[w] EXCEPT !.pc = pc]
  <2>1. f \in Loop /\ f.pc = pc /\ f.a = actor[w].a
    BY <1>1, <1>4 DEF Loop, PCs
  <2> HIDE DEF f
  <2>2. [f EXCEPT !.obs = remote.epoch] = [pc |-> f.pc, a |-> f.a, obs |-> remote.epoch]
    BY <2>1 DEF Loop
  <2>. QED
    BY <2>1, <2>2 DEF f
<1>6. actor' = [actor EXCEPT ![w] = v]
  BY <1>1, <1>3, <1>5 DEF Types
<1>7. v \in Loop /\ remote.epoch \in 0..MaxEpochs /\ remote.epoch >= 1
  BY <1>1, <1>4, ConstantFacts DEF Loop, PCs
<1>8. Types'
  BY <1>1, <1>2, <1>6, <1>7, OneMoves DEF Types
<1>9. ActorOK(w)
  BY <1>1, WorkerFacts
<1>10. pc = "first" => del[Its(w)].kind # "delete"
  BY <1>1, <1>4, <1>9 DEF ActorOK
<1>11. PathSame /\ \A k \in Deliveries : PlanLaw(k)
  BY <1>2, RemoteSame, PlanSame
<1>12. pc \in PCs /\ pc \notin PreSend /\ pc # "applied" /\ pc \notin Purge
       /\ pc \notin {"second", "authorize"}
  BY <1>4 DEF PCs, PreSend, Purge
<1>. QED
  BY <1>1, <1>2, <1>4, <1>6, <1>7, <1>8, <1>10, <1>11, <1>12, PcStep

\* A move of one loop that touches nothing else.
LEMMA GotoInv ==
    ASSUME Inv, NEW w \in Actors, actor[w].pc # "idle", NEW pc \in PCs, Goto(w, pc),
           UNCHANGED <<del, msg, att, row, remote, unrecorded>>, faults' \in 0..MaxFaults,
           plan' \in [Deliveries -> Attempts \union {Nothing}],
           \A k \in Deliveries : PlanLaw(k),
           (pc \in Purge /\ w # "expiry") => del[Its(w)].kind = "delete",
           pc \in {"preflight", "send", "waiting", "readback", "applied", "reject",
                   "look", "first", "second", "authorize"} => del[Its(w)].kind # "delete",
           pc \in {"mark", "first", "second", "authorize"} => actor[w].obs >= 1,
           (pc \in {"second", "authorize"} /\ del[Its(w)].kind = "correction")
               => del[Its(w)].status # "queued",
           pc \in PreSend => actor[w].pc \in PreSend,
           (pc = "applied" /\ del[Its(w)].status = "queued") => Holds(Its(w))
    PROVE  Inv' /\ Law
<1>1. Types /\ actor[w].obs \in 0..MaxEpochs
  BY TypeFacts DEF Inv
<1>2. /\ actor' = [actor EXCEPT ![w] = [pc |-> pc, a |-> actor[w].a, obs |-> actor[w].obs]]
      /\ actor' \in [Actors -> Loop]
  BY <1>1, GotoFacts
<1>3. Types'
  BY <1>1, <1>2 DEF Types
<1>4. PathSame
  BY RemoteSame
<1>. QED
  BY <1>1, <1>2, <1>3, <1>4, PcStep

\* One loop goes home and nothing else happens.
LEMMA ReturnInv ==
    ASSUME Inv, NEW w \in Actors, Return(w),
           UNCHANGED <<del, msg, att, row, plan, remote, unrecorded>>, faults' \in 0..MaxFaults
    PROVE  Inv' /\ Law
<1>1. Types
  BY DEF Inv
<1>2. /\ actor' \in [Actors -> Loop]
      /\ \A u \in Actors : actor'[u] = actor[u] \/ actor'[u].pc = "idle"
  BY <1>1, ReturnFacts
<1>3. Types'
  BY <1>1, <1>2 DEF Types
<1>. QED
  BY <1>2, <1>3, AttSame, DelSame, PlanSame, RemoteSame, HomeStep

LEMMA PurgeFailedInv ==
    ASSUME Inv, NEW w \in Actors, actor[w].pc # "idle", PurgeFailed(w),
           UNCHANGED <<del, msg, att, row, plan, remote, unrecorded>>, faults' \in 0..MaxFaults
    PROVE  Inv' /\ Law
<1>1. CASE Return(w)
  BY <1>1, ReturnInv
<1>2. CASE Goto(w, "unknown")
  <2>1. plan' \in [Deliveries -> Attempts \union {Nothing}]
    BY DEF Inv, Types
  <2>2. /\ "unknown" \in PCs /\ "unknown" \notin Purge /\ "unknown" \notin PreSend
        /\ "unknown" \notin {"mark", "first", "second", "authorize"}
        /\ "unknown" \notin {"preflight", "send", "waiting", "readback", "applied", "reject",
                             "look", "first", "second", "authorize"}
    BY DEF PCs, Purge, PreSend
  <2>. QED
    BY <1>2, <2>1, <2>2, PlanSame, GotoInv
<1>. QED
  BY <1>1, <1>2 DEF PurgeFailed

LEMMA PreflightInv ==
    ASSUME Inv, NEW w \in Actors, Preflight(w)
    PROVE  Inv' /\ Law
<1> DEFINE pc == CASE Holds(Its(w)) -> "applied"
                   [] ~Holds(Its(w)) /\ Sendable(Its(w)) -> "send"
                   [] OTHER -> "reject"
<1>1. /\ actor[w].pc = "preflight" /\ Goto(w, pc)
      /\ UNCHANGED <<del, msg, att, row, plan, remote, unrecorded, faults>>
  BY DEF Preflight, At
<1>2. pc \in {"applied", "send", "reject"} /\ (pc = "applied" => Holds(Its(w)))
  OBVIOUS
<1> HIDE DEF pc
<1>3. del[Its(w)].kind # "delete"
  BY <1>1, WorkerFacts DEF ActorOK
<1>4. /\ plan' \in [Deliveries -> Attempts \union {Nothing}] /\ faults' \in 0..MaxFaults
      /\ \A k \in Deliveries : PlanLaw(k)
  BY <1>1, PlanSame DEF Inv, Types
<1>5. pc \in PCs /\ pc \notin Purge /\ actor[w].pc \in PreSend /\ actor[w].pc # "idle"
      /\ pc \notin {"mark", "first", "second", "authorize"}
  BY <1>1, <1>2 DEF PCs, Purge, PreSend
<1>. QED
  BY <1>1, <1>2, <1>3, <1>4, <1>5, GotoInv

LEMMA ReadbackInv ==
    ASSUME Inv, NEW w \in Actors, Readback(w)
    PROVE  Inv' /\ Law
<1> DEFINE pc == IF Holds(Its(w)) THEN "applied" ELSE "unknown"
<1>1. /\ actor[w].pc = "readback" /\ Goto(w, pc)
      /\ UNCHANGED <<del, msg, att, row, plan, remote, unrecorded, faults>>
  BY DEF Readback, At
<1>2. pc \in {"applied", "unknown"} /\ (pc = "applied" => Holds(Its(w)))
  OBVIOUS
<1> HIDE DEF pc
<1>3. del[Its(w)].kind # "delete"
  BY <1>1, WorkerFacts DEF ActorOK
<1>4. /\ plan' \in [Deliveries -> Attempts \union {Nothing}] /\ faults' \in 0..MaxFaults
      /\ \A k \in Deliveries : PlanLaw(k)
  BY <1>1, PlanSame DEF Inv, Types
<1>5. pc \in PCs /\ pc \notin Purge /\ pc \notin PreSend /\ actor[w].pc # "idle"
      /\ pc \notin {"mark", "first", "second", "authorize"}
  BY <1>1, <1>2 DEF PCs, Purge, PreSend
<1>. QED
  BY <1>1, <1>2, <1>3, <1>4, <1>5, GotoInv
LEMMA FirstReadInv ==
    ASSUME Inv, NEW w \in Actors, FirstRead(w)
    PROVE  Inv' /\ Law
<1>1. /\ actor[w].pc = "first" /\ actor[w].pc # "idle"
      /\ UNCHANGED <<del, msg, att, row, plan, remote, unrecorded, faults>>
  BY DEF FirstRead, At
<1>2. /\ del[Its(w)].kind # "delete" /\ actor[w].obs >= 1 /\ Its(w) \in Deliveries
      /\ del[Its(w)].kind \in Kinds \ {"none"}
  BY <1>1, WorkerFacts DEF ActorOK
<1>3. /\ plan' \in [Deliveries -> Attempts \union {Nothing}] /\ faults' \in 0..MaxFaults
      /\ \A k \in Deliveries : PlanLaw(k)
  BY <1>1, PlanSame DEF Inv, Types
\* a correction that waits has a path
<1>4. ASSUME Absent, del[Its(w)].kind = "correction"
      PROVE  del[Its(w)].status # "queued"
  <2> SUFFICES ASSUME del[Its(w)].status = "queued"
               PROVE  FALSE
    OBVIOUS
  <2>1. Lineage(Its(w))
    BY <1>2, WaitingIsLast
  <2>. QED
    BY <1>2, <1>4, <2>1 DEF Inv, PathOK, Absent
<1>5. ASSUME NEW pc \in {"found", "applied", "conflict", "second"}, Goto(w, pc),
             pc = "applied" => Holds(Its(w)), pc = "second" => Absent
      PROVE  Inv' /\ Law
  <2>1. pc \in PCs /\ pc \notin Purge /\ pc \notin PreSend
    BY DEF PCs, Purge, PreSend
  <2>2. (pc \in {"second", "authorize"} /\ del[Its(w)].kind = "correction")
           => del[Its(w)].status # "queued"
    BY <1>4, <1>5
  <2>. QED
    BY <1>1, <1>2, <1>3, <1>5, <2>1, <2>2, GotoInv
<1>6. CASE Return(w)
  BY <1>1, <1>3, <1>6, ReturnInv
<1>7. \/ Return(w)
      \/ Goto(w, "found") \/ (Goto(w, "applied") /\ Holds(Its(w)))
      \/ Goto(w, "conflict") \/ (Goto(w, "second") /\ Absent)
  BY DEF FirstRead
<1>. QED
  BY <1>5, <1>6, <1>7

LEMMA SecondReadInv ==
    ASSUME Inv, NEW w \in Actors, SecondRead(w)
    PROVE  Inv' /\ Law
<1>1. /\ actor[w].pc = "second" /\ actor[w].pc # "idle"
      /\ UNCHANGED <<del, msg, att, row, plan, remote, unrecorded, faults>>
  BY DEF SecondRead, At
<1>2. /\ del[Its(w)].kind # "delete" /\ actor[w].obs >= 1
      /\ del[Its(w)].kind = "correction" => del[Its(w)].status # "queued"
  BY <1>1, WorkerFacts DEF ActorOK
<1>3. /\ plan' \in [Deliveries -> Attempts \union {Nothing}] /\ faults' \in 0..MaxFaults
      /\ \A k \in Deliveries : PlanLaw(k)
  BY <1>1, PlanSame DEF Inv, Types
<1>5. ASSUME NEW pc \in {"absent", "authorize", "applied"}, Goto(w, pc),
             pc = "applied" => Holds(Its(w))
      PROVE  Inv' /\ Law
  <2>1. pc \in PCs /\ pc \notin Purge /\ pc \notin PreSend
    BY DEF PCs, Purge, PreSend
  <2>. QED
    BY <1>1, <1>2, <1>3, <1>5, <2>1, GotoInv
<1>6. CASE Return(w)
  BY <1>1, <1>3, <1>6, ReturnInv
<1>7. \/ Return(w) \/ Goto(w, "absent") \/ Goto(w, "authorize")
      \/ (Goto(w, "applied") /\ Holds(Its(w)))
  BY DEF SecondRead
<1>. QED
  BY <1>5, <1>6, <1>7

LEMMA SavePlanInv ==
    ASSUME Inv, NEW w \in Actors, SavePlan(w)
    PROVE  Inv' /\ Law
<1>1. /\ actor[w].pc = "plan" /\ actor[w].pc # "idle"
      /\ UNCHANGED <<del, msg, att, row, remote, unrecorded, faults>>
  BY DEF SavePlan, At
<1>2. /\ w # "expiry" => del[Its(w)].kind = "delete"
      /\ Its(w) \in Deliveries
  BY <1>1, WorkerFacts DEF ActorOK, Purge
<1>3. faults' \in 0..MaxFaults /\ plan \in [Deliveries -> Attempts \union {Nothing}]
  BY <1>1 DEF Inv, Types
<1>4. CASE PurgeFailed(w) /\ UNCHANGED plan
  BY <1>1, <1>3, <1>4, PurgeFailedInv
<1>5. ASSUME Goto(w, "unlink"), plan' \in [Deliveries -> Attempts \union {Nothing}],
             \A k \in Deliveries : PlanLaw(k)
      PROVE  Inv' /\ Law
  <2>1. /\ "unlink" \in PCs /\ "unlink" \notin PreSend
        /\ "unlink" \notin {"mark", "first", "second", "authorize"}
        /\ "unlink" \notin {"preflight", "send", "waiting", "readback", "applied", "reject",
                             "look", "first", "second", "authorize"}
    BY DEF PCs, PreSend
  <2>. QED
    BY <1>1, <1>2, <1>3, <1>5, <2>1, GotoInv
<1>6. CASE Goto(w, "unlink") /\ UNCHANGED plan
  BY <1>3, <1>5, <1>6, PlanSame
<1>7. CASE /\ Holds(Its(w)) /\ del[Its(w)].status \in {"expiry_reconciling", "delete_pending"}
           /\ plan' = [plan EXCEPT ![Its(w)] = remote.linked]
           /\ Goto(w, "unlink")
  <2>1. remote.linked \in Attempts \union {Nothing}
    BY TypeFacts DEF Inv
  <2>2. plan' \in [Deliveries -> Attempts \union {Nothing}]
    BY <1>2, <1>3, <1>7, <2>1
  <2>3. \A k \in Deliveries : PlanLaw(k)
    BY <1>3, <1>7 DEF PlanLaw
  <2>. QED
    BY <1>5, <1>7, <2>2, <2>3
<1>. QED
  BY <1>4, <1>6, <1>7 DEF SavePlan

LEMMA VerifyAbsentInv ==
    ASSUME Inv, NEW w \in Actors, VerifyAbsent(w)
    PROVE  Inv' /\ Law
<1>1. /\ actor[w].pc = "verify" /\ actor[w].pc # "idle"
      /\ UNCHANGED <<del, msg, att, row, plan, remote, unrecorded, faults>>
  BY DEF VerifyAbsent, At
<1>2. w # "expiry" => del[Its(w)].kind = "delete"
  BY <1>1, WorkerFacts DEF ActorOK, Purge
<1>3. /\ plan' \in [Deliveries -> Attempts \union {Nothing}] /\ faults' \in 0..MaxFaults
      /\ \A k \in Deliveries : PlanLaw(k)
  BY <1>1, PlanSame DEF Inv, Types
<1>4. CASE PurgeFailed(w)
  BY <1>1, <1>3, <1>4, PurgeFailedInv
<1>5. CASE Goto(w, "purged")
  <2>1. /\ "purged" \in PCs /\ "purged" \notin PreSend
        /\ "purged" \notin {"mark", "first", "second", "authorize"}
        /\ "purged" \notin {"preflight", "send", "waiting", "readback", "applied", "reject",
                             "look", "first", "second", "authorize"}
    BY DEF PCs, PreSend
  <2>. QED
    BY <1>1, <1>2, <1>3, <1>5, <2>1, GotoInv
<1>. QED
  BY <1>4, <1>5 DEF VerifyAbsent

\* Calls that fail.
LEMMA CallFailsInv ==
    ASSUME Inv, NEW w \in Actors, CallFails(w) \/ CallRejected(w)
    PROVE  Inv' /\ Law
<1>1. /\ Fault /\ UNCHANGED <<del, msg, att, row, plan, remote, unrecorded>>
      /\ actor[w].pc # "idle"
  BY DEF CallFails, CallRejected
<1>2. faults' \in 0..MaxFaults
  BY <1>1, FaultType DEF Inv
<1>3. /\ plan' \in [Deliveries -> Attempts \union {Nothing}]
      /\ \A k \in Deliveries : PlanLaw(k)
  BY <1>1, PlanSame DEF Inv, Types
<1>4. CASE PurgeFailed(w)
  BY <1>1, <1>2, <1>4, PurgeFailedInv
<1>5. CASE Return(w)
  BY <1>1, <1>2, <1>5, ReturnInv
<1>6. ASSUME NEW pc \in {"unknown", "reject"}, Goto(w, pc),
             pc = "reject" => del[Its(w)].kind # "delete"
      PROVE  Inv' /\ Law
  <2>1. pc \in PCs /\ pc \notin Purge /\ pc \notin PreSend
        /\ pc \notin {"mark", "first", "second", "authorize"}
    BY DEF PCs, Purge, PreSend
  <2>. QED
    BY <1>1, <1>2, <1>3, <1>6, <2>1, GotoInv
<1>7. CASE Goto(w, "unknown")
  BY <1>6, <1>7
<1>8. CASE Goto(w, "reject") /\ actor[w].pc \in {"preflight", "send", "readback"}
  <2>1. del[Its(w)].kind # "delete"
    BY <1>1, <1>8, WorkerFacts DEF ActorOK
  <2>. QED
    BY <1>6, <1>8, <2>1
<1>. QED
  BY <1>4, <1>5, <1>7, <1>8 DEF CallFails, CallRejected
LEMMA ClosedFacts ==
    ASSUME NEW t \in Attempt, NEW s \in AttStates
    PROVE  /\ Closed(t, s) \in Attempt /\ Closed(t, s).state = s /\ Closed(t, s).of = t.of
           /\ Closed(t, s).holder = "nobody" /\ Closed(t, s).epoch = t.epoch
           /\ Closed(t, s).live = FALSE
BY DEF Closed, Attempt

\* ExpireDelivery of a delivery that waits: its open attempts are fenced.
LEMMA ExpireFacts ==
    ASSUME Inv, NEW k \in Deliveries, del[k].status = "queued", ExpireDelivery(k)
    PROVE  /\ del' \in [Deliveries -> Delivery] /\ att' \in [Attempts -> Attempt]
           /\ row' \in [Attempts -> Reconciliation]
           /\ msg' \in [Deliveries -> {"none", "open", "dead", "closed"}]
           /\ \A j \in Deliveries : DelLaw(j)
           /\ \A j \in Deliveries : j # k => del'[j] = del[j]
           /\ del'[k].status \in Expiring /\ del'[k].kind = del[k].kind
           /\ \A a \in Attempts : AttLaw(a) /\ ~Born(a)
           /\ \A a \in Attempts : (a \in Of(k) /\ Open(a)) => att'[a].state = "fenced"
           /\ \A a \in Attempts : att'[a].of = att[a].of
<1>1. Types /\ AttemptsOK
  BY DEF Inv
<1>2. PICK s \in Expiring : del' = [del EXCEPT ![k].status = s]
  BY DEF ExpireDelivery, Expiring
<1>3. /\ del' \in [Deliveries -> Delivery] /\ del'[k].status = s /\ del'[k].kind = del[k].kind
      /\ \A j \in Deliveries : j # k => del'[j] = del[j]
  BY <1>1, <1>2 DEF Types, Delivery, Expiring, Statuses
<1>4. \A j \in Deliveries : DelLaw(j)
  BY <1>3 DEF DelLaw
<1>5. msg' \in [Deliveries -> {"none", "open", "dead", "closed"}]
  BY <1>1 DEF ExpireDelivery, Types
<1>6. [NoRow EXCEPT !.status = "pending"] \in Reconciliation
  BY DEF NoRow, Reconciliation, RowStatuses
<1>7. row' \in [Attempts -> Reconciliation]
  BY <1>1, <1>6 DEF ExpireDelivery, Types
<1>8. ASSUME NEW a \in Attempts, a \in Of(k), Open(a)
      PROVE  /\ att'[a] \in Attempt /\ att'[a].state = "fenced" /\ att'[a].of = att[a].of
             /\ AttLaw(a) /\ ~Born(a)
  <2>1. att[a] \in Attempt /\ "fenced" \in AttStates
    BY <1>1, TypeFacts DEF AttStates
  <2>2. att'[a] = Closed(att[a], "fenced")
    BY <1>8 DEF ExpireDelivery
  <2> DEFINE t == Closed(att[a], "fenced")
  <2>a. /\ t \in Attempt /\ t.state = "fenced" /\ t.of = att[a].of
        /\ t.holder = "nobody" /\ t.epoch = att[a].epoch
    BY <2>1, ClosedFacts
  <2> HIDE DEF t
  <2>3. /\ att'[a] \in Attempt /\ att'[a].state = "fenced" /\ att'[a].of = att[a].of
        /\ att'[a].holder = "nobody" /\ att'[a].epoch = att[a].epoch
    BY <2>2, <2>a DEF t
  <2>4. AttShape(att[a])
    BY <1>1 DEF AttemptsOK
  <2>5. AttShape(att'[a])
    BY <1>8, <2>3, <2>4 DEF AttShape, Open
  <2>6. att[a].state = "prepared" \/ att[a].state \notin NotSent
    BY <1>8 DEF Open, NotSent
  <2>7. att'[a].state \notin NotSent /\ att[a].state # "none"
    BY <2>3, <2>6 DEF NotSent
  <2>8. AttLaw(a)
    BY <2>3, <2>5, <2>6, <2>7 DEF AttLaw
  <2>9. ~Born(a)
    BY <2>7 DEF Born
  <2>. QED
    BY <2>3, <2>8, <2>9
<1>9. ASSUME NEW a \in Attempts, ~(a \in Of(k) /\ Open(a))
      PROVE  att'[a] = att[a] /\ AttLaw(a) /\ ~Born(a)
  <2>1. att'[a] = att[a]
    BY <1>9 DEF ExpireDelivery
  <2>. QED
    BY <1>1, <2>1 DEF AttemptsOK, AttLaw, Born
<1>10. att' \in [Attempts -> Attempt]
  <2>1. att' = [a \in Attempts |-> att'[a]]
    BY DEF ExpireDelivery
  <2>2. \A a \in Attempts : att[a] \in Attempt
    BY <1>1, TypeFacts
  <2>3. \A a \in Attempts : att'[a] \in Attempt
    BY <1>8, <1>9, <2>2
  <2>. QED
    BY <2>1, <2>3
<1>11. \A a \in Attempts : AttLaw(a) /\ ~Born(a) /\ att'[a].of = att[a].of
  BY <1>8, <1>9
<1>. QED
  BY <1>3, <1>4, <1>5, <1>7, <1>8, <1>10, <1>11

LEMMA ExpireDeliveriesInv ==
    ASSUME Inv, NEW k \in Deliveries, ExpireDeliveries(k)
    PROVE  Inv' /\ Law
<1>1. /\ del[k].status = "queued" /\ ExpireDelivery(k)
      /\ UNCHANGED <<plan, remote, actor, unrecorded, faults>>
  BY DEF ExpireDeliveries
<1>2. Types'
  BY <1>1, ExpireFacts DEF Inv, Types
<1>. QED
  BY <1>1, <1>2, ExpireFacts, PlanSame, RemoteSame, HomeStep

\* One attempt changes.
LEMMA OneAttempt ==
    ASSUME Inv, NEW a \in Attempts, NEW t \in Attempt, att' = [att EXCEPT ![a] = t]
    PROVE  /\ att' \in [Attempts -> Attempt] /\ att'[a] = t
           /\ \A b \in Attempts : b # a => att'[b] = att[b] /\ AttLaw(b) /\ ~Born(b)
<1>1. Types /\ AttemptsOK
  BY DEF Inv
<1>2. att' \in [Attempts -> Attempt] /\ att'[a] = t /\ \A b \in Attempts : b # a => att'[b] = att[b]
  BY <1>1 DEF Types
<1>. QED
  BY <1>1, <1>2 DEF AttemptsOK, AttLaw, Born

\* Finalize reports a delivery that waits under the lease of the attempt.
LEMMA FinalizeInv ==
    ASSUME Inv, NEW w \in Actors, NEW pc, NEW status,
           Finalize(w, pc, status), pc # "idle",
           \/ pc = "applied" /\ status = "applied"
           \/ pc = "reject" /\ status = "permanently_rejected"
           \/ pc = "purged" /\ status = "deleted" /\ w # "expiry"
    PROVE  Inv' /\ Law
<1> DEFINE a == actor[w].a
           from == {"sent", "reconciling"}
           t == Closed(att[a], "confirmed")
<1>1. /\ actor[w].pc = pc /\ Return(w)
      /\ UNCHANGED <<plan, remote, unrecorded, faults>>
  BY DEF Finalize, At
<1>2. /\ a \in Attempts /\ Its(w) \in Deliveries /\ att[a].state # "none" /\ ActorOK(w)
      /\ Types /\ Chain /\ AttemptsOK
  BY <1>1, WorkerFacts DEF Inv
<1>3. /\ actor' \in [Actors -> Loop]
      /\ \A u \in Actors : actor'[u] = actor[u] \/ actor'[u].pc = "idle"
  BY <1>1, <1>2, ReturnFacts
<1>4. (\A k \in Deliveries : PlanLaw(k)) /\ PathSame
  BY <1>1, PlanSame, RemoteSame
<1>5. CASE UNCHANGED <<del, msg, att, row>>
  BY <1>1, <1>2, <1>5, ReturnInv DEF Types
<1>6. CASE Lapses(w, from) /\ ExpireDelivery(Its(w))
  <2>1. del[Its(w)].status = "queued"
    BY <1>6 DEF Lapses, Its
  <2>2. Types'
    BY <1>1, <1>2, <1>3, <1>6, <2>1, ExpireFacts DEF Types
  <2>. QED
    BY <1>2, <1>3, <1>4, <1>6, <2>1, <2>2, ExpireFacts, HomeStep
<1>7. CASE /\ May(w, from)
           /\ del' = [del EXCEPT ![Its(w)].status = status]
           /\ att' = [att EXCEPT ![a] = t]
           /\ UNCHANGED <<msg, row>>
  <2>1. att[a] \in Attempt /\ "confirmed" \in AttStates /\ AttShape(att[a])
    BY <1>2, TypeFacts DEF AttStates, AttemptsOK
  <2>2. /\ t \in Attempt /\ t.state = "confirmed" /\ t.of = att[a].of
        /\ t.holder = "nobody" /\ t.epoch = att[a].epoch
    BY <2>1, ClosedFacts
  <2>3. att[a].state \in from /\ del[Its(w)].status \in {"queued", "delete_pending"}
    BY <1>7 DEF May, ForMutation, Active, Its
  <2> HIDE DEF a, t
  <2>4. /\ att' \in [Attempts -> Attempt] /\ att'[a] = t
        /\ \A b \in Attempts : b # a => AttLaw(b) /\ ~Born(b)
    BY <1>2, <1>7, <2>2, OneAttempt
  <2>5. AttShape(t)
    BY <2>1, <2>2, <2>3 DEF AttShape
  <2>6. AttLaw(a) /\ ~Born(a)
    BY <2>2, <2>3, <2>4, <2>5 DEF AttLaw, Born, NotSent
  <2>7. status \in Statuses
    BY DEF Statuses
  <2>8. /\ del' \in [Deliveries -> Delivery]
        /\ del'[Its(w)].status = status /\ del'[Its(w)].kind = del[Its(w)].kind
        /\ \A k \in Deliveries : k # Its(w) => del'[k] = del[k]
    BY <1>2, <1>7, <2>7 DEF Types, Delivery
  <2>9. DelLaw(Its(w))
    <3>1. del[Its(w)].kind = "delete" <=> del[Its(w)].status \in Deleting
      BY <1>2 DEF Chain
    <3>2. pc \in {"applied", "reject"} => del[Its(w)].kind # "delete"
      BY <1>1, <1>2 DEF ActorOK
    <3>3. pc = "purged" => del[Its(w)].kind = "delete"
      BY <1>1, <1>2 DEF ActorOK, Purge
    <3>4. pc = "applied" /\ del[Its(w)].status = "queued" => Holds(Its(w))
      BY <1>1 DEF Inv, PathOK
    <3>. QED
      BY <2>3, <2>8, <3>1, <3>2, <3>3, <3>4 DEF DelLaw, Deleting, Expiring
  <2>10. \A k \in Deliveries : DelLaw(k)
    BY <2>8, <2>9 DEF DelLaw
  <2>11. Types'
    BY <1>1, <1>2, <1>3, <1>7, <2>4, <2>8 DEF Types
  <2>12. \A b \in Attempts : AttLaw(b) /\ ~Born(b)
    BY <2>4, <2>6
  <2>. QED
    BY <1>3, <1>4, <2>10, <2>11, <2>12, HomeStep
<1>. QED
  BY <1>5, <1>6, <1>7 DEF Finalize

LEMMA MarkUnknownInv ==
    ASSUME Inv, NEW w \in Actors, MarkUnknown(w)
    PROVE  Inv' /\ Law
<1> DEFINE a == actor[w].a
           t == [att[a] EXCEPT !.state = "unknown"]
<1>1. /\ actor[w].pc = "unknown" /\ actor[w].pc # "idle" /\ Return(w)
      /\ UNCHANGED <<plan, remote, unrecorded, faults>>
  BY DEF MarkUnknown, At
<1>2. /\ a \in Attempts /\ Its(w) \in Deliveries /\ Types /\ AttemptsOK
  BY <1>1, WorkerFacts DEF Inv
<1>3. /\ actor' \in [Actors -> Loop]
      /\ \A u \in Actors : actor'[u] = actor[u] \/ actor'[u].pc = "idle"
  BY <1>1, <1>2, ReturnFacts
<1>4. (\A k \in Deliveries : PlanLaw(k)) /\ PathSame
  BY <1>1, PlanSame, RemoteSame
<1>5. CASE UNCHANGED <<del, msg, att, row>>
  BY <1>1, <1>2, <1>5, ReturnInv DEF Types
<1>6. CASE Lapses(w, {"sent"}) /\ ExpireDelivery(Its(w))
  <2>1. del[Its(w)].status = "queued"
    BY <1>6 DEF Lapses, Its
  <2>2. Types'
    BY <1>1, <1>2, <1>3, <1>6, <2>1, ExpireFacts DEF Types
  <2>. QED
    BY <1>2, <1>3, <1>4, <1>6, <2>1, <2>2, ExpireFacts, HomeStep
<1>7. CASE /\ May(w, {"sent"})
           /\ att' = [att EXCEPT ![a].state = "unknown"]
           /\ UNCHANGED <<del, msg, row>>
  <2>1. att[a] \in Attempt /\ "unknown" \in AttStates /\ AttShape(att[a])
    BY <1>2, TypeFacts DEF AttStates, AttemptsOK
  <2>2. /\ t \in Attempt /\ t.state = "unknown" /\ t.of = att[a].of
        /\ t.holder = att[a].holder /\ t.epoch = att[a].epoch
    BY <2>1 DEF Attempt
  <2>3. att[a].state = "sent"
    BY <1>7 DEF May
  <2>4. att' = [att EXCEPT ![a] = t]
    BY <1>7
  <2> HIDE DEF a, t
  <2>5. /\ att' \in [Attempts -> Attempt] /\ att'[a] = t
        /\ \A b \in Attempts : b # a => AttLaw(b) /\ ~Born(b)
    BY <1>2, <2>2, <2>4, OneAttempt
  <2>6. AttShape(t)
    BY <2>1, <2>2, <2>3 DEF AttShape
  <2>7. AttLaw(a) /\ ~Born(a)
    BY <2>2, <2>3, <2>5, <2>6 DEF AttLaw, Born, NotSent
  <2>8. Types'
    BY <1>1, <1>2, <1>3, <1>7, <2>5 DEF Types
  <2>9. (\A k \in Deliveries : DelLaw(k)) /\ \A b \in Attempts : AttLaw(b) /\ ~Born(b)
    BY <1>7, <2>5, <2>7, DelSame
  <2>. QED
    BY <1>3, <1>4, <2>8, <2>9, HomeStep
<1>. QED
  BY <1>5, <1>6, <1>7 DEF MarkUnknown
LEMMA SendInv ==
    ASSUME Inv, NEW w \in Actors, Send(w)
    PROVE  Inv' /\ Law
<1>1. /\ actor[w].pc = "send" /\ actor[w].pc # "idle" /\ Goto(w, "waiting")
      /\ remote' = [remote EXCEPT !.inflight = @ \union {actor[w].a}]
      /\ unrecorded' \in BOOLEAN
      /\ UNCHANGED <<del, msg, att, row, plan, faults>>
  BY DEF Send, At
<1>2. /\ actor[w].a \in Attempts /\ del[Its(w)].kind # "delete" /\ Types
      /\ actor[w].obs \in 0..MaxEpochs /\ remote \in Sidecar
  BY <1>1, WorkerFacts, TypeFacts DEF ActorOK, Inv
<1>3. /\ "waiting" \in PCs /\ "waiting" \notin Purge /\ "waiting" \notin PreSend
      /\ "waiting" \notin {"mark", "first", "second", "authorize"} /\ "waiting" # "applied"
  BY DEF PCs, Purge, PreSend
<1>4. /\ actor' = [actor EXCEPT ![w] = [pc |-> "waiting", a |-> actor[w].a, obs |-> actor[w].obs]]
      /\ actor' \in [Actors -> Loop]
  BY <1>1, <1>2, <1>3, GotoFacts
<1>5. /\ remote' \in Sidecar /\ remote'.linked = remote.linked /\ remote'.nodes = remote.nodes
      /\ remote'.inflight = remote.inflight \union {actor[w].a}
  BY <1>1, <1>2 DEF Sidecar
<1>6. Types'
  BY <1>1, <1>2, <1>4, <1>5 DEF Types
<1>7. actor'[w].pc \notin PreSend
  BY <1>2, <1>3, <1>4 DEF Types
<1>8. PathSame
  BY <1>1, <1>5, <1>7 DEF PathSame
<1>. QED
  BY <1>1, <1>2, <1>3, <1>4, <1>6, <1>8, PlanSame, PcStep

LEMMA MarkSentInv ==
    ASSUME Inv, NEW w \in Actors, MarkSent(w)
    PROVE  Inv' /\ Law
<1> DEFINE a == actor[w].a
           f == [att[a] EXCEPT !.state = "sent"]
           t == [f EXCEPT !.epoch = actor[w].obs]
<1>1. /\ actor[w].pc = "mark" /\ actor[w].pc # "idle"
      /\ UNCHANGED <<plan, remote, unrecorded, faults>>
  BY DEF MarkSent, At
<1>2. /\ a \in Attempts /\ Its(w) \in Deliveries /\ Types /\ AttemptsOK /\ Chain /\ ActorOK(w)
      /\ actor[w].obs \in 0..MaxEpochs /\ actor[w].obs >= 1
  BY <1>1, WorkerFacts DEF Inv, ActorOK
<1>3. (\A k \in Deliveries : PlanLaw(k)) /\ PathSame
  BY <1>1, PlanSame, RemoteSame
<1>4. CASE Return(w) /\ UNCHANGED <<del, msg, att, row>>
  BY <1>1, <1>2, <1>4, ReturnInv DEF Types
<1>5. ASSUME NEW pc \in {"preflight", "plan"}, Goto(w, pc), Marks(w), Types',
             \A k \in Deliveries : DelLaw(k), \A b \in Attempts : AttLaw(b) /\ ~Born(b),
             pc = "plan" <=> del[Its(w)].kind = "delete", w # "expiry"
      PROVE  Inv' /\ Law
  <2>1. pc \in PCs
    BY DEF PCs
  <2> DEFINE v == [pc |-> pc, a |-> a, obs |-> actor[w].obs]
  <2>2. v.pc = pc /\ v.a = a /\ v.obs = actor[w].obs
    OBVIOUS
  <2>3. actor' = [actor EXCEPT ![w] = v]
    BY <1>2, <1>5, <2>1, GotoFacts
  <2> HIDE DEF v, a
  <2>4. actor'[w] = v /\ \A u \in Actors : u # w => ActLaw(u)
    BY <1>2, <2>3, OneMoves
  <2>5. Its(w)' = Its(w)
    BY <1>2, <1>5, <2>2, <2>4 DEF Its, AttLaw, a, Born
  <2>6. att'[a].state # "none"
    BY <1>5 DEF Marks, NotSent, a
  <2>7. del'[Its(w)].kind = del[Its(w)].kind
    BY <1>2, <1>5 DEF DelLaw
  <2>8. ActorOK(w)'
    BY <1>2, <1>5, <2>2, <2>4, <2>5, <2>6, <2>7 DEF ActorOK, Purge
  <2>9. ActLaw(w)
    BY <1>5, <2>2, <2>4, <2>8 DEF ActLaw
  <2>10. Law
    BY <1>3, <1>5, <2>4, <2>9 DEF Law
  <2>. QED
    BY <1>5, <2>10, LawKeeps
<1>6. CASE Lapses(w, {"prepared"}) /\ ExpireDelivery(Its(w)) /\ Goto(w, "preflight")
  <2>1. /\ del[Its(w)].status = "queued" /\ att[a].state = "prepared" /\ att[a].holder = w
        /\ a \in Of(Its(w)) /\ Open(a)
    BY <1>2, <1>6 DEF Lapses, Its, Of, Open
  <2>2. /\ \A k \in Deliveries : DelLaw(k)
        /\ \A b \in Attempts : AttLaw(b) /\ ~Born(b)
        /\ att'[a].state = "fenced"
    BY <1>2, <1>6, <2>1, ExpireFacts
  <2>3. "preflight" \in PCs
    BY DEF PCs
  <2>4. /\ actor' = [actor EXCEPT ![w] = [pc |-> "preflight", a |-> a, obs |-> actor[w].obs]]
        /\ actor' \in [Actors -> Loop]
    BY <1>2, <1>6, <2>3, GotoFacts
  <2>5. actor'[w].a = a
    BY <1>2, <2>4 DEF Types
  <2>6. Marks(w)
    BY <1>1, <1>2, <2>1, <2>2, <2>5 DEF Marks, NotSent
  <2>7. Types'
    BY <1>1, <1>2, <1>6, <2>1, <2>4, ExpireFacts DEF Types
  <2>8. del[Its(w)].kind # "delete" /\ w # "expiry"
    BY <1>1, <1>2, <2>1 DEF Chain, Deleting, ActorOK, Expiring
  <2>. QED
    BY <1>5, <1>6, <2>2, <2>6, <2>7, <2>8
<1>7. CASE /\ May(w, {"prepared"})
           /\ att' = [att EXCEPT ![a].state = "sent", ![a].epoch = actor[w].obs]
           /\ Goto(w, IF del[Its(w)].kind = "delete" THEN "plan" ELSE "preflight")
           /\ UNCHANGED <<del, msg, row>>
  <2> DEFINE pc == IF del[Its(w)].kind = "delete" THEN "plan" ELSE "preflight"
  <2>0. pc \in {"plan", "preflight"} /\ (pc = "plan" <=> del[Its(w)].kind = "delete")
        /\ Goto(w, pc)
    BY <1>7
  <2> HIDE DEF pc
  <2>1. /\ att[a].state = "prepared" /\ att[a].holder = w
        /\ del[Its(w)].status \in {"queued", "delete_pending"}
    BY <1>7 DEF May, ForMutation, Active, Its
  <2>2. att[a] \in Attempt /\ AttShape(att[a])
    BY <1>2, TypeFacts DEF AttemptsOK
  <2>3. /\ f \in Attempt /\ f.state = "sent" /\ f.of = att[a].of /\ f.holder = att[a].holder
    BY <2>2 DEF Attempt, AttStates
  <2> HIDE DEF f
  <2>4. /\ t \in Attempt /\ t.state = "sent" /\ t.of = att[a].of /\ t.holder = att[a].holder
        /\ t.epoch = actor[w].obs
    BY <1>2, <2>3 DEF Attempt
  <2>5. att' = [att EXCEPT ![a] = t]
    BY <1>2, <1>7 DEF Types, f
  <2> HIDE DEF a, t
  <2>6. /\ att' \in [Attempts -> Attempt] /\ att'[a] = t
        /\ \A b \in Attempts : b # a => AttLaw(b) /\ ~Born(b)
    BY <1>2, <2>4, <2>5, OneAttempt
  <2>7. AttShape(t)
    BY <1>2, <2>1, <2>2, <2>4 DEF AttShape, Nothing
  <2>8. AttLaw(a) /\ ~Born(a)
    BY <2>1, <2>4, <2>6, <2>7 DEF AttLaw, Born
  <2>9. /\ actor' = [actor EXCEPT ![w] = [pc |-> pc, a |-> a, obs |-> actor[w].obs]]
        /\ actor' \in [Actors -> Loop]
    BY <1>2, <2>0, GotoFacts DEF a, PCs
  <2>10. actor'[w].a = a
    BY <1>2, <2>9 DEF Types
  <2>11. Marks(w)
    BY <1>1, <1>2, <2>1, <2>4, <2>6, <2>10 DEF Marks, NotSent, a
  <2>12. Types'
    BY <1>1, <1>2, <1>7, <2>6, <2>9 DEF Types
  <2>13. w # "expiry"
    BY <1>1, <1>2, <2>1 DEF ActorOK, Expiring
  <2>14. (\A k \in Deliveries : DelLaw(k)) /\ \A b \in Attempts : AttLaw(b) /\ ~Born(b)
    BY <1>7, <2>6, <2>8, DelSame
  <2>. QED
    BY <1>5, <2>0, <2>11, <2>12, <2>13, <2>14
<1>. QED
  BY <1>4, <1>6, <1>7 DEF MarkSent
\* Claims: a loop that was idle takes an attempt.
LEMMA ClaimNewInv ==
    ASSUME Inv, NEW a \in Attempts, ClaimNew(a)
    PROVE  Inv' /\ Law
<1> DEFINE w == "consumer"
           v == [pc |-> "caps", a |-> a, obs |-> Nothing]
<1>1. PICK k \in Deliveries :
         /\ Applicable(k) /\ Of(k) = {} /\ att[a] = NoAttempt
         /\ att' = [att EXCEPT ![a] = [of |-> k, state |-> "prepared",
                      holder |-> "consumer", live |-> TRUE, epoch |-> Nothing]]
         /\ actor' = [actor EXCEPT !["consumer"] = v]
         /\ UNCHANGED <<del, msg, row, plan, remote, unrecorded, faults>>
  BY DEF ClaimNew
<1> DEFINE t == [of |-> k, state |-> "prepared", holder |-> "consumer", live |-> TRUE,
                 epoch |-> Nothing]
<1>2. Types /\ w \in Actors /\ del[k].status # "none"
  BY <1>1 DEF Inv, Actors, Applicable, Lineage
<1>3. /\ t \in Attempt /\ t.of = k /\ t.state = "prepared" /\ t.holder # "nobody"
      /\ t.epoch = Nothing
  BY ConstantFacts DEF Attempt, AttStates, Actors, Nothing
<1>4. v \in Loop /\ v.pc = "caps" /\ v.a = a
  BY ConstantFacts DEF Loop, PCs, Nothing
<1> HIDE DEF t, v
<1>5. /\ att' \in [Attempts -> Attempt] /\ att'[a] = t
      /\ \A b \in Attempts : b # a => AttLaw(b) /\ ~Born(b)
  BY <1>1, <1>3, OneAttempt DEF t
<1>6. /\ actor'[w] = v /\ actor' \in [Actors -> Loop] /\ \A u \in Actors : u # w => ActLaw(u)
  BY <1>1, <1>2, <1>4, OneMoves
<1>7. Types'
  BY <1>1, <1>2, <1>5, <1>6 DEF Types
<1>8. AttShape(t)
  BY <1>3, ConstantFacts DEF AttShape
<1>9. AttLaw(a)
  <2>1. att[a].state = "none"
    BY <1>1 DEF NoAttempt
  <2>. QED
    BY <1>1, <1>2, <1>3, <1>5, <1>8, <2>1 DEF AttLaw, Born
<1>10. ActorOK(w)'
  <2>1. Its(w)' = k
    BY <1>3, <1>4, <1>5, <1>6 DEF Its
  <2>. QED
    BY <1>3, <1>4, <1>5, <1>6, <2>1 DEF ActorOK, Purge
<1>11. ActLaw(w)
  BY <1>4, <1>6, <1>10 DEF ActLaw, PreSend
<1>12. Law
  BY <1>1, <1>5, <1>6, <1>9, <1>11, DelSame, PlanSame, RemoteSame DEF Law
<1>. QED
  BY <1>7, <1>12, LawKeeps

LEMMA ClaimOpenInv ==
    ASSUME Inv, NEW w \in Actors, NEW a \in Attempts, ClaimOpen(w, a)
    PROVE  Inv' /\ Law
<1> DEFINE k == att[a].of
           s == Reclaimed(a)
           f == [att[a] EXCEPT !.state = s]
           g == [f EXCEPT !.holder = w]
           t == [g EXCEPT !.live = TRUE]
           pc == CASE Reclaimed(a) = "prepared" -> "caps"
                   [] Reclaimed(a) # "prepared" /\ del[k].kind = "delete" -> "plan"
                   [] OTHER -> "look"
           v == [pc |-> pc, a |-> a, obs |-> Nothing]
<1>1. /\ Open(a) /\ w \in {"consumer", "attempts"}
      /\ att' = [att EXCEPT ![a].state = s, ![a].holder = w, ![a].live = TRUE]
      /\ actor' = [actor EXCEPT ![w] = v]
      /\ UNCHANGED <<del, msg, row, plan, remote, unrecorded, faults>>
  BY DEF ClaimOpen
<1>2. Types /\ AttemptsOK /\ att[a] \in Attempt /\ AttShape(att[a])
  BY TypeFacts DEF Inv, AttemptsOK
<1>3. /\ s \in {"prepared", "reconciling"}
      /\ s = "prepared" <=> att[a].state = "prepared"
  BY DEF Reclaimed
<1>4. /\ pc \in {"caps", "plan", "look"} /\ (pc = "plan" => del[k].kind = "delete")
      /\ pc = "look" => del[k].kind # "delete"
  OBVIOUS
<1> HIDE DEF s, pc
<1>5. /\ f \in Attempt /\ f.state = s /\ f.of = k /\ f.epoch = att[a].epoch
  BY <1>2, <1>3 DEF Attempt, AttStates
<1> HIDE DEF f
<1>6. /\ g \in Attempt /\ g.state = s /\ g.of = k /\ g.epoch = att[a].epoch /\ g.holder = w
  BY <1>5 DEF Attempt
<1> HIDE DEF g
<1>7. /\ t \in Attempt /\ t.state = s /\ t.of = k /\ t.epoch = att[a].epoch /\ t.holder = w
  BY <1>6 DEF Attempt
<1>8. att' = [att EXCEPT ![a] = t]
  BY <1>1, <1>2 DEF Types, f, g
<1> HIDE DEF t
<1>9. /\ att' \in [Attempts -> Attempt] /\ att'[a] = t
      /\ \A b \in Attempts : b # a => AttLaw(b) /\ ~Born(b)
  BY <1>7, <1>8, OneAttempt
<1>10. v \in Loop /\ v.pc = pc /\ v.a = a
  BY <1>4, ConstantFacts DEF Loop, PCs, Nothing
<1> HIDE DEF v
<1>11. /\ actor'[w] = v /\ actor' \in [Actors -> Loop] /\ \A u \in Actors : u # w => ActLaw(u)
  BY <1>1, <1>2, <1>10, OneMoves
<1>12. Types'
  BY <1>1, <1>2, <1>9, <1>11 DEF Types
<1>13. AttShape(t)
  BY <1>1, <1>2, <1>3, <1>7, ConstantFacts DEF AttShape, Open, Actors
<1>14. AttLaw(a) /\ ~Born(a)
  <2>1. att[a].state # "none"
    BY <1>1 DEF Open
  <2>2. \/ att'[a].state = att[a].state
        \/ att[a].state \notin NotSent /\ att'[a].state \notin NotSent
    BY <1>1, <1>3, <1>7, <1>9 DEF Open, NotSent
  <2>. QED
    BY <1>7, <1>9, <1>13, <2>1, <2>2 DEF AttLaw, Born
<1>15. ActorOK(w)'
  <2>1. Its(w)' = k /\ att'[a].state # "none"
    BY <1>3, <1>7, <1>9, <1>10, <1>11 DEF Its
  <2>. QED
    BY <1>1, <1>4, <1>10, <1>11, <2>1 DEF ActorOK, Purge
<1>16. ActLaw(w)
  BY <1>4, <1>10, <1>11, <1>15 DEF ActLaw, PreSend
<1>17. Law
  BY <1>1, <1>9, <1>11, <1>14, <1>16, DelSame, PlanSame, RemoteSame DEF Law
<1>. QED
  BY <1>12, <1>17, LawKeeps

LEMMA AuthorizeRetryInv ==
    ASSUME Inv, NEW w \in Actors, AuthorizeRetry(w)
    PROVE  Inv' /\ Law
<1> DEFINE a == actor[w].a
<1>1. /\ actor[w].pc = "authorize" /\ actor[w].pc # "idle"
      /\ UNCHANGED <<del, msg, row, plan, remote, unrecorded, faults>>
  BY DEF AuthorizeRetry, At
<1>2. /\ a \in Attempts /\ Its(w) \in Deliveries /\ Types /\ AttemptsOK /\ Chain /\ ActorOK(w)
      /\ actor[w].obs \in 0..MaxEpochs /\ actor[w].obs >= 1
  BY <1>1, WorkerFacts DEF Inv, ActorOK
<1>3. CASE Return(w) /\ UNCHANGED att
  BY <1>1, <1>2, <1>3, ReturnInv DEF Types
<1>4. ASSUME May(w, {"reconciling"}),
             NEW b \in Attempts, att[b] = NoAttempt,
             att' = [att EXCEPT
                       ![a] = Closed(@, "fenced"),
                       ![b] = [of |-> att[a].of, state |-> "prepared",
                               holder |-> w, live |-> TRUE, epoch |-> Nothing]],
             actor' = [actor EXCEPT ![w].pc = "mark", ![w].a = b]
      PROVE  Inv' /\ Law
  <2> DEFINE k == att[a].of
             u == Closed(att[a], "fenced")
             t == [of |-> k, state |-> "prepared", holder |-> w, live |-> TRUE,
                   epoch |-> Nothing]
             f == [actor[w] EXCEPT !.pc = "mark"]
             v == [f EXCEPT !.a = b]
  <2>1. /\ att[a].state = "reconciling" /\ del[k].status \in {"queued", "delete_pending"}
        /\ k = Its(w)
    BY <1>4 DEF May, ForMutation, Active, Its
  <2>2. att[a] \in Attempt /\ AttShape(att[a]) /\ actor[w] \in Loop
    BY <1>2, TypeFacts DEF AttemptsOK
  <2>3. /\ u \in Attempt /\ u.state = "fenced" /\ u.of = k /\ u.epoch = att[a].epoch
        /\ u.holder = "nobody"
    BY <2>2, ClosedFacts DEF AttStates
  <2>4. /\ t \in Attempt /\ t.state = "prepared" /\ t.of = k /\ t.epoch = Nothing /\ t.holder = w
    BY <1>2, <2>1, ConstantFacts DEF Attempt, AttStates, Nothing
  <2>5. a # b
    BY <1>4, <2>1 DEF NoAttempt
  <2>6. att' = [[att EXCEPT ![a] = u] EXCEPT ![b] = t]
    BY <1>4
  <2> HIDE DEF u, t
  <2>7. /\ att'[a] = u /\ att'[b] = t /\ att' \in [Attempts -> Attempt]
        /\ \A c \in Attempts \ {a, b} : att'[c] = att[c]
    BY <1>2, <2>3, <2>4, <2>5, <2>6 DEF Types
  <2>8. f \in Loop /\ f.pc = "mark" /\ f.obs = actor[w].obs
    BY <2>2 DEF Loop, PCs
  <2>9. actor' = [actor EXCEPT ![w] = v]
    BY <1>2, <1>4 DEF Types
  <2> HIDE DEF f
  <2>10. v \in Loop /\ v.pc = "mark" /\ v.a = b /\ v.obs = actor[w].obs
    BY <2>8 DEF Loop
  <2> HIDE DEF v
  <2>11. /\ actor'[w] = v /\ actor' \in [Actors -> Loop]
         /\ \A x \in Actors : x # w => ActLaw(x)
    BY <1>2, <2>9, <2>10, OneMoves
  <2>12. Types'
    BY <1>1, <1>2, <2>7, <2>11 DEF Types
  <2>13. \A c \in Attempts : c # b => AttLaw(c) /\ ~Born(c)
    <3>1. AttShape(u)
      BY <2>1, <2>2, <2>3 DEF AttShape
    <3>2. AttLaw(a) /\ ~Born(a)
      BY <2>1, <2>3, <2>7, <3>1 DEF AttLaw, Born, NotSent
    <3>3. \A c \in Attempts \ {a, b} : AttLaw(c) /\ ~Born(c)
      BY <1>2, <2>7 DEF AttLaw, Born, AttemptsOK
    <3>. QED
      BY <3>2, <3>3
  <2>14. del[k].kind # "correction" /\ w # "expiry" /\ del[k].status # "none"
    BY <1>1, <1>2, <2>1 DEF ActorOK, Chain, Deleting, Expiring
  <2>15. AttLaw(b)
    <3>1. AttShape(t)
      BY <1>2, <2>1, <2>4, ConstantFacts DEF AttShape, Actors
    <3>2. att[b].state = "none"
      BY <1>4 DEF NoAttempt
    <3>. QED
      BY <2>4, <2>7, <2>14, <3>1, <3>2 DEF AttLaw, Born
  <2>16. ActorOK(w)'
    <3>1. Its(w)' = k /\ att'[b].state # "none"
      BY <2>4, <2>7, <2>10, <2>11 DEF Its
    <3>. QED
      BY <1>2, <2>10, <2>11, <2>14, <3>1 DEF ActorOK, Purge
  <2>17. ActLaw(w)
    BY <2>10, <2>11, <2>16 DEF ActLaw, PreSend
  <2>18. Law
    BY <1>1, <2>11, <2>13, <2>15, <2>17, DelSame, PlanSame, RemoteSame DEF Law
  <2>. QED
    BY <2>12, <2>18, LawKeeps
<1>. QED
  BY <1>3, <1>4 DEF AuthorizeRetry
\* A lease that is lost changes only whether the attempt is live.
LEMMA LeaseLost ==
    ASSUME NEW t \in Attempt
    PROVE  LET r == [t EXCEPT !.live = FALSE]
           IN  /\ r \in Attempt /\ r.state = t.state /\ r.of = t.of /\ r.epoch = t.epoch
               /\ r.holder = t.holder
               /\ AttShape(t) => AttShape(r)
<1> DEFINE r == [t EXCEPT !.live = FALSE]
<1>1. /\ r \in Attempt /\ r.state = t.state /\ r.of = t.of /\ r.epoch = t.epoch
      /\ r.holder = t.holder /\ (r.live = FALSE)
  BY DEF Attempt
<1>2. ASSUME AttShape(t)
      PROVE  AttShape(r)
  <2> HIDE DEF r
  <2>0. r = [of |-> r.of, state |-> r.state, holder |-> r.holder, live |-> r.live,
             epoch |-> r.epoch]
    BY <1>1 DEF Attempt
  <2>a. t = NoAttempt => /\ t.of = Nothing /\ t.state = "none" /\ t.holder = "nobody"
                         /\ t.epoch = Nothing
    BY DEF NoAttempt
  <2>1. t = NoAttempt => r = NoAttempt
    BY <1>1, <2>0, <2>a DEF NoAttempt
  <2>. QED
    BY <1>1, <1>2, <2>1 DEF AttShape
<1>. QED
  BY <1>1, <1>2

LEMMA LeasesOut ==
    ASSUME Inv, att' \in [Attempts -> Attempt],
           \A a \in Attempts : att'[a] = att[a] \/ att'[a] = [att[a] EXCEPT !.live = FALSE]
    PROVE  \A a \in Attempts : AttLaw(a) /\ ~Born(a)
<1>1. AttemptsOK /\ \A a \in Attempts : att[a] \in Attempt
  BY TypeFacts DEF Inv
<1>2. ASSUME NEW a \in Attempts, att'[a] = [att[a] EXCEPT !.live = FALSE]
      PROVE  AttLaw(a) /\ ~Born(a)
  <2> DEFINE r == [att[a] EXCEPT !.live = FALSE]
  <2>1. /\ r.state = att[a].state /\ r.of = att[a].of /\ r.epoch = att[a].epoch
        /\ AttShape(r)
    BY <1>1, LeaseLost DEF AttemptsOK
  <2> HIDE DEF r
  <2>2. att'[a] = r
    BY <1>2 DEF r
  <2>. QED
    BY <2>1, <2>2 DEF AttLaw, Born
<1>3. ASSUME NEW a \in Attempts, att'[a] = att[a]
      PROVE  AttLaw(a) /\ ~Born(a)
  BY <1>1, <1>3 DEF AttemptsOK, AttLaw, Born
<1>. QED
  BY <1>2, <1>3

LEMMA ReplayInv ==
    ASSUME Inv, NEW k \in Deliveries, Replay(k)
    PROVE  Inv' /\ Law
<1>1. /\ msg' = [msg EXCEPT ![k] = "open"]
      /\ att' = [a \in Attempts |-> IF a \in Of(k) /\ Open(a)
                                    THEN [att[a] EXCEPT !.live = FALSE] ELSE att[a]]
      /\ UNCHANGED <<del, row, plan, remote, actor, unrecorded, faults>>
  BY DEF Replay
<1>2. Types /\ \A a \in Attempts : att[a] \in Attempt
  BY TypeFacts DEF Inv
<1>3. \A a \in Attempts : [att[a] EXCEPT !.live = FALSE] \in Attempt
  BY <1>2, LeaseLost
<1>4. att' \in [Attempts -> Attempt]
  BY <1>1, <1>2, <1>3
<1>5. \A a \in Attempts : att'[a] = att[a] \/ att'[a] = [att[a] EXCEPT !.live = FALSE]
  BY <1>1
<1>6. \A a \in Attempts : AttLaw(a) /\ ~Born(a)
  BY <1>4, <1>5, LeasesOut
<1>7. Types'
  BY <1>1, <1>2, <1>4 DEF Types
<1>. QED
  BY <1>1, <1>6, <1>7, DelSame, PlanSame, RemoteSame, HomeStep

LEMMA DeadlineInv ==
    ASSUME Inv, NEW k \in Deliveries, Deadline(k)
    PROVE  Inv' /\ Law
<1>1. /\ del' = [del EXCEPT ![k].late = TRUE]
      /\ UNCHANGED <<msg, att, row, plan, remote, actor, unrecorded, faults>>
  BY DEF Deadline
<1>2. Types /\ \A j \in Deliveries : del[j] \in Delivery
  BY TypeFacts DEF Inv
<1>3. /\ del' \in [Deliveries -> Delivery]
      /\ \A j \in Deliveries : del'[j].kind = del[j].kind /\ del'[j].status = del[j].status
  BY <1>1, <1>2 DEF Types, Delivery
<1>4. \A j \in Deliveries : DelLaw(j)
  BY <1>3 DEF DelLaw
<1>5. Types'
  BY <1>1, <1>2, <1>3 DEF Types
<1>. QED
  BY <1>1, <1>4, <1>5, AttSame, PlanSame, RemoteSame, HomeStep

LEMMA MessagesInv ==
    ASSUME Inv, NEW k \in Deliveries, CloseMessage(k) \/ DeadLetter(k)
    PROVE  Inv' /\ Law
<1>1. /\ msg' = [msg EXCEPT ![k] = "closed"] \/ msg' = [msg EXCEPT ![k] = "dead"]
      /\ UNCHANGED <<del, att, row, plan, remote, actor, unrecorded>>
      /\ faults' = faults \/ Fault
  BY DEF CloseMessage, DeadLetter
<1>2. Types
  BY DEF Inv
<1>3. faults' \in 0..MaxFaults
  BY <1>1, <1>2, FaultType DEF Types
<1>4. Types'
  BY <1>1, <1>2, <1>3 DEF Types
<1>. QED
  BY <1>1, <1>4, AttSame, DelSame, PlanSame, RemoteSame, HomeStep

LEMMA ClaimExpiryInv ==
    ASSUME Inv, NEW a \in Attempts, ClaimExpiry(a)
    PROVE  Inv' /\ Law
<1> DEFINE w == "expiry"
           k == att[a].of
           status == IF row[a].status = "delete_pending" THEN "delete_pending"
                     ELSE "reconciling"
           pc == IF status = "delete_pending" THEN "plan" ELSE "look"
           v == [pc |-> pc, a |-> a, obs |-> Nothing]
<1>1. /\ Lineage(k) /\ del[k].status = "expiry_reconciling"
      /\ row' = [row EXCEPT ![a] = [status |-> status, holder |-> "expiry", live |-> TRUE]]
      /\ actor' = [actor EXCEPT !["expiry"] = v]
      /\ UNCHANGED <<del, msg, att, plan, remote, unrecorded, faults>>
  BY DEF ClaimExpiry
<1>2. Types /\ Chain /\ AttemptsOK /\ w \in Actors /\ AttShape(att[a])
      /\ att[a].of \in Deliveries \union {Nothing} /\ att[a].state \in AttStates
  BY TypeFacts DEF Inv, Actors, AttemptsOK
<1>3. [status |-> status, holder |-> "expiry", live |-> TRUE] \in Reconciliation
  BY DEF Reconciliation, RowStatuses
<1>4. pc \in {"plan", "look"}
  OBVIOUS
<1> HIDE DEF pc
<1>5. v \in Loop /\ v.pc = pc /\ v.a = a
  BY <1>4, ConstantFacts DEF Loop, PCs, Nothing
<1> HIDE DEF v, status
<1>6. /\ actor'[w] = v /\ actor' \in [Actors -> Loop] /\ \A u \in Actors : u # w => ActLaw(u)
  BY <1>1, <1>2, <1>5, OneMoves
<1>7. row' \in [Attempts -> Reconciliation]
  BY <1>1, <1>2, <1>3 DEF Types
<1>8. Types'
  BY <1>1, <1>2, <1>6, <1>7 DEF Types
\* nothing is before the admission
<1>9. k \in Deliveries /\ att[a].state # "none"
  <2>1. 1 \in Deliveries /\ del[1].status # "none"
    BY <1>2, ConstantFacts DEF Chain
  <2>2. k # Nothing
    BY <1>1, <2>1 DEF Lineage, Nothing
  <2>. QED
    BY <1>2, <2>2 DEF AttShape, NoAttempt
<1>10. del[k].kind # "delete"
  BY <1>1, <1>2, <1>9 DEF Chain, Deleting
<1>11. ActorOK(w)'
  <2>1. Its(w)' = k
    BY <1>1, <1>5, <1>6 DEF Its
  <2>. QED
    BY <1>1, <1>4, <1>5, <1>6, <1>9, <1>10, <2>1 DEF ActorOK, Expiring
<1>12. ActLaw(w)
  BY <1>4, <1>5, <1>6, <1>11 DEF ActLaw, PreSend
<1>13. Law
  BY <1>1, <1>6, <1>12, AttSame, DelSame, PlanSame, RemoteSame DEF Law
<1>. QED
  BY <1>8, <1>13, LawKeeps

LEMMA ExpiryFoundInv ==
    ASSUME Inv, ExpiryFound
    PROVE  Inv' /\ Law
<1> DEFINE w == "expiry"
           a == actor["expiry"].a
<1>1. /\ actor[w].pc = "found" /\ actor[w].pc # "idle" /\ w \in Actors
      /\ UNCHANGED <<del, msg, att, plan, remote, unrecorded, faults>>
  BY DEF ExpiryFound, At, Actors
<1>2. /\ a \in Attempts /\ Types /\ del[Its(w)].status \in Expiring /\ Its(w) \in Deliveries
      /\ actor[w].obs \in 0..MaxEpochs
  BY <1>1, WorkerFacts DEF Inv, ActorOK
<1>3. CASE Return("expiry") /\ UNCHANGED row
  BY <1>1, <1>2, <1>3, ReturnInv DEF Types
<1>4. CASE row' = [row EXCEPT ![a].status = "delete_pending"] /\ Goto("expiry", "plan")
  <2>1. row' \in [Attempts -> Reconciliation]
    BY <1>2, <1>4 DEF Types, Reconciliation, RowStatuses
  <2>2. "plan" \in PCs /\ "plan" \notin PreSend
    BY DEF PCs, PreSend
  <2>3. /\ actor' = [actor EXCEPT ![w] = [pc |-> "plan", a |-> actor[w].a, obs |-> actor[w].obs]]
        /\ actor' \in [Actors -> Loop]
    BY <1>1, <1>2, <1>4, <2>2, GotoFacts
  <2>4. Types'
    BY <1>1, <1>2, <2>1, <2>3 DEF Types
  <2>. QED
    BY <1>1, <1>2, <2>2, <2>3, <2>4, PlanSame, RemoteSame, PcStep
<1>. QED
  BY <1>3, <1>4 DEF ExpiryFound

LEMMA FinalizeExpiryInv ==
    ASSUME Inv, NEW pc, NEW from, NEW status \in RowStatuses, pc # "idle",
           FinalizeExpiry(pc, from, status)
    PROVE  Inv' /\ Law
<1> DEFINE w == "expiry"
           a == actor["expiry"].a
           k == att[a].of
<1>1. /\ actor[w].pc = pc /\ actor[w].pc # "idle" /\ w \in Actors /\ Return(w)
      /\ UNCHANGED <<msg, att, plan, remote, unrecorded, faults>>
  BY DEF FinalizeExpiry, At, Actors
<1>2. a \in Attempts /\ Types /\ k \in Deliveries
  BY <1>1, WorkerFacts DEF Inv, Its
<1>3. CASE UNCHANGED <<row, del>>
  BY <1>1, <1>2, <1>3, ReturnInv DEF Types
<1>4. CASE /\ HoldsRow(from)
           /\ row' = [row EXCEPT ![a] = [NoRow EXCEPT !.status = status]]
           /\ \E s \in {"expired", del[k].status} : del' = [del EXCEPT ![k].status = s]
  <2>1. del[k].status = "expiry_reconciling"
    BY <1>4 DEF HoldsRow
  <2>2. PICK s \in {"expired", del[k].status} : del' = [del EXCEPT ![k].status = s]
    BY <1>4
  <2>3. s \in {"expired", "expiry_reconciling"}
    BY <2>1, <2>2
  <2>4. /\ del' \in [Deliveries -> Delivery] /\ del'[k].status = s /\ del'[k].kind = del[k].kind
        /\ \A j \in Deliveries : j # k => del'[j] = del[j]
    BY <1>2, <2>2, <2>3 DEF Types, Delivery, Statuses
  <2>5. \A j \in Deliveries : DelLaw(j)
    BY <2>1, <2>3, <2>4 DEF DelLaw
  <2>6. [NoRow EXCEPT !.status = status] \in Reconciliation
    BY DEF NoRow, Reconciliation
  <2>7. row' \in [Attempts -> Reconciliation]
    BY <1>2, <1>4, <2>6 DEF Types
  <2>8. /\ actor' \in [Actors -> Loop]
        /\ \A u \in Actors : actor'[u] = actor[u] \/ actor'[u].pc = "idle"
    BY <1>1, <1>2, ReturnFacts
  <2>9. Types'
    BY <1>1, <1>2, <2>4, <2>7, <2>8 DEF Types
  <2>. QED
    BY <1>1, <2>5, <2>8, <2>9, AttSame, PlanSame, RemoteSame, HomeStep
<1>. QED
  BY <1>3, <1>4 DEF FinalizeExpiry

LEMMA CapabilitiesFailInv ==
    ASSUME Inv, NEW w \in Actors, CapabilitiesFail(w)
    PROVE  Inv' /\ Law
<1> DEFINE a == actor[w].a
<1>1. /\ actor[w].pc = "caps" /\ actor[w].pc # "idle" /\ Fault /\ Return(w)
      /\ att' = [att EXCEPT ![a].live = FALSE] \/ att' = att
      /\ UNCHANGED <<del, msg, row, plan, remote, unrecorded>>
  BY DEF CapabilitiesFail, At
<1>2. a \in Attempts /\ Types /\ att[a] \in Attempt /\ faults' \in 0..MaxFaults
  BY <1>1, WorkerFacts, FaultType, TypeFacts DEF Inv
<1>3. /\ actor' \in [Actors -> Loop]
      /\ \A u \in Actors : actor'[u] = actor[u] \/ actor'[u].pc = "idle"
  BY <1>1, <1>2, ReturnFacts
<1>4. /\ att' \in [Attempts -> Attempt]
      /\ \A b \in Attempts : att'[b] = att[b] \/ att'[b] = [att[b] EXCEPT !.live = FALSE]
  <2>1. [att[a] EXCEPT !.live = FALSE] \in Attempt
    BY <1>2, LeaseLost
  <2>. QED
    BY <1>1, <1>2, <2>1 DEF Types
<1>5. Types'
  BY <1>1, <1>2, <1>3, <1>4 DEF Types
<1>6. \A b \in Attempts : AttLaw(b) /\ ~Born(b)
  BY <1>4, LeasesOut
<1>. QED
  BY <1>1, <1>3, <1>5, <1>6, DelSame, PlanSame, RemoteSame, HomeStep

LEMMA LeaseRunsOutInv ==
    ASSUME Inv, NEW a \in Attempts, LeaseRunsOut(a)
    PROVE  Inv' /\ Law
<1>1. /\ att' = [att EXCEPT ![a].live = FALSE] \/ att' = att
      /\ row' = [row EXCEPT ![a].live = FALSE] \/ row' = row
      /\ Fault \/ faults' = faults
      /\ UNCHANGED <<del, msg, plan, remote, actor, unrecorded>>
  BY DEF LeaseRunsOut
<1>2. Types /\ att[a] \in Attempt /\ row[a] \in Reconciliation
  BY TypeFacts DEF Inv
<1>3. faults' \in 0..MaxFaults
  BY <1>1, <1>2, FaultType DEF Types
<1>4. /\ att' \in [Attempts -> Attempt]
      /\ \A b \in Attempts : att'[b] = att[b] \/ att'[b] = [att[b] EXCEPT !.live = FALSE]
  <2>1. [att[a] EXCEPT !.live = FALSE] \in Attempt
    BY <1>2, LeaseLost
  <2>. QED
    BY <1>1, <1>2, <2>1 DEF Types
<1>5. row' \in [Attempts -> Reconciliation]
  <2>1. [row[a] EXCEPT !.live = FALSE] \in Reconciliation
    BY <1>2 DEF Reconciliation
  <2>. QED
    BY <1>1, <1>2, <2>1 DEF Types
<1>6. Types'
  BY <1>1, <1>2, <1>3, <1>4, <1>5 DEF Types
<1>7. \A b \in Attempts : AttLaw(b) /\ ~Born(b)
  BY <1>4, LeasesOut
<1>. QED
  BY <1>1, <1>6, <1>7, DelSame, PlanSame, RemoteSame, HomeStep

LEMMA RestartInv ==
    ASSUME Inv, Restart
    PROVE  Inv' /\ Law
<1>1. /\ remote.epoch < MaxEpochs
      /\ remote' = [remote EXCEPT !.epoch = @ + 1, !.inflight = {}]
      /\ actor' = [w \in Actors |-> IF actor[w].pc = "waiting"
                                    THEN [actor[w] EXCEPT !.pc = "unknown"] ELSE actor[w]]
      /\ UNCHANGED <<del, msg, att, row, plan, unrecorded, faults>>
  BY DEF Restart, At
<1>2. Types /\ remote \in Sidecar /\ remote.epoch \in 1..MaxEpochs
  BY TypeFacts DEF Inv
<1>3. remote.epoch + 1 \in 1..MaxEpochs
  BY <1>1, <1>2, ConstantFacts
<1>4. /\ remote' \in Sidecar /\ remote'.linked = remote.linked /\ remote'.nodes = remote.nodes
      /\ remote'.inflight = {}
  BY <1>1, <1>2, <1>3 DEF Sidecar
<1>5. ASSUME NEW w \in Actors, actor[w].pc = "waiting"
      PROVE  actor'[w] \in Loop /\ actor'[w].pc = "unknown" /\ actor'[w].a = actor[w].a
  <2> DEFINE v == [actor[w] EXCEPT !.pc = "unknown"]
  <2>1. actor[w] \in Loop
    BY <1>2, TypeFacts
  <2>2. v \in Loop /\ v.pc = "unknown" /\ v.a = actor[w].a
    BY <2>1 DEF Loop, PCs
  <2> HIDE DEF v
  <2>3. actor'[w] = v
    BY <1>1, <1>5 DEF v
  <2>. QED
    BY <2>2, <2>3
<1>6. \A w \in Actors : actor[w].pc # "waiting" => actor'[w] = actor[w] /\ actor[w] \in Loop
  BY <1>1, <1>2 DEF Types
<1>7. actor' \in [Actors -> Loop]
  <2>1. actor' = [w \in Actors |-> actor'[w]]
    BY <1>1
  <2>. QED
    BY <1>5, <1>6, <2>1
<1>8. Types'
  BY <1>1, <1>2, <1>4, <1>7 DEF Types
<1>9. ASSUME NEW w \in Actors
      PROVE  ActLaw(w)
  <2>1. CASE actor[w].pc # "waiting"
    BY <1>6, <2>1 DEF ActLaw
  <2>2. CASE actor[w].pc = "waiting"
    <3>1. actor[w].a \in Attempts /\ att[actor[w].a].state # "none" /\ ActorOK(w)
      BY <2>2, WorkerFacts
    <3>2. Its(w)' = Its(w)
      BY <1>1, <1>5, <2>2 DEF Its
    <3>3. ActorOK(w)'
      BY <1>1, <1>5, <2>2, <3>1, <3>2 DEF ActorOK, Purge
    <3>. QED
      BY <1>5, <2>2, <3>3 DEF ActLaw, PreSend
  <2>. QED
    BY <2>1, <2>2
<1>10. PathSame
  BY <1>4 DEF PathSame
<1>11. Law
  BY <1>1, <1>9, <1>10, AttSame, DelSame, PlanSame DEF Law
<1>. QED
  BY <1>8, <1>11, LawKeeps

LEMMA CrashInv ==
    ASSUME Inv, Crash
    PROVE  Inv' /\ Law
<1>1. /\ Fault /\ actor' = [w \in Actors |-> Idle]
      /\ UNCHANGED <<del, msg, att, row, plan, remote, unrecorded>>
  BY DEF Crash
<1>2. Types /\ faults' \in 0..MaxFaults
  BY <1>1, FaultType DEF Inv
<1>3. Idle \in Loop /\ Idle.pc = "idle"
  BY ConstantFacts DEF Idle, Loop, PCs, Nothing
<1>4. actor' \in [Actors -> Loop] /\ \A w \in Actors : actor'[w].pc = "idle"
  BY <1>1, <1>3
<1>5. Types'
  BY <1>1, <1>2, <1>4 DEF Types
<1>. QED
  BY <1>1, <1>4, <1>5, AttSame, DelSame, PlanSame, RemoteSame, HomeStep
----------------------------------------------------------------------------
(* The steps that change the path, and those of the user. *)

LEMMA LineageUnique ==
    ASSUME NEW j \in Deliveries, NEW k \in Deliveries, Lineage(j), Lineage(k)
    PROVE  j = k
BY ConstantFacts DEF Lineage

\* The sidecar's side of a step: the rows of the server stay.
LEMMA PathStep ==
    ASSUME Inv, Types', del' = del, att' = att, plan' = plan,
           remote'.inflight \subseteq remote.inflight,
           \A w \in Actors : ActorOK(w)',
           \A w \in Actors : actor'[w].pc \in PreSend =>
               actor[w].pc \in PreSend /\ actor'[w].a = actor[w].a,
           PathOK',
           \A k \in Deliveries : del[k].kind = "correction" /\ Holds(k)' =>
               Holds(k) \/ \E a \in Of(k) : Landed(a)'
    PROVE  Inv'
<1>1. /\ Chain /\ AttemptsOK /\ SentOnce /\ OneCorrection /\ CorrectionLanded
  BY DEF Inv
<1>2. Chain' /\ AttemptsOK' /\ ActorsOK' /\ OneCorrection'
  BY <1>1 DEF Chain, AttemptsOK, ActorsOK, OneCorrection
<1>3. SentOnce'
  BY <1>1 DEF SentOnce
<1>4. ASSUME NEW a, Landed(a)
      PROVE  Landed(a)'
  BY <1>4 DEF Landed
<1>5. CorrectionLanded'
  <2> SUFFICES ASSUME NEW k \in Deliveries, del[k].kind = "correction",
                      \/ del[k].status = "applied"
                      \/ /\ del[k].status \in Expiring \union {"queued"}
                         /\ Holds(k)' \/ plan[k] # Nothing
               PROVE  \E a \in Of(k) : Landed(a)'
    BY DEF CorrectionLanded, Of
  <2>1. CASE Holds(k)' /\ ~Holds(k)
    BY <2>1
  <2>2. CASE Holds(k)' => Holds(k)
    <3>1. \E a \in Of(k) : Landed(a)
      BY <1>1, <2>2 DEF CorrectionLanded
    <3>. QED
      BY <1>4, <3>1
  <2>. QED
    BY <2>1, <2>2
<1>. QED
  BY <1>2, <1>3, <1>5 DEF Inv

\* Whoever purges does so for the last delivery, which is neither waiting to be
\* stored nor applied.
LEMMA PurgeFacts ==
    ASSUME Inv, NEW w \in Actors, actor[w].pc \in Purge
    PROVE  /\ actor[w].a \in Attempts /\ Its(w) \in Deliveries
           /\ del[Its(w)].status \in Expiring \union Deleting
           /\ w = "expiry" => del[Its(w)].status \in Expiring
           /\ w # "expiry" => del[Its(w)].status \in Deleting /\ del[Its(w)].kind = "delete"
           /\ \A k \in Deliveries : Lineage(k) => del[k].status \notin {"queued", "applied"}
           /\ \A k \in Deliveries : del[k].status # "queued"
           /\ Lineage(Its(w))
<1>1. actor[w].pc # "idle"
  BY DEF Purge
<1>2. /\ actor[w].a \in Attempts /\ Its(w) \in Deliveries /\ ActorOK(w) /\ Chain
  BY <1>1, WorkerFacts DEF Inv
<1>3. /\ w = "expiry" => del[Its(w)].status \in Expiring
      /\ w # "expiry" => del[Its(w)].status \in Deleting /\ del[Its(w)].kind = "delete"
  BY <1>1, <1>2 DEF ActorOK, Chain
<1>4. Lineage(Its(w)) /\ del[Its(w)].status \notin {"queued", "applied"}
  BY <1>2, <1>3, WaitingIsLast DEF Expiring, Deleting
<1>5. \A k \in Deliveries : Lineage(k) => del[k].status \notin {"queued", "applied"}
  BY <1>2, <1>4, LineageUnique
<1>6. \A k \in Deliveries : del[k].status # "queued"
  BY <1>5, WaitingIsLast
<1>. QED
  BY <1>2, <1>3, <1>4, <1>5, <1>6

\* Unlink and Erase.
LEMMA PurgeStepInv ==
    ASSUME Inv, NEW w \in Actors, actor[w].pc \in {"unlink", "erase"},
           NEW pc \in {"erase", "verify"}, Goto(w, pc),
           remote' \in Sidecar, remote'.inflight = remote.inflight,
           \A k \in Deliveries : del[k].kind = "correction" /\ Holds(k)' => Holds(k),
           UNCHANGED <<del, msg, att, row, plan, unrecorded, faults>>
    PROVE  Inv'
<1>1. Types /\ actor[w].pc \in Purge /\ pc \in PCs /\ pc \in Purge /\ actor[w].pc # "idle"
      /\ pc \notin PreSend
  BY DEF Inv, Purge, PCs, PreSend
<1>2. /\ Its(w) \in Deliveries /\ actor[w].a \in Attempts /\ att[actor[w].a].state # "none"
      /\ w = "expiry" => del[Its(w)].status \in Expiring
      /\ w # "expiry" => del[Its(w)].kind = "delete"
      /\ \A k \in Deliveries : Lineage(k) => del[k].status \notin {"queued", "applied"}
      /\ \A k \in Deliveries : del[k].status # "queued"
  BY <1>1, PurgeFacts, WorkerFacts
<1> DEFINE v == [pc |-> pc, a |-> actor[w].a, obs |-> actor[w].obs]
<1>3. v.pc = pc /\ v.a = actor[w].a
  OBVIOUS
<1>4. actor' = [actor EXCEPT ![w] = v] /\ actor' \in [Actors -> Loop]
  BY <1>1, GotoFacts
<1> HIDE DEF v
<1>5. actor'[w] = v /\ \A u \in Actors : u # w => actor'[u] = actor[u]
  BY <1>1, <1>4, OneMoves
<1>6. Types'
  BY <1>1, <1>4 DEF Types
<1>7. ASSUME NEW u \in Actors
      PROVE  ActorOK(u)'
  <2>1. CASE u # w
    BY <1>5, <2>1 DEF Inv, ActorsOK, ActorOK, Its
  <2>2. CASE u = w
    <3>1. Its(w)' = Its(w)
      BY <1>3, <1>5 DEF Its
    <3>. QED
      BY <1>1, <1>2, <1>3, <1>5, <2>2, <3>1 DEF ActorOK
  <2>. QED
    BY <2>1, <2>2
<1>8. \A u \in Actors : actor'[u].pc \in PreSend =>
         actor[u].pc \in PreSend /\ actor'[u].a = actor[u].a
  BY <1>1, <1>3, <1>5
<1>9. PathOK'
  <2>1. ASSUME NEW k \in Deliveries, Lineage(k)'
        PROVE  del'[k].status \notin {"queued", "applied"}
    <3>1. Lineage(k)
      BY <2>1 DEF Lineage
    <3>. QED
      BY <1>2, <3>1
  <2>2. ASSUME NEW u \in Actors, actor'[u].pc = "applied"
        PROVE  del'[Its(u)'].status # "queued"
    <3>1. u # w
      BY <1>1, <1>3, <1>5, <2>2 DEF Purge
    <3>2. Its(u)' = Its(u) /\ actor[u].pc # "idle"
      BY <1>5, <2>2, <3>1 DEF Its
    <3>3. Its(u) \in Deliveries
      BY <3>2, WorkerFacts
    <3>. QED
      BY <1>2, <3>2, <3>3
  <2>. QED
    BY <2>1, <2>2 DEF PathOK
<1>. QED
  BY <1>6, <1>7, <1>8, <1>9, PathStep

LEMMA UnlinkInv ==
    ASSUME Inv, NEW w \in Actors, Unlink(w)
    PROVE  Inv'
<1>1. /\ actor[w].pc = "unlink" /\ remote' = [remote EXCEPT !.linked = Nothing]
      /\ Goto(w, "erase") /\ UNCHANGED <<del, msg, att, row, plan, unrecorded, faults>>
  BY DEF Unlink, At
<1>2. remote \in Sidecar
  BY TypeFacts DEF Inv
<1>3. remote' \in Sidecar /\ remote'.inflight = remote.inflight /\ remote'.linked = Nothing
  BY <1>1, <1>2 DEF Sidecar
<1>4. \A k \in Deliveries : ~Holds(k)'
  BY <1>3 DEF Holds
<1>. QED
  BY <1>1, <1>3, <1>4, PurgeStepInv

LEMMA EraseFacts ==
    ASSUME Types, NEW p, remote' = [remote EXCEPT !.nodes[p] = Nothing]
    PROVE  /\ remote' \in Sidecar /\ remote'.inflight = remote.inflight
           /\ remote'.linked = remote.linked /\ remote'.epoch = remote.epoch
           /\ \A n \in Attempts : remote'.nodes[n] = IF n = p THEN Nothing ELSE remote.nodes[n]
<1> DEFINE m == [remote.nodes EXCEPT ![p] = Nothing]
<1>1. remote \in Sidecar /\ remote.nodes \in [Attempts -> Deliveries \union {Nothing}]
  BY TypeFacts
<1>2. /\ m \in [Attempts -> Deliveries \union {Nothing}]
      /\ \A n \in Attempts : m[n] = IF n = p THEN Nothing ELSE remote.nodes[n]
  BY <1>1
<1>3. remote' = [remote EXCEPT !.nodes = m]
  OBVIOUS
<1> HIDE DEF m
<1>4. /\ remote' \in Sidecar /\ remote'.inflight = remote.inflight
      /\ remote'.linked = remote.linked /\ remote'.epoch = remote.epoch
      /\ remote'.nodes = m
  BY <1>1, <1>2, <1>3 DEF Sidecar
<1>. QED
  BY <1>2, <1>4

LEMMA EraseInv ==
    ASSUME Inv, NEW w \in Actors, Erase(w)
    PROVE  Inv'
<1>1. /\ actor[w].pc = "erase" /\ remote' = [remote EXCEPT !.nodes[plan[Its(w)]] = Nothing]
      /\ Goto(w, "verify") /\ UNCHANGED <<del, msg, att, row, plan, unrecorded, faults>>
  BY DEF Erase, At
<1>2. /\ remote' \in Sidecar /\ remote'.inflight = remote.inflight
      /\ remote'.linked = remote.linked
      /\ \A n \in Attempts :
            remote'.nodes[n] = IF n = plan[Its(w)] THEN Nothing ELSE remote.nodes[n]
  BY <1>1, EraseFacts DEF Inv
<1>3. ASSUME NEW k \in Deliveries, del[k].kind = "correction", Holds(k)'
      PROVE  Holds(k)
  <2>1. remote.linked \in Attempts \union {Nothing} /\ k # Nothing
    BY ConstantFacts, TypeFacts DEF Inv
  <2>. QED
    BY <1>1, <1>2, <1>3, <2>1 DEF Holds, Content
<1>. QED
  BY <1>1, <1>2, <1>3, PurgeStepInv
\* A waiting caller hears of its call.
LEMMA AnsweredFacts ==
    ASSUME Inv, NEW a \in Attempts, NEW pc \in {"readback", "unknown", "reject"},
           Answered(a, pc), del' = del, att' = att
    PROVE  /\ actor' \in [Actors -> Loop]
           /\ \A w \in Actors : actor'[w].a = actor[w].a /\ actor'[w].obs = actor[w].obs
           /\ \A w \in Actors : \/ actor'[w] = actor[w]
                                \/ /\ actor[w].pc = "waiting" /\ actor[w].a = a
                                   /\ actor'[w].pc = pc
           /\ \A w \in Actors : ActorOK(w)'
           /\ \A w \in Actors : Its(w)' = Its(w)
           /\ \A w \in Actors : actor'[w].pc \in PreSend =>
                 actor[w].pc \in PreSend /\ actor'[w].a = actor[w].a
<1>1. Types /\ ActorsOK /\ \A w \in Actors : actor[w] \in Loop
  BY TypeFacts DEF Inv
<1>2. actor' = [w \in Actors |-> IF actor[w].pc = "waiting" /\ actor[w].a = a
                                 THEN [actor[w] EXCEPT !.pc = pc] ELSE actor[w]]
  BY DEF Answered, At
<1>3. ASSUME NEW w \in Actors, actor[w].pc = "waiting" /\ actor[w].a = a
      PROVE  /\ actor'[w] \in Loop /\ actor'[w].pc = pc /\ actor'[w].a = actor[w].a
             /\ actor'[w].obs = actor[w].obs
  <2> DEFINE v == [actor[w] EXCEPT !.pc = pc]
  <2>1. v \in Loop /\ v.pc = pc /\ v.a = actor[w].a /\ v.obs = actor[w].obs
    BY <1>1 DEF Loop, PCs
  <2> HIDE DEF v
  <2>2. actor'[w] = v
    BY <1>2, <1>3 DEF v
  <2>. QED
    BY <2>1, <2>2
<1>4. \A w \in Actors : ~(actor[w].pc = "waiting" /\ actor[w].a = a) => actor'[w] = actor[w]
  BY <1>2
<1>5. \A w \in Actors : actor'[w] \in Loop
  BY <1>1, <1>3, <1>4
<1>6. actor' \in [Actors -> Loop]
  <2>1. actor' = [w \in Actors |-> actor'[w]]
    BY <1>2
  <2>. QED
    BY <1>5, <2>1
<1>7. \A w \in Actors : actor'[w].a = actor[w].a /\ actor'[w].obs = actor[w].obs
  BY <1>3, <1>4
<1>8. \A w \in Actors : Its(w)' = Its(w)
  BY <1>7 DEF Its
<1>9. ASSUME NEW w \in Actors
      PROVE  ActorOK(w)'
  <2>1. CASE actor'[w] = actor[w]
    BY <1>1, <1>8, <2>1 DEF ActorsOK, ActorOK
  <2>2. CASE actor[w].pc = "waiting" /\ actor[w].a = a
    <3>1. ActorOK(w)
      BY <1>1 DEF ActorsOK
    <3>2. actor'[w].pc = pc /\ actor'[w].a = actor[w].a /\ Its(w)' = Its(w)
      BY <1>3, <1>8, <2>2
    <3>. QED
      BY <2>2, <3>1, <3>2 DEF ActorOK, Purge
  <2>. QED
    BY <1>4, <2>1, <2>2
<1>10. \A w \in Actors : \/ actor'[w] = actor[w]
                         \/ /\ actor[w].pc = "waiting" /\ actor[w].a = a
                            /\ actor'[w].pc = pc
  BY <1>3, <1>4
<1>11. pc \notin PreSend
  BY DEF PreSend
<1>. QED
  BY <1>6, <1>7, <1>8, <1>9, <1>10, <1>11

\* The mutation of a correction is under way only while the correction waits:
\* it is the last delivery and not applied.
LEMMA CorrectionUnderWay ==
    ASSUME Inv, NEW a \in remote.inflight, del[att[a].of].kind = "correction"
    PROVE  /\ a \in Attempts /\ att[a].of \in Deliveries
           /\ del[att[a].of].status # "applied" /\ Lineage(att[a].of)
<1> DEFINE k == att[a].of
<1>1. /\ Types /\ Chain /\ AttemptsOK /\ SentOnce /\ OneCorrection /\ CorrectionLanded
  BY DEF Inv
<1>2. a \in Attempts /\ att[a].state \notin NotSent
  BY <1>1, TypeFacts DEF SentOnce
<1>3. k \in Deliveries /\ k # Nothing
  BY <1>1, <1>2, TypeFacts, ConstantFacts DEF AttemptsOK, AttShape, NotSent
<1>4. del[k].status # "none"
  BY <1>1, <1>3 DEF Chain
<1>5. del[k].status # "applied"
  <2> SUFFICES ASSUME del[k].status = "applied"
               PROVE  FALSE
    OBVIOUS
  <2>1. PICK b \in Attempts : att[b].of = k /\ Landed(b)
    BY <1>1, <1>3 DEF CorrectionLanded, Of
  <2>2. b = a
    BY <1>1, <1>2, <1>3, <2>1 DEF OneCorrection
  <2>. QED
    BY <2>1, <2>2 DEF Landed
<1>. QED
  BY <1>2, <1>3, <1>4, <1>5, WaitingIsLast

LEMMA LandInv ==
    ASSUME Inv, NEW a \in Attempts, Land(a)
    PROVE  Inv'
<1> DEFINE k == att[a].of
           rest == remote.inflight \ {a}
<1>1. /\ a \in remote.inflight
      /\ UNCHANGED <<del, msg, att, row, plan, unrecorded, faults>>
  BY DEF Land
<1>2. /\ Types /\ Chain /\ AttemptsOK /\ SentOnce /\ PathOK
      /\ remote \in Sidecar /\ rest \subseteq remote.inflight
      /\ remote.linked \in Attempts \union {Nothing}
      /\ remote.nodes \in [Attempts -> Deliveries \union {Nothing}]
  BY TypeFacts DEF Inv
<1>3. att[a].state \notin NotSent /\ k \in Deliveries
  BY <1>1, <1>2, TypeFacts DEF SentOnce, AttemptsOK, AttShape, NotSent
<1>4. \A w \in Actors : actor[w].pc \in PreSend => actor[w].a # a
  BY <1>1, <1>2 DEF SentOnce
<1>5. \A j \in Deliveries : Lineage(j)' <=> Lineage(j)
  BY <1>1 DEF Lineage
<1>6. \A j \in Deliveries : (del[j].kind = "admit" <=> j = 1)
  BY <1>2 DEF Chain
\* the create finds the path empty
<1>7. CASE /\ del[k].kind = "admit" /\ Absent
           /\ remote' = [remote EXCEPT !.inflight = rest, !.linked = a, !.nodes[a] = Content(k)]
           /\ Answered(a, "readback")
  <2> DEFINE m == [remote.nodes EXCEPT ![a] = Content(k)]
             f == [remote EXCEPT !.inflight = rest]
             g == [f EXCEPT !.linked = a]
  <2>1. Content(k) = k /\ k = 1
    BY <1>3, <1>6, <1>7 DEF Content
  <2>2. m \in [Attempts -> Deliveries \union {Nothing}] /\ m[a] = k
    BY <1>2, <1>3, <2>1
  <2>3. f \in Sidecar /\ f.inflight = rest /\ f.nodes = remote.nodes
    BY <1>2 DEF Sidecar
  <2> HIDE DEF f
  <2>4. g \in Sidecar /\ g.inflight = rest /\ g.nodes = remote.nodes /\ g.linked = a
    BY <2>3 DEF Sidecar
  <2>5. remote' = [g EXCEPT !.nodes[a] = Content(k)]
    BY <1>7 DEF f
  <2> HIDE DEF g
  <2>6. remote' = [g EXCEPT !.nodes = m]
    BY <2>4, <2>5
  <2> HIDE DEF m
  <2>7. /\ remote' \in Sidecar /\ remote'.inflight = rest /\ remote'.linked = a
        /\ remote'.nodes = m
    BY <2>2, <2>4, <2>6 DEF Sidecar
  <2>8. /\ actor' \in [Actors -> Loop]
        /\ \A w \in Actors : \/ actor'[w] = actor[w]
                             \/ actor[w].pc = "waiting" /\ actor'[w].pc = "readback"
        /\ \A w \in Actors : ActorOK(w)'
        /\ \A w \in Actors : Its(w)' = Its(w)
        /\ \A w \in Actors : actor'[w].pc \in PreSend =>
              actor[w].pc \in PreSend /\ actor'[w].a = actor[w].a
    BY <1>1, <1>7, AnsweredFacts
  <2>9. Types'
    BY <1>1, <1>2, <2>7, <2>8 DEF Types
  <2>10. \A j \in Deliveries : ~Holds(j)
    BY <1>7 DEF Holds, Absent
  <2>11. \A j \in Deliveries : del[j].kind = "correction" => ~Holds(j)'
    BY <1>1, <1>6, <2>1, <2>2, <2>7 DEF Holds, Content
  <2>12. PathOK'
    <3>1. ASSUME NEW j \in Deliveries, Lineage(j)', del'[j].status \in {"queued", "applied"}
          PROVE  /\ del'[j].kind = "correction" =>
                       remote'.linked # Nothing /\ remote'.nodes[remote'.linked] \in {j - 1, j}
                 /\ del'[j].kind = "admit" /\ remote'.linked # Nothing =>
                       remote'.nodes[remote'.linked] = j
                 /\ del'[j].status = "applied" => Holds(j)'
      <4>1. Lineage(j) /\ del[j].status \in {"queued", "applied"} /\ del'[j] = del[j]
        BY <1>1, <1>5, <3>1
      <4>2. del[j].kind # "correction" /\ del[j].status # "applied"
        BY <1>2, <1>7, <2>10, <4>1 DEF PathOK, Absent
      <4>3. del[j].kind = "admit" => remote'.nodes[remote'.linked] = j
        BY <1>6, <2>1, <2>2, <2>7
      <4>. QED
        BY <4>1, <4>2, <4>3
    <3>2. ASSUME NEW w \in Actors, actor'[w].pc = "applied", del'[Its(w)'].status = "queued"
          PROVE  Holds(Its(w))'
      <4>1. actor'[w] = actor[w] /\ Its(w)' = Its(w)
        BY <2>8, <3>2
      <4>2. actor[w].pc # "idle" /\ Its(w) \in Deliveries
        BY <3>2, <4>1, WorkerFacts
      <4>. QED
        BY <1>1, <1>2, <2>10, <3>2, <4>1, <4>2 DEF PathOK
    <3>. QED
      BY <3>1, <3>2 DEF PathOK
  <2>. QED
    BY <1>1, <1>2, <2>7, <2>8, <2>9, <2>11, <2>12, PathStep
\* the update finds a node
<1>8. CASE /\ del[k].kind = "correction" /\ ~Absent
           /\ remote' = [remote EXCEPT !.inflight = rest, !.nodes[remote.linked] = Content(k)]
           /\ Answered(a, "readback")
  <2> DEFINE n == remote.linked
             m == [remote.nodes EXCEPT ![n] = Content(k)]
             f == [remote EXCEPT !.inflight = rest]
  <2>1. Content(k) = k /\ n \in Attempts /\ n # Nothing
    BY <1>2, <1>8 DEF Content, Absent
  <2>2. m \in [Attempts -> Deliveries \union {Nothing}] /\ m[n] = k
    BY <1>2, <1>3, <2>1
  <2>3. f \in Sidecar /\ f.inflight = rest /\ f.nodes = remote.nodes /\ f.linked = n
    BY <1>2 DEF Sidecar
  <2>4. remote' = [f EXCEPT !.nodes[n] = Content(k)]
    BY <1>8
  <2> HIDE DEF f
  <2>5. remote' = [f EXCEPT !.nodes = m]
    BY <2>3, <2>4
  <2> HIDE DEF m
  <2>6. /\ remote' \in Sidecar /\ remote'.inflight = rest /\ remote'.linked = n
        /\ remote'.nodes = m
    BY <2>2, <2>3, <2>5 DEF Sidecar
  <2>7. remote'.linked # Nothing /\ remote'.nodes[remote'.linked] = k /\ Holds(k)'
    BY <1>1, <1>8, <2>1, <2>2, <2>6 DEF Holds, Content
  <2>a. \A j \in Deliveries : j = k => Holds(j)'
    BY <1>1, <1>8, <2>7 DEF Holds, Content
  <2>8. /\ actor' \in [Actors -> Loop]
        /\ \A w \in Actors : ActorOK(w)'
        /\ \A w \in Actors : Its(w)' = Its(w)
        /\ \A w \in Actors : \/ actor'[w] = actor[w]
                             \/ actor[w].pc = "waiting" /\ actor'[w].pc = "readback"
        /\ \A w \in Actors : actor'[w].pc \in PreSend =>
              actor[w].pc \in PreSend /\ actor'[w].a = actor[w].a
    BY <1>1, <1>8, AnsweredFacts
  <2>9. Types'
    BY <1>1, <1>2, <2>6, <2>8 DEF Types
  <2>10. Lineage(k) /\ del[k].status # "applied"
    BY <1>1, <1>8, CorrectionUnderWay
  <2>11. ASSUME NEW j \in Deliveries, Lineage(j)
         PROVE  j = k
    BY <1>3, <2>10, <2>11, LineageUnique
  <2>12. Landed(a)'
    BY <1>1, <1>3, <1>4, <2>6, <2>8 DEF Landed
  <2>13. ASSUME NEW j \in Deliveries, del[j].kind = "correction", Holds(j)'
         PROVE  \E b \in Of(j) : Landed(b)'
    <3>1. j = k
      BY <1>1, <2>7, <2>13 DEF Holds, Content
    <3>. QED
      BY <2>12, <3>1 DEF Of
  <2>14. PathOK'
    <3>1. ASSUME NEW j \in Deliveries, Lineage(j)', del'[j].status \in {"queued", "applied"}
          PROVE  /\ del'[j].kind = "correction" =>
                       remote'.linked # Nothing /\ remote'.nodes[remote'.linked] \in {j - 1, j}
                 /\ del'[j].kind = "admit" /\ remote'.linked # Nothing =>
                       remote'.nodes[remote'.linked] = j
                 /\ del'[j].status = "applied" => Holds(j)'
      <4>1. j = k
        BY <1>5, <2>11, <3>1
      <4>. QED
        BY <2>7, <2>a, <4>1
    <3>2. ASSUME NEW w \in Actors, actor'[w].pc = "applied", del'[Its(w)'].status = "queued"
          PROVE  Holds(Its(w))'
      <4>1. actor'[w] = actor[w] /\ Its(w)' = Its(w)
        BY <2>8, <3>2
      <4>2. actor[w].pc # "idle" /\ Its(w) \in Deliveries
        BY <3>2, <4>1, WorkerFacts
      <4>3. Lineage(Its(w))
        BY <1>1, <3>2, <4>1, <4>2, WaitingIsLast
      <4>4. Its(w) = k
        BY <2>11, <4>2, <4>3
      <4>5. Its(w)' = k /\ del'[k].kind = "correction"
        BY <1>1, <1>8, <4>1, <4>4
      <4>. QED
        BY <2>7, <4>5 DEF Holds, Content
    <3>. QED
      BY <3>1, <3>2 DEF PathOK
  <2>. QED
    BY <1>1, <1>2, <2>6, <2>8, <2>9, <2>13, <2>14, PathStep
\* it fails
<1>9. CASE /\ remote' = [remote EXCEPT !.inflight = rest]
           /\ \E pc \in {"unknown", "reject"} : Answered(a, pc)
  <2>1. PICK pc \in {"unknown", "reject"} : Answered(a, pc)
    BY <1>9
  <2>2. /\ remote' \in Sidecar /\ remote'.inflight = rest /\ remote'.linked = remote.linked
        /\ remote'.nodes = remote.nodes
    BY <1>2, <1>9 DEF Sidecar
  <2>3. /\ actor' \in [Actors -> Loop]
        /\ \A w \in Actors : \/ actor'[w] = actor[w]
                             \/ actor[w].pc = "waiting" /\ actor'[w].pc = pc
        /\ \A w \in Actors : ActorOK(w)'
        /\ \A w \in Actors : Its(w)' = Its(w)
        /\ \A w \in Actors : actor'[w].pc \in PreSend =>
              actor[w].pc \in PreSend /\ actor'[w].a = actor[w].a
    BY <1>1, <2>1, AnsweredFacts
  <2>4. Types'
    BY <1>1, <1>2, <2>2, <2>3 DEF Types
  <2>5. \A j \in Deliveries : Holds(j)' <=> Holds(j)
    BY <1>1, <2>2, HoldsSame
  <2>6. PathOK'
    <3>1. ASSUME NEW j \in Deliveries, Lineage(j)', del'[j].status \in {"queued", "applied"}
          PROVE  /\ del'[j].kind = "correction" =>
                       remote'.linked # Nothing /\ remote'.nodes[remote'.linked] \in {j - 1, j}
                 /\ del'[j].kind = "admit" /\ remote'.linked # Nothing =>
                       remote'.nodes[remote'.linked] = j
                 /\ del'[j].status = "applied" => Holds(j)'
      <4>1. Lineage(j) /\ del'[j] = del[j]
        BY <1>1, <1>5, <3>1
      <4>. QED
        BY <1>2, <2>2, <2>5, <3>1, <4>1 DEF PathOK
    <3>2. ASSUME NEW w \in Actors, actor'[w].pc = "applied", del'[Its(w)'].status = "queued"
          PROVE  Holds(Its(w))'
      <4>1. actor'[w] = actor[w] /\ Its(w)' = Its(w)
        BY <2>1, <2>3, <3>2
      <4>2. actor[w].pc # "idle" /\ Its(w) \in Deliveries
        BY <3>2, <4>1, WorkerFacts
      <4>3. Holds(Its(w))
        BY <1>1, <1>2, <3>2, <4>1 DEF PathOK
      <4>. QED
        BY <1>1, <2>2, <4>1, <4>3 DEF Holds, Content
    <3>. QED
      BY <3>1, <3>2 DEF PathOK
  <2>. QED
    BY <1>1, <1>2, <2>2, <2>3, <2>4, <2>5, <2>6, PathStep
<1>. QED
  BY <1>7, <1>8, <1>9 DEF Land

LEMMA AmendInv ==
    ASSUME Inv, NEW k \in Deliveries,
           InsertRecordCorrection(k) \/ DeleteRecord(k)
    PROVE  Inv'
<1>1. PICK kind \in {"correction", "delete"}, status \in {"queued", "delete_pending"} :
         /\ Amend(k, kind, status) /\ (kind = "correction" <=> status = "queued")
  BY DEF InsertRecordCorrection, DeleteRecord
<1> DEFINE d == [kind |-> kind, status |-> status, late |-> FALSE]
<1>2. /\ k - 1 \in Deliveries /\ Lineage(k - 1) /\ del[k - 1].status = "applied"
      /\ del' = [del EXCEPT ![k] = d] /\ msg' = [msg EXCEPT ![k] = "open"]
      /\ UNCHANGED <<att, row, plan, remote, actor, unrecorded, faults>>
  BY <1>1 DEF Amend
<1>3. /\ Types /\ Chain /\ AttemptsOK /\ ActorsOK /\ SentOnce /\ OneCorrection
      /\ CorrectionLanded /\ PathOK
  BY DEF Inv
<1>4. k \in Nat /\ k - 1 < k /\ k # 1 /\ k - 1 # k /\ ~(k <= k - 1)
  BY <1>2, ConstantFacts
<1>5. d \in Delivery /\ d.kind = kind /\ d.status = status
  BY DEF Delivery, Kinds, Statuses
<1> HIDE DEF d
<1>6. /\ del' \in [Deliveries -> Delivery] /\ del'[k] = d
      /\ \A j \in Deliveries : j # k => del'[j] = del[j]
  BY <1>2, <1>3, <1>5 DEF Types
<1>7. Types'
  BY <1>2, <1>3, <1>6 DEF Types
<1>8. del[k].status = "none"
  BY <1>2, <1>4 DEF Lineage
<1>9. plan[k] = Nothing
  BY <1>3, <1>8 DEF Chain, Expiring, Deleting
<1>10. \A a \in Attempts : att[a].of # k
  <2> SUFFICES ASSUME NEW a \in Attempts, att[a].of = k
               PROVE  FALSE
    OBVIOUS
  <2>1. att[a].state # "none"
    BY <1>3, ConstantFacts DEF AttemptsOK, AttShape, NoAttempt
  <2>. QED
    BY <1>3, <1>8, <2>1 DEF AttemptsOK
<1>11. ASSUME NEW a \in Attempts, att[a].state # "none"
       PROVE  del'[att[a].of] = del[att[a].of]
  <2>1. att[a].of \in Deliveries
    BY <1>3, <1>11, TypeFacts DEF AttemptsOK, AttShape
  <2>. QED
    BY <1>6, <1>10, <2>1
<1>12. Chain'
  <2>1. ASSUME NEW j \in Deliveries, NEW l \in Deliveries, j < l, del'[l].status # "none"
        PROVE  del'[j].status = "applied"
    <3>1. j \in Nat /\ l \in Nat
      BY ConstantFacts
    <3>2. l <= k
      <4>1. CASE l = k
        BY <1>4, <4>1
      <4>2. CASE l # k
        <5>1. l <= k - 1
          BY <1>2, <1>6, <2>1, <4>2 DEF Lineage
        <5>. QED
          BY <1>4, <3>1, <5>1
      <4>. QED
        BY <4>1, <4>2
    <3>3. j # k /\ j <= k - 1
      BY <1>4, <2>1, <3>1, <3>2
    <3>4. del'[j] = del[j]
      BY <1>6, <3>3
    <3>5. j = k - 1 \/ j < k - 1
      BY <1>4, <3>1, <3>3
    <3>6. del[k - 1].status # "none"
      BY <1>2
    <3>. QED
      BY <1>2, <1>3, <3>4, <3>5, <3>6 DEF Chain
  <2>2. ASSUME NEW j \in Deliveries
        PROVE  /\ del'[j].status = "none" <=> del'[j].kind = "none"
               /\ j = 1 <=> del'[j].kind = "admit"
               /\ del'[j].kind = "delete" <=> del'[j].status \in Deleting
               /\ plan'[j] # Nothing => del'[j].status \in Expiring \union Deleting
    <3>1. CASE j = k
      BY <1>1, <1>2, <1>4, <1>5, <1>6, <1>9, <3>1 DEF Deleting
    <3>2. CASE j # k
      BY <1>2, <1>3, <1>6, <3>2 DEF Chain
    <3>. QED
      BY <3>1, <3>2
  <2>. QED
    BY <2>1, <2>2 DEF Chain
<1>13. AttemptsOK'
  BY <1>2, <1>3, <1>11 DEF AttemptsOK
<1>14. ASSUME NEW w \in Actors, actor[w].pc # "idle"
       PROVE  actor[w].a \in Attempts /\ Its(w)' = Its(w) /\ del'[Its(w)] = del[Its(w)]
  BY <1>2, <1>11, <1>14, WorkerFacts DEF Its
<1>15. ActorsOK'
  BY <1>2, <1>3, <1>14 DEF ActorsOK, ActorOK
<1>16. SentOnce'
  <2>1. ASSUME NEW a \in remote.inflight
        PROVE  att[a].state \notin NotSent /\ del'[att[a].of].kind # "delete"
    <3>1. a \in Attempts /\ att[a].state \notin NotSent /\ del[att[a].of].kind # "delete"
      BY <1>3, TypeFacts DEF SentOnce
    <3>. QED
      BY <1>11, <3>1 DEF NotSent
  <2>. QED
    BY <1>2, <1>3, <2>1 DEF SentOnce
<1>17. OneCorrection'
  <2> SUFFICES ASSUME NEW a \in Attempts, NEW b \in Attempts,
                      att[a].of # Nothing, att[a].of = att[b].of,
                      del'[att[a].of].kind = "correction"
               PROVE  a = b
    BY <1>2 DEF OneCorrection
  <2>1. att[a].state # "none"
    BY <1>3 DEF AttemptsOK, AttShape, NoAttempt
  <2>2. del[att[a].of].kind = "correction"
    BY <1>11, <2>1
  <2>. QED
    BY <1>3, <2>2 DEF OneCorrection
\* the path holds the revision that was applied
<1>18. /\ del[k - 1].kind # "delete" /\ Content(k - 1) = k - 1
       /\ remote.linked # Nothing /\ remote.nodes[remote.linked] = k - 1
  <2>1. del[k - 1].kind # "delete"
    BY <1>2, <1>3 DEF Chain, Deleting
  <2>2. Holds(k - 1)
    BY <1>2, <1>3 DEF PathOK
  <2>. QED
    BY <2>1, <2>2 DEF Content, Holds
<1>19. CorrectionLanded'
  <2> SUFFICES ASSUME NEW j \in Deliveries, del'[j].kind = "correction",
                      \/ del'[j].status = "applied"
                      \/ /\ del'[j].status \in Expiring \union {"queued"}
                         /\ Holds(j)' \/ plan[j] # Nothing
               PROVE  \E a \in Of(j) : Landed(a)
    BY <1>2 DEF CorrectionLanded, Of, Landed
  <2>1. CASE j = k
    <3>1. ~Holds(k)'
      <4>1. Content(k)' = k
        BY <2>1 DEF Content
      <4>. QED
        BY <1>2, <1>4, <1>18, <4>1 DEF Holds
    <3>2. del'[k].status # "applied"
      BY <1>5, <1>6
    <3>. QED
      BY <1>9, <2>1, <3>1, <3>2
  <2>2. CASE j # k
    <3>1. del'[j] = del[j]
      BY <1>6, <2>2
    <3>2. Holds(j)' <=> Holds(j)
      BY <1>2, <3>1, HoldsSame
    <3>. QED
      BY <1>3, <3>1, <3>2 DEF CorrectionLanded
  <2>. QED
    BY <2>1, <2>2
<1>20. PathOK'
  <2>1. ASSUME NEW j \in Deliveries, Lineage(j)'
        PROVE  j = k
    <3>1. k <= j
      BY <1>1, <1>5, <1>6, <2>1 DEF Lineage
    <3>2. j # k => j <= k - 1
      BY <1>2, <1>6, <2>1 DEF Lineage
    <3>. QED
      BY <1>4, <3>1, <3>2, ConstantFacts
  <2>2. ASSUME NEW w \in Actors, actor[w].pc = "applied", del'[Its(w)'].status = "queued"
        PROVE  Holds(Its(w))'
    <3>1. actor[w].pc # "idle" /\ Its(w)' = Its(w) /\ del'[Its(w)] = del[Its(w)]
      BY <1>14, <2>2
    <3>2. Holds(Its(w))
      BY <1>3, <2>2, <3>1 DEF PathOK
    <3>. QED
      BY <1>2, <3>1, <3>2 DEF Holds, Content
  <2>3. del'[k].kind # "admit" /\ del'[k].status # "applied"
    BY <1>5, <1>6
  <2>. QED
    BY <1>2, <1>18, <2>1, <2>2, <2>3 DEF PathOK
<1>. QED
  BY <1>7, <1>12, <1>13, <1>15, <1>16, <1>17, <1>19, <1>20 DEF Inv
----------------------------------------------------------------------------
(* The theorems about what is at the path. *)

LEMMA InitInv ==
    ASSUME Init
    PROVE  Inv
<1>1. Types
  <2>1. [kind |-> "admit", status |-> "queued", late |-> FALSE] \in Delivery
        /\ NoDelivery \in Delivery
    BY DEF Delivery, Kinds, Statuses, NoDelivery
  <2>2. NoAttempt \in Attempt /\ NoRow \in Reconciliation /\ Idle \in Loop
    BY ConstantFacts DEF NoAttempt, Attempt, AttStates, NoRow, Reconciliation, RowStatuses,
                         Idle, Loop, PCs, Nothing
  <2>3. remote \in Sidecar
    BY ConstantFacts DEF Init, Sidecar, Nothing
  <2>4. del \in [Deliveries -> Delivery]
    BY <2>1 DEF Init
  <2>5. msg \in [Deliveries -> {"none", "open", "dead", "closed"}]
    BY DEF Init
  <2>6. att \in [Attempts -> Attempt] /\ row \in [Attempts -> Reconciliation]
        /\ actor \in [Actors -> Loop]
    BY <2>2 DEF Init
  <2>7. plan \in [Deliveries -> Attempts \union {Nothing}] /\ unrecorded \in BOOLEAN
    BY DEF Init
  <2>8. faults \in 0..MaxFaults
    BY ConstantFacts DEF Init
  <2>. QED
    BY <2>3, <2>4, <2>5, <2>6, <2>7, <2>8 DEF Types
<1>2. /\ \A k \in Deliveries : k # 1 => del[k].status = "none" /\ del[k].kind = "none"
      /\ del[1].status = "queued" /\ del[1].kind = "admit" /\ 1 \in Deliveries
  BY ConstantFacts DEF Init, NoDelivery
<1>3. /\ \A a \in Attempts : att[a] = NoAttempt /\ att[a].of = Nothing /\ att[a].state = "none"
                             /\ att[a].holder = "nobody" /\ att[a].epoch = Nothing
      /\ \A w \in Actors : actor[w].pc = "idle"
      /\ \A k \in Deliveries : plan[k] = Nothing
      /\ remote.linked = Nothing /\ remote.inflight = {}
  BY DEF Init, NoAttempt, Idle
<1>4. Chain
  BY <1>2, <1>3, ConstantFacts DEF Chain, Deleting, Expiring
<1>5. AttemptsOK
  BY <1>3 DEF AttemptsOK, AttShape
<1>6. ActorsOK /\ SentOnce /\ OneCorrection
  BY <1>3 DEF ActorsOK, ActorOK, SentOnce, PreSend, OneCorrection
<1>7. CorrectionLanded
  BY <1>2 DEF CorrectionLanded
<1>8. PathOK
  BY <1>2, <1>3 DEF PathOK
<1>. QED
  BY <1>1, <1>4, <1>5, <1>6, <1>7, <1>8 DEF Inv

LEMMA StutterInv ==
    ASSUME Inv, UNCHANGED vars
    PROVE  Inv' /\ Law
<1>1. Types'
  BY DEF vars, Inv, Types
<1>. QED
  BY <1>1, AttSame, DelSame, PlanSame, RemoteSame, HomeStep DEF vars

LEMMA WorkInv ==
    ASSUME Inv, NEW w \in Actors, Work(w)
    PROVE  Inv'
<1>1. CASE FinalizeApplied(w) \/ FinalizeRejected(w) \/ FinalizeDeleted(w)
  BY <1>1, FinalizeInv DEF FinalizeApplied, FinalizeRejected, FinalizeDeleted
<1>2. CASE Capabilities(w) \/ LookEpoch(w)
  BY <1>2, CapabilitiesInv
<1>. QED
  BY <1>1, <1>2, MarkSentInv, PreflightInv, SendInv, ReadbackInv, MarkUnknownInv,
     FirstReadInv, SecondReadInv, AuthorizeRetryInv, SavePlanInv, UnlinkInv, EraseInv,
     VerifyAbsentInv DEF Work

LEMMA InvStep ==
    ASSUME Inv, [Next]_vars
    PROVE  Inv'
<1>1. CASE UNCHANGED vars
  BY <1>1, StutterInv
<1>2. CASE User
  BY <1>2, AmendInv, ReplayInv, DeadlineInv DEF User
<1>3. CASE Messages
  BY <1>3, MessagesInv DEF Messages
<1>4. CASE Claims
  BY <1>4, ClaimNewInv, ClaimOpenInv DEF Claims
<1>5. CASE Expiry
  <2>1. "verified" \in RowStatuses /\ "absence_verified" \in RowStatuses
        /\ "conflict" \in RowStatuses
    BY DEF RowStatuses
  <2>2. CASE ExpiryPurged \/ ExpiryAbsent \/ ExpiryConflict
    BY <2>1, <2>2, FinalizeExpiryInv DEF ExpiryPurged, ExpiryAbsent, ExpiryConflict
  <2>. QED
    BY <1>5, <2>2, ClaimExpiryInv, ExpiryFoundInv DEF Expiry
<1>6. CASE Faults
  BY <1>6, CapabilitiesFailInv, CallFailsInv, RestartInv, CrashInv DEF Faults
<1>7. CASE \E w \in Actors : Work(w)
  BY <1>7, WorkInv
<1>8. CASE \E k \in Deliveries : ExpireDeliveries(k)
  BY <1>8, ExpireDeliveriesInv
<1>9. CASE \E a \in Attempts : Land(a) \/ LeaseRunsOut(a)
  BY <1>9, LandInv, LeaseRunsOutInv
<1>. QED
  BY <1>1, <1>2, <1>3, <1>4, <1>5, <1>6, <1>7, <1>8, <1>9 DEF Next

\* The inductive invariant about the path.
THEOREM InvHolds == Spec => []Inv
BY InitInv, InvStep, PTL DEF Spec

\* Every table and every loop keeps its type, the CHECKs of an attempt's row
\* (memory_delivery_attempt_lease_shape and _send_shape) included.
THEOREM TypeCorrect == Spec => []TypeOK
<1>1. ASSUME Inv
      PROVE  TypeOK
  <2>1. Types /\ AttemptsOK
    BY <1>1 DEF Inv
  <2>2. ASSUME NEW a \in Attempts
        PROVE  /\ att[a] \in [of : Deliveries \union {Nothing},
                    state : {"none", "prepared", "sent", "unknown", "reconciling",
                             "confirmed", "fenced"},
                    holder : Actors \union {"nobody"}, live : BOOLEAN, epoch : 0..MaxEpochs]
               /\ Open(a) = (att[a].holder # "nobody")
               /\ att[a].state \in {"sent", "unknown", "reconciling", "confirmed"} => WasSent(a)
               /\ att[a].state = "prepared" => ~WasSent(a)
    <3>1. AttShape(att[a]) /\ att[a] \in Attempt
      BY <2>1, TypeFacts DEF AttemptsOK
    <3>. QED
      BY <3>1 DEF AttShape, Open, WasSent, Attempt, AttStates
  <2>3. \A w \in Actors : actor[w].a \in Attempts \union {Nothing}
    BY <2>1, TypeFacts
  <2>. QED
    BY <2>1, <2>2, <2>3 DEF TypeOK, Types, Delivery, Kinds, Statuses, Reconciliation,
                            RowStatuses, Sidecar
<1>. QED
  BY <1>1, InvHolds, PTL

\* A record that is reported applied is at its path with exactly its revision:
\* no mutation of an earlier attempt or of another revision lands on top of it.
THEOREM AppliedIsStoredHolds == Spec => []AppliedIsStored
<1>1. ASSUME Inv
      PROVE  AppliedIsStored
  BY <1>1 DEF Inv, PathOK, AppliedIsStored, Holds
<1>. QED
  BY <1>1, InvHolds, PTL
----------------------------------------------------------------------------
(* What every step does to the boots, the attempts and the calls under way. *)

EpochLaw ==
    /\ remote'.epoch = remote.epoch \/ (remote'.epoch > remote.epoch /\ remote'.inflight = {})
    /\ \A a \in Attempts : att'[a].epoch <= remote'.epoch
    /\ \A w \in Actors : actor'[w].obs <= remote'.epoch
    /\ unrecorded => unrecorded'
    /\ \A x \in remote'.inflight \ remote.inflight : ~unrecorded' => att[x].epoch = remote.epoch

Drift ==
    /\ \A a \in Attempts : AttLaw(a)
    /\ \A w \in Actors : actor'[w].pc \in PreSend =>
          (actor[w].pc \in PreSend /\ actor'[w].a = actor[w].a) \/ Marks(w)
    /\ \A x \in remote'.inflight :
          x \in remote.inflight \/ \E w \in Actors : actor[w].pc = "send" /\ actor[w].a = x
    /\ EpochLaw

LEMMA LawDrifts ==
    ASSUME Law, EpochLaw, Types
    PROVE  Drift
<1>1. \A w \in Actors : ActLaw(w)
  BY DEF Law
<1>2. ASSUME NEW w \in Actors, actor'[w].pc \in PreSend
      PROVE  (actor[w].pc \in PreSend /\ actor'[w].a = actor[w].a) \/ Marks(w)
  BY <1>1, <1>2 DEF ActLaw, PreSend
<1>. QED
  BY <1>2 DEF Law, Drift, PathSame

\* What drifting keeps: what was sent stays sent, what is dead stays dead.
LEMMA DriftFacts ==
    ASSUME Inv, Types', EpochsOK, Drift
    PROVE  /\ \A a \in Attempts : WasSent(a) =>
                 WasSent(a)' /\ att'[a].epoch = att[a].epoch /\ att[a].state \notin NotSent
           /\ \A a \in Attempts : att[a].of # Nothing =>
                 att[a].state # "none" /\ att'[a].of = att[a].of
           /\ \A a \in Attempts : att'[a].of # Nothing => att[a].of = att'[a].of \/ Born(a)
           /\ \A a \in Attempts : att[a].state # "none" => att'[a].state # "none"
           /\ \A a \in Attempts : att[a].state \notin NotSent =>
                 att'[a].state \notin NotSent /\ att'[a].epoch = att[a].epoch
           /\ ~unrecorded' => ~unrecorded
           /\ ~unrecorded' => \A a \in Attempts : Dead(a) => Dead(a)'
           /\ ~unrecorded' /\ (\A a \in remote.inflight : att[a].epoch = remote.epoch)
              => \A a \in remote'.inflight : att'[a].epoch = remote'.epoch
<1>1. Types /\ AttemptsOK /\ SentOnce /\ ActorsOK
  BY DEF Inv
<1>2. \A a \in Attempts : AttLaw(a) /\ AttShape(att[a]) /\ att[a].state \in AttStates
  BY <1>1, TypeFacts DEF Drift, AttemptsOK
<1>3. \A a \in Attempts :
         /\ att[a].state # "none" => att'[a].state # "none" /\ att'[a].of = att[a].of
         /\ att[a].state \notin NotSent =>
               att'[a].state \notin NotSent /\ att'[a].epoch = att[a].epoch
         /\ att'[a].of # Nothing => att'[a].state # "none"
         /\ ~Born(a) => att'[a].of = att[a].of
  BY <1>2, AttLawFacts
<1>4. \A a \in Attempts : WasSent(a) => att[a].state \notin NotSent
  BY <1>2 DEF WasSent, AttShape, NotSent, NoAttempt
<1>5. \A a \in Attempts : att[a].of # Nothing => att[a].state # "none"
  BY <1>2 DEF AttShape, NoAttempt
<1>6. \A a \in Attempts : WasSent(a) =>
         WasSent(a)' /\ att'[a].epoch = att[a].epoch /\ att[a].state \notin NotSent
  BY <1>3, <1>4 DEF WasSent
<1>7. EpochLaw /\ (~unrecorded' => ~unrecorded)
  BY DEF Drift, EpochLaw
<1>8. /\ remote.epoch \in Nat /\ remote'.epoch \in Nat /\ remote.inflight \subseteq Attempts
      /\ remote'.inflight \subseteq Attempts
      /\ \A a \in Attempts : att[a].epoch \in Nat
  <2>1. /\ remote.epoch \in 1..MaxEpochs /\ remote'.epoch \in 1..MaxEpochs
        /\ remote.inflight \subseteq Attempts /\ remote'.inflight \subseteq Attempts
    BY <1>1, TypeFacts DEF Types, Sidecar
  <2>2. \A a \in Attempts : att[a].epoch \in 0..MaxEpochs
    BY <1>1, TypeFacts
  <2>. QED
    BY <2>1, <2>2, ConstantFacts
<1>9. ASSUME ~unrecorded', NEW a \in Attempts, Dead(a)
      PROVE  Dead(a)'
  <2>1. att[a].state \notin NotSent /\ a \notin remote.inflight
    BY <1>9 DEF Dead
  <2>2. att'[a].state \notin NotSent /\ att'[a].epoch = att[a].epoch
    BY <1>3, <2>1
  <2>3. a \notin remote'.inflight
    <3> SUFFICES ASSUME a \in remote'.inflight
                 PROVE  FALSE
      OBVIOUS
    <3>1. PICK w \in Actors : actor[w].pc = "send" /\ actor[w].a = a
      BY <2>1 DEF Drift
    <3>2. att[a].epoch = remote.epoch
      BY <1>7, <1>9, <2>1 DEF EpochLaw
    <3>. QED
      BY <1>9, <3>1, <3>2 DEF Dead, PreSend
  <2>4. ASSUME NEW w \in Actors, actor'[w].pc \in PreSend, actor'[w].a = a
        PROVE  att'[a].epoch # remote'.epoch
    <3>1. ~Marks(w)
      BY <2>1, <2>4 DEF Marks, NotSent
    <3>2. actor[w].pc \in PreSend /\ actor[w].a = a
      BY <2>4, <3>1 DEF Drift
    <3>3. att[a].epoch # remote.epoch
      BY <1>9, <3>2 DEF Dead
    <3>4. att[a].epoch <= remote.epoch
      BY DEF EpochsOK
    <3>5. remote'.epoch = remote.epoch \/ remote'.epoch > remote.epoch
      BY <1>7 DEF EpochLaw
    <3>6. att[a].epoch < remote.epoch
      BY <1>8, <3>3, <3>4
    <3>7. att[a].epoch # remote'.epoch
      BY <1>8, <3>5, <3>6
    <3>. QED
      BY <2>2, <3>7
  <2>. QED
    BY <2>2, <2>3, <2>4 DEF Dead
<1>10. ASSUME ~unrecorded', \A a \in remote.inflight : att[a].epoch = remote.epoch,
              NEW a \in remote'.inflight
       PROVE  att'[a].epoch = remote'.epoch
  <2>1. remote'.epoch = remote.epoch
    BY <1>7 DEF EpochLaw
  <2>2. att[a].epoch = remote.epoch
    BY <1>7, <1>10 DEF EpochLaw
  <2>3. a \in Attempts /\ att[a].state \notin NotSent
    <3>1. CASE a \in remote.inflight
      BY <1>1, <1>8, <3>1 DEF SentOnce
    <3>2. CASE a \notin remote.inflight
      <4>1. PICK w \in Actors : actor[w].pc = "send" /\ actor[w].a = a
        BY <3>2 DEF Drift
      <4>. QED
        BY <1>1, <1>8, <4>1 DEF SentOnce, PreSend
    <3>. QED
      BY <3>1, <3>2
  <2>. QED
    BY <1>3, <2>1, <2>2, <2>3
<1>. QED
  BY <1>3, <1>5, <1>6, <1>7, <1>9, <1>10

----------------------------------------------------------------------------
(* The steps that leave the path alone, for the second invariant. *)

\* A new attempt is the next number, of a delivery that waits, and everything
\* before it is dead.
BirthLaw(a) ==
    Born(a) =>
        /\ \A b \in Attempts : b < a => att[b].state # "none"
        /\ del'[att'[a].of].status \in {"queued", "delete_pending"}
        /\ ~unrecorded => \A b \in Of(att'[a].of) : Dead(b)
        /\ ~unrecorded /\ att'[a].of = 1 => Absent

OpenLaw(a) == Open(a)' => Open(a) \/ Born(a)

QuietDel(k) ==
    /\ del'[k].status \in Expiring /\ del[k].status \notin Expiring =>
          /\ \A a \in Of(k) : ~Open(a)' /\ (WasSent(a)' => row'[a].status # "none")
          /\ del'[k].status = "expired" => \A a \in Of(k) : ~WasSent(a)'
          /\ del'[k].status = "expiry_reconciling" => \E a \in Of(k) : Unsettled(a)'
    /\ del[k].status = "expiry_reconciling" /\ del'[k].status = "expired" /\ ~unrecorded =>
          Clean /\ \A a \in Of(k) : Dead(a)
    /\ del[k].status = "expiry_reconciling" /\ del'[k].status = "expiry_reconciling" =>
          \/ \A b \in Of(k) : Unsettled(b) => Unsettled(b)'
          \/ \E b \in Of(k) : Unsettled(b)'
    /\ del'[k].status = "deleted" /\ del[k].status # "deleted" /\ ~unrecorded => Clean

Settled == {"absence_verified", "verified"}

QuietRow(a) ==
    /\ row'[a].status = "none" => row'[a] = NoRow
    /\ \/ row'[a].status = row[a].status
       \/ /\ row[a].status = "none" /\ row'[a].status = "pending" /\ WasSent(a)
          /\ att[a].of # Nothing /\ del'[att[a].of].status \in Expiring
       \/ row[a].status \notin {"none", "delete_pending"}
          /\ row'[a].status \notin Settled \union {"none"}
       \/ /\ row[a].status # "none" /\ row'[a].status \in Settled
          /\ ~unrecorded => Dead(a)
          /\ ~unrecorded /\ row[a].status = "delete_pending" => Clean

QuietPlan(k) ==
    \/ plan'[k] = plan[k]
    \/ /\ plan[k] = Nothing /\ plan'[k] = remote.linked /\ remote.linked # Nothing
       /\ del[k].status \in Expiring =>
             \E a \in Of(k) : row[a].status = "delete_pending" /\ row'[a].status = "delete_pending"

\* What a loop that moves has found out.
Fresh(w) ==
    /\ actor'[w].pc \in Looking => att'[actor'[w].a].state \notin NotSent
    /\ actor'[w].pc \in Looking \ {"look"} => att'[actor'[w].a].epoch <= actor'[w].obs
    /\ actor'[w].pc \in {"second", "authorize", "absent"} =>
          att'[actor'[w].a].epoch < remote'.epoch
    /\ actor'[w].pc \in Purge \ {"plan"} => plan'[Its(w)'] # Nothing
    /\ w = "expiry" /\ actor'[w].pc \in Purge => row'[actor'[w].a].status = "delete_pending"
    /\ w = "expiry" /\ actor'[w].pc \in Judging => row'[actor'[w].a].status = "reconciling"
    /\ ~unrecorded /\ actor'[w].pc = "authorize" => Absent
    /\ ~unrecorded /\ actor'[w].pc = "purged" => Clean
    /\ ~unrecorded /\ w = "expiry" /\ actor'[w].pc = "absent" =>
          Clean \/ \E b \in Of(Its(w)') : b # actor'[w].a /\ Unsettled(b)'

QuietAct(w) ==
    \/ actor'[w] = actor[w]
       /\ (w = "expiry" /\ actor[w].pc # "idle" =>
              \A b \in Attempts : row[b].status # "none" => row'[b].status = row[b].status)
    \/ actor'[w].pc = "idle"
    \/ Fresh(w)

QuietLaw ==
    /\ EpochLaw
    /\ \A a \in Attempts : BirthLaw(a) /\ OpenLaw(a) /\ QuietRow(a)
    /\ \A k \in Deliveries : QuietDel(k) /\ QuietPlan(k)
    /\ \A w \in Actors : QuietAct(w)
LEMMA QuietKeeps ==
    ASSUME Inv, Inv', QuietInv, Law, QuietLaw
    PROVE  QuietInv'
<1>1. /\ Types /\ Chain /\ AttemptsOK /\ ActorsOK /\ EpochsOK /\ Numbered /\ RowsOK
      /\ Types' /\ Chain' /\ AttemptsOK' /\ ActorsOK'
  BY DEF Inv, QuietInv
<1>2. /\ EpochLaw
      /\ \A a \in Attempts : BirthLaw(a) /\ OpenLaw(a) /\ QuietRow(a)
      /\ \A k \in Deliveries : QuietDel(k) /\ QuietPlan(k)
      /\ \A w \in Actors : QuietAct(w)
  BY DEF QuietLaw
<1>3. Drift
  BY <1>1, <1>2, LawDrifts
<1>4. /\ \A a \in Attempts : WasSent(a) =>
            WasSent(a)' /\ att'[a].epoch = att[a].epoch /\ att[a].state \notin NotSent
      /\ \A a \in Attempts : att[a].of # Nothing =>
            att[a].state # "none" /\ att'[a].of = att[a].of
      /\ \A a \in Attempts : att'[a].of # Nothing => att[a].of = att'[a].of \/ Born(a)
      /\ \A a \in Attempts : att[a].state # "none" => att'[a].state # "none"
      /\ \A a \in Attempts : att[a].state \notin NotSent =>
            att'[a].state \notin NotSent /\ att'[a].epoch = att[a].epoch
      /\ ~unrecorded' => ~unrecorded
      /\ ~unrecorded' => \A a \in Attempts : Dead(a) => Dead(a)'
      /\ ~unrecorded' /\ (\A a \in remote.inflight : att[a].epoch = remote.epoch)
         => \A a \in remote'.inflight : att'[a].epoch = remote'.epoch
  BY <1>1, <1>3, DriftFacts
<1>5. /\ \A k \in Deliveries : DelLaw(k) /\ PlanLaw(k)
      /\ \A a \in Attempts : AttLaw(a)
      /\ \A a, b \in Attempts : Born(a) /\ Born(b) => a = b
      /\ remote'.linked = remote.linked /\ remote'.nodes = remote.nodes
  BY DEF Law, PathSame
<1>6. /\ \A k \in Deliveries : del[k].status \in Statuses
      /\ \A a \in Attempts : att[a].of \in Deliveries \union {Nothing}
      /\ \A a \in Attempts : att'[a].of \in Deliveries \union {Nothing}
      /\ \A a \in Attempts : att[a].state \in AttStates
  <2>1. \A a \in Attempts : att'[a].of \in Deliveries \union {Nothing}
    BY <1>1 DEF Types, Attempt
  <2>. QED
    BY <1>1, <2>1, TypeFacts
<1>7. \A k \in Deliveries :
         /\ del'[k].kind = del[k].kind
         /\ del'[k].status = "none" <=> del[k].status = "none"
         /\ del'[k].status = "applied" =>
               del[k].status = "applied" \/ (del[k].status = "queued" /\ Holds(k))
         /\ del'[k].status = "queued" => del[k].status = "queued"
         /\ del[k].status \in Expiring => del'[k].status \in Expiring
         /\ del'[k].status \in Expiring => del[k].status \in Expiring \union {"queued"}
  BY <1>5, <1>6, DelLawFacts
<1>8. Nothing \notin Deliveries /\ Nothing \notin Attempts /\ 1 \in Deliveries
  BY ConstantFacts
<1>9. \A k \in Deliveries : Of(k) \subseteq Of(k)'
  BY <1>4, <1>8 DEF Of
<1>10. \A k \in Deliveries : \A a \in Of(k)' : a \in Attempts /\ (a \in Of(k) \/ Born(a))
  BY <1>4, <1>8 DEF Of
<1>11. \A k \in Deliveries : Lineage(k)' <=> Lineage(k)
  BY <1>7 DEF Lineage
<1>12. ASSUME NEW a \in Attempts, Born(a)
       PROVE  /\ ~WasSent(a)' /\ att[a].of = Nothing /\ att[a].state = "none"
              /\ del'[att'[a].of].status \in {"queued", "delete_pending"}
  <2>1. att'[a].state = "prepared" /\ AttShape(att'[a]) /\ att[a].state = "none"
    BY <1>5, <1>12 DEF AttLaw, Born, NotSent
  <2>2. att[a].of = Nothing
    BY <1>1, <2>1 DEF AttemptsOK, AttShape, NoAttempt
  <2>. QED
    BY <1>2, <1>12, <2>1, <2>2 DEF AttShape, WasSent, BirthLaw
\* an attempt of an expired delivery is not marked any more
<1>13. ASSUME NEW a \in Attempts, att[a].of # Nothing, del[att[a].of].status \in Expiring
       PROVE  WasSent(a)' <=> WasSent(a)
  <2>1. ~Open(a) /\ att[a].state # "none" /\ att[a].state \in AttStates
    BY <1>1, <1>4, <1>6, <1>13 DEF RowsOK
  <2>2. att[a].state \notin NotSent
    BY <2>1 DEF Open, NotSent, AttStates
  <2>. QED
    BY <1>4, <2>2 DEF WasSent
\* a loop that stays where it is keeps its attempt and delivery
<1>14. ASSUME NEW w \in Actors, actor'[w] = actor[w], actor[w].pc # "idle"
       PROVE  /\ actor[w].a \in Attempts /\ Its(w) \in Deliveries /\ Its(w)' = Its(w)
              /\ actor[w].a \in Of(Its(w))
  <2>1. /\ actor[w].a \in Attempts /\ Its(w) \in Deliveries /\ att[actor[w].a].state # "none"
    BY <1>14, WorkerFacts
  <2>2. Its(w)' = Its(w)
    BY <1>4, <1>8, <1>14, <2>1 DEF Its
  <2>. QED
    BY <2>1, <2>2 DEF Of, Its
<1>15. \A a \in Attempts : row[a].status # "none" => row'[a].status # "none"
  BY <1>2 DEF QuietRow, Settled
<1>16. EpochsOK'
  <2>1. ASSUME NEW w \in Actors
        PROVE  /\ actor'[w].pc \in Looking => att'[actor'[w].a].state \notin NotSent
               /\ actor'[w].pc \in Looking \ {"look"} =>
                     att'[actor'[w].a].epoch <= actor'[w].obs
               /\ actor'[w].pc \in {"second", "authorize", "absent"} =>
                     att'[actor'[w].a].epoch < remote'.epoch
    <3>1. CASE actor'[w].pc = "idle"
      BY <3>1 DEF Looking
    <3>2. CASE Fresh(w)
      BY <3>2 DEF Fresh
    <3>3. CASE actor'[w] = actor[w] /\ actor[w].pc \in Looking
      <4>1. actor[w].pc # "idle"
        BY <3>3 DEF Looking
      <4>2. actor[w].a \in Attempts
        BY <1>14, <3>3, <4>1
      <4>3. att[actor[w].a].state \notin NotSent
        BY <1>1, <3>3 DEF EpochsOK
      <4>4. att'[actor[w].a].state \notin NotSent
            /\ att'[actor[w].a].epoch = att[actor[w].a].epoch
        BY <1>4, <4>2, <4>3
      <4>5. actor[w].pc \in {"second", "authorize", "absent"} =>
               att[actor[w].a].epoch < remote'.epoch
        <5> SUFFICES ASSUME actor[w].pc \in {"second", "authorize", "absent"}
                     PROVE  att[actor[w].a].epoch < remote'.epoch
          OBVIOUS
        <5>1. att[actor[w].a].epoch < remote.epoch
          BY <1>1 DEF EpochsOK
        <5>2. remote'.epoch = remote.epoch \/ remote'.epoch > remote.epoch
          BY <1>2 DEF EpochLaw
        <5>3. /\ remote.epoch \in 1..MaxEpochs /\ remote'.epoch \in 1..MaxEpochs
              /\ att[actor[w].a].epoch \in 0..MaxEpochs
          BY <1>1, <4>2, TypeFacts DEF Types, Sidecar
        <5>. QED
          BY <5>1, <5>2, <5>3, ConstantFacts
      <4>. QED
        BY <1>1, <3>3, <4>4, <4>5 DEF EpochsOK
    <3>. QED
      BY <1>2, <3>1, <3>2, <3>3 DEF QuietAct, Looking
  <2>. QED
    BY <1>2, <2>1 DEF EpochsOK, EpochLaw
<1>17. Numbered'
  <2> SUFFICES ASSUME NEW a \in Attempts, NEW b \in Attempts, b < a, att'[a].state # "none"
               PROVE  att'[b].state # "none"
    BY DEF Numbered
  <2>1. CASE att[a].state # "none"
    BY <1>1, <1>4, <2>1 DEF Numbered
  <2>2. CASE att[a].state = "none"
    BY <1>2, <1>4, <2>2 DEF Born, BirthLaw
  <2>. QED
    BY <2>1, <2>2
<1>18. RowsOK'
  <2>1. ASSUME NEW a \in Attempts, row'[a].status # "none"
        PROVE  WasSent(a)' /\ del'[att'[a].of].status \in Expiring
    <3>1. CASE row[a].status # "none"
      <4>1. WasSent(a) /\ del[att[a].of].status \in Expiring
        BY <1>1, <3>1 DEF RowsOK
      <4>2. att[a].of \in Deliveries
        BY <1>1, <1>4, <1>6, <4>1 DEF AttemptsOK, AttShape, NotSent
      <4>. QED
        BY <1>4, <1>7, <1>8, <4>1, <4>2
    <3>2. CASE row[a].status = "none"
      <4>1. WasSent(a) /\ att[a].of # Nothing /\ del'[att[a].of].status \in Expiring
        BY <1>2, <2>1, <3>2 DEF QuietRow
      <4>. QED
        BY <1>4, <4>1
    <3>. QED
      BY <3>1, <3>2
  <2>2. ASSUME NEW a \in Attempts, att'[a].of # Nothing,
               del'[att'[a].of].status \in Expiring
        PROVE  ~Open(a)' /\ (WasSent(a)' => row'[a].status # "none")
    <3>1. ~Born(a)
      BY <1>12, <2>2 DEF Expiring
    <3>2. att[a].of = att'[a].of /\ att[a].of \in Deliveries /\ a \in Of(att[a].of)
      BY <1>4, <1>6, <2>2, <3>1 DEF Of
    <3>3. CASE del[att[a].of].status \in Expiring
      <4>1. ~Open(a)
        BY <1>1, <2>2, <3>2, <3>3 DEF RowsOK
      <4>2. ~Open(a)'
        BY <1>2, <3>1, <4>1 DEF OpenLaw
      <4>3. WasSent(a)' => row[a].status # "none"
        BY <1>1, <1>13, <2>2, <3>2, <3>3 DEF RowsOK
      <4>. QED
        BY <1>15, <4>2, <4>3
    <3>4. CASE del[att[a].of].status \notin Expiring
      BY <1>2, <2>2, <3>2, <3>4 DEF QuietDel
    <3>. QED
      BY <3>3, <3>4
  <2>3. \A a \in Attempts : row'[a].status = "none" => row'[a] = NoRow
    BY <1>2 DEF QuietRow
  <2>4. "expiry" \in Actors
    BY DEF Actors
  <2>5. /\ actor'["expiry"].pc \in Purge => row'[actor'["expiry"].a].status = "delete_pending"
        /\ actor'["expiry"].pc \in Judging => row'[actor'["expiry"].a].status = "reconciling"
    <3>1. CASE actor'["expiry"].pc = "idle"
      BY <3>1 DEF Purge, Judging
    <3>2. CASE Fresh("expiry")
      BY <2>4, <3>2 DEF Fresh
    <3>3. CASE /\ actor'["expiry"] = actor["expiry"] /\ actor["expiry"].pc # "idle"
               /\ \A b \in Attempts : row[b].status # "none" => row'[b].status = row[b].status
      <4>1. actor["expiry"].a \in Attempts
        BY <1>14, <2>4, <3>3
      <4>. QED
        BY <1>1, <3>3, <4>1 DEF RowsOK
    <3>. QED
      BY <1>2, <2>4, <3>1, <3>2, <3>3 DEF QuietAct
  <2>6. ASSUME NEW w \in Actors, actor'[w].pc \in Purge \ {"plan"}
        PROVE  plan'[Its(w)'] # Nothing
    <3>1. CASE actor'[w].pc = "idle"
      BY <2>6, <3>1 DEF Purge
    <3>2. CASE Fresh(w)
      BY <2>6, <3>2 DEF Fresh
    <3>3. CASE actor'[w] = actor[w] /\ actor'[w].pc # "idle"
      <4>1. Its(w)' = Its(w) /\ Its(w) \in Deliveries
        BY <1>14, <3>3
      <4>2. plan[Its(w)] # Nothing
        BY <1>1, <2>6, <3>3 DEF RowsOK
      <4>. QED
        BY <1>2, <4>1, <4>2 DEF QuietPlan
    <3>. QED
      BY <1>2, <3>1, <3>2, <3>3 DEF QuietAct
  <2>. QED
    BY <2>1, <2>2, <2>3, <2>5, <2>6 DEF RowsOK
<1>19. ASSUME ~unrecorded'
       PROVE  Arrivals' /\ Nodes' /\ Accounts'
  <2>1. ~unrecorded /\ Arrivals /\ Nodes /\ Accounts
    BY <1>4, <1>19 DEF QuietInv
  <2>2. \A a \in Attempts : Dead(a) => Dead(a)'
    BY <1>4, <1>19
  <2>3. (Clean' <=> Clean) /\ (Absent' <=> Absent)
    BY <1>5 DEF Clean, Absent
  <2>4. Arrivals'
    <3>1. \A a \in remote'.inflight : att'[a].epoch = remote'.epoch
      BY <1>4, <1>19, <2>1 DEF Arrivals
    <3>2. ASSUME NEW a \in Attempts, NEW b \in Attempts,
                 att'[a].of # Nothing, att'[a].of = att'[b].of, b < a
          PROVE  Dead(b)'
      <4>1. att'[a].state # "none"
        BY <1>1, <3>2 DEF AttemptsOK, AttShape, NoAttempt
      <4>2. att[b].state # "none"
        <5>1. CASE att[a].state # "none"
          BY <1>1, <3>2, <5>1 DEF Numbered
        <5>2. CASE att[a].state = "none"
          BY <1>2, <3>2, <4>1, <5>2 DEF Born, BirthLaw
        <5>. QED
          BY <5>1, <5>2
      <4>3. att[b].of = att'[b].of /\ ~Born(b)
        BY <1>4, <3>2, <4>2 DEF Born
      <4>4. CASE Born(a)
        <5>1. b \in Of(att'[a].of)
          BY <3>2, <4>3 DEF Of
        <5>2. Dead(b)
          BY <1>2, <2>1, <4>4, <5>1 DEF BirthLaw
        <5>. QED
          BY <2>2, <5>2
      <4>5. CASE ~Born(a)
        <5>1. att[a].of = att'[a].of
          BY <1>4, <3>2, <4>5
        <5>2. Dead(b)
          BY <2>1, <3>2, <4>3, <5>1 DEF Arrivals
        <5>. QED
          BY <2>2, <5>2
      <4>. QED
        BY <4>4, <4>5
    <3>3. ASSUME NEW a \in Attempts, att'[a].of = 1,
                 remote'.linked # Nothing \/ plan'[1] # Nothing \/ del'[1].status = "applied"
          PROVE  Dead(a)'
      <4>1. 1 # Nothing
        BY <1>8
      <4>2. ~Born(a)
        <5> SUFFICES ASSUME Born(a)
                     PROVE  FALSE
          OBVIOUS
        <5>1. remote'.linked = Nothing
          BY <1>2, <1>5, <2>1, <3>3 DEF BirthLaw, Absent
        <5>2. del'[1].status \in {"queued", "delete_pending"}
          BY <1>12, <3>3
        <5>3. del'[1].kind = "admit" /\ del'[1].status \notin Deleting
          BY <1>1, <1>8 DEF Chain
        <5>4. plan'[1] = Nothing
          BY <1>1, <1>8, <5>2, <5>3 DEF Chain, Expiring, Deleting
        <5>. QED
          BY <3>3, <5>1, <5>2, <5>4
      <4>3. att[a].of = 1
        BY <1>4, <3>3, <4>1, <4>2
      <4>4. remote.linked # Nothing \/ plan[1] # Nothing \/ del[1].status = "applied"
        <5>1. del'[1].status = "applied" => del[1].status = "applied" \/ Holds(1)
          BY <1>7, <1>8
        <5>2. plan'[1] # Nothing => plan[1] # Nothing \/ remote.linked # Nothing
          BY <1>2, <1>8 DEF QuietPlan
        <5>. QED
          BY <1>5, <3>3, <5>1, <5>2 DEF Holds
      <4>5. Dead(a)
        BY <2>1, <4>3, <4>4 DEF Arrivals
      <4>. QED
        BY <2>2, <4>5
    <3>4. remote'.linked # Nothing => att'[remote'.linked].of = 1
      <4>1. remote.linked \in Attempts \union {Nothing}
        BY <1>1, TypeFacts
      <4>2. remote.linked # Nothing => att[remote.linked].of = 1
        BY <2>1 DEF Arrivals
      <4>. QED
        BY <1>4, <1>5, <1>8, <4>1, <4>2
    <3>5. ASSUME NEW w \in Actors, actor'[w].pc = "authorize", del'[Its(w)'].status = "queued",
                 IsCurrent(actor[w].a)'
          PROVE  Absent'
      <4>1. CASE Fresh(w)
        BY <2>1, <2>3, <3>5, <4>1 DEF Fresh
      <4>2. CASE actor'[w] = actor[w]
        <5>1. /\ actor[w].a \in Attempts /\ Its(w) \in Deliveries /\ Its(w)' = Its(w)
          BY <1>14, <3>5, <4>2
        <5>2. del[Its(w)].status = "queued"
          BY <1>7, <3>5, <5>1
        <5>3. ASSUME NEW b \in Attempts, att[b].of = Its(w)
              PROVE  b <= actor[w].a
          <6>1. att'[b].of = Its(w)
            BY <1>4, <1>8, <5>1, <5>3
          <6>2. att'[b].of = att'[actor'[w].a].of
            BY <5>1, <6>1 DEF Its
          <6>. QED
            BY <3>5, <4>2, <6>2 DEF IsCurrent, Of
        <5>4. IsCurrent(actor[w].a)
          BY <5>3 DEF IsCurrent, Its, Of
        <5>. QED
          BY <2>1, <2>3, <3>5, <4>2, <5>2, <5>4 DEF Arrivals
      <4>. QED
        BY <1>2, <3>5, <4>1, <4>2 DEF QuietAct
    <3>6. ASSUME NEW n \in Attempts, remote'.nodes[n] # Nothing
          PROVE  \E a \in Attempts : att'[a].of = remote'.nodes[n] /\ WasSent(a)'
      <4>1. PICK a \in Attempts : att[a].of = remote.nodes[n] /\ WasSent(a)
        BY <1>5, <2>1, <3>6 DEF Arrivals
      <4>. QED
        BY <1>4, <1>5, <3>6, <4>1
    <3>. QED
      BY <3>1, <3>2, <3>3, <3>4, <3>5, <3>6 DEF Arrivals
  <2>5. Nodes'
    <3> SUFFICES ASSUME NEW k \in Deliveries, Lineage(k)'
                 PROVE  /\ \A n \in Attempts : remote'.nodes[n] # Nothing => n = TheNode(k)'
                        /\ plan'[k] # Nothing => remote'.linked \in {Nothing, plan'[k]}
      BY DEF Nodes
    <3>1. /\ \A n \in Attempts : remote.nodes[n] # Nothing => n = TheNode(k)
          /\ plan[k] # Nothing => remote.linked \in {Nothing, plan[k]}
      BY <1>11, <2>1 DEF Nodes
    <3>2. TheNode(k)' = TheNode(k)
      BY <1>2, <1>5 DEF QuietPlan, TheNode
    <3>. QED
      BY <1>2, <1>5, <3>1, <3>2 DEF QuietPlan
  <2>6. Accounts'
    <3>1. ASSUME NEW w \in Actors, actor'[w].pc = "purged"
          PROVE  Clean'
      BY <1>2, <2>1, <2>3, <3>1 DEF QuietAct, Fresh, Accounts
    <3>2. ASSUME NEW a \in Attempts, row'[a].status \in Settled
          PROVE  Dead(a)'
      <4>1. Dead(a)
        BY <1>2, <2>1, <3>2 DEF QuietRow, Accounts, Settled
      <4>. QED
        BY <2>2, <4>1
    <3>3. ASSUME NEW k \in Deliveries, del'[k].status \in Expiring, plan'[k] # Nothing
          PROVE  Clean' \/ \E a \in Of(k)' : row'[a].status = "delete_pending"
      <4>1. CASE plan'[k] = plan[k]
        <5>1. del[k].status \in Expiring
          BY <1>1, <1>7, <3>3, <4>1 DEF Chain, Expiring, Deleting
        <5>2. CASE Clean
          BY <2>3, <5>2
        <5>3. CASE ~Clean
          <6>1. PICK a \in Of(k) : row[a].status = "delete_pending"
            BY <2>1, <3>3, <4>1, <5>1, <5>3 DEF Accounts
          <6>2. a \in Attempts
            BY DEF Of
          <6>3. row'[a].status = "delete_pending"
            BY <1>2, <2>1, <5>3, <6>1, <6>2 DEF QuietRow
          <6>. QED
            BY <1>9, <6>1, <6>3
        <5>. QED
          BY <5>2, <5>3
      <4>2. CASE plan'[k] # plan[k]
        <5>1. del[k].status \in {"expiry_reconciling", "delete_pending"}
          BY <1>5, <4>2 DEF PlanLaw
        <5>2. del[k].status \in Expiring
          BY <1>7, <3>3, <5>1 DEF Expiring
        <5>3. \E a \in Of(k) : row'[a].status = "delete_pending"
          BY <1>2, <4>2, <5>2 DEF QuietPlan
        <5>. QED
          BY <1>9, <5>3
      <4>. QED
        BY <4>1, <4>2
    <3>4. ASSUME actor'["expiry"].pc = "absent"
          PROVE  Clean' \/ \E b \in Of(Its("expiry"))' : b # actor'["expiry"].a /\ Unsettled(b)'
      <4>0. "expiry" \in Actors
        BY DEF Actors
      <4>1. CASE Fresh("expiry")
        <5>1. CASE Clean
          BY <2>3, <5>1
        <5>2. CASE ~Clean
          <6>1. PICK b \in Of(Its("expiry")') : b # actor'["expiry"].a /\ Unsettled(b)'
            BY <2>1, <3>4, <4>1, <5>2 DEF Fresh
          <6>2. b \in Attempts /\ att[b].of = Its("expiry")'
            BY <6>1 DEF Of
          <6>3. Its("expiry")' # Nothing
            <7>1. actor'["expiry"].a \in Attempts /\ att'[actor'["expiry"].a].state # "none"
              BY <1>1, <3>4, <4>0 DEF ActorsOK, ActorOK
            <7>. QED
              BY <1>1, <7>1 DEF AttemptsOK, AttShape, Its
          <6>4. att'[b].of = Its("expiry")'
            BY <1>4, <6>2, <6>3
          <6>5. b \in Of(Its("expiry"))'
            BY <6>2, <6>4 DEF Of
          <6>. QED
            BY <6>1, <6>5
        <5>. QED
          BY <5>1, <5>2
      <4>2. CASE /\ actor'["expiry"] = actor["expiry"]
                 /\ \A b \in Attempts : row[b].status # "none" => row'[b].status = row[b].status
        <5>1. CASE Clean
          BY <2>3, <5>1
        <5>2. CASE ~Clean
          <6>1. PICK b \in Of(Its("expiry")) : b # actor["expiry"].a /\ Unsettled(b)
            BY <2>1, <3>4, <4>2, <5>2 DEF Accounts
          <6>2. b \in Attempts /\ att[b].of = Its("expiry")
            BY <6>1 DEF Of
          <6>3. Its("expiry") \in Deliveries /\ Its("expiry")' = Its("expiry")
            BY <1>14, <3>4, <4>0, <4>2
          <6>4. att'[b].of = Its("expiry")'
            BY <1>4, <1>8, <6>2, <6>3
          <6>5. b \in Of(Its("expiry"))'
            BY <6>2, <6>4 DEF Of
          <6>6. Unsettled(b)'
            BY <4>2, <6>1, <6>2 DEF Unsettled
          <6>. QED
            BY <4>2, <6>1, <6>5, <6>6
        <5>. QED
          BY <5>1, <5>2
      <4>. QED
        BY <1>2, <3>4, <4>0, <4>1, <4>2 DEF QuietAct
    <3>5. ASSUME NEW k \in Deliveries, del'[k].status = "expiry_reconciling"
          PROVE  Clean' \/ \E b \in Of(k)' : Unsettled(b)'
      <4>1. CASE del[k].status \notin Expiring
        <5>1. \E b \in Of(k) : Unsettled(b)'
          BY <1>2, <3>5, <4>1 DEF QuietDel, Expiring
        <5>. QED
          BY <1>9, <5>1
      <4>2. CASE del[k].status \in Expiring
        <5>1. del[k].status = "expiry_reconciling"
          BY <1>5, <3>5, <4>2 DEF DelLaw, Expiring
        <5>2. Clean \/ \E b \in Of(k) : Unsettled(b)'
          BY <1>2, <2>1, <3>5, <5>1 DEF QuietDel, Accounts
        <5>. QED
          BY <1>9, <2>3, <5>2
      <4>. QED
        BY <4>1, <4>2
    <3>6. ASSUME NEW k \in Deliveries, del'[k].status = "expired"
          PROVE  \/ \A a \in Of(k)' : ~WasSent(a)'
                 \/ Clean' /\ \A a \in Of(k)' : Dead(a)'
      <4>0. \A a \in Of(k)' : a \in Of(k) /\ a \in Attempts
        <5> SUFFICES ASSUME NEW a \in Of(k)', a \notin Of(k)
                     PROVE  FALSE
          BY <1>10
        <5>1. a \in Attempts /\ Born(a) /\ att'[a].of = k
          BY <1>10 DEF Of
        <5>. QED
          BY <1>12, <3>6, <5>1
      <4>1. CASE del[k].status \notin Expiring
        <5>1. \A a \in Of(k) : ~WasSent(a)'
          BY <1>2, <3>6, <4>1 DEF QuietDel, Expiring
        <5>. QED
          BY <4>0, <5>1
      <4>2. CASE del[k].status = "expiry_reconciling"
        <5>1. Clean /\ \A a \in Of(k) : Dead(a)
          BY <1>2, <2>1, <3>6, <4>2 DEF QuietDel
        <5>. QED
          BY <2>2, <2>3, <4>0, <5>1
      <4>3. CASE del[k].status = "expired"
        <5>1. CASE \A a \in Of(k) : ~WasSent(a)
          <6>1. ASSUME NEW a \in Of(k)
                PROVE  ~WasSent(a)'
            <7>1. a \in Attempts /\ att[a].of = k
              BY DEF Of
            <7>. QED
              BY <1>8, <1>13, <4>3, <5>1, <7>1 DEF Expiring
          <6>. QED
            BY <4>0, <6>1
        <5>2. CASE Clean /\ \A a \in Of(k) : Dead(a)
          BY <2>2, <2>3, <4>0, <5>2
        <5>. QED
          BY <2>1, <4>3, <5>1, <5>2 DEF Accounts
      <4>. QED
        BY <4>1, <4>2, <4>3 DEF Expiring
    <3>7. ASSUME NEW k \in Deliveries, del'[k].status = "deleted"
          PROVE  Clean'
      BY <1>2, <2>1, <2>3, <3>7 DEF QuietDel, Accounts
    <3>. QED
      BY <3>1, <3>2, <3>3, <3>4, <3>5, <3>6, <3>7 DEF Accounts, Settled
  <2>. QED
    BY <2>4, <2>5, <2>6
<1>. QED
  BY <1>16, <1>17, <1>18, <1>19 DEF QuietInv
LEMMA EpochKept ==
    ASSUME EpochsOK, remote'.epoch = remote.epoch, remote'.inflight \subseteq remote.inflight,
           unrecorded' = unrecorded,
           \A a \in Attempts : att'[a].epoch = att[a].epoch \/ att'[a].epoch <= remote.epoch,
           \A w \in Actors : actor'[w].obs = actor[w].obs \/ actor'[w].obs <= remote.epoch
    PROVE  EpochLaw
BY DEF EpochsOK, EpochLaw

\* Places where a loop has nothing to tell about reconciliations and plans.
Harmless == {"idle", "caps", "mark", "preflight", "send", "waiting", "readback", "applied",
             "reject", "unknown"}

\* The reconciliations, the plans and the path stay.
LEMMA QuietCalm ==
    ASSUME Inv, Inv', QuietInv, Law, EpochLaw, plan' = plan,
           \A a \in Attempts : row'[a].status = row[a].status,
           \A a \in Attempts : row[a] = NoRow => row'[a] = NoRow,
           \A k \in Deliveries :
               \/ del'[k].status = del[k].status
               \/ del'[k].status \notin Expiring \union {"deleted"}
               \/ del'[k].status = "deleted" /\ (~unrecorded => Clean),
           \A a \in Attempts : BirthLaw(a) /\ OpenLaw(a),
           \A w \in Actors : actor'[w] = actor[w] \/ actor'[w].pc \in Harmless \/ Fresh(w)
    PROVE  QuietInv'
<1>1. \A a \in Attempts : QuietRow(a)
  BY DEF QuietInv, RowsOK, QuietRow
<1>2. \A k \in Deliveries : QuietPlan(k)
  BY DEF QuietPlan
<1>3. ASSUME NEW k \in Deliveries
      PROVE  QuietDel(k)
  <2>1. \A b \in Of(k) : Unsettled(b) => Unsettled(b)'
    BY DEF Unsettled, Of
  <2>. QED
    BY <2>1 DEF QuietDel, Expiring
<1>4. ASSUME NEW w \in Actors
      PROVE  QuietAct(w)
  <2>1. CASE actor'[w].pc \in Harmless
    <3>1. /\ actor'[w].pc \notin Looking /\ actor'[w].pc \notin Purge
          /\ actor'[w].pc \notin Judging
          /\ actor'[w].pc \notin {"second", "authorize", "absent", "purged"}
      BY <2>1 DEF Harmless, Looking, Purge, Judging
    <3>. QED
      BY <3>1 DEF QuietAct, Fresh
  <2>2. CASE actor'[w] = actor[w]
    BY <2>2 DEF QuietAct
  <2>3. CASE Fresh(w)
    BY <2>3 DEF QuietAct
  <2>. QED
    BY <2>1, <2>2, <2>3
<1>5. QuietLaw
  BY <1>1, <1>2, <1>3, <1>4 DEF QuietLaw
<1>. QED
  BY <1>5, QuietKeeps

\* One loop moves, all tables stay.
LEMMA QuietMove ==
    ASSUME Inv, Inv', QuietInv, Law, NEW w \in Actors,
           UNCHANGED <<del, att, row, plan, remote, unrecorded>>,
           \A u \in Actors : u # w => actor'[u] = actor[u],
           actor'[w].obs = actor[w].obs \/ actor'[w].obs <= remote.epoch,
           actor'[w].pc \in Harmless \/ Fresh(w)
    PROVE  QuietInv'
<1>1. EpochLaw
  BY EpochKept DEF QuietInv
<1>2. \A a \in Attempts : BirthLaw(a) /\ OpenLaw(a)
  BY DEF BirthLaw, Born, OpenLaw, Open
<1>. QED
  BY <1>1, <1>2, QuietCalm

LEMMA GotoMoves ==
    ASSUME Types, NEW w \in Actors, NEW pc \in PCs, Goto(w, pc)
    PROVE  /\ actor'[w].pc = pc /\ actor'[w].a = actor[w].a /\ actor'[w].obs = actor[w].obs
           /\ \A u \in Actors : u # w => actor'[u] = actor[u]
<1> DEFINE v == [pc |-> pc, a |-> actor[w].a, obs |-> actor[w].obs]
<1>1. v.pc = pc /\ v.a = actor[w].a /\ v.obs = actor[w].obs
  OBVIOUS
<1>2. actor' = [actor EXCEPT ![w] = v]
  BY GotoFacts
<1> HIDE DEF v
<1>. QED
  BY <1>1, <1>2, OneMoves

LEMMA ReturnMoves ==
    ASSUME Types, NEW w \in Actors, Return(w)
    PROVE  /\ actor'[w].pc = "idle" /\ actor'[w].obs = 0 /\ actor'[w].pc \in Harmless
           /\ \A u \in Actors : u # w => actor'[u] = actor[u]
BY DEF Types, Return, Idle, Harmless, Nothing

LEMMA EpochPositive ==
    ASSUME Types
    PROVE  /\ remote.epoch \in Nat /\ remote.epoch >= 1 /\ 0 <= remote.epoch
           /\ \A a \in Attempts : att[a].epoch \in Nat
           /\ \A w \in Actors : actor[w].obs \in Nat
<1>1. remote.epoch \in 1..MaxEpochs
      /\ (\A a \in Attempts : att[a].epoch \in 0..MaxEpochs)
      /\ \A w \in Actors : actor[w].obs \in 0..MaxEpochs
  BY TypeFacts
<1>. QED
  BY <1>1, ConstantFacts

\* Steps after which the loop is somewhere harmless.
LEMMA HarmlessStep ==
    ASSUME Inv, Inv', QuietInv, Law, NEW w \in Actors,
           UNCHANGED <<del, att, row, plan, remote, unrecorded>>,
           (\E pc \in Harmless : Goto(w, pc)) \/ Return(w)
    PROVE  QuietInv'
<1>1. Types /\ Harmless \subseteq PCs
  BY DEF Inv, Harmless, PCs
<1>2. CASE Return(w)
  BY <1>1, <1>2, ReturnMoves, EpochPositive, QuietMove
<1>3. CASE \E pc \in Harmless : Goto(w, pc)
  <2>1. PICK pc \in Harmless : Goto(w, pc)
    BY <1>3
  <2>. QED
    BY <1>1, <2>1, GotoMoves, QuietMove
<1>. QED
  BY <1>2, <1>3
\* What the invariants say of the attempt of a loop at work.
LEMMA QuietWorker ==
    ASSUME Inv, QuietInv, NEW w \in Actors, actor[w].pc # "idle"
    PROVE  /\ actor[w].a \in Attempts /\ Its(w) \in Deliveries /\ actor[w].a \in Of(Its(w))
           /\ att[actor[w].a].epoch <= remote.epoch /\ actor[w].obs <= remote.epoch
           /\ att[actor[w].a].epoch \in Nat /\ actor[w].obs \in Nat /\ remote.epoch \in Nat
           /\ remote.epoch >= 1
<1>1. Types /\ EpochsOK
  BY DEF Inv, QuietInv
<1>2. /\ actor[w].a \in Attempts /\ Its(w) \in Deliveries
  BY WorkerFacts
<1>. QED
  BY <1>1, <1>2, EpochPositive DEF EpochsOK, Of, Its

\* A delivery that expires is of the admission or of a correction and the last.
LEMMA ExpiringFacts ==
    ASSUME Inv, NEW k \in Deliveries, del[k].status \in Expiring
    PROVE  Lineage(k) /\ del[k].kind \in {"admit", "correction"} /\ (k = 1 <=> del[k].kind = "admit")
<1>1. Lineage(k)
  BY WaitingIsLast DEF Expiring
<1>2. Types /\ Chain
  BY DEF Inv
<1>3. del[k].kind \in Kinds
  BY <1>2, TypeFacts
<1>. QED
  BY <1>1, <1>2, <1>3 DEF Chain, Expiring, Deleting, Kinds

LEMMA CapabilitiesQuiet ==
    ASSUME Inv, QuietInv, NEW w \in Actors, Capabilities(w) \/ LookEpoch(w)
    PROVE  QuietInv'
<1> DEFINE pc == IF actor[w].pc = "caps" THEN "mark" ELSE "first"
<1>1. Inv' /\ Law
  BY CapabilitiesInv
<1>2. /\ UNCHANGED <<del, msg, att, row, plan, remote, unrecorded, faults>>
      /\ actor[w].pc = "caps" \/ actor[w].pc = "look"
      /\ actor' = [actor EXCEPT ![w].pc = pc, ![w].obs = remote.epoch]
  BY DEF Capabilities, LookEpoch, At
<1> HIDE DEF pc
<1>3. Types /\ actor[w] \in Loop /\ EpochsOK /\ RowsOK
  BY TypeFacts DEF Inv, QuietInv
<1>4. /\ actor'[w].pc = pc /\ actor'[w].a = actor[w].a /\ actor'[w].obs = remote.epoch
      /\ \A u \in Actors : u # w => actor'[u] = actor[u]
  BY <1>2, <1>3 DEF Types, Loop
<1>5. remote.epoch <= remote.epoch /\ actor[w].a \in Attempts /\ Its(w)' = Its(w)
      /\ att[actor[w].a].epoch <= remote.epoch
  BY <1>2, <1>4, QuietWorker DEF Its
<1>6. CASE pc = "mark"
  BY <1>1, <1>2, <1>4, <1>5, <1>6, QuietMove DEF Harmless
<1>7. CASE pc = "first" /\ actor[w].pc = "look"
  <2>1. att[actor[w].a].state \notin NotSent
    BY <1>3, <1>7 DEF EpochsOK, Looking
  <2>2. w = "expiry" => row[actor[w].a].status = "reconciling"
    BY <1>3, <1>7 DEF RowsOK, Judging
  <2>3. Fresh(w)
    BY <1>2, <1>4, <1>5, <1>7, <2>1, <2>2 DEF Fresh, Purge
  <2>. QED
    BY <1>1, <1>2, <1>4, <1>5, <2>3, QuietMove
<1>. QED
  BY <1>2, <1>6, <1>7 DEF pc

LEMMA PreflightQuiet ==
    ASSUME Inv, QuietInv, NEW w \in Actors, Preflight(w)
    PROVE  QuietInv'
<1>1. Inv' /\ Law
  BY PreflightInv
<1>2. UNCHANGED <<del, att, row, plan, remote, unrecorded>>
  BY DEF Preflight
<1> DEFINE pc == CASE Holds(Its(w)) -> "applied"
                   [] ~Holds(Its(w)) /\ Sendable(Its(w)) -> "send"
                   [] OTHER -> "reject"
<1>3. Goto(w, pc) /\ pc \in {"applied", "send", "reject"}
  BY DEF Preflight
<1> HIDE DEF pc
<1>4. pc \in Harmless
  BY <1>3 DEF Harmless
<1>. QED
  BY <1>1, <1>2, <1>3, <1>4, HarmlessStep

LEMMA ReadbackQuiet ==
    ASSUME Inv, QuietInv, NEW w \in Actors, Readback(w)
    PROVE  QuietInv'
<1>1. Inv' /\ Law
  BY ReadbackInv
<1>2. UNCHANGED <<del, att, row, plan, remote, unrecorded>>
  BY DEF Readback
<1> DEFINE pc == IF Holds(Its(w)) THEN "applied" ELSE "unknown"
<1>3. Goto(w, pc) /\ pc \in {"applied", "unknown"}
  BY DEF Readback
<1> HIDE DEF pc
<1>4. pc \in Harmless
  BY <1>3 DEF Harmless
<1>. QED
  BY <1>1, <1>2, <1>3, <1>4, HarmlessStep

LEMMA CallFailsQuiet ==
    ASSUME Inv, QuietInv, NEW w \in Actors, CallFails(w) \/ CallRejected(w)
    PROVE  QuietInv'
<1>1. Inv' /\ Law
  BY CallFailsInv
<1>2. UNCHANGED <<del, att, row, plan, remote, unrecorded>>
  BY DEF CallFails, CallRejected
<1>3. Goto(w, "unknown") \/ Goto(w, "reject") \/ Return(w)
  BY DEF CallFails, CallRejected, PurgeFailed
<1>4. "unknown" \in Harmless /\ "reject" \in Harmless
  BY DEF Harmless
<1>. QED
  BY <1>1, <1>2, <1>3, <1>4, HarmlessStep

LEMMA FirstReadQuiet ==
    ASSUME Inv, QuietInv, NEW w \in Actors, FirstRead(w)
    PROVE  QuietInv'
<1>1. Inv' /\ Law
  BY FirstReadInv
<1>2. actor[w].pc = "first" /\ UNCHANGED <<del, att, row, plan, remote, unrecorded>>
  BY DEF FirstRead, At
<1>3. /\ Types /\ EpochsOK /\ RowsOK
  BY DEF Inv, QuietInv
<1>4. /\ actor[w].a \in Attempts /\ att[actor[w].a].epoch \in Nat /\ actor[w].obs \in Nat
      /\ remote.epoch \in Nat /\ actor[w].obs <= remote.epoch
      /\ att[actor[w].a].state \notin NotSent /\ att[actor[w].a].epoch <= actor[w].obs
  BY <1>2, <1>3, QuietWorker DEF EpochsOK, Looking
<1>5. w = "expiry" => row[actor[w].a].status = "reconciling"
  BY <1>2, <1>3 DEF RowsOK, Judging
<1>6. CASE Return(w) \/ Goto(w, "applied")
  <2>1. "applied" \in Harmless
    BY DEF Harmless
  <2>. QED
    BY <1>1, <1>2, <1>6, <2>1, HarmlessStep
<1>7. ASSUME NEW pc \in {"found", "conflict", "second"}, Goto(w, pc),
             pc = "second" => NewBoot(w)
      PROVE  QuietInv'
  <2>1. /\ actor'[w].pc = pc /\ actor'[w].a = actor[w].a /\ actor'[w].obs = actor[w].obs
        /\ \A u \in Actors : u # w => actor'[u] = actor[u]
    BY <1>3, <1>7, GotoMoves DEF PCs
  <2>2. pc = "second" => att[actor[w].a].epoch < remote.epoch
    BY <1>4, <1>7 DEF NewBoot
  <2>3. /\ pc \notin Purge /\ (pc \in Looking => pc = "second") /\ pc # "authorize"
        /\ pc # "purged" /\ pc # "absent"
    BY DEF Purge, Looking
  <2>4. Fresh(w)
    BY <1>2, <1>4, <1>5, <2>1, <2>2, <2>3 DEF Fresh
  <2>. QED
    BY <1>1, <1>2, <2>1, <2>4, QuietMove
<1>8. \/ Return(w) \/ Goto(w, "applied") \/ Goto(w, "found") \/ Goto(w, "conflict")
      \/ (Goto(w, "second") /\ NewBoot(w))
  BY DEF FirstRead
<1>. QED
  BY <1>6, <1>7, <1>8

LEMMA SecondReadQuiet ==
    ASSUME Inv, QuietInv, NEW w \in Actors, SecondRead(w)
    PROVE  QuietInv'
<1>1. Inv' /\ Law
  BY SecondReadInv
<1>2. actor[w].pc = "second" /\ UNCHANGED <<del, att, row, plan, remote, unrecorded>>
  BY DEF SecondRead, At
<1>3. /\ Types /\ EpochsOK /\ RowsOK
  BY DEF Inv, QuietInv
<1>4. /\ actor[w].a \in Attempts /\ Its(w) \in Deliveries
      /\ att[actor[w].a].state \notin NotSent /\ att[actor[w].a].epoch <= actor[w].obs
      /\ att[actor[w].a].epoch < remote.epoch
  BY <1>2, <1>3, QuietWorker DEF EpochsOK, Looking
<1>5. w = "expiry" => row[actor[w].a].status = "reconciling"
  BY <1>2, <1>3 DEF RowsOK, Judging
<1>6. CASE Return(w) \/ Goto(w, "applied")
  <2>1. "applied" \in Harmless
    BY DEF Harmless
  <2>. QED
    BY <1>1, <1>2, <1>6, <2>1, HarmlessStep
<1>7. ASSUME NEW pc \in {"absent", "authorize"}, Goto(w, pc), Absent,
             w = "expiry" <=> pc = "absent"
      PROVE  QuietInv'
  <2>1. /\ actor'[w].pc = pc /\ actor'[w].a = actor[w].a /\ actor'[w].obs = actor[w].obs
        /\ \A u \in Actors : u # w => actor'[u] = actor[u]
    BY <1>3, <1>7, GotoMoves DEF PCs
  <2>2. pc \notin Purge
    BY DEF Purge
  <2>3. Its(w)' = Its(w)
    BY <1>2, <2>1 DEF Its
  \* a path that is empty without a plan means that nothing is stored; with a
  \* plan, somebody else's reconciliation is under way
  <2>4. ASSUME ~unrecorded, w = "expiry"
        PROVE  Clean \/ \E b \in Of(Its(w)) : b # actor[w].a /\ Unsettled(b)
    <3>1. del[Its(w)].status \in Expiring
      BY <1>2, <2>4, WorkerFacts DEF ActorOK
    <3>2. Lineage(Its(w)) /\ Nodes /\ Accounts
      BY <1>4, <2>4, <3>1, ExpiringFacts DEF QuietInv
    <3>3. CASE plan[Its(w)] = Nothing
      BY <1>4, <1>7, <3>2, <3>3, ConstantFacts DEF Nodes, TheNode, Clean, Absent
    <3>4. CASE plan[Its(w)] # Nothing
      <4>1. Clean \/ \E b \in Of(Its(w)) : row[b].status = "delete_pending"
        BY <1>4, <3>1, <3>2, <3>4 DEF Accounts
      <4>. QED
        BY <1>5, <2>4, <4>1 DEF Unsettled
    <3>. QED
      BY <3>3, <3>4
  <2>5. ~unrecorded /\ w = "expiry" =>
           Clean \/ \E b \in Of(Its(w)') : b # actor'[w].a /\ Unsettled(b)'
    BY <1>2, <2>1, <2>3, <2>4 DEF Unsettled
  <2>6. Fresh(w)
    BY <1>2, <1>4, <1>5, <1>7, <2>1, <2>2, <2>5 DEF Fresh
  <2>. QED
    BY <1>1, <1>2, <2>1, <2>6, QuietMove
<1>8. \/ Return(w) \/ Goto(w, "applied")
      \/ (Goto(w, "absent") /\ Absent /\ w = "expiry")
      \/ (Goto(w, "authorize") /\ Absent /\ w # "expiry")
  BY DEF SecondRead
<1>. QED
  BY <1>6, <1>7, <1>8

LEMMA VerifyAbsentQuiet ==
    ASSUME Inv, QuietInv, NEW w \in Actors, VerifyAbsent(w)
    PROVE  QuietInv'
<1>1. Inv' /\ Law
  BY VerifyAbsentInv
<1>2. actor[w].pc = "verify" /\ UNCHANGED <<del, att, row, plan, remote, unrecorded>>
  BY DEF VerifyAbsent, At
<1>3. /\ Types /\ RowsOK
  BY DEF Inv, QuietInv
<1>4. CASE Return(w) \/ Goto(w, "unknown")
  <2>1. "unknown" \in Harmless
    BY DEF Harmless
  <2>. QED
    BY <1>1, <1>2, <1>4, <2>1, HarmlessStep
<1>5. CASE Goto(w, "purged") /\ Absent /\ remote.nodes[plan[Its(w)]] = Nothing
  <2>1. /\ actor'[w].pc = "purged" /\ actor'[w].a = actor[w].a /\ actor'[w].obs = actor[w].obs
        /\ \A u \in Actors : u # w => actor'[u] = actor[u]
    BY <1>3, <1>5, GotoMoves DEF PCs
  <2>2. /\ plan[Its(w)] # Nothing /\ (w = "expiry" => row[actor[w].a].status = "delete_pending")
        /\ Lineage(Its(w)) /\ Its(w) \in Deliveries
    BY <1>2, <1>3, PurgeFacts DEF RowsOK, Purge
  <2>3. ~unrecorded => Clean
    BY <1>5, <2>2 DEF QuietInv, Nodes, TheNode, Clean
  <2>4. Its(w)' = Its(w)
    BY <1>2, <2>1 DEF Its
  <2>5. Fresh(w)
    BY <1>2, <2>1, <2>2, <2>3, <2>4 DEF Fresh, Looking, Judging
  <2>. QED
    BY <1>1, <1>2, <2>1, <2>5, QuietMove
<1>. QED
  BY <1>4, <1>5 DEF VerifyAbsent, PurgeFailed

\* A delivery that waits expires.
LEMMA ExpireQuiet ==
    ASSUME Inv, Inv', Law, QuietInv, NEW k \in Deliveries, del[k].status = "queued",
           ExpireDelivery(k), UNCHANGED <<plan, remote, unrecorded>>,
           \A w \in Actors : actor'[w] = actor[w] \/ actor'[w].pc \in Harmless,
           \A w \in Actors : actor'[w].obs = actor[w].obs \/ actor'[w].obs <= remote.epoch
    PROVE  QuietInv'
<1>1. Types /\ EpochsOK /\ RowsOK
  BY DEF Inv, QuietInv
<1>2. /\ \A j \in Deliveries : j # k => del'[j] = del[j]
      /\ del'[k].status \in Expiring
      /\ \A a \in Attempts : ~Born(a) /\ att'[a].of = att[a].of
      /\ \A a \in Attempts : (a \in Of(k) /\ Open(a)) => att'[a].state = "fenced"
  BY ExpireFacts
<1>3. ASSUME NEW a \in Attempts
      PROVE  /\ att'[a].epoch = att[a].epoch
             /\ a \in Of(k) => ~Open(a)'
             /\ Open(a)' => Open(a)
  <2>1. CASE a \in Of(k) /\ Open(a)
    <3>1. att[a] \in Attempt /\ "fenced" \in AttStates
      BY <1>1, TypeFacts DEF AttStates
    <3> DEFINE t == Closed(att[a], "fenced")
    <3>2. t.state = "fenced" /\ t.epoch = att[a].epoch
      BY <3>1, ClosedFacts
    <3>3. att'[a] = t
      BY <2>1 DEF ExpireDelivery
    <3> HIDE DEF t
    <3>. QED
      BY <3>2, <3>3 DEF Open
  <2>2. CASE ~(a \in Of(k) /\ Open(a))
    <3>1. att'[a] = att[a]
      BY <2>2 DEF ExpireDelivery
    <3>. QED
      BY <2>2, <3>1 DEF Open
  <2>. QED
    BY <2>1, <2>2
<1>4. ASSUME NEW a \in Attempts
      PROVE  /\ row[a].status # "none" => row'[a] = row[a]
             /\ a \in Of(k) /\ WasSent(a) => row[a] = NoRow /\ row'[a].status = "pending"
             /\ ~(a \in Of(k) /\ WasSent(a)) => row'[a] = row[a]
             /\ row[a].status = "none" => row[a] = NoRow
  <2>1. row[a].status = "none" => row[a] = NoRow
    BY <1>1 DEF RowsOK
  <2>2. a \in Of(k) => row[a].status = "none"
    BY <1>1 DEF RowsOK, Of, Expiring
  <2>3. /\ a \in Of(k) /\ WasSent(a) /\ row[a] = NoRow => row'[a].status = "pending"
        /\ ~(a \in Of(k) /\ WasSent(a) /\ row[a] = NoRow) => row'[a] = row[a]
    BY DEF ExpireDelivery, NoRow
  <2>4. NoRow.status = "none"
    BY DEF NoRow
  <2>. QED
    BY <2>1, <2>2, <2>3, <2>4
<1>5. EpochLaw
  BY <1>1, <1>3, EpochKept
<1>6. \A a \in Attempts : BirthLaw(a) /\ OpenLaw(a)
  BY <1>2, <1>3 DEF BirthLaw, OpenLaw
<1>7. ASSUME NEW a \in Attempts
      PROVE  QuietRow(a)
  <2>1. CASE a \in Of(k) /\ WasSent(a)
    <3>1. row[a].status = "none" /\ row'[a].status = "pending"
      BY <1>4, <2>1 DEF NoRow
    <3>2. att[a].of = k /\ k # Nothing
      BY <2>1, ConstantFacts DEF Of
    <3>. QED
      BY <1>2, <2>1, <3>1, <3>2 DEF QuietRow
  <2>2. CASE ~(a \in Of(k) /\ WasSent(a))
    BY <1>4, <2>2 DEF QuietRow
  <2>. QED
    BY <2>1, <2>2
<1>8. \A j \in Deliveries : QuietPlan(j)
  BY DEF QuietPlan
<1>9. ASSUME NEW j \in Deliveries
      PROVE  QuietDel(j)
  <2>1. CASE j # k
    <3>1. \A b \in Of(j) : Unsettled(b) => Unsettled(b)'
      BY <1>4 DEF Unsettled, Of
    <3>. QED
      BY <1>2, <2>1, <3>1 DEF QuietDel, Expiring
  <2>2. CASE j = k
    <3>1. ASSUME NEW a \in Of(k)
          PROVE  /\ ~Open(a)' /\ (WasSent(a)' => row'[a].status # "none")
                 /\ (WasSent(a)' <=> WasSent(a))
                 /\ WasSent(a) => Unsettled(a)'
      <4>1. a \in Attempts
        BY DEF Of
      <4>. QED
        BY <1>3, <1>4, <4>1 DEF WasSent, Unsettled
    <3>2. del'[k].status = IF \E a \in Of(k) : WasSent(a) THEN "expiry_reconciling" ELSE "expired"
      BY <1>1 DEF ExpireDelivery, Types, Delivery
    <3>3. /\ del'[k].status = "expired" => \A a \in Of(k) : ~WasSent(a)'
          /\ del'[k].status = "expiry_reconciling" => \E a \in Of(k) : Unsettled(a)'
      BY <3>1, <3>2
    <3>. QED
      BY <1>2, <2>2, <3>1, <3>3 DEF QuietDel, Expiring
  <2>. QED
    BY <2>1, <2>2
<1>10. ASSUME NEW w \in Actors
       PROVE  QuietAct(w)
  <2>1. CASE actor'[w].pc \in Harmless
    <3>1. /\ actor'[w].pc \notin Looking /\ actor'[w].pc \notin Purge
          /\ actor'[w].pc \notin Judging
          /\ actor'[w].pc \notin {"second", "authorize", "absent", "purged"}
      BY <2>1 DEF Harmless, Looking, Purge, Judging
    <3>. QED
      BY <3>1 DEF QuietAct, Fresh
  <2>2. CASE actor'[w] = actor[w]
    BY <1>4, <2>2 DEF QuietAct
  <2>. QED
    BY <2>1, <2>2
<1>11. QuietLaw
  BY <1>5, <1>6, <1>7, <1>8, <1>9, <1>10 DEF QuietLaw
<1>. QED
  BY <1>11, QuietKeeps

LEMMA ExpireDeliveriesQuiet ==
    ASSUME Inv, QuietInv, NEW k \in Deliveries, ExpireDeliveries(k)
    PROVE  QuietInv'
<1>1. Inv' /\ Law
  BY ExpireDeliveriesInv
<1>2. /\ del[k].status = "queued" /\ ExpireDelivery(k)
      /\ UNCHANGED <<plan, remote, actor, unrecorded, faults>>
  BY DEF ExpireDeliveries
<1>. QED
  BY <1>1, <1>2, ExpireQuiet

\* The loop goes home after it has closed its attempt or left it.
LEMMA CloseQuiet ==
    ASSUME Inv, Inv', Law, QuietInv, NEW w \in Actors, Return(w),
           UNCHANGED <<row, plan, remote, unrecorded>>,
           \A k \in Deliveries :
               \/ del'[k].status = del[k].status
               \/ del'[k].status \notin Expiring \union {"deleted"}
               \/ del'[k].status = "deleted" /\ (~unrecorded => Clean),
           \A a \in Attempts : att'[a].epoch = att[a].epoch /\ ~Born(a) /\ (Open(a)' => Open(a))
    PROVE  QuietInv'
<1>1. Types /\ EpochsOK
  BY DEF Inv, QuietInv
<1>2. /\ \A u \in Actors : actor'[u] = actor[u] \/ actor'[u].pc \in Harmless
      /\ \A u \in Actors : actor'[u].obs = actor[u].obs \/ actor'[u].obs <= remote.epoch
  BY <1>1, ReturnMoves, EpochPositive
<1>3. EpochLaw
  BY <1>1, <1>2, EpochKept
<1>4. \A a \in Attempts : BirthLaw(a) /\ OpenLaw(a)
  BY DEF BirthLaw, OpenLaw
<1>. QED
  BY <1>2, <1>3, <1>4, QuietCalm

LEMMA FinalizeQuiet ==
    ASSUME Inv, QuietInv, NEW w \in Actors, NEW pc, NEW status,
           Finalize(w, pc, status), pc # "idle",
           \/ pc = "applied" /\ status = "applied"
           \/ pc = "reject" /\ status = "permanently_rejected"
           \/ pc = "purged" /\ status = "deleted" /\ w # "expiry"
    PROVE  QuietInv'
<1> DEFINE a == actor[w].a
           from == {"sent", "reconciling"}
           t == Closed(att[a], "confirmed")
<1>1. /\ actor[w].pc = pc /\ Return(w) /\ UNCHANGED <<plan, remote, unrecorded, faults>>
  BY DEF Finalize, At
<1>2. Inv' /\ Law
  BY FinalizeInv
<1>3. a \in Attempts /\ Its(w) \in Deliveries /\ Types
  BY <1>1, WorkerFacts DEF Inv
<1>4. CASE UNCHANGED <<del, msg, att, row>>
  <2>1. \A b \in Attempts : att'[b].epoch = att[b].epoch /\ ~Born(b) /\ (Open(b)' => Open(b))
    BY <1>4 DEF Born, Open
  <2>. QED
    BY <1>1, <1>2, <1>4, <2>1, CloseQuiet
<1>5. CASE Lapses(w, from) /\ ExpireDelivery(Its(w))
  <2>1. del[Its(w)].status = "queued"
    BY <1>5 DEF Lapses, Its
  <2>2. /\ \A u \in Actors : actor'[u] = actor[u] \/ actor'[u].pc \in Harmless
        /\ \A u \in Actors : actor'[u].obs = actor[u].obs \/ actor'[u].obs <= remote.epoch
    BY <1>1, <1>3, ReturnMoves, EpochPositive
  <2>. QED
    BY <1>1, <1>2, <1>3, <1>5, <2>1, <2>2, ExpireQuiet
<1>6. CASE /\ May(w, from)
           /\ del' = [del EXCEPT ![Its(w)].status = status]
           /\ att' = [att EXCEPT ![a] = t]
           /\ UNCHANGED <<msg, row>>
  <2>1. att[a] \in Attempt /\ "confirmed" \in AttStates
    BY <1>3, TypeFacts DEF AttStates
  <2>2. t \in Attempt /\ t.state = "confirmed" /\ t.epoch = att[a].epoch
    BY <2>1, ClosedFacts
  <2>3. att[a].state \in from
    BY <1>6 DEF May
  <2> HIDE DEF a, t
  <2>4. att'[a] = t /\ \A b \in Attempts : b # a => att'[b] = att[b]
    BY <1>3, <1>6, <2>2, OneAttempt
  <2>5. ASSUME NEW b \in Attempts
        PROVE  att'[b].epoch = att[b].epoch /\ ~Born(b) /\ (Open(b)' => Open(b))
    <3>1. CASE b = a
      BY <2>2, <2>3, <2>4, <3>1 DEF Born, Open
    <3>2. CASE b # a
      BY <2>4, <3>2 DEF Born, Open
    <3>. QED
      BY <3>1, <3>2
  <2>6. ASSUME NEW k \in Deliveries
        PROVE  \/ del'[k].status = del[k].status
               \/ del'[k].status \notin Expiring \union {"deleted"}
               \/ del'[k].status = "deleted" /\ (~unrecorded => Clean)
    <3>1. CASE k # Its(w)
      BY <1>3, <1>6, <3>1 DEF Types
    <3>2. CASE k = Its(w)
      <4>1. del'[k].status = status
        BY <1>3, <1>6, <3>2 DEF Types, Delivery
      <4>2. pc = "purged" => (~unrecorded => Clean)
        BY <1>1 DEF QuietInv, Accounts
      <4>. QED
        BY <4>1, <4>2 DEF Expiring
    <3>. QED
      BY <3>1, <3>2
  <2>. QED
    BY <1>1, <1>2, <1>6, <2>5, <2>6, CloseQuiet
<1>. QED
  BY <1>4, <1>5, <1>6 DEF Finalize

LEMMA MarkUnknownQuiet ==
    ASSUME Inv, QuietInv, NEW w \in Actors, MarkUnknown(w)
    PROVE  QuietInv'
<1> DEFINE a == actor[w].a
           t == [att[a] EXCEPT !.state = "unknown"]
<1>1. /\ actor[w].pc = "unknown" /\ actor[w].pc # "idle" /\ Return(w)
      /\ UNCHANGED <<plan, remote, unrecorded, faults>>
  BY DEF MarkUnknown, At
<1>2. Inv' /\ Law
  BY MarkUnknownInv
<1>3. a \in Attempts /\ Its(w) \in Deliveries /\ Types
  BY <1>1, WorkerFacts DEF Inv
<1>4. CASE UNCHANGED <<del, msg, att, row>>
  <2>1. \A b \in Attempts : att'[b].epoch = att[b].epoch /\ ~Born(b) /\ (Open(b)' => Open(b))
    BY <1>4 DEF Born, Open
  <2>. QED
    BY <1>1, <1>2, <1>4, <2>1, CloseQuiet
<1>5. CASE Lapses(w, {"sent"}) /\ ExpireDelivery(Its(w))
  <2>1. del[Its(w)].status = "queued"
    BY <1>5 DEF Lapses, Its
  <2>2. /\ \A u \in Actors : actor'[u] = actor[u] \/ actor'[u].pc \in Harmless
        /\ \A u \in Actors : actor'[u].obs = actor[u].obs \/ actor'[u].obs <= remote.epoch
    BY <1>1, <1>3, ReturnMoves, EpochPositive
  <2>. QED
    BY <1>1, <1>2, <1>3, <1>5, <2>1, <2>2, ExpireQuiet
<1>6. CASE /\ May(w, {"sent"})
           /\ att' = [att EXCEPT ![a].state = "unknown"]
           /\ UNCHANGED <<del, msg, row>>
  <2>1. att[a] \in Attempt
    BY <1>3, TypeFacts
  <2>2. t \in Attempt /\ t.state = "unknown" /\ t.epoch = att[a].epoch
    BY <2>1 DEF Attempt, AttStates
  <2>3. att[a].state = "sent"
    BY <1>6 DEF May
  <2>4. att' = [att EXCEPT ![a] = t]
    BY <1>6
  <2> HIDE DEF a, t
  <2>5. att'[a] = t /\ \A b \in Attempts : b # a => att'[b] = att[b]
    BY <1>3, <2>2, <2>4, OneAttempt
  <2>6. ASSUME NEW b \in Attempts
        PROVE  att'[b].epoch = att[b].epoch /\ ~Born(b) /\ (Open(b)' => Open(b))
    <3>1. CASE b = a
      BY <2>2, <2>3, <2>5, <3>1 DEF Born, Open
    <3>2. CASE b # a
      BY <2>5, <3>2 DEF Born, Open
    <3>. QED
      BY <3>1, <3>2
  <2>. QED
    BY <1>1, <1>2, <1>6, <2>6, CloseQuiet
<1>. QED
  BY <1>4, <1>5, <1>6 DEF MarkUnknown

\* Leases, deadlines and messages tell nothing; a loop may go home.
LEMMA LeaseQuiet ==
    ASSUME Inv, Inv', Law, QuietInv, UNCHANGED <<plan, remote, unrecorded>>,
           \A w \in Actors : actor'[w] = actor[w] \/ (actor'[w].pc \in Harmless /\ actor'[w].obs = 0),
           \A k \in Deliveries : del'[k].status = del[k].status,
           \A a \in Attempts : row'[a].status = row[a].status /\ (row[a] = NoRow => row'[a] = NoRow),
           \A a \in Attempts : att'[a].state = att[a].state /\ att'[a].epoch = att[a].epoch
    PROVE  QuietInv'
<1>1. Types /\ EpochsOK
  BY DEF Inv, QuietInv
<1>2. \A w \in Actors : actor'[w].obs = actor[w].obs \/ actor'[w].obs <= remote.epoch
  BY <1>1, EpochPositive
<1>3. EpochLaw
  BY <1>1, <1>2, EpochKept
<1>4. \A a \in Attempts : BirthLaw(a) /\ OpenLaw(a)
  BY DEF BirthLaw, OpenLaw, Born, Open
<1>. QED
  BY <1>3, <1>4, QuietCalm

LEMMA LeaseFields ==
    ASSUME Types, \A a \in Attempts : att'[a] = att[a] \/ att'[a] = [att[a] EXCEPT !.live = FALSE]
    PROVE  \A a \in Attempts : att'[a].state = att[a].state /\ att'[a].epoch = att[a].epoch
<1>1. ASSUME NEW a \in Attempts
      PROVE  att'[a].state = att[a].state /\ att'[a].epoch = att[a].epoch
  <2> DEFINE r == [att[a] EXCEPT !.live = FALSE]
  <2>1. att[a] \in Attempt
    BY TypeFacts
  <2>2. r.state = att[a].state /\ r.epoch = att[a].epoch
    BY <2>1, LeaseLost
  <2>3. att'[a] = att[a] \/ att'[a] = r
    OBVIOUS
  <2> HIDE DEF r
  <2>. QED
    BY <2>2, <2>3
<1>. QED
  BY <1>1

LEMMA ReplayQuiet ==
    ASSUME Inv, QuietInv, NEW k \in Deliveries, Replay(k)
    PROVE  QuietInv'
<1>1. Inv' /\ Law /\ Types
  BY ReplayInv DEF Inv
<1>2. /\ UNCHANGED <<del, row, plan, remote, actor, unrecorded>>
      /\ \A a \in Attempts : att'[a] = att[a] \/ att'[a] = [att[a] EXCEPT !.live = FALSE]
  BY DEF Replay
<1>. QED
  BY <1>1, <1>2, LeaseFields, LeaseQuiet

LEMMA DeadlineQuiet ==
    ASSUME Inv, QuietInv, NEW k \in Deliveries, Deadline(k)
    PROVE  QuietInv'
<1>1. Inv' /\ Law /\ Types
  BY DeadlineInv DEF Inv
<1>2. /\ UNCHANGED <<att, row, plan, remote, actor, unrecorded>>
      /\ \A j \in Deliveries : del'[j].status = del[j].status
  BY <1>1 DEF Deadline, Types, Delivery
<1>. QED
  BY <1>1, <1>2, LeaseQuiet

LEMMA MessagesQuiet ==
    ASSUME Inv, QuietInv, NEW k \in Deliveries, CloseMessage(k) \/ DeadLetter(k)
    PROVE  QuietInv'
<1>1. Inv' /\ Law
  BY MessagesInv
<1>2. UNCHANGED <<del, att, row, plan, remote, actor, unrecorded>>
  BY DEF CloseMessage, DeadLetter
<1>. QED
  BY <1>1, <1>2, LeaseQuiet

LEMMA CapabilitiesFailQuiet ==
    ASSUME Inv, QuietInv, NEW w \in Actors, CapabilitiesFail(w)
    PROVE  QuietInv'
<1>1. Inv' /\ Law /\ Types
  BY CapabilitiesFailInv DEF Inv
<1>2. /\ Return(w) /\ UNCHANGED <<del, row, plan, remote, unrecorded>>
      /\ att' = [att EXCEPT ![actor[w].a].live = FALSE] \/ att' = att
  BY DEF CapabilitiesFail
<1>3. \A b \in Attempts : att'[b] = att[b] \/ att'[b] = [att[b] EXCEPT !.live = FALSE]
  BY <1>1, <1>2 DEF Types
<1>4. \A u \in Actors : actor'[u] = actor[u] \/ (actor'[u].pc \in Harmless /\ actor'[u].obs = 0)
  BY <1>1, <1>2, ReturnMoves
<1>. QED
  BY <1>1, <1>2, <1>3, <1>4, LeaseFields, LeaseQuiet

LEMMA LeaseRunsOutQuiet ==
    ASSUME Inv, QuietInv, NEW a \in Attempts, LeaseRunsOut(a)
    PROVE  QuietInv'
<1>1. Inv' /\ Law /\ Types
  BY LeaseRunsOutInv DEF Inv
<1>2. /\ UNCHANGED <<del, plan, remote, actor, unrecorded>>
      /\ att' = [att EXCEPT ![a].live = FALSE] \/ att' = att
      /\ (row[a].live /\ row' = [row EXCEPT ![a].live = FALSE]) \/ row' = row
  BY DEF LeaseRunsOut
<1>3. \A b \in Attempts : att'[b] = att[b] \/ att'[b] = [att[b] EXCEPT !.live = FALSE]
  BY <1>1, <1>2 DEF Types
<1>4. \A b \in Attempts : row[b] \in Reconciliation
  BY <1>1, TypeFacts
<1>5. ASSUME NEW b \in Attempts
      PROVE  row'[b].status = row[b].status /\ (row[b] = NoRow => row'[b] = NoRow)
  <2>1. CASE row'[b] = row[b]
    BY <2>1
  <2>2. CASE row[b].live /\ row'[b] = [row[b] EXCEPT !.live = FALSE]
    BY <1>4, <2>2 DEF Reconciliation, NoRow
  <2>. QED
    BY <1>1, <1>2, <2>1, <2>2 DEF Types
<1>. QED
  BY <1>1, <1>2, <1>3, <1>5, LeaseFields, LeaseQuiet

LEMMA CrashQuiet ==
    ASSUME Inv, QuietInv, Crash
    PROVE  QuietInv'
<1>1. Inv' /\ Law
  BY CrashInv
<1>2. /\ UNCHANGED <<del, att, row, plan, remote, unrecorded>>
      /\ \A u \in Actors : actor'[u].pc \in Harmless /\ actor'[u].obs = 0
  BY DEF Crash, Idle, Harmless, Nothing
<1>. QED
  BY <1>1, <1>2, LeaseQuiet

LEMMA StutterQuiet ==
    ASSUME Inv, QuietInv, UNCHANGED vars
    PROVE  QuietInv'
BY DEF vars, QuietInv, EpochsOK, Numbered, RowsOK, Arrivals, Nodes, Accounts, Dead, Clean,
       Unsettled, TheNode, Absent, IsCurrent, Of, Its, Lineage, WasSent, Open

\* A new boot: everything under way is forgotten.
LEMMA RestartQuiet ==
    ASSUME Inv, QuietInv, Restart
    PROVE  QuietInv'
<1>1. Inv' /\ Law /\ Types /\ EpochsOK
  BY RestartInv DEF Inv, QuietInv
<1>2. /\ UNCHANGED <<del, att, row, plan, unrecorded>>
      /\ remote' = [remote EXCEPT !.epoch = @ + 1, !.inflight = {}]
      /\ actor' = [w \in Actors |-> IF actor[w].pc = "waiting"
                                    THEN [actor[w] EXCEPT !.pc = "unknown"] ELSE actor[w]]
  BY DEF Restart, At
<1>3. remote'.epoch = remote.epoch + 1 /\ remote'.inflight = {} /\ remote.epoch \in Nat
  <2>1. remote \in Sidecar
    BY <1>1, TypeFacts
  <2>. QED
    BY <1>1, <1>2, <2>1, EpochPositive DEF Sidecar
<1>4. ASSUME NEW w \in Actors
      PROVE  /\ actor'[w] = actor[w] \/ actor'[w].pc \in Harmless
             /\ actor'[w].obs = actor[w].obs
  <2>1. actor[w] \in Loop
    BY <1>1, TypeFacts
  <2>2. CASE actor[w].pc = "waiting"
    <3>1. actor'[w] = [actor[w] EXCEPT !.pc = "unknown"]
      BY <1>2, <2>2
    <3>. QED
      BY <2>1, <3>1 DEF Loop, Harmless
  <2>3. CASE actor[w].pc # "waiting"
    BY <1>2, <2>3
  <2>. QED
    BY <2>2, <2>3
<1>5. EpochLaw
  <2>1. /\ \A a \in Attempts : att[a].epoch <= remote.epoch /\ att[a].epoch \in Nat
        /\ \A w \in Actors : actor[w].obs <= remote.epoch /\ actor[w].obs \in Nat
    <3>1. /\ \A a \in Attempts : att[a].epoch <= remote.epoch
          /\ \A w \in Actors : actor[w].obs <= remote.epoch
      BY <1>1 DEF EpochsOK
    <3>2. /\ \A a \in Attempts : att[a].epoch \in Nat
          /\ \A w \in Actors : actor[w].obs \in Nat
      BY <1>1, EpochPositive
    <3>. QED
      BY <3>1, <3>2
  <2>2. /\ \A a \in Attempts : att'[a].epoch <= remote'.epoch
        /\ \A w \in Actors : actor'[w].obs <= remote'.epoch
        /\ remote'.epoch > remote.epoch
    BY <1>2, <1>3, <1>4, <2>1
  <2>. QED
    BY <1>2, <1>3, <2>2 DEF EpochLaw
<1>6. \A a \in Attempts : BirthLaw(a) /\ OpenLaw(a)
  BY <1>2 DEF BirthLaw, OpenLaw, Born, Open
<1>. QED
  BY <1>1, <1>2, <1>4, <1>5, <1>6, QuietCalm

LEMMA SendQuiet ==
    ASSUME Inv, QuietInv, NEW w \in Actors, Send(w)
    PROVE  QuietInv'
<1>1. Inv' /\ Law /\ Types /\ EpochsOK
  BY SendInv DEF Inv, QuietInv
<1>2. /\ UNCHANGED <<del, att, row, plan>> /\ Goto(w, "waiting")
      /\ remote' = [remote EXCEPT !.inflight = @ \union {actor[w].a}]
      /\ unrecorded' = (unrecorded \/ att[actor[w].a].epoch # remote.epoch)
  BY DEF Send
<1>3. remote'.epoch = remote.epoch /\ remote'.inflight = remote.inflight \union {actor[w].a}
  <2>1. remote \in Sidecar
    BY <1>1, TypeFacts
  <2>. QED
    BY <1>2, <2>1 DEF Sidecar
<1>4. /\ actor'[w].pc = "waiting" /\ actor'[w].obs = actor[w].obs
      /\ \A u \in Actors : u # w => actor'[u] = actor[u]
  BY <1>1, <1>2, GotoMoves DEF PCs
<1>5. EpochLaw
  <2>1. \A u \in Actors : actor'[u].obs = actor[u].obs
    BY <1>4
  <2>2. (unrecorded => unrecorded') /\ (~unrecorded' => att[actor[w].a].epoch = remote.epoch)
    BY <1>1, <1>2 DEF Types
  <2>3. /\ \A a \in Attempts : att'[a].epoch <= remote'.epoch
        /\ \A u \in Actors : actor'[u].obs <= remote'.epoch
    BY <1>1, <1>2, <1>3, <2>1 DEF EpochsOK
  <2>. QED
    BY <1>3, <2>2, <2>3 DEF EpochLaw
<1>6. \A a \in Attempts : BirthLaw(a) /\ OpenLaw(a)
  BY <1>2 DEF BirthLaw, OpenLaw, Born, Open
<1>7. \A u \in Actors : actor'[u] = actor[u] \/ actor'[u].pc \in Harmless
  BY <1>4 DEF Harmless
<1>. QED
  BY <1>1, <1>2, <1>5, <1>6, <1>7, QuietCalm

LEMMA MarkSentQuiet ==
    ASSUME Inv, QuietInv, NEW w \in Actors, MarkSent(w)
    PROVE  QuietInv'
<1> DEFINE a == actor[w].a
           f == [att[a] EXCEPT !.state = "sent"]
           t == [f EXCEPT !.epoch = actor[w].obs]
<1>1. Inv' /\ Law /\ Types /\ EpochsOK
  BY MarkSentInv DEF Inv, QuietInv
<1>2. /\ actor[w].pc = "mark" /\ actor[w].pc # "idle"
      /\ UNCHANGED <<plan, remote, unrecorded>>
  BY DEF MarkSent, At
<1>3. /\ a \in Attempts /\ Its(w) \in Deliveries /\ actor[w].obs \in 0..MaxEpochs /\ ActorOK(w)
  BY <1>2, WorkerFacts
<1>4. CASE Return(w) /\ UNCHANGED <<del, msg, att, row>>
  BY <1>1, <1>2, <1>4, HarmlessStep
<1>5. CASE Lapses(w, {"prepared"}) /\ ExpireDelivery(Its(w)) /\ Goto(w, "preflight")
  <2>1. del[Its(w)].status = "queued"
    BY <1>5 DEF Lapses, Its
  <2>2. /\ actor'[w].pc = "preflight" /\ actor'[w].obs = actor[w].obs
        /\ \A u \in Actors : u # w => actor'[u] = actor[u]
    BY <1>1, <1>5, GotoMoves DEF PCs
  <2>3. /\ \A u \in Actors : actor'[u] = actor[u] \/ actor'[u].pc \in Harmless
        /\ \A u \in Actors : actor'[u].obs = actor[u].obs \/ actor'[u].obs <= remote.epoch
    BY <2>2 DEF Harmless
  <2>. QED
    BY <1>1, <1>2, <1>3, <1>5, <2>1, <2>3, ExpireQuiet
<1>6. CASE /\ May(w, {"prepared"})
           /\ att' = [att EXCEPT ![a].state = "sent", ![a].epoch = actor[w].obs]
           /\ Goto(w, IF del[Its(w)].kind = "delete" THEN "plan" ELSE "preflight")
           /\ UNCHANGED <<del, msg, row>>
  <2> DEFINE pc == IF del[Its(w)].kind = "delete" THEN "plan" ELSE "preflight"
  <2>0. pc \in {"plan", "preflight"} /\ Goto(w, pc)
    BY <1>6
  <2> HIDE DEF pc
  <2>1. att[a].state = "prepared" /\ att[a] \in Attempt
        /\ del[Its(w)].status \in {"queued", "delete_pending"}
    BY <1>1, <1>3, <1>6, TypeFacts DEF May, ForMutation, Active, Its
  <2>2. f \in Attempt /\ f.state = "sent"
    BY <2>1 DEF Attempt, AttStates
  <2> HIDE DEF f
  <2>3. t \in Attempt /\ t.state = "sent" /\ t.epoch = actor[w].obs
    BY <1>3, <2>2 DEF Attempt
  <2>4. att' = [att EXCEPT ![a] = t]
    BY <1>1, <1>6 DEF Types, f
  <2> HIDE DEF a, t
  <2>5. att'[a] = t /\ \A b \in Attempts : b # a => att'[b] = att[b]
    BY <1>3, <2>3, <2>4, OneAttempt
  <2>6. /\ actor'[w].pc = pc /\ actor'[w].obs = actor[w].obs
        /\ \A u \in Actors : u # w => actor'[u] = actor[u]
    BY <1>1, <2>0, GotoMoves DEF PCs
  <2>7. ASSUME NEW b \in Attempts
        PROVE  /\ att'[b].epoch = att[b].epoch \/ att'[b].epoch <= remote.epoch
               /\ ~Born(b) /\ (Open(b)' => Open(b))
    <3>1. CASE b = a
      <4>1. actor[w].obs <= remote.epoch
        BY <1>1 DEF EpochsOK
      <4>. QED
        BY <2>1, <2>3, <2>5, <3>1, <4>1 DEF Born, Open
    <3>2. CASE b # a
      BY <2>5, <3>2 DEF Born, Open
    <3>. QED
      BY <3>1, <3>2
  <2>8. EpochLaw
    <3>1. \A u \in Actors : actor'[u].obs = actor[u].obs
      BY <2>6
    <3>. QED
      BY <1>1, <1>2, <2>7, <3>1, EpochKept
  <2>9. \A b \in Attempts : BirthLaw(b) /\ OpenLaw(b)
    BY <2>7 DEF BirthLaw, OpenLaw
  <2>10. w # "expiry"
    BY <1>2, <1>3, <2>1 DEF ActorOK, Expiring
  <2>11. actor'[w].pc \in Harmless \/ Fresh(w)
    BY <2>0, <2>6, <2>10 DEF Harmless, Fresh, Looking, Purge
  <2>12. \A u \in Actors : actor'[u] = actor[u] \/ actor'[u].pc \in Harmless \/ Fresh(u)
    BY <2>6, <2>11
  <2>. QED
    BY <1>1, <1>2, <1>6, <2>8, <2>9, <2>12, QuietCalm
<1>. QED
  BY <1>4, <1>5, <1>6 DEF MarkSent

LEMMA ClaimNewQuiet ==
    ASSUME Inv, QuietInv, NEW a \in Attempts, ClaimNew(a)
    PROVE  QuietInv'
<1> DEFINE w == "consumer"
           v == [pc |-> "caps", a |-> a, obs |-> Nothing]
<1>1. Inv' /\ Law /\ Types /\ EpochsOK /\ AttemptsOK /\ w \in Actors
  BY ClaimNewInv DEF Inv, QuietInv, Actors
<1>2. PICK k \in Deliveries :
         /\ Applicable(k) /\ Of(k) = {} /\ att[a] = NoAttempt
         /\ \A b \in Attempts : b < a => att[b] # NoAttempt
         /\ att' = [att EXCEPT ![a] = [of |-> k, state |-> "prepared",
                      holder |-> "consumer", live |-> TRUE, epoch |-> Nothing]]
         /\ actor' = [actor EXCEPT !["consumer"] = v]
         /\ UNCHANGED <<del, msg, row, plan, remote, unrecorded, faults>>
  BY DEF ClaimNew
<1> DEFINE t == [of |-> k, state |-> "prepared", holder |-> "consumer", live |-> TRUE,
                 epoch |-> Nothing]
<1>3. t \in Attempt /\ t.of = k /\ t.epoch = 0
  BY ConstantFacts DEF Attempt, AttStates, Actors, Nothing
<1>4. v.pc = "caps" /\ v.obs = 0
  BY DEF Nothing
<1> HIDE DEF t, v
<1>5. att'[a] = t /\ \A b \in Attempts : b # a => att'[b] = att[b]
  BY <1>2, <1>3, OneAttempt DEF t
<1>6. actor'[w] = v /\ \A u \in Actors : u # w => actor'[u] = actor[u]
  BY <1>1, <1>2 DEF Types
<1>7. EpochLaw
  <2>1. \A b \in Attempts : att'[b].epoch = att[b].epoch \/ att'[b].epoch <= remote.epoch
    BY <1>1, <1>3, <1>5, EpochPositive
  <2>2. \A u \in Actors : actor'[u].obs = actor[u].obs \/ actor'[u].obs <= remote.epoch
    BY <1>1, <1>4, <1>6, EpochPositive
  <2>. QED
    BY <1>1, <1>2, <2>1, <2>2, EpochKept
<1>8. ASSUME NEW b \in Attempts
      PROVE  BirthLaw(b) /\ OpenLaw(b)
  <2>1. CASE b # a
    BY <1>5, <2>1 DEF BirthLaw, OpenLaw, Born, Open
  <2>2. CASE b = a
    <3>1. Born(a) \/ ~Open(a)'
      BY <1>2, <1>5 DEF Born, Open, NoAttempt
    <3>2. \A c \in Attempts : c < a => att[c].state # "none"
      BY <1>1, <1>2 DEF AttemptsOK, AttShape
    <3>3. del'[k].status \in {"queued", "delete_pending"}
      BY <1>2 DEF Applicable, Active
    <3>4. ~unrecorded /\ k = 1 => Absent
      <4>1. ~unrecorded => (remote.linked # Nothing => att[remote.linked].of = 1)
        BY DEF QuietInv, Arrivals
      <4>2. remote.linked \in Attempts \union {Nothing}
        BY <1>1, TypeFacts
      <4>. QED
        BY <1>2, <4>1, <4>2 DEF Absent, Of
    <3>5. att'[a].of = k /\ \A c \in Of(k) : FALSE
      BY <1>2, <1>3, <1>5
    <3>. QED
      BY <2>2, <3>1, <3>2, <3>3, <3>4, <3>5 DEF BirthLaw, OpenLaw
  <2>. QED
    BY <2>1, <2>2
<1>9. \A u \in Actors : actor'[u] = actor[u] \/ actor'[u].pc \in Harmless
  BY <1>4, <1>6 DEF Harmless
<1>. QED
  BY <1>1, <1>2, <1>7, <1>8, <1>9, QuietCalm

LEMMA ClaimOpenQuiet ==
    ASSUME Inv, QuietInv, NEW w \in Actors, NEW a \in Attempts, ClaimOpen(w, a)
    PROVE  QuietInv'
<1> DEFINE s == Reclaimed(a)
           f == [att[a] EXCEPT !.state = s]
           g == [f EXCEPT !.holder = w]
           t == [g EXCEPT !.live = TRUE]
           pc == CASE Reclaimed(a) = "prepared" -> "caps"
                   [] Reclaimed(a) # "prepared" /\ del[att[a].of].kind = "delete" -> "plan"
                   [] OTHER -> "look"
           v == [pc |-> pc, a |-> a, obs |-> Nothing]
<1>0. Inv' /\ Law /\ Types /\ EpochsOK
  BY ClaimOpenInv DEF Inv, QuietInv
<1>1. /\ Open(a) /\ w \in {"consumer", "attempts"}
      /\ att' = [att EXCEPT ![a].state = s, ![a].holder = w, ![a].live = TRUE]
      /\ actor' = [actor EXCEPT ![w] = v]
      /\ UNCHANGED <<del, msg, row, plan, remote, unrecorded, faults>>
  BY DEF ClaimOpen
<1>2. att[a] \in Attempt
  BY <1>0, TypeFacts
<1>3. s \in {"prepared", "reconciling"}
  BY DEF Reclaimed
<1>4. pc \in {"caps", "plan", "look"} /\ (pc = "look" => s # "prepared")
  OBVIOUS
<1> HIDE DEF s, pc
<1>5. f \in Attempt /\ f.state = s /\ f.epoch = att[a].epoch
  BY <1>2, <1>3 DEF Attempt, AttStates
<1> HIDE DEF f
<1>6. g \in Attempt /\ g.state = s /\ g.epoch = att[a].epoch
  BY <1>5 DEF Attempt
<1> HIDE DEF g
<1>7. t \in Attempt /\ t.state = s /\ t.epoch = att[a].epoch
  BY <1>6 DEF Attempt
<1>8. att' = [att EXCEPT ![a] = t]
  BY <1>0, <1>1 DEF Types, f, g
<1> HIDE DEF t
<1>9. att'[a] = t /\ \A b \in Attempts : b # a => att'[b] = att[b]
  BY <1>7, <1>8, OneAttempt
<1>10. v.pc = pc /\ v.a = a /\ v.obs = 0
  BY DEF Nothing
<1> HIDE DEF v
<1>11. actor'[w] = v /\ \A u \in Actors : u # w => actor'[u] = actor[u]
  BY <1>0, <1>1 DEF Types
<1>12. EpochLaw
  <2>1. \A b \in Attempts : att'[b].epoch = att[b].epoch
    BY <1>7, <1>9
  <2>2. \A u \in Actors : actor'[u].obs = actor[u].obs \/ actor'[u].obs <= remote.epoch
    BY <1>0, <1>10, <1>11, EpochPositive
  <2>. QED
    BY <1>0, <1>1, <2>1, <2>2, EpochKept
<1>13. \A b \in Attempts : BirthLaw(b) /\ OpenLaw(b)
  <2>1. att[a].state # "none"
    BY <1>1 DEF Open
  <2>2. \A b \in Attempts : ~Born(b) /\ (Open(b)' => Open(b))
    BY <1>1, <1>9, <2>1 DEF Born, Open
  <2>. QED
    BY <2>2 DEF BirthLaw, OpenLaw
<1>14. actor'[w].pc \in Harmless \/ Fresh(w)
  <2>1. CASE pc = "caps"
    BY <1>10, <1>11, <2>1 DEF Harmless
  <2>2. CASE pc = "plan"
    BY <1>1, <1>10, <1>11, <2>2 DEF Fresh, Looking, Purge
  <2>3. CASE pc = "look"
    <3>1. att'[actor'[w].a].state \notin NotSent
      BY <1>3, <1>4, <1>7, <1>9, <1>10, <1>11, <2>3 DEF NotSent
    <3>. QED
      BY <1>1, <1>10, <1>11, <2>3, <3>1 DEF Fresh, Looking, Purge
  <2>. QED
    BY <1>4, <2>1, <2>2, <2>3
<1>15. \A u \in Actors : actor'[u] = actor[u] \/ actor'[u].pc \in Harmless \/ Fresh(u)
  BY <1>11, <1>14
<1>. QED
  BY <1>0, <1>1, <1>12, <1>13, <1>15, QuietCalm

\* The attempt that is replaced is dead: its boot is over.
LEMMA AuthorizeRetryQuiet ==
    ASSUME Inv, QuietInv, NEW w \in Actors, AuthorizeRetry(w)
    PROVE  QuietInv'
<1> DEFINE a == actor[w].a
           k == att[a].of
<1>0. Inv' /\ Law /\ Types /\ EpochsOK /\ AttemptsOK
  BY AuthorizeRetryInv DEF Inv, QuietInv
<1>1. /\ actor[w].pc = "authorize" /\ actor[w].pc # "idle"
      /\ UNCHANGED <<del, msg, row, plan, remote, unrecorded, faults>>
  BY DEF AuthorizeRetry, At
<1>2. /\ a \in Attempts /\ k \in Deliveries /\ k = Its(w) /\ ActorOK(w)
      /\ att[a].epoch < remote.epoch
  BY <1>0, <1>1, WorkerFacts DEF Its, EpochsOK
<1>3. CASE Return(w) /\ UNCHANGED att
  BY <1>0, <1>1, <1>3, HarmlessStep
<1>4. ASSUME May(w, {"reconciling"}),
             NEW b \in Attempts, att[b] = NoAttempt,
             \A c \in Attempts : att[c] = NoAttempt => b <= c,
             att' = [att EXCEPT
                       ![a] = Closed(@, "fenced"),
                       ![b] = [of |-> att[a].of, state |-> "prepared",
                               holder |-> w, live |-> TRUE, epoch |-> Nothing]],
             actor' = [actor EXCEPT ![w].pc = "mark", ![w].a = b]
      PROVE  QuietInv'
  <2> DEFINE u == Closed(att[a], "fenced")
             t == [of |-> k, state |-> "prepared", holder |-> w, live |-> TRUE,
                   epoch |-> Nothing]
             f == [actor[w] EXCEPT !.pc = "mark"]
             v == [f EXCEPT !.a = b]
  <2>1. /\ att[a].state = "reconciling" /\ del[k].status \in {"queued", "delete_pending"}
        /\ IsCurrent(a)
    BY <1>4 DEF May, ForMutation, Active
  <2>2. att[a] \in Attempt /\ actor[w] \in Loop
    BY <1>0, <1>2, TypeFacts
  <2>3. u.state = "fenced" /\ u.epoch = att[a].epoch /\ u \in Attempt
    BY <2>2, ClosedFacts DEF AttStates
  <2>4. t.of = k /\ t.epoch = 0 /\ t \in Attempt
    BY <1>2, <2>1, ConstantFacts DEF Nothing, Attempt, AttStates
  <2>5. a # b
    BY <1>4, <2>1 DEF NoAttempt
  <2>6. att' = [[att EXCEPT ![a] = u] EXCEPT ![b] = t]
    BY <1>4
  <2> HIDE DEF u, t
  <2>7. att'[a] = u /\ att'[b] = t /\ \A c \in Attempts \ {a, b} : att'[c] = att[c]
    BY <1>0, <1>2, <2>3, <2>4, <2>5, <2>6 DEF Types
  <2>8. f \in Loop /\ f.pc = "mark" /\ f.obs = actor[w].obs
    BY <2>2 DEF Loop, PCs
  <2>9. actor' = [actor EXCEPT ![w] = v]
    BY <1>0, <1>4 DEF Types
  <2> HIDE DEF f
  <2>10. v.pc = "mark" /\ v.obs = actor[w].obs
    BY <2>8 DEF Loop
  <2> HIDE DEF v
  <2>11. actor'[w] = v /\ \A x \in Actors : x # w => actor'[x] = actor[x]
    BY <1>0, <2>9 DEF Types
  <2>12. EpochLaw
    <3>1. \A c \in Attempts : att'[c].epoch = att[c].epoch \/ att'[c].epoch <= remote.epoch
      BY <1>0, <2>3, <2>4, <2>7, EpochPositive
    <3>2. \A x \in Actors : actor'[x].obs = actor[x].obs
      BY <2>10, <2>11
    <3>. QED
      BY <1>0, <1>1, <3>1, <3>2, EpochKept
  <2>13. ASSUME NEW c \in Attempts, c # b
         PROVE  BirthLaw(c) /\ OpenLaw(c)
    <3>1. CASE c = a
      BY <2>1, <3>1 DEF BirthLaw, OpenLaw, Born, Open
    <3>2. CASE c # a
      BY <2>7, <2>13, <3>2 DEF BirthLaw, OpenLaw, Born, Open
    <3>. QED
      BY <3>1, <3>2
  <2>14. BirthLaw(b) /\ OpenLaw(b)
    <3>1. \A c \in Attempts : c < b => att[c].state # "none"
      <4>1. \A c \in Attempts : c < b => att[c] # NoAttempt
        BY <1>4, ConstantFacts
      <4>. QED
        BY <1>0, <4>1 DEF AttemptsOK, AttShape
    <3>2. del[k].status = "queued"
      BY <1>1, <1>2, <2>1 DEF ActorOK, Inv, Chain, Deleting
    <3>3. ASSUME ~unrecorded, NEW c \in Of(k)
          PROVE  Dead(c)
      <4>1. c \in Attempts /\ att[c].of = k /\ c <= a /\ k # Nothing
        BY <1>2, <2>1, ConstantFacts DEF Of, IsCurrent
      <4>2. CASE c # a
        <5>1. c < a
          BY <1>2, <4>1, <4>2, ConstantFacts
        <5>. QED
          BY <1>2, <3>3, <4>1, <5>1 DEF QuietInv, Arrivals
      <4>3. CASE c = a
        <5>1. att[a].epoch # remote.epoch
          <6>1. att[a].epoch \in Nat /\ remote.epoch \in Nat
            BY <1>0, <1>2, EpochPositive
          <6>. QED
            BY <1>2, <6>1
        <5>2. a \notin remote.inflight
          BY <3>3, <5>1 DEF QuietInv, Arrivals
        <5>. QED
          BY <2>1, <4>3, <5>1, <5>2 DEF Dead, NotSent
      <4>. QED
        BY <4>2, <4>3
    <3>4. ~unrecorded => Absent
      BY <1>1, <1>2, <2>1, <3>2 DEF QuietInv, Arrivals
    <3>5. att'[b].of = k /\ Open(b)' = Open(b)'
      BY <2>4, <2>7
    <3>6. att[b].state = "none" /\ att'[b].state # "none"
      <4>1. att'[b].state = "prepared"
        BY <2>7 DEF t
      <4>. QED
        BY <1>4, <4>1 DEF NoAttempt
    <3>7. del'[att'[b].of].status \in {"queued", "delete_pending"}
      BY <1>1, <3>2, <3>5
    <3>. QED
      BY <3>1, <3>3, <3>4, <3>5, <3>6, <3>7 DEF BirthLaw, OpenLaw, Born
  <2>15. \A x \in Actors : actor'[x] = actor[x] \/ actor'[x].pc \in Harmless
    BY <2>10, <2>11 DEF Harmless
  <2>. QED
    BY <1>0, <1>1, <2>12, <2>13, <2>14, <2>15, QuietCalm
<1>. QED
  BY <1>3, <1>4 DEF AuthorizeRetry

----------------------------------------------------------------------------
(* Plans and reconciliations. *)

\* One reconciliation or one plan changes, the deliveries and attempts stay.
LEMMA LedgerQuiet ==
    ASSUME Inv, Inv', Law, QuietInv, NEW w \in Actors,
           UNCHANGED <<att, remote, unrecorded>>,
           \A u \in Actors : u # w => actor'[u] = actor[u],
           actor'[w].obs = actor[w].obs \/ actor'[w].obs = 0,
           actor'[w].pc = "idle" \/ Fresh(w),
           w # "expiry" => row' = row,
           \A k \in Deliveries : QuietDel(k) /\ QuietPlan(k),
           \A a \in Attempts : QuietRow(a)
    PROVE  QuietInv'
<1>1. Types /\ EpochsOK
  BY DEF Inv, QuietInv
<1>2. \A u \in Actors : actor'[u].obs = actor[u].obs \/ actor'[u].obs <= remote.epoch
  BY <1>1, EpochPositive
<1>3. EpochLaw
  BY <1>1, <1>2, EpochKept
<1>4. \A a \in Attempts : BirthLaw(a) /\ OpenLaw(a)
  BY DEF BirthLaw, OpenLaw, Born, Open
<1>5. \A u \in Actors : QuietAct(u)
  BY DEF QuietAct
<1>6. QuietLaw
  BY <1>3, <1>4, <1>5 DEF QuietLaw
<1>. QED
  BY <1>6, QuietKeeps

LEMMA SavePlanQuiet ==
    ASSUME Inv, QuietInv, NEW w \in Actors, SavePlan(w)
    PROVE  QuietInv'
<1> DEFINE k == Its(w)
<1>1. Inv' /\ Law /\ Types /\ RowsOK
  BY SavePlanInv DEF Inv, QuietInv
<1>2. actor[w].pc = "plan" /\ UNCHANGED <<del, att, row, remote, unrecorded>>
  BY DEF SavePlan, At
<1>3. /\ actor[w].a \in Attempts /\ k \in Deliveries /\ ActorOK(w) /\ actor[w].a \in Of(k)
  BY <1>2, WorkerFacts, QuietWorker
<1>4. w = "expiry" => row[actor[w].a].status = "delete_pending"
  BY <1>1, <1>2 DEF RowsOK, Purge
<1>5. CASE PurgeFailed(w) /\ UNCHANGED plan
  <2>1. "unknown" \in Harmless
    BY DEF Harmless
  <2>2. Return(w) \/ Goto(w, "unknown")
    BY <1>5 DEF PurgeFailed
  <2>. QED
    BY <1>1, <1>2, <1>5, <2>1, <2>2, HarmlessStep
<1>6. ASSUME Goto(w, "unlink"), plan'[k] # Nothing, \A j \in Deliveries : QuietPlan(j)
      PROVE  QuietInv'
  <2>1. /\ actor'[w].pc = "unlink" /\ actor'[w].a = actor[w].a /\ actor'[w].obs = actor[w].obs
        /\ \A u \in Actors : u # w => actor'[u] = actor[u]
    BY <1>1, <1>6, GotoMoves DEF PCs
  <2>2. Its(w)' = k
    BY <1>2, <2>1 DEF Its
  <2>3. Fresh(w)
    BY <1>2, <1>4, <1>6, <2>1, <2>2 DEF Fresh, Looking, Judging
  <2>4. \A j \in Deliveries : QuietDel(j)
    BY <1>2 DEF QuietDel, Unsettled
  <2>5. \A a \in Attempts : QuietRow(a)
    BY <1>1, <1>2 DEF QuietRow, RowsOK
  <2>. QED
    BY <1>1, <1>2, <1>6, <2>1, <2>3, <2>4, <2>5, LedgerQuiet
<1>7. CASE plan[k] # Nothing /\ Goto(w, "unlink") /\ UNCHANGED plan
  BY <1>6, <1>7 DEF QuietPlan
<1>8. CASE /\ plan[k] = Nothing /\ Holds(k) /\ plan' = [plan EXCEPT ![k] = remote.linked]
           /\ Goto(w, "unlink")
  <2>1. /\ plan'[k] = remote.linked /\ remote.linked # Nothing
        /\ \A j \in Deliveries : j # k => plan'[j] = plan[j]
    BY <1>1, <1>3, <1>8 DEF Types, Holds
  <2>2. ASSUME del[k].status \in Expiring
        PROVE  \E a \in Of(k) : row[a].status = "delete_pending" /\ row'[a].status = "delete_pending"
    <3>1. w = "expiry"
      BY <1>2, <1>3, <2>2, ExpiringFacts DEF ActorOK, Purge
    <3>. QED
      BY <1>2, <1>3, <1>4, <3>1
  <2>3. QuietPlan(k)
    BY <1>8, <2>1, <2>2 DEF QuietPlan
  <2>4. \A j \in Deliveries : QuietPlan(j)
    BY <2>1, <2>3 DEF QuietPlan
  <2>. QED
    BY <1>6, <1>8, <2>1, <2>4
<1>. QED
  BY <1>5, <1>7, <1>8 DEF SavePlan

LEMMA ClaimExpiryQuiet ==
    ASSUME Inv, QuietInv, NEW a \in Attempts, ClaimExpiry(a)
    PROVE  QuietInv'
<1> DEFINE w == "expiry"
           status == IF row[a].status = "delete_pending" THEN "delete_pending"
                     ELSE "reconciling"
           pc == IF status = "delete_pending" THEN "plan" ELSE "look"
           v == [pc |-> pc, a |-> a, obs |-> Nothing]
           r == [status |-> status, holder |-> "expiry", live |-> TRUE]
<1>1. Inv' /\ Law /\ Types /\ RowsOK /\ AttemptsOK /\ w \in Actors
  BY ClaimExpiryInv DEF Inv, QuietInv, Actors
<1>2. /\ row[a] # NoRow /\ Unclaimed(a)
      /\ row' = [row EXCEPT ![a] = r]
      /\ actor' = [actor EXCEPT !["expiry"] = v]
      /\ UNCHANGED <<del, msg, att, plan, remote, unrecorded, faults>>
  BY DEF ClaimExpiry
<1>3. /\ row[a].status = "delete_pending" => status = "delete_pending" /\ pc = "plan"
      /\ row[a].status # "delete_pending" => status = "reconciling" /\ pc = "look"
  OBVIOUS
<1>4. r.status = status
  OBVIOUS
<1> HIDE DEF status, pc
<1>5. v.pc = pc /\ v.a = a /\ v.obs = 0
  BY DEF Nothing
<1> HIDE DEF v, r
<1>6. row'[a] = r /\ \A b \in Attempts : b # a => row'[b] = row[b]
  BY <1>1, <1>2 DEF Types
<1>7. actor'[w] = v /\ \A u \in Actors : u # w => actor'[u] = actor[u]
  BY <1>1, <1>2 DEF Types
<1>8. row[a].status \in {"pending", "reconciling", "delete_pending"}
  BY <1>2 DEF Unclaimed
<1>9. ASSUME NEW b \in Attempts
      PROVE  QuietRow(b) /\ (Unsettled(b) => Unsettled(b)')
  <2>1. CASE b # a
    BY <1>1, <1>6, <2>1 DEF QuietRow, Unsettled, RowsOK
  <2>2. CASE b = a
    BY <1>3, <1>4, <1>6, <1>8, <2>2 DEF QuietRow, Unsettled, Settled
  <2>. QED
    BY <2>1, <2>2
<1>10. \A k \in Deliveries : QuietDel(k) /\ QuietPlan(k)
  <2>1. \A k \in Deliveries : \A b \in Of(k) : Unsettled(b) => Unsettled(b)'
    BY <1>9 DEF Of
  <2>. QED
    BY <1>2, <2>1 DEF QuietDel, QuietPlan
<1>11. Fresh(w)
  <2>1. att[a].state \notin NotSent
    <3>1. WasSent(a) /\ AttShape(att[a])
      BY <1>1, <1>8 DEF RowsOK, AttemptsOK
    <3>. QED
      BY <3>1 DEF WasSent, AttShape, NotSent, NoAttempt
  <2>2. row'[actor'[w].a].status = status
    BY <1>4, <1>5, <1>6, <1>7
  <2>. QED
    BY <1>2, <1>3, <1>5, <1>7, <2>1, <2>2 DEF Fresh, Looking, Judging, Purge
<1>. QED
  BY <1>1, <1>2, <1>5, <1>7, <1>9, <1>10, <1>11, LedgerQuiet

LEMMA ExpiryFoundQuiet ==
    ASSUME Inv, QuietInv, ExpiryFound
    PROVE  QuietInv'
<1> DEFINE w == "expiry"
           a == actor["expiry"].a
<1>1. Inv' /\ Law /\ Types /\ RowsOK /\ w \in Actors
  BY ExpiryFoundInv DEF Inv, QuietInv, Actors
<1>2. actor[w].pc = "found" /\ UNCHANGED <<del, att, plan, remote, unrecorded>>
  BY DEF ExpiryFound, At
<1>3. a \in Attempts
  BY <1>1, <1>2, WorkerFacts
<1>4. CASE Return("expiry") /\ UNCHANGED row
  BY <1>1, <1>2, <1>4, HarmlessStep
<1>5. CASE /\ HoldsRow("reconciling")
           /\ row' = [row EXCEPT ![a].status = "delete_pending"] /\ Goto("expiry", "plan")
  <2>1. row'[a].status = "delete_pending" /\ \A b \in Attempts : b # a => row'[b] = row[b]
    BY <1>1, <1>3, <1>5 DEF Types, Reconciliation
  <2>2. row[a].status = "reconciling"
    BY <1>5 DEF HoldsRow
  <2>3. /\ actor'[w].pc = "plan" /\ actor'[w].a = a /\ actor'[w].obs = actor[w].obs
        /\ \A u \in Actors : u # w => actor'[u] = actor[u]
    BY <1>1, <1>5, GotoMoves DEF PCs
  <2>4. Fresh(w)
    BY <2>1, <2>3 DEF Fresh, Looking, Judging, Purge
  <2> HIDE DEF a
  <2>5. ASSUME NEW b \in Attempts
        PROVE  QuietRow(b) /\ (Unsettled(b) => Unsettled(b)')
    <3>1. CASE b # a
      BY <1>1, <2>1, <3>1 DEF QuietRow, Unsettled, RowsOK
    <3>2. CASE b = a
      BY <2>1, <2>2, <3>2 DEF QuietRow, Unsettled, Settled
    <3>. QED
      BY <3>1, <3>2
  <2>6. \A k \in Deliveries : QuietDel(k) /\ QuietPlan(k)
    <3>1. \A k \in Deliveries : \A b \in Of(k) : Unsettled(b) => Unsettled(b)'
      BY <2>5 DEF Of
    <3>. QED
      BY <1>2, <3>1 DEF QuietDel, QuietPlan
  <2>. QED
    BY <1>1, <1>2, <2>3, <2>4, <2>5, <2>6, LedgerQuiet
<1>. QED
  BY <1>4, <1>5 DEF ExpiryFound

\* What a reconciliation that is closed knows of its attempt.
LEMMA ClosingIsDead ==
    ASSUME Inv, QuietInv, ~unrecorded, actor["expiry"].pc \in {"purged", "absent"},
           del[Its("expiry")].status \in Expiring
    PROVE  Dead(actor["expiry"].a)
<1> DEFINE w == "expiry"
           a == actor["expiry"].a
           k == Its("expiry")
<1>1. /\ Types /\ EpochsOK /\ RowsOK /\ Arrivals /\ w \in Actors /\ CorrectionLanded
      /\ OneCorrection /\ AttemptsOK
  BY DEF Inv, QuietInv, Actors
<1>2. a \in Attempts /\ k \in Deliveries /\ a \in Of(k) /\ att[a].of = k
  BY <1>1, WorkerFacts, QuietWorker DEF Its
<1>3. CASE actor[w].pc = "absent"
  <2>1. att[a].state \notin NotSent /\ att[a].epoch < remote.epoch
    BY <1>1, <1>3 DEF EpochsOK, Looking
  <2>2. att[a].epoch \in Nat /\ remote.epoch \in Nat
    BY <1>1, <1>2, EpochPositive
  <2>3. att[a].epoch # remote.epoch
    BY <2>1, <2>2
  <2>4. a \notin remote.inflight
    BY <1>1, <2>3 DEF Arrivals
  <2>. QED
    BY <2>1, <2>3, <2>4 DEF Dead
<1>4. CASE actor[w].pc = "purged"
  <2>1. plan[k] # Nothing
    BY <1>1, <1>4 DEF RowsOK, Purge
  <2>2. del[k].kind \in {"admit", "correction"} /\ (k = 1 <=> del[k].kind = "admit")
    BY <1>2, ExpiringFacts
  <2>3. CASE k = 1
    BY <1>1, <1>2, <2>1, <2>3 DEF Arrivals
  <2>4. CASE del[k].kind = "correction"
    <3>1. PICK c \in Of(k) : Landed(c)
      BY <1>1, <1>2, <2>1, <2>4 DEF CorrectionLanded
    <3>2. c \in Attempts /\ att[c].of = k /\ k # Nothing
      BY <1>2, ConstantFacts DEF Of
    <3>3. c = a
      BY <1>1, <1>2, <2>4, <3>2 DEF OneCorrection
    <3>. QED
      BY <3>1, <3>3 DEF Landed, Dead
  <2>. QED
    BY <2>2, <2>3, <2>4
<1>. QED
  BY <1>3, <1>4

\* An attempt without a reconciliation was never sent, and nobody will.
LEMMA UnsentIsDead ==
    ASSUME Inv, QuietInv, ~unrecorded, NEW k \in Deliveries, del[k].status \in Expiring,
           NEW c \in Of(k), ~WasSent(c)
    PROVE  Dead(c)
<1>1. Types /\ RowsOK /\ Arrivals /\ AttemptsOK
  BY DEF Inv, QuietInv
<1>2. c \in Attempts /\ att[c].of = k /\ k # Nothing /\ att[c].epoch = 0
  BY ConstantFacts DEF Of, WasSent, Nothing
<1>3. att[c].state \in AttStates /\ AttShape(att[c]) /\ ~Open(c)
  BY <1>1, <1>2, TypeFacts DEF AttemptsOK, RowsOK
<1>4. att[c].state \notin NotSent
  BY <1>2, <1>3 DEF AttShape, Open, NotSent, NoAttempt, AttStates
<1>5. att[c].epoch # remote.epoch
  BY <1>1, <1>2, EpochPositive
<1>6. c \notin remote.inflight
  BY <1>1, <1>5 DEF Arrivals
<1>. QED
  BY <1>4, <1>5, <1>6 DEF Dead

LEMMA FinalizeExpiryQuiet ==
    ASSUME Inv, QuietInv, NEW pc, NEW from, NEW status,
           FinalizeExpiry(pc, from, status),
           \/ pc = "purged" /\ from = "delete_pending" /\ status = "verified"
           \/ pc = "absent" /\ from = "reconciling" /\ status = "absence_verified"
           \/ pc = "conflict" /\ from = "reconciling" /\ status = "conflict"
    PROVE  QuietInv'
<1> DEFINE w == "expiry"
           a == actor["expiry"].a
           k == att[a].of
           r == [NoRow EXCEPT !.status = status]
           settled(b) == row'[b].status \in {"none", "absence_verified", "verified"}
           s == IF \A b \in Of(k) : settled(b) THEN "expired" ELSE "expiry_reconciling"
<1>1. status \in RowStatuses /\ pc # "idle"
  BY DEF RowStatuses
<1>2. Inv' /\ Law /\ Types /\ RowsOK /\ w \in Actors
  BY <1>1, FinalizeExpiryInv DEF Inv, QuietInv, Actors
<1>3. /\ actor[w].pc = pc /\ Return(w) /\ UNCHANGED <<msg, att, plan, remote, unrecorded, faults>>
  BY DEF FinalizeExpiry, At
<1>4. /\ a \in Attempts /\ k \in Deliveries /\ k = Its(w) /\ a \in Of(k)
  BY <1>1, <1>2, <1>3, WorkerFacts, QuietWorker DEF Its
<1>5. CASE UNCHANGED <<row, del>>
  BY <1>2, <1>3, <1>5, HarmlessStep
<1>6. CASE /\ HoldsRow(from)
           /\ row' = [row EXCEPT ![a] = r]
           /\ del' = [del EXCEPT ![k].status = IF \A b \in Of(k) : settled(b)
                                               THEN "expired" ELSE @]
  <2>1. row[a].status = from /\ del[k].status = "expiry_reconciling"
    BY <1>6 DEF HoldsRow
  <2>2. r.status = status
    BY DEF NoRow
  <2> HIDE DEF r
  <2>3. row'[a] = r /\ \A b \in Attempts : b # a => row'[b] = row[b]
    BY <1>2, <1>4, <1>6 DEF Types
  <2>4. /\ del'[k].status = s /\ \A j \in Deliveries : j # k => del'[j] = del[j]
    BY <1>2, <1>4, <1>6, <2>1 DEF Types, Delivery
  <2>5. del[k].status \in Expiring /\ del[Its(w)].status \in Expiring
    BY <1>4, <2>1 DEF Expiring
  <2>6. ~unrecorded /\ pc \in {"purged", "absent"} => Dead(a)
    BY <1>3, <2>5, ClosingIsDead
  <2>7. ~unrecorded /\ pc = "purged" => Clean
    BY <1>2, <1>3 DEF QuietInv, Accounts
  <2>8. ASSUME NEW b \in Attempts
        PROVE  QuietRow(b)
    <3>1. CASE b # a
      BY <1>2, <2>3, <3>1 DEF QuietRow, RowsOK
    <3>2. CASE b = a
      BY <2>1, <2>2, <2>3, <2>6, <2>7, <3>2 DEF QuietRow, Settled
    <3>. QED
      BY <3>1, <3>2
  <2>9. ASSUME NEW j \in Deliveries, j # k
        PROVE  QuietDel(j)
    <3>1. \A b \in Of(j) : b \in Attempts /\ b # a
      BY <2>9 DEF Of
    <3>2. \A b \in Of(j) : Unsettled(b) => Unsettled(b)'
      BY <2>3, <3>1 DEF Unsettled
    <3>. QED
      BY <2>4, <2>9, <3>2 DEF QuietDel
  <2>10. QuietDel(k)
    <3>1. CASE \A b \in Of(k) : settled(b)
      <4>1. del'[k].status = "expired" /\ pc # "conflict"
        BY <1>4, <2>2, <2>3, <2>4, <3>1
      <4>2. ASSUME ~unrecorded
            PROVE  Clean
        <5>1. CASE pc = "purged"
          BY <2>7, <4>2, <5>1
        <5>2. CASE pc = "absent"
          <6>1. Clean \/ \E b \in Of(Its(w)) : b # actor[w].a /\ Unsettled(b)
            BY <1>3, <4>2, <5>2 DEF QuietInv, Accounts
          <6>2. ASSUME NEW b \in Of(k), b # a
                PROVE  ~Unsettled(b)
            <7>1. b \in Attempts /\ settled(b)
              BY <3>1, <6>2 DEF Of
            <7>. QED
              BY <2>3, <6>2, <7>1 DEF Unsettled
          <6>. QED
            BY <1>4, <6>1, <6>2
        <5>. QED
          BY <4>1, <5>1, <5>2
      <4>3. ASSUME ~unrecorded, NEW c \in Of(k)
            PROVE  Dead(c)
        <5>0. c \in Attempts /\ att[c].of = k /\ k # Nothing
          BY <1>4, ConstantFacts DEF Of
        <5>1. CASE c = a
          BY <2>6, <4>1, <4>3, <5>1
        <5>2. CASE c # a /\ row[c].status # "none"
          <6>1. row[c].status \in {"absence_verified", "verified"}
            BY <2>3, <3>1, <5>0, <5>2
          <6>. QED
            BY <4>3, <5>0, <6>1 DEF QuietInv, Accounts
        <5>3. CASE row[c].status = "none"
          <6>1. ~WasSent(c)
            BY <1>2, <2>5, <5>0, <5>3 DEF RowsOK
          <6>. QED
            BY <1>4, <2>5, <4>3, <6>1, UnsentIsDead
        <5>. QED
          BY <5>1, <5>2, <5>3
      <4>. QED
        BY <2>1, <2>5, <4>1, <4>2, <4>3 DEF QuietDel
    <3>2. CASE ~(\A b \in Of(k) : settled(b))
      <4>1. PICK b \in Of(k) : ~settled(b)
        BY <3>2
      <4>2. b \in Attempts /\ row'[b].status \in RowStatuses
        <5>1. b \in Attempts /\ row'[b] \in Reconciliation
          BY <1>2, <4>1 DEF Of, Inv, Types
        <5>. QED
          BY <5>1 DEF Reconciliation
      <4>3. Unsettled(b)'
        BY <4>1, <4>2 DEF Unsettled, RowStatuses
      <4>4. del'[k].status = "expiry_reconciling"
        BY <2>4, <3>2
      <4>. QED
        BY <2>1, <2>5, <4>1, <4>3, <4>4 DEF QuietDel
    <3>. QED
      BY <3>1, <3>2
  <2>11. \A j \in Deliveries : QuietDel(j) /\ QuietPlan(j)
    BY <1>3, <2>9, <2>10 DEF QuietPlan
  <2>12. /\ actor'[w].pc = "idle" /\ actor'[w].obs = 0
         /\ \A u \in Actors : u # w => actor'[u] = actor[u]
    BY <1>2, <1>3, ReturnMoves
  <2>. QED
    BY <1>2, <1>3, <2>8, <2>11, <2>12, LedgerQuiet
<1>. QED
  BY <1>5, <1>6 DEF FinalizeExpiry

----------------------------------------------------------------------------
(* The steps of the sidecar and of the user, for the second invariant. *)

\* How a loop may move while the sidecar's side changes.
Onward(w) ==
    /\ actor'[w].a = actor[w].a /\ actor'[w].obs = actor[w].obs
    /\ \/ actor'[w] = actor[w]
       \/ actor'[w].pc \in Harmless \ PreSend
       \/ actor'[w].pc \in {"erase", "verify"} /\ actor[w].pc \in {"unlink", "erase"}

LEMMA OnwardFacts ==
    ASSUME NEW w, Onward(w)
    PROVE  /\ actor'[w].pc \in PreSend => actor[w].pc \in PreSend
           /\ actor'[w].pc \in Looking => actor'[w] = actor[w]
           /\ actor'[w].pc \in Judging => actor'[w] = actor[w]
           /\ actor'[w].pc \in Purge => actor[w].pc \in Purge
           /\ actor'[w].pc \in Purge \ {"plan"} => actor[w].pc \in Purge \ {"plan"}
           /\ actor'[w].pc \in {"second", "authorize", "absent", "purged"} => actor'[w] = actor[w]
BY DEF Onward, Harmless, PreSend, Looking, Judging, Purge

LEMMA PathRows ==
    ASSUME Inv, QuietInv, UNCHANGED <<del, att, row, plan, unrecorded>>,
           remote'.epoch = remote.epoch, remote'.inflight \subseteq remote.inflight,
           \A w \in Actors : Onward(w)
    PROVE  /\ EpochsOK' /\ Numbered' /\ RowsOK'
           /\ \A a \in Attempts : Dead(a) => Dead(a)'
           /\ \A w \in Actors : actor'[w].pc \in PreSend => actor[w].pc \in PreSend
           /\ \A w \in Actors : Its(w)' = Its(w)
           /\ \A a \in Attempts : (Unsettled(a)' <=> Unsettled(a)) /\ (WasSent(a)' <=> WasSent(a))
           /\ \A k \in Deliveries : Of(k)' = Of(k) /\ (Lineage(k)' <=> Lineage(k))
<1>1. EpochsOK /\ Numbered /\ RowsOK
  BY DEF QuietInv
<1>2. \A w \in Actors :
           /\ actor'[w].pc \in PreSend => actor[w].pc \in PreSend
           /\ actor'[w].pc \in Looking => actor'[w] = actor[w]
           /\ actor'[w].pc \in Judging => actor'[w] = actor[w]
           /\ actor'[w].pc \in Purge => actor[w].pc \in Purge
           /\ actor'[w].pc \in Purge \ {"plan"} => actor[w].pc \in Purge \ {"plan"}
           /\ actor'[w].pc \in {"second", "authorize", "absent", "purged"} => actor'[w] = actor[w]
  BY OnwardFacts
<1>3. \A w \in Actors : actor'[w].a = actor[w].a /\ actor'[w].obs = actor[w].obs
  BY DEF Onward
<1>4. EpochsOK'
  BY <1>1, <1>2, <1>3 DEF EpochsOK
<1>5. Numbered'
  BY <1>1 DEF Numbered
<1>6. \A w \in Actors : Its(w)' = Its(w)
  BY <1>3 DEF Its
<1>7. "expiry" \in Actors
  BY DEF Actors
<1>8. RowsOK'
  <2>1. \A a \in Attempts :
          /\ row'[a].status = "none" => row'[a] = NoRow
          /\ row'[a].status # "none" => WasSent(a)' /\ del'[att'[a].of].status \in Expiring
          /\ att'[a].of # Nothing /\ WasSent(a)' /\ del'[att'[a].of].status \in Expiring
             => row'[a].status # "none"
          /\ att'[a].of # Nothing /\ del'[att'[a].of].status \in Expiring => ~Open(a)'
    BY <1>1 DEF RowsOK, WasSent, Open
  <2>2. actor'["expiry"].pc \in Purge => row'[actor'["expiry"].a].status = "delete_pending"
    BY <1>1, <1>2, <1>3, <1>7 DEF RowsOK
  <2>3. actor'["expiry"].pc \in Judging => row'[actor'["expiry"].a].status = "reconciling"
    BY <1>1, <1>2, <1>7 DEF RowsOK
  <2>4. \A w \in Actors : actor'[w].pc \in Purge \ {"plan"} => plan'[Its(w)'] # Nothing
    BY <1>1, <1>2, <1>6 DEF RowsOK
  <2>. QED
    BY <2>1, <2>2, <2>3, <2>4 DEF RowsOK
<1>9. \A a \in Attempts : Dead(a) => Dead(a)'
  BY <1>2, <1>3 DEF Dead
<1>10. \A a \in Attempts : (Unsettled(a)' <=> Unsettled(a)) /\ (WasSent(a)' <=> WasSent(a))
  BY DEF Unsettled, WasSent
<1>11. \A k \in Deliveries : Of(k)' = Of(k) /\ (Lineage(k)' <=> Lineage(k))
  BY DEF Of, Lineage
<1>. QED
  BY <1>2, <1>4, <1>5, <1>6, <1>8, <1>9, <1>10, <1>11

\* The sidecar loses something, or content is replaced where there was some.
LEMMA PathCalm ==
    ASSUME Inv, QuietInv, UNCHANGED <<del, att, row, plan, unrecorded>>,
           remote'.epoch = remote.epoch, remote'.inflight \subseteq remote.inflight,
           \A w \in Actors : Onward(w),
           remote'.linked \in {Nothing, remote.linked},
           Clean => Clean',
           ~unrecorded =>
               /\ Nodes'
               /\ \A n \in Attempts : remote'.nodes[n] # Nothing =>
                     \/ remote'.nodes[n] = remote.nodes[n]
                     \/ \E a \in Attempts : att[a].of = remote'.nodes[n] /\ WasSent(a)
    PROVE  QuietInv'
<1>1. /\ EpochsOK' /\ Numbered' /\ RowsOK'
      /\ \A a \in Attempts : Dead(a) => Dead(a)'
      /\ \A w \in Actors : Its(w)' = Its(w)
      /\ \A a \in Attempts : (Unsettled(a)' <=> Unsettled(a)) /\ (WasSent(a)' <=> WasSent(a))
      /\ \A k \in Deliveries : Of(k)' = Of(k)
  BY PathRows
<1>2. \A w \in Actors :
         actor'[w].pc \in {"second", "authorize", "absent", "purged"} => actor'[w] = actor[w]
  BY OnwardFacts
<1>3. ASSUME ~unrecorded
      PROVE  Arrivals' /\ Accounts'
  <2>1. Arrivals /\ Accounts /\ Types
    BY <1>3 DEF QuietInv, Inv
  <2>2. Arrivals'
    <3>1. \A a \in remote'.inflight : att'[a].epoch = remote'.epoch
      BY <2>1 DEF Arrivals
    <3>2. \A a, b \in Attempts : att'[a].of # Nothing /\ att'[a].of = att'[b].of /\ b < a
             => Dead(b)'
      BY <1>1, <2>1 DEF Arrivals
    <3>3. \A a \in Attempts : att'[a].of = 1
             /\ (remote'.linked # Nothing \/ plan'[1] # Nothing \/ del'[1].status = "applied")
             => Dead(a)'
      BY <1>1, <2>1 DEF Arrivals
    <3>4. remote'.linked # Nothing => att'[remote'.linked].of = 1
      BY <2>1 DEF Arrivals
    <3>5. \A w \in Actors : actor'[w].pc = "authorize" /\ del'[Its(w)'].status = "queued"
             /\ IsCurrent(actor[w].a)' => Absent'
      BY <1>1, <1>2, <2>1 DEF Arrivals, IsCurrent, Of, Absent
    <3>6. \A n \in Attempts : remote'.nodes[n] # Nothing =>
             \E a \in Attempts : att'[a].of = remote'.nodes[n] /\ WasSent(a)'
      BY <1>1, <1>3, <2>1 DEF Arrivals
    <3>7. \A w \in Actors : actor'[w].a = actor[w].a
      BY DEF Onward
    <3>. QED
      BY <3>1, <3>2, <3>3, <3>4, <3>5, <3>6, <3>7 DEF Arrivals, IsCurrent
  <2>3. Accounts'
    <3>1. \A w \in Actors : actor'[w].pc = "purged" => Clean'
      BY <1>2, <2>1 DEF Accounts
    <3>2. \A a \in Attempts : row'[a].status \in {"absence_verified", "verified"} => Dead(a)'
      BY <1>1, <2>1 DEF Accounts
    <3>3. \A k \in Deliveries : del'[k].status \in Expiring /\ plan'[k] # Nothing =>
             Clean' \/ \E a \in Of(k)' : row'[a].status = "delete_pending"
      BY <1>1, <2>1 DEF Accounts
    <3>4. actor'["expiry"].pc = "absent" =>
             Clean' \/ \E b \in Of(Its("expiry"))' : b # actor'["expiry"].a /\ Unsettled(b)'
      <4>1. "expiry" \in Actors
        BY DEF Actors
      <4>2. SUFFICES ASSUME actor'["expiry"].pc = "absent", ~Clean'
                     PROVE  \E b \in Of(Its("expiry"))' : b # actor'["expiry"].a /\ Unsettled(b)'
        OBVIOUS
      <4>3. actor'["expiry"] = actor["expiry"]
        BY <1>2, <4>1, <4>2
      <4>4. PICK b \in Of(Its("expiry")) : b # actor["expiry"].a /\ Unsettled(b)
        BY <2>1, <4>2, <4>3 DEF Accounts
      <4>5. b \in Of(Its("expiry"))' /\ b \in Attempts
        BY <4>3 DEF Of, Its
      <4>. QED
        BY <1>1, <4>3, <4>4, <4>5
    <3>5. \A k \in Deliveries : del'[k].status = "expiry_reconciling" =>
             Clean' \/ \E b \in Of(k)' : Unsettled(b)'
      BY <1>1, <2>1 DEF Accounts, Of
    <3>6. \A k \in Deliveries : del'[k].status = "expired" =>
             \/ \A a \in Of(k)' : ~WasSent(a)'
             \/ Clean' /\ \A a \in Of(k)' : Dead(a)'
      BY <1>1, <2>1 DEF Accounts, Of
    <3>7. \A k \in Deliveries : del'[k].status = "deleted" => Clean'
      BY <2>1 DEF Accounts
    <3>. QED
      BY <3>1, <3>2, <3>3, <3>4, <3>5, <3>6, <3>7 DEF Accounts
  <2>. QED
    BY <2>2, <2>3
<1>. QED
  BY <1>1, <1>3 DEF QuietInv

LEMMA GotoOnward ==
    ASSUME Types, NEW w \in Actors, actor[w].pc \in {"unlink", "erase"},
           NEW pc \in {"erase", "verify"}, Goto(w, pc)
    PROVE  \A u \in Actors : Onward(u)
<1>1. pc \in PCs
  BY DEF PCs
<1>2. /\ actor'[w].pc = pc /\ actor'[w].a = actor[w].a /\ actor'[w].obs = actor[w].obs
      /\ \A u \in Actors : u # w => actor'[u] = actor[u]
  BY <1>1, GotoMoves
<1>. QED
  BY <1>2 DEF Onward

LEMMA UnlinkQuiet ==
    ASSUME Inv, QuietInv, NEW w \in Actors, Unlink(w)
    PROVE  QuietInv'
<1>1. /\ actor[w].pc = "unlink" /\ remote' = [remote EXCEPT !.linked = Nothing]
      /\ Goto(w, "erase") /\ UNCHANGED <<del, msg, att, row, plan, unrecorded, faults>>
  BY DEF Unlink, At
<1>2. Types /\ RowsOK /\ remote \in Sidecar
  BY TypeFacts DEF Inv, QuietInv
<1>3. /\ remote'.epoch = remote.epoch /\ remote'.inflight = remote.inflight
      /\ remote'.linked = Nothing /\ remote'.nodes = remote.nodes
  BY <1>1, <1>2 DEF Sidecar
<1>4. \A u \in Actors : Onward(u)
  BY <1>1, <1>2, GotoOnward
<1>5. plan[Its(w)] # Nothing /\ Its(w) \in Deliveries /\ Lineage(Its(w))
  BY <1>1, <1>2, PurgeFacts DEF RowsOK, Purge
<1>6. ASSUME ~unrecorded
      PROVE  Nodes'
  <2>1. ASSUME NEW k \in Deliveries, Lineage(k)'
        PROVE  /\ \A n \in Attempts : remote'.nodes[n] # Nothing => n = TheNode(k)'
               /\ plan'[k] # Nothing => remote'.linked \in {Nothing, plan'[k]}
    <3>1. Lineage(k)
      BY <1>1, <2>1 DEF Lineage
    <3>2. k = Its(w)
      BY <1>5, <3>1, LineageUnique
    <3>3. TheNode(k)' = TheNode(k)
      BY <1>1, <1>5, <3>2 DEF TheNode
    <3>. QED
      BY <1>3, <1>6, <3>1, <3>3 DEF QuietInv, Nodes
  <2>. QED
    BY <2>1 DEF Nodes
<1>7. Clean => Clean'
  BY <1>3 DEF Clean, Absent
<1>. QED
  BY <1>1, <1>3, <1>4, <1>6, <1>7, PathCalm

LEMMA EraseQuiet ==
    ASSUME Inv, QuietInv, NEW w \in Actors, Erase(w)
    PROVE  QuietInv'
<1>1. /\ actor[w].pc = "erase" /\ remote' = [remote EXCEPT !.nodes[plan[Its(w)]] = Nothing]
      /\ Goto(w, "verify") /\ UNCHANGED <<del, msg, att, row, plan, unrecorded, faults>>
  BY DEF Erase, At
<1>2. Types
  BY DEF Inv
<1>3. /\ remote'.epoch = remote.epoch /\ remote'.inflight = remote.inflight
      /\ remote'.linked = remote.linked
      /\ \A n \in Attempts : remote'.nodes[n] # Nothing => remote'.nodes[n] = remote.nodes[n]
  BY <1>1, <1>2, EraseFacts
<1>4. \A u \in Actors : Onward(u)
  BY <1>1, <1>2, GotoOnward
<1>5. ASSUME ~unrecorded
      PROVE  Nodes'
  <2>1. ASSUME NEW k \in Deliveries, Lineage(k)'
        PROVE  /\ \A n \in Attempts : remote'.nodes[n] # Nothing => n = TheNode(k)'
               /\ plan'[k] # Nothing => remote'.linked \in {Nothing, plan'[k]}
    <3>1. Lineage(k)
      BY <1>1, <2>1 DEF Lineage
    <3>2. TheNode(k)' = TheNode(k)
      BY <1>1, <1>3 DEF TheNode
    <3>. QED
      BY <1>1, <1>3, <1>5, <3>1, <3>2 DEF QuietInv, Nodes
  <2>. QED
    BY <2>1 DEF Nodes
<1>6. Clean => Clean'
  <2>1. \A n \in Attempts : remote.nodes[n] = Nothing => remote'.nodes[n] = Nothing
    BY <1>3
  <2>. QED
    BY <1>3, <2>1 DEF Clean, Absent
<1>. QED
  BY <1>1, <1>3, <1>4, <1>5, <1>6, PathCalm

\* The answer of the sidecar.
LEMMA AnsweredOnward ==
    ASSUME Inv, NEW a \in Attempts, NEW pc \in {"readback", "unknown", "reject"},
           Answered(a, pc), del' = del, att' = att
    PROVE  \A w \in Actors : Onward(w)
<1>1. pc \in Harmless \ PreSend
  BY DEF Harmless, PreSend
<1>. QED
  BY <1>1, AnsweredFacts DEF Onward

\* An admission that is under way is the only thing that may still arrive: nothing
\* is planned, its delivery is the last, and a reconciliation of it is not settled.
LEMMA AdmissionUnderWay ==
    ASSUME Inv, QuietInv, ~unrecorded, NEW a \in remote.inflight, att[a].of = 1
    PROVE  /\ a \in Attempts /\ 1 \in Deliveries /\ ~Dead(a) /\ WasSent(a)
           /\ att[a].epoch = remote.epoch
           /\ plan[1] = Nothing /\ del[1].status # "applied" /\ Lineage(1) /\ a \in Of(1)
           /\ \A c \in Of(1) : c # a => c < a /\ Dead(c)
           /\ del[1].status \in Expiring => Unsettled(a)
<1>1. /\ Types /\ AttemptsOK /\ SentOnce /\ Chain /\ Arrivals /\ Accounts /\ RowsOK
  BY DEF Inv, QuietInv
<1>2. a \in Attempts /\ 1 \in Deliveries /\ 1 # Nothing /\ att[a].state \notin NotSent
  BY <1>1, TypeFacts, ConstantFacts DEF SentOnce, Nothing
<1>3. ~Dead(a)
  BY DEF Dead
<1>4. plan[1] = Nothing /\ del[1].status # "applied"
  BY <1>1, <1>2, <1>3 DEF Arrivals
<1>5. att[a].epoch = remote.epoch
  BY <1>1 DEF Arrivals
<1>6. WasSent(a)
  BY <1>1, <1>5, EpochPositive DEF WasSent, Nothing
<1>7. Lineage(1)
  <2>1. del[1].status # "none"
    BY <1>1, <1>2 DEF AttemptsOK, NotSent
  <2>. QED
    BY <1>2, <1>4, <2>1, WaitingIsLast
<1>8. ASSUME NEW c \in Of(1), c # a
      PROVE  c < a /\ Dead(c)
  <2>1. c \in Attempts /\ att[c].of = 1
    BY DEF Of
  <2>2. ~(a < c)
    BY <1>1, <1>2, <1>3, <2>1 DEF Arrivals
  <2>3. c < a
    BY <1>2, <1>8, <2>1, <2>2, ConstantFacts
  <2>. QED
    BY <1>1, <1>2, <2>1, <2>3 DEF Arrivals
<1>9. ASSUME del[1].status \in Expiring
      PROVE  Unsettled(a)
  <2>1. row[a].status # "none"
    BY <1>1, <1>2, <1>6, <1>9 DEF RowsOK
  <2>2. row[a].status \notin {"absence_verified", "verified"}
    BY <1>1, <1>2, <1>3 DEF Accounts
  <2>3. row[a].status \in RowStatuses
    BY <1>1, <1>2, TypeFacts
  <2>. QED
    BY <2>1, <2>2, <2>3 DEF Unsettled, RowStatuses
<1>. QED
  BY <1>2, <1>3, <1>4, <1>5, <1>6, <1>7, <1>8, <1>9 DEF Of

\* The create lands on an empty path.
LEMMA CreateQuiet ==
    ASSUME Inv, QuietInv, NEW a \in remote.inflight, att[a].of = 1, Absent,
           UNCHANGED <<del, att, row, plan, unrecorded>>,
           \A w \in Actors : Onward(w),
           remote'.epoch = remote.epoch, remote'.inflight = remote.inflight \ {a},
           remote'.linked = a, remote'.nodes[a] = 1,
           \A n \in Attempts : n # a => remote'.nodes[n] = remote.nodes[n]
    PROVE  QuietInv'
<1>1. /\ EpochsOK' /\ Numbered' /\ RowsOK'
      /\ \A c \in Attempts : Dead(c) => Dead(c)'
      /\ \A w \in Actors : actor'[w].pc \in PreSend => actor[w].pc \in PreSend
      /\ \A w \in Actors : Its(w)' = Its(w)
      /\ \A c \in Attempts : (Unsettled(c)' <=> Unsettled(c)) /\ (WasSent(c)' <=> WasSent(c))
      /\ \A k \in Deliveries : Of(k)' = Of(k) /\ (Lineage(k)' <=> Lineage(k))
  BY PathRows
<1>2. \A w \in Actors :
         actor'[w].pc \in {"second", "authorize", "absent", "purged"} => actor'[w] = actor[w]
  BY OnwardFacts
<1>3. ASSUME ~unrecorded
      PROVE  Arrivals' /\ Nodes' /\ Accounts'
  <2>1. /\ Types /\ Chain /\ SentOnce /\ EpochsOK /\ RowsOK /\ Arrivals /\ Nodes /\ Accounts
    BY <1>3 DEF QuietInv, Inv
  <2>2. /\ a \in Attempts /\ 1 \in Deliveries /\ ~Dead(a) /\ WasSent(a)
        /\ att[a].epoch = remote.epoch
        /\ plan[1] = Nothing /\ del[1].status # "applied" /\ Lineage(1) /\ a \in Of(1)
        /\ \A c \in Of(1) : c # a => c < a /\ Dead(c)
        /\ del[1].status \in Expiring => Unsettled(a)
    BY <1>3, AdmissionUnderWay
  <2>3. Dead(a)'
    <3>1. att'[a].state \notin NotSent /\ a \notin remote'.inflight
      BY <2>1 DEF SentOnce
    <3>2. \A w \in Actors : actor'[w].pc \in PreSend => actor'[w].a # a
      <4>1. \A w \in Actors : actor[w].pc \in PreSend => actor[w].a # a
        BY <2>1 DEF SentOnce
      <4>. QED
        BY <1>1, <4>1 DEF Onward
    <3>. QED
      BY <3>1, <3>2 DEF Dead
  <2>4. \A c \in Attempts : att[c].of = 1 => Dead(c)'
    BY <1>1, <2>2, <2>3 DEF Of
  <2>5. \A k \in Deliveries : Lineage(k) => k = 1
    BY <2>2, LineageUnique
  <2>6. ASSUME NEW k \in Deliveries, del[k].status \notin {"none", "applied"}
        PROVE  k = 1
    BY <2>5, <2>6, WaitingIsLast
  <2>7. \A w \in Actors :
           actor[w].pc \in {"second", "authorize", "absent"} => actor[w].a # a
    <3>1. att[a].epoch \in Nat /\ remote.epoch \in Nat
      BY <2>1, <2>2, EpochPositive
    <3>2. \A w \in Actors : actor[w].pc \in {"second", "authorize", "absent"} =>
             att[actor[w].a].epoch < remote.epoch
      BY <2>1 DEF EpochsOK
    <3>. QED
      BY <2>2, <3>1, <3>2
  <2>8. Arrivals'
    <3>1. \A c \in remote'.inflight : att'[c].epoch = remote'.epoch
      BY <2>1 DEF Arrivals
    <3>2. \A c, b \in Attempts : att'[c].of # Nothing /\ att'[c].of = att'[b].of /\ b < c
             => Dead(b)'
      BY <1>1, <2>1 DEF Arrivals
    <3>3. \A c \in Attempts : att'[c].of = 1 => Dead(c)'
      BY <2>4
    <3>4. att'[remote'.linked].of = 1
      OBVIOUS
    <3>5. ASSUME NEW w \in Actors, actor'[w].pc = "authorize", del'[Its(w)'].status = "queued",
                 IsCurrent(actor[w].a)'
          PROVE  FALSE
      <4>1. actor'[w] = actor[w] /\ Its(w)' = Its(w)
        BY <1>1, <1>2, <3>5
      <4>2. actor[w].a \in Attempts /\ Its(w) \in Deliveries /\ actor[w].pc # "idle"
        BY <3>5, <4>1, WorkerFacts
      <4>3. Its(w) = 1
        BY <2>6, <3>5, <4>1, <4>2
      <4>4. actor[w].a \in Of(1)
        BY <4>2, <4>3 DEF Of, Its
      <4>5. actor[w].a < a
        BY <2>2, <2>7, <3>5, <4>1, <4>4
      <4>6. a <= actor[w].a
        BY <2>2, <3>5, <4>1, <4>3 DEF IsCurrent, Of, Its
      <4>. QED
        BY <2>2, <4>2, <4>5, <4>6, ConstantFacts
    <3>6. \A n \in Attempts : remote'.nodes[n] # Nothing =>
             \E c \in Attempts : att'[c].of = remote'.nodes[n] /\ WasSent(c)'
      BY <1>1, <2>1, <2>2 DEF Arrivals
    <3>7. \A w \in Actors : actor'[w].a = actor[w].a
      BY DEF Onward
    <3>. QED
      BY <3>1, <3>2, <3>3, <3>4, <3>5, <3>6, <3>7 DEF Arrivals, IsCurrent
  <2>9. Nodes'
    <3>1. TheNode(1) = Nothing /\ TheNode(1)' = a
      BY <2>2 DEF TheNode, Absent
    <3>2. \A n \in Attempts : remote.nodes[n] = Nothing
      BY <2>1, <2>2, <3>1, ConstantFacts DEF Nodes
    <3>3. \A n \in Attempts : remote'.nodes[n] # Nothing => n = a
      BY <3>2
    <3>4. \A k \in Deliveries : Lineage(k)' => k = 1
      BY <1>1, <2>5
    <3>. QED
      BY <2>2, <3>1, <3>3, <3>4 DEF Nodes, TheNode
  <2>10. Accounts'
    <3>1. ASSUME NEW w \in Actors, actor'[w].pc = "purged"
          PROVE  FALSE
      <4>1. actor[w].pc = "purged"
        BY <1>2, <3>1
      <4>2. Its(w) \in Deliveries /\ Lineage(Its(w)) /\ plan[Its(w)] # Nothing
        BY <2>1, <4>1, PurgeFacts DEF RowsOK, Purge
      <4>. QED
        BY <2>2, <2>5, <4>2
    <3>2. \A c \in Attempts : row'[c].status \in {"absence_verified", "verified"} => Dead(c)'
      BY <1>1, <2>1 DEF Accounts
    <3>3. ASSUME NEW k \in Deliveries, del'[k].status \in Expiring
          PROVE  k = 1
      BY <2>6, <3>3 DEF Expiring
    <3>4. \A k \in Deliveries : ~(del'[k].status \in Expiring /\ plan'[k] # Nothing)
      BY <2>2, <3>3
    <3>5. ASSUME actor'["expiry"].pc = "absent"
          PROVE  \E b \in Of(Its("expiry"))' : b # actor'["expiry"].a /\ Unsettled(b)'
      <4>1. "expiry" \in Actors
        BY DEF Actors
      <4>2. actor'["expiry"] = actor["expiry"] /\ Its("expiry")' = Its("expiry")
        BY <1>1, <1>2, <3>5, <4>1
      <4>3. Its("expiry") \in Deliveries /\ del[Its("expiry")].status \in Expiring
        BY <3>5, <4>1, <4>2, WorkerFacts DEF ActorOK
      <4>4. Its("expiry") = 1 /\ del[1].status \in Expiring
        BY <3>3, <4>3
      <4>5. a \in Of(Its("expiry"))'
        BY <2>2, <4>2, <4>4 DEF Of
      <4>. QED
        BY <1>1, <2>2, <2>7, <3>5, <4>1, <4>2, <4>4, <4>5
    <3>6. ASSUME NEW k \in Deliveries, del'[k].status = "expiry_reconciling"
          PROVE  \E b \in Of(k)' : Unsettled(b)'
      <4>1. k = 1 /\ del[1].status \in Expiring
        BY <3>3, <3>6 DEF Expiring
      <4>. QED
        BY <1>1, <2>2, <4>1
    <3>7. \A k \in Deliveries : del'[k].status # "expired"
      <4> SUFFICES ASSUME NEW k \in Deliveries, del[k].status = "expired"
                   PROVE  FALSE
        OBVIOUS
      <4>1. k = 1
        BY <3>3 DEF Expiring
      <4>. QED
        BY <2>1, <2>2, <4>1 DEF Accounts
    <3>8. \A k \in Deliveries : del'[k].status # "deleted"
      <4> SUFFICES ASSUME NEW k \in Deliveries, del[k].status = "deleted"
                   PROVE  FALSE
        OBVIOUS
      <4>1. k = 1
        BY <2>6
      <4>. QED
        BY <2>1, <2>2, <4>1 DEF Chain, Deleting
    <3>. QED
      BY <3>1, <3>2, <3>4, <3>5, <3>6, <3>7, <3>8 DEF Accounts
  <2>. QED
    BY <2>8, <2>9, <2>10
<1>. QED
  BY <1>1, <1>3 DEF QuietInv

LEMMA LandQuiet ==
    ASSUME Inv, QuietInv, NEW a \in Attempts, Land(a)
    PROVE  QuietInv'
<1> DEFINE k == att[a].of
           rest == remote.inflight \ {a}
<1>1. /\ a \in remote.inflight
      /\ UNCHANGED <<del, msg, att, row, plan, unrecorded, faults>>
  BY DEF Land
<1>2. /\ Types /\ Chain /\ AttemptsOK /\ SentOnce /\ remote \in Sidecar
      /\ remote.linked \in Attempts \union {Nothing}
      /\ remote.nodes \in [Attempts -> Deliveries \union {Nothing}]
  BY TypeFacts DEF Inv
<1>3. k \in Deliveries
  BY <1>1, <1>2, TypeFacts DEF SentOnce, AttemptsOK, AttShape, NotSent
<1>4. \A j \in Deliveries : Lineage(j)' <=> Lineage(j)
  BY <1>1 DEF Lineage
<1>5. CASE /\ del[k].kind = "admit" /\ Absent
           /\ remote' = [remote EXCEPT !.inflight = rest, !.linked = a, !.nodes[a] = Content(k)]
           /\ Answered(a, "readback")
  <2> DEFINE m == [remote.nodes EXCEPT ![a] = Content(k)]
             f == [remote EXCEPT !.inflight = rest]
             g == [f EXCEPT !.linked = a]
  <2>1. Content(k) = 1 /\ k = 1
    BY <1>2, <1>3, <1>5 DEF Content, Chain
  <2>2. /\ m \in [Attempts -> Deliveries \union {Nothing}] /\ m[a] = 1
        /\ \A n \in Attempts : n # a => m[n] = remote.nodes[n]
    BY <1>2, <1>3, <2>1
  <2>3. f \in Sidecar /\ f.inflight = rest /\ f.nodes = remote.nodes /\ f.epoch = remote.epoch
    BY <1>2 DEF Sidecar
  <2> HIDE DEF f
  <2>4. /\ g \in Sidecar /\ g.inflight = rest /\ g.nodes = remote.nodes /\ g.linked = a
        /\ g.epoch = remote.epoch
    BY <2>3 DEF Sidecar
  <2>5. remote' = [g EXCEPT !.nodes[a] = Content(k)]
    BY <1>5 DEF f
  <2> HIDE DEF g
  <2>6. remote' = [g EXCEPT !.nodes = m]
    BY <2>4, <2>5
  <2> HIDE DEF m
  <2>7. /\ remote'.inflight = rest /\ remote'.linked = a /\ remote'.nodes = m
        /\ remote'.epoch = remote.epoch
    BY <2>2, <2>4, <2>6 DEF Sidecar
  <2>8. \A w \in Actors : Onward(w)
    BY <1>1, <1>5, AnsweredOnward
  <2>. QED
    BY <1>1, <1>5, <2>1, <2>2, <2>7, <2>8, CreateQuiet
<1>6. CASE /\ del[k].kind = "correction" /\ ~Absent
           /\ remote' = [remote EXCEPT !.inflight = rest, !.nodes[remote.linked] = Content(k)]
           /\ Answered(a, "readback")
  <2> DEFINE n == remote.linked
             m == [remote.nodes EXCEPT ![n] = Content(k)]
             f == [remote EXCEPT !.inflight = rest]
  <2>1. Content(k) = k /\ n \in Attempts /\ n # Nothing
    BY <1>2, <1>6 DEF Content, Absent
  <2>2. /\ m \in [Attempts -> Deliveries \union {Nothing}] /\ m[n] = k
        /\ \A x \in Attempts : x # n => m[x] = remote.nodes[x]
    BY <1>2, <1>3, <2>1
  <2>3. /\ f \in Sidecar /\ f.inflight = rest /\ f.nodes = remote.nodes /\ f.linked = n
        /\ f.epoch = remote.epoch
    BY <1>2 DEF Sidecar
  <2>4. remote' = [f EXCEPT !.nodes[n] = Content(k)]
    BY <1>6
  <2> HIDE DEF f
  <2>5. remote' = [f EXCEPT !.nodes = m]
    BY <2>3, <2>4
  <2> HIDE DEF m
  <2>6. /\ remote'.inflight = rest /\ remote'.linked = n
        /\ remote'.nodes = m /\ remote'.epoch = remote.epoch
    BY <2>2, <2>3, <2>5 DEF Sidecar
  <2>7. \A w \in Actors : Onward(w)
    BY <1>1, <1>6, AnsweredOnward
  <2>8. Lineage(k)
    BY <1>1, <1>6, CorrectionUnderWay
  <2>9. ASSUME ~unrecorded
        PROVE  /\ Nodes'
               /\ WasSent(a)
    <3>1. Nodes /\ Arrivals
      BY <2>9 DEF QuietInv
    <3>2. WasSent(a)
      <4>1. att[a].epoch = remote.epoch
        BY <1>1, <3>1 DEF Arrivals
      <4>. QED
        BY <1>2, <4>1, EpochPositive DEF WasSent, Nothing
    <3>3. ASSUME NEW j \in Deliveries, Lineage(j)'
          PROVE  /\ \A x \in Attempts : remote'.nodes[x] # Nothing => x = TheNode(j)'
                 /\ plan'[j] # Nothing => remote'.linked \in {Nothing, plan'[j]}
      <4>1. Lineage(j)
        BY <1>4, <3>3
      <4>2. TheNode(j)' = TheNode(j)
        BY <1>1, <2>6 DEF TheNode
      <4>3. plan[j] # Nothing => remote.linked \in {Nothing, plan[j]}
        BY <3>1, <4>1 DEF Nodes
      <4>4. n = TheNode(j)
        BY <2>1, <4>3 DEF TheNode
      <4>5. ASSUME NEW x \in Attempts, remote'.nodes[x] # Nothing
            PROVE  x = TheNode(j)'
        <5>1. CASE x = n
          BY <4>2, <4>4, <5>1
        <5>2. CASE x # n
          <6>1. remote.nodes[x] # Nothing
            BY <2>2, <2>6, <4>5, <5>2
          <6>. QED
            BY <3>1, <4>1, <4>2, <6>1 DEF Nodes
        <5>. QED
          BY <5>1, <5>2
      <4>. QED
        BY <1>1, <2>6, <4>3, <4>5
    <3>4. Nodes'
      BY <3>3 DEF Nodes
    <3>. QED
      BY <3>2, <3>4
  <2>10. ASSUME ~unrecorded, NEW x \in Attempts, remote'.nodes[x] # Nothing
         PROVE  \/ remote'.nodes[x] = remote.nodes[x]
                \/ \E b \in Attempts : att[b].of = remote'.nodes[x] /\ WasSent(b)
    <3>1. CASE x = n
      BY <2>2, <2>6, <2>9, <2>10, <3>1
    <3>2. CASE x # n
      BY <2>2, <2>6, <3>2
    <3>. QED
      BY <3>1, <3>2
  <2>11. ~Clean
    BY <1>6 DEF Clean
  <2>12. remote'.inflight \subseteq remote.inflight /\ remote'.linked \in {Nothing, remote.linked}
    BY <2>6
  <2>. QED
    BY <1>1, <2>6, <2>7, <2>9, <2>10, <2>11, <2>12, PathCalm
<1>7. CASE /\ remote' = [remote EXCEPT !.inflight = rest]
           /\ \E pc \in {"unknown", "reject"} : Answered(a, pc)
  <2>1. /\ remote'.inflight = rest /\ remote'.linked = remote.linked
        /\ remote'.nodes = remote.nodes /\ remote'.epoch = remote.epoch
    BY <1>2, <1>7 DEF Sidecar
  <2>2. \A w \in Actors : Onward(w)
    BY <1>1, <1>7, AnsweredOnward
  <2>3. ASSUME ~unrecorded
        PROVE  Nodes'
    <3>1. Nodes
      BY <2>3 DEF QuietInv
    <3>. QED
      BY <1>1, <1>4, <2>1, <3>1 DEF Nodes, TheNode
  <2>4. Clean => Clean'
    BY <2>1 DEF Clean, Absent
  <2>5. remote'.inflight \subseteq remote.inflight
    BY <2>1
  <2>. QED
    BY <1>1, <2>1, <2>2, <2>3, <2>4, <2>5, PathCalm
<1>. QED
  BY <1>5, <1>6, <1>7 DEF Land

\* A new delivery: nothing is known of it yet.
LEMMA AmendQuiet ==
    ASSUME Inv, QuietInv, NEW k \in Deliveries,
           InsertRecordCorrection(k) \/ DeleteRecord(k)
    PROVE  QuietInv'
<1>1. PICK kind \in {"correction", "delete"}, status \in {"queued", "delete_pending"} :
         Amend(k, kind, status)
  BY DEF InsertRecordCorrection, DeleteRecord
<1> DEFINE d == [kind |-> kind, status |-> status, late |-> FALSE]
<1>2. /\ k - 1 \in Deliveries /\ Lineage(k - 1) /\ del[k - 1].status = "applied"
      /\ del' = [del EXCEPT ![k] = d]
      /\ UNCHANGED <<att, row, plan, remote, actor, unrecorded, faults>>
  BY <1>1 DEF Amend
<1>3. /\ Types /\ Chain /\ AttemptsOK /\ EpochsOK /\ Numbered /\ RowsOK
  BY DEF Inv, QuietInv
<1>4. k \in Nat /\ k - 1 < k /\ k # 1 /\ ~(k <= k - 1)
  BY <1>2, ConstantFacts
<1>5. d.status = status
  OBVIOUS
<1> HIDE DEF d
<1>6. del'[k] = d /\ \A j \in Deliveries : j # k => del'[j] = del[j]
  BY <1>2, <1>3 DEF Types
<1>7. del[k].status = "none"
  BY <1>2, <1>4 DEF Lineage
<1>8. plan[k] = Nothing /\ plan[k - 1] = Nothing
  BY <1>2, <1>3, <1>7 DEF Chain, Expiring, Deleting
<1>9. ASSUME NEW a \in Attempts, att[a].state # "none"
      PROVE  att[a].of \in Deliveries /\ att[a].of # k /\ del'[att[a].of] = del[att[a].of]
  <2>1. att[a].of \in Deliveries
    BY <1>3, <1>9, TypeFacts DEF AttemptsOK, AttShape
  <2>2. att[a].of # k
    BY <1>3, <1>7, <1>9 DEF AttemptsOK
  <2>. QED
    BY <1>6, <2>1, <2>2
<1>10. \A a \in Attempts : (att[a].of # Nothing \/ WasSent(a)) => att[a].state # "none"
  BY <1>3 DEF AttemptsOK, AttShape, NoAttempt, WasSent
<1>11. ASSUME NEW w \in Actors, actor[w].pc # "idle"
       PROVE  Its(w)' = Its(w) /\ del'[Its(w)] = del[Its(w)] /\ Its(w) # k
  BY <1>2, <1>9, <1>11, WorkerFacts DEF Its
<1>12. EpochsOK' /\ Numbered'
  BY <1>2, <1>3 DEF EpochsOK, Numbered
<1>13. RowsOK'
  <2>1. ASSUME NEW a \in Attempts
        PROVE  /\ row'[a].status = "none" => row'[a] = NoRow
               /\ row'[a].status # "none" => WasSent(a)' /\ del'[att'[a].of].status \in Expiring
               /\ att'[a].of # Nothing /\ WasSent(a)' /\ del'[att'[a].of].status \in Expiring
                  => row'[a].status # "none"
               /\ att'[a].of # Nothing /\ del'[att'[a].of].status \in Expiring => ~Open(a)'
    <3>1. att'[a] = att[a] /\ row'[a] = row[a] /\ (WasSent(a)' <=> WasSent(a))
          /\ (Open(a)' <=> Open(a))
      BY <1>2 DEF WasSent, Open
    <3>2. /\ row[a].status = "none" => row[a] = NoRow
          /\ row[a].status # "none" => WasSent(a) /\ del[att[a].of].status \in Expiring
          /\ att[a].of # Nothing /\ WasSent(a) /\ del[att[a].of].status \in Expiring
             => row[a].status # "none"
          /\ att[a].of # Nothing /\ del[att[a].of].status \in Expiring => ~Open(a)
      BY <1>3 DEF RowsOK
    <3>. QED
      BY <1>9, <1>10, <3>1, <3>2
  <2>2. \A w \in Actors : actor[w].pc \in Purge \ {"plan"} => plan'[Its(w)'] # Nothing
    BY <1>2, <1>3, <1>11 DEF RowsOK, Purge
  <2>. QED
    BY <1>2, <1>3, <2>1, <2>2 DEF RowsOK
<1>14. ASSUME ~unrecorded
       PROVE  Arrivals' /\ Nodes' /\ Accounts'
  <2>1. Arrivals /\ Nodes /\ Accounts
    BY <1>14 DEF QuietInv
  <2>2. /\ \A a \in Attempts : (Dead(a)' <=> Dead(a)) /\ (WasSent(a)' <=> WasSent(a))
                               /\ (Unsettled(a)' <=> Unsettled(a))
        /\ \A j \in Deliveries : Of(j)' = Of(j)
        /\ (Clean' <=> Clean)
        /\ (Absent' <=> Absent)
    BY <1>2 DEF Dead, WasSent, Unsettled, Of, Clean, Absent
  <2>3. del'[1] = del[1] /\ 1 \in Deliveries
    BY <1>4, <1>6, ConstantFacts
  <2>4. Arrivals'
    <3>1. \A a \in remote'.inflight : att'[a].epoch = remote'.epoch
      BY <1>2, <2>1 DEF Arrivals
    <3>2. \A a, b \in Attempts : att'[a].of # Nothing /\ att'[a].of = att'[b].of /\ b < a
             => Dead(b)'
      BY <1>2, <2>1, <2>2 DEF Arrivals
    <3>3. \A a \in Attempts : att'[a].of = 1
             /\ (remote'.linked # Nothing \/ plan'[1] # Nothing \/ del'[1].status = "applied")
             => Dead(a)'
      BY <1>2, <2>1, <2>2, <2>3 DEF Arrivals
    <3>4. remote'.linked # Nothing => att'[remote'.linked].of = 1
      BY <1>2, <2>1 DEF Arrivals
    <3>5. ASSUME NEW w \in Actors, actor'[w].pc = "authorize", del'[Its(w)'].status = "queued",
                 IsCurrent(actor[w].a)'
          PROVE  Absent'
      <4>1. actor[w].pc = "authorize" /\ del[Its(w)].status = "queued"
        BY <1>2, <1>11, <3>5
      <4>2. IsCurrent(actor[w].a)
        BY <1>2, <3>5 DEF IsCurrent, Of
      <4>. QED
        BY <1>2, <2>1, <4>1, <4>2 DEF Arrivals, Absent
    <3>6. \A n \in Attempts : remote'.nodes[n] # Nothing =>
             \E a \in Attempts : att'[a].of = remote'.nodes[n] /\ WasSent(a)'
      BY <1>2, <2>1, <2>2 DEF Arrivals
    <3>7. \A w \in Actors : actor'[w].a = actor[w].a
      BY <1>2
    <3>. QED
      BY <3>1, <3>2, <3>3, <3>4, <3>5, <3>6, <3>7 DEF Arrivals, IsCurrent
  <2>5. Nodes'
    <3>1. ASSUME NEW j \in Deliveries, Lineage(j)'
          PROVE  j = k
      <4>1. k <= j
        BY <1>5, <1>6, <3>1 DEF Lineage
      <4>2. j # k => j <= k - 1
        BY <1>2, <1>6, <3>1 DEF Lineage
      <4>. QED
        BY <1>4, <4>1, <4>2, ConstantFacts
    <3>2. TheNode(k)' = remote.linked /\ TheNode(k - 1) = remote.linked
      BY <1>2, <1>8 DEF TheNode
    <3>3. \A n \in Attempts : remote.nodes[n] # Nothing => n = remote.linked
      BY <1>2, <2>1, <3>2 DEF Nodes
    <3>4. ASSUME NEW j \in Deliveries, Lineage(j)'
          PROVE  /\ \A n \in Attempts : remote'.nodes[n] # Nothing => n = TheNode(j)'
                 /\ plan'[j] # Nothing => remote'.linked \in {Nothing, plan'[j]}
      <4>1. j = k /\ TheNode(j)' = remote.linked
        BY <1>2, <1>8, <3>1, <3>4 DEF TheNode
      <4>. QED
        BY <1>2, <1>8, <3>3, <4>1
    <3>. QED
      BY <3>4 DEF Nodes
  <2>6. Accounts'
    <3>1. \A j \in Deliveries : del'[j].status \in Expiring \union {"deleted"} =>
             del'[j] = del[j]
      BY <1>5, <1>6 DEF Expiring
    <3>2. \A w \in Actors : actor'[w].pc = "purged" => Clean'
      BY <1>2, <2>1, <2>2 DEF Accounts
    <3>3. \A a \in Attempts : row'[a].status \in {"absence_verified", "verified"} => Dead(a)'
      BY <1>2, <2>1, <2>2 DEF Accounts
    <3>4. \A j \in Deliveries : del'[j].status \in Expiring /\ plan'[j] # Nothing =>
             Clean' \/ \E a \in Of(j)' : row'[a].status = "delete_pending"
      BY <1>2, <2>1, <2>2, <3>1 DEF Accounts
    <3>5. actor'["expiry"].pc = "absent" =>
             Clean' \/ \E b \in Of(Its("expiry"))' : b # actor'["expiry"].a /\ Unsettled(b)'
      BY <1>2, <2>1, <2>2 DEF Accounts, Of, Its, Unsettled
    <3>6. \A j \in Deliveries : del'[j].status = "expiry_reconciling" =>
             Clean' \/ \E b \in Of(j)' : Unsettled(b)'
      BY <2>1, <2>2, <3>1 DEF Accounts, Of, Expiring
    <3>7. \A j \in Deliveries : del'[j].status = "expired" =>
             \/ \A a \in Of(j)' : ~WasSent(a)'
             \/ Clean' /\ \A a \in Of(j)' : Dead(a)'
      BY <2>1, <2>2, <3>1 DEF Accounts, Of, Expiring
    <3>8. \A j \in Deliveries : del'[j].status = "deleted" => Clean'
      BY <2>1, <2>2, <3>1 DEF Accounts
    <3>. QED
      BY <3>2, <3>3, <3>4, <3>5, <3>6, <3>7, <3>8 DEF Accounts
  <2>. QED
    BY <2>4, <2>5, <2>6
<1>. QED
  BY <1>2, <1>12, <1>13, <1>14 DEF QuietInv

LEMMA InitQuiet ==
    ASSUME Init
    PROVE  QuietInv
<1>1. /\ \A a \in Attempts : /\ att[a].of = Nothing /\ att[a].state = "none" /\ att[a].epoch = 0
                             /\ row[a] = NoRow /\ row[a].status = "none"
                             /\ remote.nodes[a] = Nothing
      /\ \A w \in Actors : actor[w].pc = "idle" /\ actor[w].obs = 0
      /\ \A k \in Deliveries : plan[k] = Nothing /\ del[k].status \in {"none", "queued"}
      /\ remote.linked = Nothing /\ remote.inflight = {} /\ remote.epoch = 1
  BY DEF Init, NoAttempt, NoRow, NoDelivery, Idle, Nothing
<1>2. "expiry" \in Actors
  BY DEF Actors
<1>3. EpochsOK
  BY <1>1 DEF EpochsOK, Looking
<1>4. Numbered /\ RowsOK
  BY <1>1, <1>2 DEF Numbered, RowsOK, Purge, Judging
<1>5. Arrivals /\ Nodes
  BY <1>1 DEF Arrivals, Nodes, Nothing
<1>6. Accounts
  BY <1>1, <1>2 DEF Accounts, Expiring
<1>. QED
  BY <1>3, <1>4, <1>5, <1>6 DEF QuietInv

LEMMA WorkQuiet ==
    ASSUME Inv, QuietInv, NEW w \in Actors, Work(w)
    PROVE  QuietInv'
<1>1. CASE FinalizeApplied(w)
  BY <1>1, FinalizeQuiet DEF FinalizeApplied
<1>2. CASE FinalizeRejected(w)
  BY <1>2, FinalizeQuiet DEF FinalizeRejected
<1>3. CASE FinalizeDeleted(w)
  BY <1>3, FinalizeQuiet DEF FinalizeDeleted
<1>4. CASE Capabilities(w) \/ LookEpoch(w)
  BY <1>4, CapabilitiesQuiet
<1>. QED
  BY <1>1, <1>2, <1>3, <1>4, MarkSentQuiet, PreflightQuiet, SendQuiet, ReadbackQuiet,
     MarkUnknownQuiet, FirstReadQuiet, SecondReadQuiet, AuthorizeRetryQuiet, SavePlanQuiet,
     UnlinkQuiet, EraseQuiet, VerifyAbsentQuiet DEF Work

LEMMA QuietStep ==
    ASSUME Inv, QuietInv, [Next]_vars
    PROVE  QuietInv'
<1>1. CASE UNCHANGED vars
  BY <1>1, StutterQuiet
<1>2. CASE User
  BY <1>2, AmendQuiet, ReplayQuiet, DeadlineQuiet DEF User
<1>3. CASE Messages
  BY <1>3, MessagesQuiet DEF Messages
<1>4. CASE Claims
  BY <1>4, ClaimNewQuiet, ClaimOpenQuiet DEF Claims
<1>5. CASE Expiry
  <2>1. CASE ExpiryPurged \/ ExpiryAbsent \/ ExpiryConflict
    BY <2>1, FinalizeExpiryQuiet DEF ExpiryPurged, ExpiryAbsent, ExpiryConflict
  <2>. QED
    BY <1>5, <2>1, ClaimExpiryQuiet, ExpiryFoundQuiet DEF Expiry
<1>6. CASE Faults
  BY <1>6, CapabilitiesFailQuiet, CallFailsQuiet, RestartQuiet, CrashQuiet DEF Faults
<1>7. CASE \E w \in Actors : Work(w)
  BY <1>7, WorkQuiet
<1>8. CASE \E k \in Deliveries : ExpireDeliveries(k)
  BY <1>8, ExpireDeliveriesQuiet
<1>9. CASE \E a \in Attempts : Land(a) \/ LeaseRunsOut(a)
  BY <1>9, LandQuiet, LeaseRunsOutQuiet
<1>. QED
  BY <1>1, <1>2, <1>3, <1>4, <1>5, <1>6, <1>7, <1>8, <1>9 DEF Next

\* What is under way is a sent attempt of the admission or of a correction.
LEMMA UnderWay ==
    ASSUME Inv, QuietInv, ~unrecorded, NEW a \in remote.inflight
    PROVE  /\ a \in Attempts /\ att[a].of \in Deliveries /\ WasSent(a) /\ ~Dead(a)
           /\ del[att[a].of].kind \in {"admit", "correction"}
           /\ Content(att[a].of) = att[a].of
<1>1. /\ Types /\ Chain /\ AttemptsOK /\ SentOnce /\ Arrivals
  BY DEF Inv, QuietInv
<1>2. a \in Attempts /\ remote.epoch \in 1..MaxEpochs
  BY <1>1, TypeFacts
<1>3. att[a].state \notin NotSent /\ del[att[a].of].kind # "delete"
  BY <1>1 DEF SentOnce
<1>4. att[a].of \in Deliveries /\ del[att[a].of].status # "none"
  BY <1>1, <1>2, <1>3, TypeFacts DEF AttemptsOK, AttShape, NotSent
<1>5. del[att[a].of].kind \in {"admit", "correction"}
  BY <1>1, <1>3, <1>4, TypeFacts DEF Chain, Kinds
<1>6. WasSent(a)
  <2>1. att[a].epoch = remote.epoch
    BY <1>1 DEF Arrivals
  <2>2. remote.epoch # 0
    BY <1>2, ConstantFacts
  <2>. QED
    BY <2>1, <2>2 DEF WasSent, Nothing
<1>. QED
  BY <1>2, <1>3, <1>4, <1>5, <1>6 DEF Dead, Content

\* A delivery reported expired or deleted has left nothing at the sidecar, and
\* no call under way can bring it back, as long as every mutation ran in the
\* boot its attempt records.
THEOREM SettledIsQuietHolds == Spec => []SettledIsQuiet
<1>1. ASSUME Inv, QuietInv
      PROVE  SettledIsQuiet
  <2>. SUFFICES ASSUME ~unrecorded
                PROVE  /\ \A k \in Deliveries : del[k].status = "expired" => ~Stored(Content(k))
                       /\ \A k \in Deliveries : del[k].status = "deleted" =>
                            Clean /\ remote.inflight = {}
    BY DEF SettledIsQuiet, ExpiredIsGone, Clean
  <2>1. /\ Types /\ Chain /\ Arrivals /\ Accounts
    BY <1>1 DEF Inv, QuietInv
  <2>2. ASSUME NEW k \in Deliveries, del[k].status = "expired"
        PROVE  ~Stored(Content(k))
    <3>1. Content(k) = k /\ k # Nothing
      BY <1>1, <2>2, ExpiringFacts, ConstantFacts DEF Content, Expiring
    <3>2. \/ \A a \in Of(k) : ~WasSent(a)
          \/ Clean /\ \A a \in Of(k) : Dead(a)
      BY <2>1, <2>2 DEF Accounts
    <3>3. \A n \in Attempts : remote.nodes[n] # k
      BY <2>1, <3>1, <3>2 DEF Arrivals, Clean, Of
    <3>4. ASSUME NEW a \in remote.inflight, Content(att[a].of) = k
          PROVE  FALSE
      <4>1. a \in Of(k) /\ WasSent(a) /\ ~Dead(a)
        BY <1>1, <3>4, UnderWay DEF Of
      <4>. QED
        BY <3>2, <4>1
    <3>. QED
      BY <3>1, <3>3, <3>4 DEF Stored
  <2>3. ASSUME NEW k \in Deliveries, del[k].status = "deleted"
        PROVE  Clean /\ remote.inflight = {}
    <3>1. Clean
      BY <2>1, <2>3 DEF Accounts
    <3>2. del[k].kind = "delete" /\ k # 1 /\ Lineage(k)
      BY <1>1, <2>1, <2>3, WaitingIsLast DEF Chain, Deleting
    <3>3. ASSUME NEW a \in remote.inflight
          PROVE  FALSE
      <4>1. att[a].of \in Deliveries /\ del[att[a].of].kind \in {"admit", "correction"}
        BY <1>1, UnderWay
      <4>2. CASE del[att[a].of].kind = "admit"
        <5>1. att[a].of = 1
          BY <2>1, <4>1, <4>2 DEF Chain
        <5>2. Lineage(1) /\ 1 \in Deliveries
          BY <1>1, <5>1, AdmissionUnderWay
        <5>. QED
          BY <3>2, <5>2, LineageUnique
      <4>3. CASE del[att[a].of].kind = "correction"
        BY <1>1, <3>2, <4>1, <4>3, CorrectionUnderWay, LineageUnique
      <4>. QED
        BY <4>1, <4>2, <4>3
    <3>. QED
      BY <3>1, <3>3
  <2>. QED
    BY <2>2, <2>3
<1>. QED
  BY <1>1, InitInv, InvStep, InitQuiet, QuietStep, PTL DEF Spec

=============================================================================
