-------------------------- MODULE CompanionProofs ---------------------------
(* Proofs about Companion for every number of connections, operations and  *)
(* faults and every size of the receipt store.                             *)
EXTENDS Companion, TLAPS

\* The records of TypeOK.
Phases == {"none", "pairing", "attached", "granted", "deleted"}
Said == {"none", "queued", "dispatched"} \union Final
Connection == [phase : Phases, revoked : BOOLEAN, browser : {"fresh", "expired"},
               queue : Ops \union {NoOp}, rec : [Ops -> Said], stored : 0..Capacity]
Native == [pc : {"off", "posting", "executing", "ended"}, lead : Leads,
           op : Ops \union {NoOp}, receipt : Ops \union {NoOp}, receipts : SUBSET Ops]
Request == [conn : Conns, lead : Leads, receipt : Ops \union {NoOp},
            stage : {"sent", "checked"}]
Reply == [kind : {"none", "denied", "delivery"}, op : Ops \union {NoOp}]

QueueAgrees(c) == \A o \in Ops : c.rec[o] = "queued" <=> c.queue = o

\* What is said of an operation that has been handed out.
Handed == {"dispatched", "completed", "unknown"}

\* The operation has reached the native program, or the answer that carries it has left.
Reaches(k, o) == \/ o \in native[k].receipts
                 \/ native[k].op = o
                 \/ reply[k].op = o

\* What has reached the program was handed out, and no record goes back behind that;
\* only a forgotten connection does not know of it any more.
ReachedWasHanded ==
  \A k \in Conns, o \in Ops :
    Reaches(k, o) => conn[k].phase = "deleted" \/ conn[k].rec[o] \in Handed

\* Nobody but its run submits an operation of a run.
NothingBeforeRun ==
  \A o \in RunOps : run[o].pc \in {"idle", "found", "refused"} =>
    \A k \in Conns : conn[k].rec[o] = "none" /\ ~Reaches(k, o)

\* A connection is made by Create; a run looks for one that exists.
Places ==
  /\ \A k \in Conns : conn[k].phase = "none" => conn[k].rec = [o \in Ops |-> "none"]
  /\ \A k \in Conns : panel[k].op \in PanelOps[k] \union {NoOp}
  /\ \A o \in RunOps : run[o].pc = "found" => run[o].conn \in Conns

\* A program is ahead of the broker by the exchange it waits for and the failed ones
\* before it; an answer catches up with it.
LeadsBounded ==
  /\ \A k \in Conns : native[k].lead <= faults + 1
  /\ \A m \in requests : m.lead <= faults + 1
  /\ \A k \in Conns : native[k].pc # "posting" => native[k].lead = 0 /\ reply[k].kind = "none"
  /\ \A k \in Conns : reply[k].kind = "delivery" => native[k].lead = 0
  /\ \A k \in Conns : native[k].pc = "executing" => native[k].op \in Ops

Inv == TypeOK /\ ReachedWasHanded /\ NothingBeforeRun /\ Places /\ LeadsBounded

\* TypeOK in terms of the records above.
LEMMA TypeParts ==
  TypeOK <=> /\ conn \in [Conns -> Connection]
             /\ \A k \in Conns : QueueAgrees(conn[k])
             /\ panel \in [Conns -> [pc : {"open", "closed"}, op : Ops \union {NoOp}]]
             /\ native \in [Conns -> Native]
             /\ requests \subseteq Request
             /\ reply \in [Conns -> Reply]
             /\ run \in [RunOps -> [pc : {"idle", "found", "waiting", "refused", "answered"},
                                    conn : Conns \union {NoConn}]]
             /\ allowed \in BOOLEAN
             /\ faults \in 0..MaxFaults
BY DEF TypeOK, Connection, QueueAgrees, Native, Request, Reply, Phases, Said

-----------------------------------------------------------------------------
(* What the broker's operations do to a connection.                        *)

\* d comes after c: well formed, not back to nothing, and no operation handed out is
\* forgotten.
Later(c, d) == /\ d \in Connection /\ QueueAgrees(d)
               /\ c.phase = "deleted" => d.phase = "deleted"
               /\ d.phase = "none" => c.phase = "none"
               /\ \A o \in Ops : c.rec[o] \in Handed => d.rec[o] \in Handed

\* ... and an operation without a record gets none, unless it is o.
Adds(c, d, o) == \A p \in Ops \ {o} : c.rec[p] = "none" => d.rec[p] = "none"

\* Revoking answers for the queued operation and keeps what was handed out.
LEMMA RevokedLater ==
  ASSUME NEW c \in Connection, QueueAgrees(c)
  PROVE  Later(c, Revoked(c)) /\ Adds(c, Revoked(c), NoOp)
<1> DEFINE r == [o \in Ops |-> CASE c.rec[o] = "queued" -> "not_executed"
                                 [] c.rec[o] = "dispatched" -> "unknown"
                                 [] OTHER -> c.rec[o]]
           d == [c EXCEPT !.revoked = TRUE, !.queue = NoOp, !.rec = r]
<1>1. /\ r \in [Ops -> Said]
      /\ \A o \in Ops : /\ r[o] # "queued"
                        /\ c.rec[o] \in Handed => r[o] \in Handed
                        /\ c.rec[o] = "none" => r[o] = "none"
  BY DEF Connection, Said, Final, Handed
<1>2. Revoked(c) = d
  BY DEF Revoked
<1> HIDE DEF r
<1>3. d \in Connection /\ d.phase = c.phase /\ d.rec = r /\ d.queue = NoOp
  BY <1>1 DEF Connection
<1>4. QueueAgrees(d)
  BY <1>1, <1>3, CompanionAssumption DEF QueueAgrees, CompanionAssumption
<1> QED
  BY <1>1, <1>2, <1>3, <1>4 DEF Later, Adds

\* A look of the page at its connection revokes it or leaves it alone.
LEMMA SeenLater ==
  ASSUME NEW c \in Connection, QueueAgrees(c)
  PROVE  /\ Later(c, Looked(c)) /\ Adds(c, Looked(c), NoOp)
         /\ Later(c, Seen(c)) /\ Adds(c, Seen(c), NoOp)
         /\ Later(c, Revoked(Seen(c))) /\ Adds(c, Revoked(Seen(c)), NoOp)
<1>1. Later(c, Looked(c)) /\ Adds(c, Looked(c), NoOp)
  BY RevokedLater DEF Looked, Later, Adds
<1>2. Later(c, Seen(c)) /\ Adds(c, Seen(c), NoOp)
  <2> DEFINE l == Looked(c)
             f == [l EXCEPT !.browser = "fresh"]
  <2>1. Seen(c) = IF l.revoked THEN l ELSE f
    BY DEF Seen
  <2>2. l \in Connection /\ QueueAgrees(l)
    BY <1>1 DEF Later
  <2> HIDE DEF l
  <2>3. f \in Connection /\ f.phase = l.phase /\ f.rec = l.rec /\ f.queue = l.queue
    BY <2>2 DEF Connection
  <2>4. QueueAgrees(f)
    BY <2>2, <2>3 DEF QueueAgrees
  <2>5. Later(c, l) /\ Adds(c, l, NoOp)
    BY <1>1 DEF l
  <2> QED
    BY <2>1, <2>3, <2>4, <2>5 DEF Later, Adds
<1>3. Later(Seen(c), Revoked(Seen(c))) /\ Adds(Seen(c), Revoked(Seen(c)), NoOp)
  BY <1>2, RevokedLater DEF Later
<1> QED
  BY <1>1, <1>2, <1>3 DEF Later, Adds

\* A submission adds at most the operation it is about.
LEMMA SubmittedLater ==
  ASSUME NEW c \in Connection, QueueAgrees(c), NEW heard \in BOOLEAN, NEW o \in Ops
  PROVE  /\ Later(c, Submitted(c, heard, o)) /\ Adds(c, Submitted(c, heard, o), o)
         /\ ~Accepts(c, heard) => Submitted(c, heard, o) = c
         /\ Submitted(c, heard, o) # c => c.rec[o] = "none" /\ c.phase = "granted"
<1> DEFINE d == [c EXCEPT !.rec[o] = "queued", !.queue = o]
<1>1. CASE Submitted(c, heard, o) = c
  BY <1>1 DEF Later, Adds
<1>2. CASE c.rec[o] = "none" /\ c.queue = NoOp /\ Accepts(c, heard) /\ Submitted(c, heard, o) = d
  <2>1. d \in Connection /\ d.phase = c.phase /\ d.queue = o
        /\ d.rec = [c.rec EXCEPT ![o] = "queued"]
    BY DEF Connection, Said
  <2>2. \A p \in Ops : d.rec[p] = IF p = o THEN "queued" ELSE c.rec[p]
    BY <2>1 DEF Connection
  <2> HIDE DEF d
  <2>3. NoOp \notin Ops
    BY CompanionAssumption DEF CompanionAssumption
  <2>4. QueueAgrees(d)
    BY <1>2, <2>1, <2>2, <2>3 DEF QueueAgrees
  <2>5. \A p \in Ops : c.rec[p] \in Handed => d.rec[p] \in Handed
    BY <1>2, <2>2 DEF Handed
  <2> QED
    BY <1>2, <2>1, <2>2, <2>4, <2>5 DEF Later, Adds, Accepts
<1> QED
  BY <1>1, <1>2 DEF Submitted

\* Storing a receipt and handing out the queued operation keep the records in order, and
\* what is handed out has been recorded as dispatched.
LEMMA ExchangeLater ==
  ASSUME NEW c \in Connection, QueueAgrees(c), NEW o \in Ops \union {NoOp},
         ReceiptAccepted(c, o)
  PROVE  LET s == Stored(c, o)
             d == HandedOut(s)
         IN  /\ Later(c, d) /\ Adds(c, d, NoOp)
             /\ s.queue \in Ops \union {NoOp}
             /\ s.queue \in Ops => d.rec[s.queue] \in Handed /\ c.rec[s.queue] # "none"
<1> DEFINE s == Stored(c, o)
           d == HandedOut(s)
<1>1. /\ Later(c, s) /\ s.queue = c.queue
      /\ \A p \in Ops : c.rec[p] \notin Handed => s.rec[p] = c.rec[p]
  <2>1. CASE s = c
    BY <2>1 DEF Later
  <2>2. ASSUME NEW v \in {"completed", "unknown"}, NEW n \in 0..Capacity, o \in Ops,
               s = [c EXCEPT !.rec[o] = v, !.stored = n]
        PROVE  /\ Later(c, s) /\ s.queue = c.queue
               /\ \A p \in Ops : c.rec[p] \notin Handed => s.rec[p] = c.rec[p]
    <3> HIDE DEF s
    <3>1. /\ s \in Connection /\ s.phase = c.phase /\ s.queue = c.queue
          /\ s.rec = [c.rec EXCEPT ![o] = v]
      BY <2>2 DEF Connection, Said, Final
    <3>2. \A p \in Ops : s.rec[p] = IF p = o THEN v ELSE c.rec[p]
      BY <2>2, <3>1 DEF Connection
    <3>3. c.rec[o] \in {"dispatched", "completed"}
      BY <2>2, CompanionAssumption DEF ReceiptAccepted, CompanionAssumption
    <3>4. QueueAgrees(s)
      BY <2>2, <3>1, <3>2, <3>3 DEF QueueAgrees
    <3> QED
      BY <2>2, <3>1, <3>2, <3>3, <3>4 DEF Later, Handed
  <2>3. CASE o \in Ops /\ c.stored < Capacity /\ s = [c EXCEPT !.rec[o] = "completed", !.stored = @ + 1]
    <3>1. c.stored + 1 \in 0..Capacity
      BY <2>3, CompanionAssumption DEF Connection, CompanionAssumption
    <3> QED
      BY <2>2, <2>3, <3>1
  <2>4. CASE o \in Ops /\ s = [c EXCEPT !.rec[o] = "unknown"]
    <3>1. [c EXCEPT !.rec[o] = "unknown"] = [c EXCEPT !.rec[o] = "unknown", !.stored = c.stored]
      BY DEF Connection
    <3>2. c.stored \in 0..Capacity
      BY DEF Connection
    <3> QED
      BY <2>2, <2>4, <3>1, <3>2
  <2> QED
    BY <2>1, <2>3, <2>4 DEF Stored, s
<1>2. NoOp \notin Ops
  BY CompanionAssumption DEF CompanionAssumption
<1>3. s \in Connection /\ QueueAgrees(s) /\ s.queue \in Ops \union {NoOp}
  BY <1>1 DEF Later, Connection
<1> HIDE DEF s
<1>4. CASE s.queue = NoOp
  BY <1>1, <1>2, <1>4 DEF HandedOut, Adds, Handed, Later, s
<1>5. CASE s.queue \in Ops
  <2> DEFINE q == s.queue
             e == [s EXCEPT !.rec[q] = "dispatched", !.queue = NoOp]
  <2>1. d = e
    BY <1>2, <1>5 DEF HandedOut
  <2>2. /\ e \in Connection /\ e.phase = s.phase /\ e.queue = NoOp
        /\ e.rec = [s.rec EXCEPT ![q] = "dispatched"]
    BY <1>3, <1>5 DEF Connection, Said
  <2>3. \A p \in Ops : e.rec[p] = IF p = q THEN "dispatched" ELSE s.rec[p]
    BY <1>3, <1>5, <2>2 DEF Connection
  <2>4. s.rec[q] = "queued" /\ c.rec[q] = "queued"
    BY <1>1, <1>3, <1>5 DEF QueueAgrees
  <2> HIDE DEF e
  <2>5. QueueAgrees(e)
    BY <1>2, <1>3, <1>5, <2>2, <2>3 DEF QueueAgrees
  <2>6. Later(c, e) /\ Adds(c, e, NoOp)
    BY <1>1, <2>2, <2>3, <2>4, <2>5 DEF Later, Adds, Handed
  <2> QED
    BY <1>5, <2>1, <2>3, <2>4, <2>6 DEF Handed, s
<1> QED
  BY <1>3, <1>4, <1>5 DEF s

-----------------------------------------------------------------------------
(* The invariant.                                                          *)

\* An operation on one connection, after which nothing has reached its program but what
\* it has just handed out, keeps the records of all of them.
LEMMA RecordsKept ==
  ASSUME Inv, NEW k \in Conns, NEW d, conn' = [conn EXCEPT ![k] = d],
         d = conn[k] \/ (Known(k) /\ Later(conn[k], d)),
         NEW n \in (Ops \ RunOps) \union {NoOp}, d = conn[k] \/ Adds(conn[k], d, n),
         \A j \in Conns, o \in Ops : Reaches(j, o)' =>
            \/ Reaches(j, o)
            \/ j = k /\ d.rec[o] \in Handed /\ conn[k].rec[o] # "none",
         UNCHANGED run
  PROVE  /\ conn' \in [Conns -> Connection]
         /\ \A j \in Conns : QueueAgrees(conn'[j])
         /\ ReachedWasHanded' /\ NothingBeforeRun'
         /\ \A j \in Conns : conn'[j].phase = "none" => conn'[j].rec = [o \in Ops |-> "none"]
<1>1. conn \in [Conns -> Connection] /\ \A j \in Conns : QueueAgrees(conn[j])
  BY TypeParts DEF Inv
<1>2. \A j \in Conns : conn'[j] = IF j = k THEN d ELSE conn[j]
  BY <1>1
<1>3. /\ d \in Connection /\ QueueAgrees(d)
      /\ conn[k].phase = "deleted" => d.phase = "deleted"
      /\ d.phase = "none" => d = conn[k]
      /\ \A o \in Ops : conn[k].rec[o] \in Handed => d.rec[o] \in Handed
      /\ \A o \in RunOps : conn[k].rec[o] = "none" => d.rec[o] = "none"
  <2>1. RunOps \subseteq Ops /\ NoOp \notin Ops
    BY CompanionAssumption DEF Ops, CompanionAssumption
  <2>2. CASE d = conn[k]
    BY <1>1, <2>2
  <2>3. CASE Known(k) /\ Later(conn[k], d) /\ Adds(conn[k], d, n)
    BY <1>1, <2>1, <2>3 DEF Known, Later, Adds
  <2> QED
    BY <2>2, <2>3
<1>4. conn' \in [Conns -> Connection] /\ \A j \in Conns : QueueAgrees(conn'[j])
  BY <1>1, <1>2, <1>3
<1>5. ReachedWasHanded'
  <2> SUFFICES ASSUME NEW j \in Conns, NEW o \in Ops, Reaches(j, o)'
               PROVE  conn'[j].phase = "deleted" \/ conn'[j].rec[o] \in Handed
    BY DEF ReachedWasHanded
  <2> QED
    BY <1>2, <1>3 DEF Inv, ReachedWasHanded
<1>6. NothingBeforeRun'
  <2> SUFFICES ASSUME NEW o \in RunOps, run[o].pc \in {"idle", "found", "refused"},
                      NEW j \in Conns
               PROVE  conn'[j].rec[o] = "none" /\ ~Reaches(j, o)'
    BY DEF NothingBeforeRun
  <2>1. o \in Ops
    BY DEF Ops
  <2>2. conn[j].rec[o] = "none" /\ ~Reaches(j, o) /\ conn[k].rec[o] = "none"
    BY DEF Inv, NothingBeforeRun
  <2> QED
    BY <1>2, <1>3, <2>1, <2>2
<1>7. \A j \in Conns : conn'[j].phase = "none" => conn'[j].rec = [o \in Ops |-> "none"]
  BY <1>2, <1>3 DEF Inv, Places
<1> QED
  BY <1>4, <1>5, <1>6, <1>7

\* The same for a step that touches no connection.
LEMMA RecordsUntouched ==
  ASSUME Inv, UNCHANGED <<conn, run>>, \A j \in Conns, o \in Ops : Reaches(j, o)' => Reaches(j, o)
  PROVE  /\ conn' \in [Conns -> Connection]
         /\ \A j \in Conns : QueueAgrees(conn'[j])
         /\ ReachedWasHanded' /\ NothingBeforeRun'
         /\ \A j \in Conns : conn'[j].phase = "none" => conn'[j].rec = [o \in Ops |-> "none"]
<1>1. conn \in [Conns -> Connection] /\ \A j \in Conns : QueueAgrees(conn[j])
  BY TypeParts DEF Inv
<1>2. RunOps \subseteq Ops
  BY DEF Ops
<1> QED
  BY <1>1, <1>2 DEF Inv, ReachedWasHanded, NothingBeforeRun, Places

\* A step of the page or the broker that posts and answers nothing.
LEMMA BrokerStep ==
  ASSUME Inv, NEW k \in Conns, NEW d, conn' = [conn EXCEPT ![k] = d],
         d = conn[k] \/ (Known(k) /\ Later(conn[k], d)),
         NEW n \in (Ops \ RunOps) \union {NoOp}, d = conn[k] \/ Adds(conn[k], d, n),
         panel' \in [Conns -> [pc : {"open", "closed"}, op : Ops \union {NoOp}]],
         \A j \in Conns : panel'[j].op \in PanelOps[j] \union {NoOp},
         UNCHANGED <<native, requests, reply, run, allowed>>,
         faults' \in 0..MaxFaults, faults' >= faults
  PROVE  Inv'
<1>1. /\ conn' \in [Conns -> Connection]
      /\ \A j \in Conns : QueueAgrees(conn'[j])
      /\ ReachedWasHanded' /\ NothingBeforeRun'
      /\ \A j \in Conns : conn'[j].phase = "none" => conn'[j].rec = [o \in Ops |-> "none"]
  BY RecordsKept DEF Reaches
<1>2. /\ native' \in [Conns -> Native] /\ requests' \subseteq Request
      /\ reply' \in [Conns -> Reply] /\ allowed' \in BOOLEAN
      /\ run' \in [RunOps -> [pc : {"idle", "found", "waiting", "refused", "answered"},
                              conn : Conns \union {NoConn}]]
      /\ faults \in 0..MaxFaults
  BY TypeParts DEF Inv
<1>3. TypeOK'
  BY <1>1, <1>2 DEF TypeOK, Connection, QueueAgrees, Native, Request, Reply, Phases, Said
<1>4. Places'
  BY <1>1 DEF Inv, Places
<1>5. LeadsBounded'
  <2>1. \A l \in Leads : l <= faults + 1 => l <= faults' + 1
    BY <1>2, CompanionAssumption DEF Leads, CompanionAssumption
  <2>2. \A j \in Conns : native[j].lead \in Leads
    BY <1>2 DEF Native
  <2>3. \A m \in requests : m.lead \in Leads
    BY <1>2 DEF Request
  <2> QED
    BY <2>1, <2>2, <2>3 DEF Inv, LeadsBounded
<1> QED
  BY <1>1, <1>3, <1>4, <1>5 DEF Inv

\* The counter of faults stays in its range.
LEMMA FaultCounts ==
  ASSUME faults \in 0..MaxFaults, Fault \/ UNCHANGED faults
  PROVE  faults' \in 0..MaxFaults /\ faults' >= faults /\ (Fault => faults' = faults + 1)
BY CompanionAssumption DEF Fault, CompanionAssumption

\* The page's requests, its farewell and its silence.
LEMMA PanelInv ==
  ASSUME Inv, NEW k \in Conns,
         \/ PanelAsks(k) \/ Authorize(k) \/ PanelSubmits(k) \/ PanelRevokes(k)
         \/ PanelCloses(k) \/ BrowserSilent(k)
  PROVE  Inv'
<1> DEFINE Panels == [pc : {"open", "closed"}, op : Ops \union {NoOp}]
           c == conn[k]
<1>1. /\ conn \in [Conns -> Connection] /\ c \in Connection /\ QueueAgrees(c)
      /\ panel \in [Conns -> Panels] /\ faults \in 0..MaxFaults
  BY TypeParts DEF Inv
<1>2. \A j \in Conns : panel[j].op \in PanelOps[j] \union {NoOp}
  BY DEF Inv, Places
<1>3. \A o \in PanelOps[k] : o \in Ops \ RunOps
  BY CompanionAssumption DEF Ops, CompanionAssumption
<1>4. /\ Later(c, Revoked(c)) /\ Adds(c, Revoked(c), NoOp)
      /\ Later(c, Seen(c)) /\ Adds(c, Seen(c), NoOp)
      /\ Later(c, Looked(c)) /\ Adds(c, Looked(c), NoOp)
      /\ Later(c, Revoked(Seen(c))) /\ Adds(c, Revoked(Seen(c)), NoOp)
  BY <1>1, RevokedLater, SeenLater
<1>5. faults <= faults
  BY <1>1, CompanionAssumption DEF CompanionAssumption
<1>6. CASE PanelAsks(k)
  <2>1. UNCHANGED <<native, requests, reply, run, allowed>> /\ Known(k)
    BY <1>6 DEF PanelAsks
  <2>2. faults' \in 0..MaxFaults /\ faults' >= faults
    BY <1>1, <1>6, FaultCounts DEF PanelAsks, CheckFails
  <2>3. PICK d \in {Seen(c), Revoked(Seen(c))} : conn' = [conn EXCEPT ![k] = d]
    BY <1>6 DEF PanelAsks
  <2>4. /\ panel' \in [Conns -> Panels]
        /\ \A j \in Conns : panel'[j].op \in PanelOps[j] \union {NoOp}
    BY <1>1, <1>2, <1>3, <1>6 DEF PanelAsks
  <2>5. Later(c, d) /\ Adds(c, d, NoOp)
    BY <1>4, <2>3
  <2> QED
    BY <2>1, <2>2, <2>3, <2>4, <2>5, BrokerStep
<1>7. CASE Authorize(k) \/ BrowserSilent(k)
  <2>1. /\ UNCHANGED <<native, requests, reply, run, allowed, panel, faults>> /\ Known(k)
    BY <1>7 DEF Authorize, BrowserSilent, Known
  <2>2. PICK ph \in {"granted", c.phase}, b \in {"fresh", "expired"} :
          conn' = [conn EXCEPT ![k].phase = ph, ![k].browser = b]
    <3>1. CASE Authorize(k)
      BY <3>1 DEF Authorize
    <3>2. CASE BrowserSilent(k)
      <4>1. conn' = [conn EXCEPT ![k].browser = "expired"]
        BY <3>2 DEF BrowserSilent
      <4>2. [conn EXCEPT ![k].browser = "expired"] = [conn EXCEPT ![k].phase = c.phase, ![k].browser = "expired"]
        BY <1>1 DEF Connection
      <4> QED
        BY <4>1, <4>2
    <3> QED
      BY <1>7, <3>1, <3>2
  <2> DEFINE d == [c EXCEPT !.phase = ph, !.browser = b]
  <2>3. conn' = [conn EXCEPT ![k] = d]
    BY <1>1, <2>2
  <2>4. d \in Connection /\ d.rec = c.rec /\ d.queue = c.queue /\ d.phase = ph
    BY <1>1, <2>2 DEF Connection, Phases
  <2>5. c.phase \notin {"none", "deleted"}
    BY <2>1 DEF Known
  <2> HIDE DEF d
  <2>6. Later(c, d) /\ Adds(c, d, NoOp)
    BY <1>1, <2>2, <2>4, <2>5 DEF Later, Adds, QueueAgrees
  <2> QED
    BY <1>1, <1>2, <1>5, <2>1, <2>3, <2>6, BrokerStep
<1>8. CASE PanelSubmits(k)
  <2>1. UNCHANGED <<native, requests, reply, run, allowed, faults>>
    BY <1>8 DEF PanelSubmits
  <2>2. panel[k].op \in PanelOps[k] /\ panel[k].op \in Ops \ RunOps
    BY <1>2, <1>3, <1>8 DEF PanelSubmits
  <2>3. PICK heard \in BOOLEAN :
          conn' = [conn EXCEPT ![k] = IF Known(k) THEN Submitted(Looked(c), heard, panel[k].op) ELSE c]
    BY <1>8 DEF PanelSubmits
  <2> DEFINE d == IF Known(k) THEN Submitted(Looked(c), heard, panel[k].op) ELSE c
  <2>4. Known(k) => Later(c, d) /\ Adds(c, d, panel[k].op)
    <3>1. Looked(c) \in Connection /\ QueueAgrees(Looked(c))
      BY <1>4 DEF Later
    <3>2. /\ Later(Looked(c), Submitted(Looked(c), heard, panel[k].op))
          /\ Adds(Looked(c), Submitted(Looked(c), heard, panel[k].op), panel[k].op)
      BY <2>2, <3>1, SubmittedLater
    <3>3. NoOp \notin Ops
      BY CompanionAssumption DEF CompanionAssumption
    <3> QED
      BY <1>4, <3>2, <3>3 DEF Later, Adds
  <2>5. d = c \/ (Known(k) /\ Later(c, d))
    BY <2>4
  <2>6. d = c \/ Adds(c, d, panel[k].op)
    BY <2>4
  <2>7. conn' = [conn EXCEPT ![k] = d]
    BY <2>3
  <2>8. /\ panel' \in [Conns -> Panels]
        /\ \A j \in Conns : panel'[j].op \in PanelOps[j] \union {NoOp}
    BY <1>1, <1>2, <1>8 DEF PanelSubmits
  <2> HIDE DEF d
  <2> QED
    BY <1>1, <1>5, <2>1, <2>2, <2>5, <2>6, <2>7, <2>8, BrokerStep
<1>9. CASE PanelRevokes(k) \/ PanelCloses(k)
  <2>1. UNCHANGED <<native, requests, reply, run, allowed, faults>>
    BY <1>9 DEF PanelRevokes, PanelCloses
  <2>2. /\ panel' \in [Conns -> Panels]
        /\ \A j \in Conns : panel'[j].op \in PanelOps[j] \union {NoOp}
    BY <1>1, <1>2, <1>9 DEF PanelRevokes, PanelCloses
  <2>3. \/ Known(k) /\ conn' = [conn EXCEPT ![k] = Revoked(c)]
        \/ conn' = [conn EXCEPT ![k] = c]
    BY <1>1, <1>9 DEF PanelRevokes, PanelCloses
  <2> QED
    BY <1>1, <1>4, <1>5, <2>1, <2>2, <2>3, BrokerStep
<1> QED
  BY <1>6, <1>7, <1>8, <1>9

\* Posting the next exchange keeps the program well formed and one number further ahead.
LEMMA PostsNative ==
  ASSUME native \in [Conns -> Native], NEW k \in Conns, NEW n \in Native, NEW others,
         others \subseteq Request, Posts(k, n, others),
         NEW f \in 0..MaxFaults, n.lead <= f,
         \A m \in others : m.lead <= f + 1
  PROVE  /\ native' \in [Conns -> Native] /\ requests' \subseteq Request
         /\ native'[k].lead = n.lead + 1 /\ native'[k].lead <= f + 1
         /\ native'[k].pc = "posting"
         /\ native'[k].op = n.op /\ native'[k].receipts = n.receipts
         /\ \A j \in Conns \ {k} : native'[j] = native[j]
         /\ \A m \in requests' : m.lead <= f + 1
<1> DEFINE e == [n EXCEPT !.pc = "posting", !.lead = @ + 1]
           r == [conn |-> k, lead |-> n.lead + 1, receipt |-> n.receipt, stage |-> "sent"]
<1>1. n.lead \in Leads /\ n.lead + 1 \in Leads /\ n.lead + 1 <= f + 1
  BY CompanionAssumption DEF CompanionAssumption, Native, Leads
<1>2. /\ e \in Native /\ e.pc = "posting" /\ e.lead = n.lead + 1
      /\ e.op = n.op /\ e.receipts = n.receipts
  BY <1>1 DEF Native
<1>3. r \in Request /\ r.lead = n.lead + 1
  BY <1>1 DEF Request, Native
<1>4. native' = [native EXCEPT ![k] = e] /\ requests' = others \union {r}
  BY DEF Posts
<1> HIDE DEF e, r
<1>5. requests' \subseteq Request /\ \A m \in requests' : m.lead <= f + 1
  BY <1>1, <1>3, <1>4
<1>6. native' \in [Conns -> Native] /\ native'[k] = e /\ \A j \in Conns \ {k} : native'[j] = native[j]
  BY <1>2, <1>4
<1> QED
  BY <1>1, <1>2, <1>5, <1>6

\* A step of one native program: it hears an answer, executes, posts or ends.
LEMMA NativeStepInv ==
  ASSUME Inv, NEW k \in Conns, NEW r \in Reply,
         native' \in [Conns -> Native], requests' \subseteq Request,
         \A j \in Conns \ {k} : native'[j] = native[j],
         reply' = [reply EXCEPT ![k] = r],
         faults' \in 0..MaxFaults, faults' >= faults,
         native'[k].lead <= faults' + 1, \A m \in requests' : m.lead <= faults' + 1,
         native'[k].pc # "posting" => native'[k].lead = 0 /\ r.kind = "none",
         r.kind = "delivery" => native'[k].lead = 0,
         native'[k].pc = "executing" => native'[k].op \in Ops,
         UNCHANGED <<panel, run, allowed>>,
         NEW d, conn' = [conn EXCEPT ![k] = d],
         \A o \in Ops : Reaches(k, o)' =>
            Reaches(k, o) \/ (d.rec[o] \in Handed /\ conn[k].rec[o] # "none"),
         d = conn[k] \/ (Known(k) /\ Later(conn[k], d) /\ Adds(conn[k], d, NoOp))
  PROVE  Inv'
<1>1. /\ native \in [Conns -> Native] /\ requests \subseteq Request
      /\ reply \in [Conns -> Reply] /\ allowed \in BOOLEAN
      /\ panel \in [Conns -> [pc : {"open", "closed"}, op : Ops \union {NoOp}]]
      /\ run \in [RunOps -> [pc : {"idle", "found", "waiting", "refused", "answered"},
                              conn : Conns \union {NoConn}]]
      /\ faults \in 0..MaxFaults
  BY TypeParts DEF Inv
<1>2. \A j \in Conns, o \in Ops : Reaches(j, o)' =>
        Reaches(j, o) \/ (j = k /\ d.rec[o] \in Handed /\ conn[k].rec[o] # "none")
  BY <1>1 DEF Reaches
<1>3. /\ conn' \in [Conns -> Connection]
      /\ \A j \in Conns : QueueAgrees(conn'[j])
      /\ ReachedWasHanded' /\ NothingBeforeRun'
      /\ \A j \in Conns : conn'[j].phase = "none" => conn'[j].rec = [o \in Ops |-> "none"]
  BY <1>2, RecordsKept
<1>4. reply' \in [Conns -> Reply]
  BY <1>1
<1>5. TypeOK'
  BY <1>1, <1>3, <1>4 DEF TypeOK, Connection, QueueAgrees, Native, Request, Reply, Phases, Said
<1>6. Places'
  BY <1>3 DEF Inv, Places
<1>7. LeadsBounded'
  <2>1. \A j \in Conns \ {k} : native'[j] = native[j] /\ reply'[j] = reply[j]
    BY <1>1
  <2>2. \A j \in Conns : native[j].lead \in Leads
    BY <1>1 DEF Native
  <2>3. \A j \in Conns \ {k} : native'[j].lead <= faults' + 1
    BY <1>1, <2>1, <2>2, CompanionAssumption DEF Inv, LeadsBounded, Leads, CompanionAssumption
  <2>4. reply'[k] = r
    BY <1>1
  <2> QED
    BY <2>1, <2>3, <2>4 DEF Inv, LeadsBounded
<1> QED
  BY <1>3, <1>5, <1>6, <1>7 DEF Inv

\* Run has returned: the program waits for nothing, and what it executed remains.
LEMMA OverNative ==
  ASSUME NEW n \in Native
  PROVE  /\ Over(n) \in Native /\ Over(n).pc = "ended" /\ Over(n).lead = 0
         /\ Over(n).op = NoOp /\ Over(n).receipts = n.receipts
<1>1. NotStarted \in Native /\ NotStarted.lead = 0 /\ NotStarted.op = NoOp
  BY CompanionAssumption DEF CompanionAssumption, NotStarted, Native, Leads
<1> QED
  BY <1>1 DEF Over, Native

\* The native program's own steps.
LEMMA NativeInv ==
  ASSUME Inv, NEW k \in Conns,
         AttachNative(k) \/ Receive(k) \/ Execute(k) \/ PostFails(k) \/ NativeEnds(k)
  PROVE  Inv'
<1> DEFINE n == native[k]
<1>1. /\ native \in [Conns -> Native] /\ n \in Native /\ requests \subseteq Request
      /\ reply \in [Conns -> Reply] /\ faults \in 0..MaxFaults /\ faults >= 0
      /\ conn \in [Conns -> Connection] /\ conn[k] \in Connection /\ QueueAgrees(conn[k])
      /\ conn = [conn EXCEPT ![k] = conn[k]] /\ reply = [reply EXCEPT ![k] = reply[k]]
  BY TypeParts, CompanionAssumption DEF Inv, CompanionAssumption
<1>2. /\ n.lead <= faults + 1 /\ \A m \in requests : m.lead <= faults + 1
      /\ n.pc # "posting" => n.lead = 0 /\ reply[k].kind = "none"
      /\ reply[k].kind = "delivery" => n.lead = 0
      /\ n.pc = "executing" => n.op \in Ops
  BY DEF Inv, LeadsBounded
<1>3. NoReply \in Reply /\ NoReply.kind = "none" /\ NoReply.op = NoOp /\ NoOp \notin Ops
  BY CompanionAssumption DEF CompanionAssumption, Reply, NoReply
<1>4. n.lead \in Nat /\ \A m \in requests : m.lead \in Nat
  BY <1>1 DEF Native, Request, Leads
<1>5. CASE AttachNative(k)
  <2> DEFINE d == [conn[k] EXCEPT !.phase = "attached"]
  <2>1. conn' = [conn EXCEPT ![k] = d] /\ Known(k) /\ conn[k].phase = "pairing"
    BY <1>1, <1>5 DEF AttachNative, Known
  <2>2. d \in Connection /\ d.rec = conn[k].rec /\ d.queue = conn[k].queue /\ d.phase = "attached"
    BY <1>1 DEF Connection, Phases
  <2> HIDE DEF d
  <2>3. Later(conn[k], d) /\ Adds(conn[k], d, NoOp)
    BY <1>1, <2>1, <2>2 DEF Later, Adds, QueueAgrees
  <2>4. UNCHANGED <<panel, reply, run, allowed>> /\ n.pc = "off" /\ n.lead = 0 /\ reply[k].kind = "none"
    BY <1>2, <1>5 DEF AttachNative
  <2>5. CASE Posts(k, n, requests) /\ UNCHANGED faults
    <3>1. /\ native' \in [Conns -> Native] /\ requests' \subseteq Request
          /\ native'[k].lead <= faults + 1 /\ native'[k].pc = "posting"
          /\ native'[k].op = n.op /\ native'[k].receipts = n.receipts
          /\ \A j \in Conns \ {k} : native'[j] = native[j]
          /\ \A m \in requests' : m.lead <= faults + 1
      BY <1>1, <1>2, <2>4, <2>5, PostsNative
    <3>2. \A o \in Ops : Reaches(k, o)' => Reaches(k, o)
      BY <2>4, <3>1 DEF Reaches
    <3>3. reply[k] \in Reply /\ reply' = [reply EXCEPT ![k] = reply[k]]
      BY <1>1, <2>4
    <3>4. faults' \in 0..MaxFaults /\ faults' >= faults /\ faults' = faults
      BY <1>1, <2>5
    <3> QED
      BY <2>1, <2>3, <2>4, <3>1, <3>2, <3>3, <3>4, NativeStepInv
  <2>6. CASE native' = [native EXCEPT ![k].pc = "ended"] /\ Fault /\ UNCHANGED requests
    <3>1. /\ native' \in [Conns -> Native]
          /\ native'[k].lead = 0 /\ native'[k].pc = "ended"
          /\ native'[k].op = n.op /\ native'[k].receipts = n.receipts
          /\ \A j \in Conns \ {k} : native'[j] = native[j]
      BY <1>1, <2>4, <2>6 DEF Native
    <3>2. \A o \in Ops : Reaches(k, o)' => Reaches(k, o)
      BY <2>4, <3>1 DEF Reaches
    <3>3. reply[k] \in Reply /\ reply' = [reply EXCEPT ![k] = reply[k]]
      BY <1>1, <2>4
    <3>4. faults' \in 0..MaxFaults /\ faults' >= faults
      BY <1>1, <2>6, FaultCounts
    <3>5. native'[k].lead <= faults' + 1 /\ \A m \in requests' : m.lead <= faults' + 1
      BY <1>1, <1>2, <1>4, <2>6, <3>1, <3>4
    <3>6. requests' \subseteq Request
      BY <1>1, <2>6
    <3> QED
      BY <2>1, <2>3, <2>4, <3>1, <3>2, <3>3, <3>4, <3>5, <3>6, NativeStepInv
  <2> QED
    BY <1>5, <2>5, <2>6 DEF AttachNative
<1>6. CASE Receive(k)
  <2>1. /\ UNCHANGED <<panel, run, allowed, faults, conn>> /\ n.pc = "posting"
        /\ reply' = [reply EXCEPT ![k] = NoReply]
    BY <1>6 DEF Receive
  <2>2. faults' \in 0..MaxFaults /\ faults' >= faults /\ faults' = faults
    BY <1>1, <2>1
  <2>3. reply'[k].op = NoOp
    BY <1>1, <1>3, <2>1
  <2>4. conn' = [conn EXCEPT ![k] = conn[k]]
    BY <1>1, <2>1
  <2>5. CASE native' = [native EXCEPT ![k] = Over(@)] /\ UNCHANGED requests
    <3>1. /\ native' \in [Conns -> Native] /\ native'[k] = Over(n)
          /\ \A j \in Conns \ {k} : native'[j] = native[j]
      BY <1>1, <2>5, OverNative
    <3>2. \A o \in Ops : Reaches(k, o)' => Reaches(k, o)
      BY <1>1, <1>3, <2>3, <3>1, OverNative DEF Reaches
    <3>3. native'[k].lead <= faults' + 1 /\ \A m \in requests' : m.lead <= faults' + 1
      BY <1>1, <1>2, <2>2, <2>5, <3>1, OverNative
    <3>4. native'[k].pc = "ended" /\ native'[k].lead = 0 /\ requests' \subseteq Request
      BY <1>1, <2>5, <3>1, OverNative
    <3> QED
      BY <1>3, <2>1, <2>2, <2>4, <3>1, <3>2, <3>3, <3>4, NativeStepInv
  <2>6. CASE /\ reply[k].kind = "delivery"
             /\ Posts(k, [n EXCEPT !.receipt = NoOp], requests)
    <3> DEFINE e == [n EXCEPT !.receipt = NoOp]
    <3>1. e \in Native /\ e.lead = n.lead /\ e.op = n.op /\ e.receipts = n.receipts
      BY <1>1 DEF Native
    <3>2. e.lead <= faults
      BY <1>1, <1>2, <2>6, <3>1
    <3>3. Posts(k, e, requests)
      BY <2>6
    <3> HIDE DEF e
    <3>4. /\ native' \in [Conns -> Native] /\ requests' \subseteq Request
          /\ native'[k].lead <= faults + 1 /\ native'[k].pc = "posting"
          /\ native'[k].op = e.op /\ native'[k].receipts = e.receipts
          /\ \A j \in Conns \ {k} : native'[j] = native[j]
          /\ \A m \in requests' : m.lead <= faults + 1
      BY <1>1, <1>2, <3>1, <3>2, <3>3, PostsNative
    <3>5. \A o \in Ops : Reaches(k, o)' => Reaches(k, o)
      BY <1>3, <2>3, <3>1, <3>4 DEF Reaches
    <3> QED
      BY <1>3, <2>1, <2>2, <2>4, <3>4, <3>5, NativeStepInv
  <2>7. CASE /\ reply[k].kind = "delivery" /\ reply[k].op # NoOp
             /\ native' = [native EXCEPT ![k].pc = "executing", ![k].receipt = NoOp,
                                         ![k].op = reply[k].op]
             /\ UNCHANGED requests
    <3>1. reply[k].op \in Ops
      BY <1>1, <2>7 DEF Reply
    <3>2. /\ native' \in [Conns -> Native]
          /\ native'[k].lead = n.lead /\ native'[k].pc = "executing"
          /\ native'[k].op = reply[k].op /\ native'[k].receipts = n.receipts
          /\ \A j \in Conns \ {k} : native'[j] = native[j]
      BY <1>1, <2>7, <3>1 DEF Native
    <3>3. \A o \in Ops : Reaches(k, o)' => Reaches(k, o)
      BY <1>3, <2>3, <3>2 DEF Reaches
    <3>4. /\ native'[k].lead = 0 /\ native'[k].lead <= faults' + 1
          /\ \A m \in requests' : m.lead <= faults' + 1
      BY <1>1, <1>2, <2>2, <2>7, <3>2
    <3>5. requests' \subseteq Request
      BY <1>1, <2>7
    <3> QED
      BY <1>3, <2>1, <2>2, <2>4, <3>1, <3>2, <3>3, <3>4, <3>5, NativeStepInv
  <2> QED
    BY <1>6, <2>5, <2>6, <2>7 DEF Receive
<1>7. CASE Execute(k)
  <2> DEFINE o == n.op
             e == [n EXCEPT !.op = NoOp, !.receipt = o, !.receipts = @ \union {o}]
  <2>1. UNCHANGED <<panel, run, allowed, faults, conn, reply>> /\ n.pc = "executing"
        /\ Posts(k, e, requests)
    BY <1>7 DEF Execute
  <2>2. e \in Native /\ e.lead = n.lead /\ e.op = NoOp /\ e.receipts = n.receipts \union {o}
    BY <1>1, <1>2, <2>1 DEF Native
  <2>3. e.lead <= faults
    BY <1>1, <1>2, <2>1, <2>2
  <2> HIDE DEF e
  <2>4. /\ native' \in [Conns -> Native] /\ requests' \subseteq Request
        /\ native'[k].lead <= faults + 1 /\ native'[k].pc = "posting"
        /\ native'[k].op = e.op /\ native'[k].receipts = e.receipts
        /\ \A j \in Conns \ {k} : native'[j] = native[j]
        /\ \A m \in requests' : m.lead <= faults + 1
    BY <1>1, <1>2, <2>1, <2>2, <2>3, PostsNative
  <2>5. \A p \in Ops : Reaches(k, p)' => Reaches(k, p)
    BY <1>3, <2>1, <2>2, <2>4 DEF Reaches
  <2>6. /\ faults' \in 0..MaxFaults /\ faults' >= faults /\ faults' = faults
        /\ conn' = [conn EXCEPT ![k] = conn[k]] /\ reply' = [reply EXCEPT ![k] = reply[k]]
        /\ reply[k] \in Reply /\ reply[k].kind = "none"
    BY <1>1, <1>2, <2>1
  <2> QED
    BY <2>1, <2>4, <2>5, <2>6, NativeStepInv
<1>8. CASE PostFails(k)
  <2>1. /\ UNCHANGED <<panel, run, allowed, conn>> /\ n.pc = "posting" /\ Fault
        /\ reply' = [reply EXCEPT ![k] = NoReply]
    BY <1>8 DEF PostFails
  <2>2. PICK kept \in {requests, {m \in requests : m.conn # k}} : Posts(k, n, kept)
    BY <1>8 DEF PostFails
  <2>3. faults' \in 0..MaxFaults /\ faults' >= faults /\ faults' = faults + 1
    BY <1>1, <2>1, FaultCounts
  <2>4. kept \subseteq Request /\ n.lead <= faults' /\ \A m \in kept : m.lead <= faults' + 1
    BY <1>1, <1>2, <1>4, <2>2, <2>3
  <2>5. /\ native' \in [Conns -> Native] /\ requests' \subseteq Request
        /\ native'[k].lead <= faults' + 1 /\ native'[k].pc = "posting"
        /\ native'[k].op = n.op /\ native'[k].receipts = n.receipts
        /\ \A j \in Conns \ {k} : native'[j] = native[j]
        /\ \A m \in requests' : m.lead <= faults' + 1
    BY <1>1, <2>2, <2>3, <2>4, PostsNative
  <2>6. \A o \in Ops : Reaches(k, o)' => Reaches(k, o)
    BY <1>1, <1>3, <2>1, <2>5 DEF Reaches
  <2>7. conn' = [conn EXCEPT ![k] = conn[k]]
    BY <1>1, <2>1
  <2> QED
    BY <1>3, <2>1, <2>3, <2>5, <2>6, <2>7, NativeStepInv
<1>9. CASE NativeEnds(k)
  <2>1. /\ UNCHANGED <<panel, run, allowed, conn, requests>> /\ Fault
        /\ reply' = [reply EXCEPT ![k] = NoReply]
        /\ native' = [native EXCEPT ![k] = Over(@)]
    BY <1>9 DEF NativeEnds
  <2>2. faults' \in 0..MaxFaults /\ faults' >= faults
    BY <1>1, <2>1, FaultCounts
  <2>3. /\ native' \in [Conns -> Native] /\ native'[k] = Over(n)
        /\ \A j \in Conns \ {k} : native'[j] = native[j]
    BY <1>1, <2>1, OverNative
  <2>4. \A o \in Ops : Reaches(k, o)' => Reaches(k, o)
    BY <1>1, <1>3, <2>1, <2>3, OverNative DEF Reaches
  <2>5. native'[k].lead = 0 /\ native'[k].pc = "ended"
    BY <1>1, <2>3, OverNative
  <2>6. native'[k].lead <= faults' + 1 /\ \A m \in requests' : m.lead <= faults' + 1
    BY <1>1, <1>2, <1>4, <2>1, <2>2, <2>5
  <2>7. conn' = [conn EXCEPT ![k] = conn[k]] /\ requests' \subseteq Request
    BY <1>1, <2>1
  <2> QED
    BY <1>3, <2>1, <2>2, <2>3, <2>4, <2>5, <2>6, <2>7, NativeStepInv
<1> QED
  BY <1>5, <1>6, <1>7, <1>8, <1>9

\* An accepted number brings the others nearer, and none below zero.
LEMMA NearerLead ==
  ASSUME NEW x \in Leads, NEW y \in Leads
  PROVE  Nearer(x, y) \in Leads /\ Nearer(x, y) <= x /\ Nearer(x, x) = 0 /\ Nearer(0, y) = 0
BY CompanionAssumption DEF Nearer, Leads, CompanionAssumption

\* An exchange is verified and checked, or its channel is revoked.
LEMMA CheckExchangeInv ==
  ASSUME Inv, NEW m \in requests, CheckExchange(m)
  PROVE  Inv'
<1> DEFINE k == m.conn
<1>1. /\ native \in [Conns -> Native] /\ requests \subseteq Request /\ m \in Request
      /\ reply \in [Conns -> Reply] /\ faults \in 0..MaxFaults
      /\ conn \in [Conns -> Connection] /\ \A j \in Conns : QueueAgrees(conn[j])
  BY TypeParts DEF Inv
<1>2. k \in Conns
  BY <1>1 DEF Request
<1>3. UNCHANGED <<panel, native, run, allowed>>
  BY DEF CheckExchange
<1>4. faults' \in 0..MaxFaults /\ faults' >= faults
  BY <1>1, FaultCounts DEF CheckExchange, CheckFails
<1>5. requests' \subseteq Request /\ \A x \in requests' : x.lead <= faults' + 1
  <2> DEFINE y == [m EXCEPT !.stage = "checked"]
  <2>1. y \in Request /\ y.lead = m.lead
    BY <1>1 DEF Request
  <2>2. requests' \subseteq requests \union {y}
    BY DEF CheckExchange
  <2>3. \A x \in requests \union {y} : x \in Request /\ x.lead <= faults + 1
    BY <1>1, <2>1 DEF Inv, LeadsBounded
  <2>4. \A x \in Request : x.lead <= faults + 1 => x.lead <= faults' + 1
    BY <1>1, <1>4 DEF Request, Leads
  <2> QED
    BY <2>2, <2>3, <2>4
<1>6. PICK r \in {reply[k], Denied} : /\ reply' = [reply EXCEPT ![k] = r]
                                      /\ r = reply[k] \/ native[k].pc = "posting"
  BY <1>1, <1>2 DEF CheckExchange, Answer
<1>7. r \in Reply /\ (r = reply[k] \/ (r.kind = "denied" /\ r.op = NoOp))
  BY <1>1, <1>2, <1>6 DEF Denied, Reply
<1>8. /\ native[k].lead <= faults + 1
      /\ native[k].pc # "posting" => native[k].lead = 0 /\ reply[k].kind = "none"
      /\ reply[k].kind = "delivery" => native[k].lead = 0
      /\ native[k].pc = "executing" => native[k].op \in Ops
  BY <1>2 DEF Inv, LeadsBounded
<1>9. native[k].lead <= faults' + 1
  <2>1. native[k].lead \in Nat
    BY <1>1, <1>2 DEF Native, Leads
  <2> QED
    BY <1>1, <1>4, <1>8, <2>1
<1>10. PICK d \in {conn[k], Revoked(conn[k])} :
         conn' = [conn EXCEPT ![k] = d] /\ (d = conn[k] \/ Known(k))
  BY <1>1, <1>2 DEF CheckExchange
<1>11. d = conn[k] \/ (Known(k) /\ Later(conn[k], d) /\ Adds(conn[k], d, NoOp))
  BY <1>1, <1>2, <1>10, RevokedLater
<1>12. \A o \in Ops : Reaches(k, o)' => Reaches(k, o)
  <2>1. NoOp \notin Ops
    BY CompanionAssumption DEF CompanionAssumption
  <2>2. reply'[k] = r
    BY <1>1, <1>2, <1>6
  <2> QED
    BY <1>3, <1>7, <2>1, <2>2 DEF Reaches
<1>13. native' \in [Conns -> Native]
  BY <1>1, <1>3
<1> HIDE DEF k
<1> QED
  BY <1>2, <1>3, <1>4, <1>5, <1>6, <1>7, <1>8, <1>9, <1>10, <1>11, <1>12, <1>13, NativeStepInv

\* What the broker does with the connection of an exchange, and what it answers.
LEMMA ExchangeOutcome ==
  ASSUME Inv, NEW m \in requests, Exchange(m)
  PROVE  LET k == m.conn
         IN  \E d \in {conn[k], Revoked(conn[k]), HandedOut(Stored(conn[k], m.receipt))},
                r \in Reply :
               /\ conn' = [conn EXCEPT ![k] = d]
               /\ reply' = [reply EXCEPT ![k] = r]
               /\ d = conn[k] \/ (Known(k) /\ Later(conn[k], d) /\ Adds(conn[k], d, NoOp))
               /\ \/ r = reply[k]
                  \/ r.op = NoOp /\ r.kind = "denied" /\ native[k].pc = "posting"
                  \/ /\ r.kind = "delivery" /\ native[k].pc = "posting"
                     /\ Known(k) /\ m.lead > 0 /\ native[k].lead = m.lead
                     /\ r.op \in Ops => d.rec[r.op] \in Handed /\ conn[k].rec[r.op] # "none"
<1> DEFINE k == m.conn
           c == conn[k]
           s == Stored(c, m.receipt)
<1>1. /\ requests \subseteq Request /\ m \in Request /\ reply \in [Conns -> Reply]
      /\ conn \in [Conns -> Connection] /\ \A j \in Conns : QueueAgrees(conn[j])
  BY TypeParts DEF Inv
<1>2. k \in Conns /\ m.receipt \in Ops \union {NoOp} /\ c \in Connection /\ QueueAgrees(c)
      /\ reply[k] \in Reply /\ conn = [conn EXCEPT ![k] = c] /\ reply = [reply EXCEPT ![k] = reply[k]]
  BY <1>1 DEF Request
<1>3. Denied \in Reply /\ Denied.op = NoOp /\ Denied.kind = "denied"
  BY DEF Denied, Reply
<1>4. ASSUME NEW r, Answer(m, r)
      PROVE  \/ reply' = [reply EXCEPT ![k] = reply[k]]
             \/ reply' = [reply EXCEPT ![k] = r] /\ native[k].pc = "posting"
                /\ native[k].lead = m.lead /\ m.lead > 0
  BY <1>2, <1>4 DEF Answer
<1>5. CASE Answer(m, Denied) /\ UNCHANGED conn
  BY <1>2, <1>3, <1>4, <1>5
<1>6. CASE Known(k) /\ Answer(m, Denied) /\ conn' = [conn EXCEPT ![k] = Revoked(c)]
  <2>1. Later(c, Revoked(c)) /\ Adds(c, Revoked(c), NoOp)
    BY <1>2, RevokedLater
  <2> QED
    BY <1>2, <1>3, <1>4, <1>6, <2>1
<1>7. CASE /\ Known(k) /\ m.lead > 0 /\ ReceiptAccepted(c, m.receipt)
           /\ Answer(m, Delivery(s.queue)) /\ conn' = [conn EXCEPT ![k] = HandedOut(s)]
  <2> DEFINE d == HandedOut(s)
             q == s.queue
  <2>1. /\ Later(c, d) /\ Adds(c, d, NoOp)
        /\ q \in Ops \union {NoOp}
        /\ q \in Ops => d.rec[q] \in Handed /\ c.rec[q] # "none"
    BY <1>2, <1>7, ExchangeLater
  <2>2. /\ Delivery(q) \in Reply /\ Delivery(q).op = q /\ Delivery(q).kind = "delivery"
    BY <2>1 DEF Delivery, Reply
  <2>3. conn' = [conn EXCEPT ![k] = d] /\ Answer(m, Delivery(q))
    BY <1>7
  <2>4. d \in {conn[k], Revoked(conn[k]), HandedOut(Stored(conn[k], m.receipt))}
    OBVIOUS
  <2> HIDE DEF d, q, s
  <2> QED
    BY <1>2, <1>4, <1>7, <2>1, <2>2, <2>3, <2>4
<1> QED
  BY <1>5, <1>6, <1>7 DEF Exchange

\* Broker.Exchange as a whole.
LEMMA ExchangeInv ==
  ASSUME Inv, NEW m \in requests, Exchange(m)
  PROVE  Inv'
<1> DEFINE k == m.conn
<1>1. /\ native \in [Conns -> Native] /\ requests \subseteq Request /\ m \in Request
      /\ reply \in [Conns -> Reply] /\ faults \in 0..MaxFaults
  BY TypeParts DEF Inv
<1>2. k \in Conns /\ m.lead \in Leads /\ native[k].lead \in Leads /\ native[k] \in Native
  BY <1>1 DEF Request, Native
<1>3. UNCHANGED <<panel, run, allowed, faults>>
  BY DEF Exchange
<1>4. faults' \in 0..MaxFaults /\ faults' >= faults /\ faults' = faults
  BY <1>1, <1>3
<1>5. /\ native[k].lead <= faults + 1 /\ \A x \in requests : x.lead <= faults + 1
      /\ native[k].pc # "posting" => native[k].lead = 0 /\ reply[k].kind = "none"
      /\ reply[k].kind = "delivery" => native[k].lead = 0
      /\ native[k].pc = "executing" => native[k].op \in Ops
  BY <1>2 DEF Inv, LeadsBounded
<1>6. /\ native' \in [Conns -> Native]
      /\ \A j \in Conns \ {k} : native'[j] = native[j]
      /\ native'[k].pc = native[k].pc /\ native'[k].op = native[k].op
      /\ native'[k].receipts = native[k].receipts
      /\ native'[k].lead <= native[k].lead
      /\ Known(k) /\ m.lead > 0 /\ native[k].lead = m.lead => native'[k].lead = 0
  <2>1. CASE native' = [native EXCEPT ![k].lead = Nearer(@, m.lead)]
    <3>1. Nearer(native[k].lead, m.lead) \in Leads
          /\ Nearer(native[k].lead, m.lead) <= native[k].lead
          /\ (native[k].lead = m.lead => Nearer(native[k].lead, m.lead) = 0)
      BY <1>2, NearerLead
    <3> DEFINE l == Nearer(native[k].lead, m.lead)
    <3>2. native' = [native EXCEPT ![k].lead = l]
      BY <2>1
    <3> HIDE DEF l
    <3>3. /\ native' \in [Conns -> Native] /\ native'[k].lead = l
          /\ native'[k].pc = native[k].pc /\ native'[k].op = native[k].op
          /\ native'[k].receipts = native[k].receipts
          /\ \A j \in Conns \ {k} : native'[j] = native[j]
      BY <1>1, <1>2, <3>1, <3>2 DEF Native, l
    <3> QED
      BY <3>1, <3>3 DEF l
  <2>2. CASE native' = native /\ ~(Known(k) /\ m.lead > 0)
    BY <1>1, <1>2, <2>2, CompanionAssumption DEF Leads, CompanionAssumption
  <2> QED
    BY <2>1, <2>2 DEF Exchange
<1>7. requests' \subseteq Request /\ \A x \in requests' : x.lead <= faults' + 1
  <2> SUFFICES ASSUME NEW x \in requests'
               PROVE  x \in Request /\ x.lead <= faults + 1
    BY <1>4
  <2>1. PICK y \in requests : x = y \/ x = [y EXCEPT !.lead = Nearer(@, m.lead)]
    BY DEF Exchange
  <2>2. y \in Request /\ y.lead \in Leads /\ y.lead <= faults + 1
    BY <1>1, <1>5 DEF Request
  <2>3. /\ Nearer(y.lead, m.lead) \in Leads /\ Nearer(y.lead, m.lead) <= y.lead
    BY <1>2, <2>2, NearerLead
  <2>4. CASE x = [y EXCEPT !.lead = Nearer(@, m.lead)]
    <3>1. x \in Request /\ x.lead = Nearer(y.lead, m.lead)
      BY <2>2, <2>3, <2>4 DEF Request
    <3> QED
      BY <1>1, <2>2, <2>3, <3>1, CompanionAssumption DEF Leads, CompanionAssumption
  <2> QED
    BY <2>1, <2>2, <2>4
<1>8. PICK d \in {conn[k], Revoked(conn[k]), HandedOut(Stored(conn[k], m.receipt))},
           r \in Reply :
        /\ conn' = [conn EXCEPT ![k] = d]
        /\ reply' = [reply EXCEPT ![k] = r]
        /\ d = conn[k] \/ (Known(k) /\ Later(conn[k], d) /\ Adds(conn[k], d, NoOp))
        /\ \/ r = reply[k]
           \/ r.op = NoOp /\ r.kind = "denied" /\ native[k].pc = "posting"
           \/ /\ r.kind = "delivery" /\ native[k].pc = "posting"
              /\ Known(k) /\ m.lead > 0 /\ native[k].lead = m.lead
              /\ r.op \in Ops => d.rec[r.op] \in Handed /\ conn[k].rec[r.op] # "none"
  BY ExchangeOutcome
<1> HIDE DEF k
<1>9. native'[k].lead \in Leads
  BY <1>2, <1>6 DEF Native
<1>10. /\ native'[k].lead <= faults' + 1
       /\ native[k].lead = 0 => native'[k].lead = 0
  BY <1>1, <1>2, <1>4, <1>5, <1>6, <1>9, CompanionAssumption DEF Leads, CompanionAssumption
<1>11. /\ native'[k].pc # "posting" => native'[k].lead = 0 /\ r.kind = "none"
       /\ r.kind = "delivery" => native'[k].lead = 0
       /\ native'[k].pc = "executing" => native'[k].op \in Ops
  BY <1>5, <1>6, <1>8, <1>10
<1>12. \A o \in Ops : Reaches(k, o)' =>
         Reaches(k, o) \/ (d.rec[o] \in Handed /\ conn[k].rec[o] # "none")
  <2>1. NoOp \notin Ops
    BY CompanionAssumption DEF CompanionAssumption
  <2>2. reply'[k] = r
    BY <1>1, <1>2, <1>8
  <2> QED
    BY <1>6, <1>8, <2>1, <2>2 DEF Reaches
<1> QED
  BY <1>2, <1>3, <1>4, <1>6, <1>7, <1>8, <1>10, <1>11, <1>12, NativeStepInv

\* A new connection knows nothing, and a forgotten one remembers nothing.
LEMMA FreshConnections ==
  /\ NewConnection \in Connection /\ QueueAgrees(NewConnection)
  /\ NewConnection.phase = "pairing" /\ NewConnection.rec = [o \in Ops |-> "none"]
  /\ NoConnection \in Connection /\ QueueAgrees(NoConnection)
  /\ NoConnection.phase = "none" /\ NoConnection.rec = [o \in Ops |-> "none"]
  /\ LET gone == [NoConnection EXCEPT !.phase = "deleted"]
     IN  /\ gone \in Connection /\ QueueAgrees(gone) /\ gone.phase = "deleted"
         /\ gone.rec = [o \in Ops |-> "none"]
<1> DEFINE gone == [NoConnection EXCEPT !.phase = "deleted"]
<1>1. NoOp \notin Ops /\ 0 \in 0..Capacity
  BY CompanionAssumption DEF CompanionAssumption
<1>2. /\ NewConnection \in Connection /\ NewConnection.queue = NoOp
      /\ NewConnection.phase = "pairing" /\ NewConnection.rec = [o \in Ops |-> "none"]
  BY <1>1 DEF NewConnection, Connection, Said, Phases
<1>3. /\ NoConnection \in Connection /\ NoConnection.queue = NoOp
      /\ NoConnection.phase = "none" /\ NoConnection.rec = [o \in Ops |-> "none"]
  BY <1>2 DEF NoConnection, Connection, Phases
<1>4. /\ gone \in Connection /\ gone.queue = NoOp
      /\ gone.phase = "deleted" /\ gone.rec = [o \in Ops |-> "none"]
  BY <1>3 DEF Connection, Phases
<1> HIDE DEF gone
<1>5. QueueAgrees(NewConnection) /\ QueueAgrees(NoConnection) /\ QueueAgrees(gone)
  BY <1>1, <1>2, <1>3, <1>4 DEF QueueAgrees
<1> QED
  BY <1>2, <1>3, <1>4, <1>5 DEF gone

\* Create makes a connection nothing has reached and may forget old ones.
LEMMA CreateInv ==
  ASSUME Inv, NEW k \in Conns, Create(k)
  PROVE  Inv'
<1> DEFINE old == [NoConnection EXCEPT !.phase = "deleted"]
           none == [o \in Ops |-> "none"]
<1>1. /\ native \in [Conns -> Native] /\ requests \subseteq Request
      /\ reply \in [Conns -> Reply] /\ allowed \in BOOLEAN
      /\ panel \in [Conns -> [pc : {"open", "closed"}, op : Ops \union {NoOp}]]
      /\ run \in [RunOps -> [pc : {"idle", "found", "waiting", "refused", "answered"},
                              conn : Conns \union {NoConn}]]
      /\ faults \in 0..MaxFaults
      /\ conn \in [Conns -> Connection] /\ \A j \in Conns : QueueAgrees(conn[j])
  BY TypeParts DEF Inv
<1>2. UNCHANGED <<native, requests, reply, run, allowed, faults>> /\ conn[k].phase = "none"
  BY DEF Create
<1>3. /\ DOMAIN conn' = Conns /\ conn'[k] = NewConnection
      /\ \A j \in Conns \ {k} : conn'[j] = conn[j] \/ conn'[j] = old
  <2>1. PICK gone \in SUBSET {j \in Conns : Known(j)} :
          conn' = [j \in Conns |-> CASE j = k -> NewConnection
                                     [] j \in gone -> old
                                     [] OTHER -> conn[j]]
    BY DEF Create
  <2>2. k \notin gone
    BY <1>2, <2>1 DEF Known
  <2> QED
    BY <2>1, <2>2
<1>4. /\ old \in Connection /\ QueueAgrees(old) /\ old.phase = "deleted" /\ old.rec = none
      /\ NewConnection \in Connection /\ QueueAgrees(NewConnection)
      /\ NewConnection.phase = "pairing" /\ NewConnection.rec = none
  BY FreshConnections
<1>5. panel' \in [Conns -> [pc : {"open", "closed"}, op : Ops \union {NoOp}]]
      /\ \A j \in Conns : panel'[j].op \in PanelOps[j] \union {NoOp}
  BY <1>1 DEF Create, Inv, Places
<1> HIDE DEF old
<1>6. /\ conn' \in [Conns -> Connection] /\ \A j \in Conns : QueueAgrees(conn'[j])
  <2>1. \A j \in Conns : conn'[j] \in Connection /\ QueueAgrees(conn'[j])
    BY <1>1, <1>3, <1>4
  <2>2. conn' = [j \in Conns |-> conn'[j]]
    BY <1>3 DEF Create
  <2> QED
    BY <2>1, <2>2
<1>7. TypeOK'
  BY <1>1, <1>2, <1>5, <1>6
  DEF TypeOK, Connection, QueueAgrees, Native, Request, Reply, Phases, Said
<1>8. ReachedWasHanded'
  <2> SUFFICES ASSUME NEW j \in Conns, NEW o \in Ops, Reaches(j, o)
               PROVE  conn'[j].phase = "deleted" \/ conn'[j].rec[o] \in Handed
    BY <1>2 DEF ReachedWasHanded, Reaches
  <2>1. conn[j].phase = "deleted" \/ conn[j].rec[o] \in Handed
    BY DEF Inv, ReachedWasHanded
  <2>2. j # k
    BY <1>2, <2>1 DEF Inv, Places, Handed
  <2> QED
    BY <1>3, <1>4, <2>1, <2>2
<1>9. NothingBeforeRun'
  <2>1. RunOps \subseteq Ops
    BY DEF Ops
  <2> QED
    BY <1>2, <1>3, <1>4, <2>1 DEF Inv, NothingBeforeRun, Reaches
<1>10. Places'
  BY <1>2, <1>3, <1>4, <1>5 DEF Inv, Places
<1>11. LeadsBounded'
  BY <1>2 DEF Inv, LeadsBounded
<1> QED
  BY <1>7, <1>8, <1>9, <1>10, <1>11 DEF Inv

\* The mentor run: it is refused only while nobody has its operation.
LEMMA RunInv ==
  ASSUME Inv, NEW o \in RunOps, RunFinds(o) \/ RunSubmits(o) \/ RunEnds(o)
  PROVE  Inv'
<1> DEFINE Runs == [pc : {"idle", "found", "waiting", "refused", "answered"},
                    conn : Conns \union {NoConn}]
           Before == {"idle", "found", "refused"}
<1>1. /\ native \in [Conns -> Native] /\ requests \subseteq Request
      /\ reply \in [Conns -> Reply] /\ allowed \in BOOLEAN
      /\ panel \in [Conns -> [pc : {"open", "closed"}, op : Ops \union {NoOp}]]
      /\ run \in [RunOps -> Runs]
      /\ faults \in 0..MaxFaults
      /\ conn \in [Conns -> Connection] /\ \A j \in Conns : QueueAgrees(conn[j])
  BY TypeParts DEF Inv
<1>2. UNCHANGED <<panel, native, requests, reply, allowed, faults>>
  BY DEF RunFinds, RunSubmits, RunEnds
<1>3. /\ run' \in [RunOps -> Runs] /\ \A p \in RunOps \ {o} : run'[p] = run[p]
      /\ run'[o].pc = "found" => run'[o].conn \in Conns
      /\ RunFinds(o) \/ RunEnds(o) =>
           run'[o].pc = "answered" \/ (run'[o].pc \in {"found", "refused"} /\ run[o].pc = "idle")
  <2> DEFINE To(pc, k) == [pc |-> pc, conn |-> k]
  <2>1. \A pc \in {"found", "refused", "answered"}, k \in Conns \union {NoConn} :
          To(pc, k) \in Runs /\ To(pc, k).pc = pc /\ To(pc, k).conn = k
    OBVIOUS
  <2>2. CASE RunFinds(o)
    <3>1. run[o].pc = "idle" /\ (\/ run' = [run EXCEPT ![o] = To("refused", NoConn)]
                                 \/ \E k \in Conns : run' = [run EXCEPT ![o] = To("found", k)])
      BY <2>2 DEF RunFinds, RunOver
    <3> HIDE DEF To
    <3> QED
      BY <1>1, <2>1, <3>1
  <2>3. CASE RunEnds(o)
    <3>1. run' = [run EXCEPT ![o] = To("answered", NoConn)]
      BY <2>3 DEF RunEnds, RunOver
    <3> HIDE DEF To
    <3> QED
      BY <1>1, <2>1, <3>1
  <2>4. CASE RunSubmits(o)
    <3>1. \/ run' = [run EXCEPT ![o].pc = "waiting"]
          \/ run' = [run EXCEPT ![o] = To("refused", NoConn)]
      BY <2>4 DEF RunSubmits, RunOver
    <3>2. run[o].pc = "found" /\ ~RunFinds(o) /\ ~RunEnds(o)
      BY <2>4 DEF RunSubmits, RunFinds, RunEnds
    <3> HIDE DEF To
    <3> QED
      BY <1>1, <2>1, <3>1, <3>2
  <2> QED
    BY <2>2, <2>3, <2>4
<1>4. o \in Ops
  BY DEF Ops
<1>5. /\ conn' \in [Conns -> Connection] /\ \A j \in Conns : QueueAgrees(conn'[j])
      /\ \A j \in Conns, p \in Ops : conn[j].rec[p] \in Handed => conn'[j].rec[p] \in Handed
      /\ \A j \in Conns : conn[j].phase = "deleted" => conn'[j].phase = "deleted"
      /\ \A j \in Conns : conn'[j].phase = "none" => conn'[j] = conn[j]
      /\ \A j \in Conns, p \in Ops \ {o} : conn[j].rec[p] = "none" => conn'[j].rec[p] = "none"
      /\ run'[o].pc \in Before => run[o].pc \in Before /\ \A j \in Conns : conn'[j].rec[o] = "none"
  <2>1. CASE RunFinds(o) \/ RunEnds(o)
    <3>1. conn' = conn /\ (run'[o].pc \in Before => run[o].pc \in Before)
      BY <1>3, <2>1 DEF RunFinds, RunEnds
    <3> QED
      BY <1>1, <3>1 DEF Inv, NothingBeforeRun
  <2>2. CASE RunSubmits(o)
    <3> DEFINE k == run[o].conn
    <3>1. run[o].pc = "found" /\ k \in Conns
      BY <2>2 DEF RunSubmits, Inv, Places
    <3>2. PICK heard \in BOOLEAN :
            /\ conn' = [conn EXCEPT ![k] = Submitted(@, heard, o)]
            /\ run' = IF Accepts(conn[k], heard) /\ conn'[k].rec[o] # "none"
                      THEN [run EXCEPT ![o].pc = "waiting"] ELSE RunOver(o, "refused")
      BY <2>2 DEF RunSubmits
    <3> DEFINE d == Submitted(conn[k], heard, o)
    <3>3. /\ Later(conn[k], d) /\ Adds(conn[k], d, o)
          /\ ~Accepts(conn[k], heard) => d = conn[k]
          /\ d # conn[k] => conn[k].phase = "granted"
      BY <1>1, <1>4, <3>1, SubmittedLater
    <3>4. conn' = [conn EXCEPT ![k] = d]
      BY <3>2
    <3> HIDE DEF d
    <3>5. \A j \in Conns : conn'[j] = IF j = k THEN d ELSE conn[j]
      BY <1>1, <3>4
    <3>6. \A j \in Conns : conn[j].rec[o] = "none"
      BY <3>1 DEF Inv, NothingBeforeRun
    <3>7. run'[o].pc \in Before => d.rec[o] = "none"
      <4>1. conn'[k] = d
        BY <3>1, <3>5
      <4>2. CASE Accepts(conn[k], heard) /\ d.rec[o] # "none"
        BY <1>1, <3>2, <4>1, <4>2
      <4>3. CASE ~Accepts(conn[k], heard)
        BY <3>1, <3>3, <3>6, <4>3
      <4> QED
        BY <4>2, <4>3
    <3>8. conn' \in [Conns -> Connection] /\ \A j \in Conns : QueueAgrees(conn'[j])
      BY <1>1, <3>3, <3>4, <3>5 DEF Later
    <3>9. \A j \in Conns : conn'[j].phase = "none" => conn'[j] = conn[j]
      BY <3>3, <3>5 DEF Later
    <3> QED
      BY <3>1, <3>3, <3>5, <3>6, <3>7, <3>8, <3>9 DEF Later, Adds
  <2> QED
    BY <2>1, <2>2
<1>6. TypeOK'
  BY <1>1, <1>2, <1>3, <1>5
  DEF TypeOK, Connection, QueueAgrees, Native, Request, Reply, Phases, Said
<1>7. ReachedWasHanded'
  BY <1>2, <1>5 DEF Inv, ReachedWasHanded, Reaches
<1>8. NothingBeforeRun'
  <2> SUFFICES ASSUME NEW p \in RunOps, run'[p].pc \in Before, NEW j \in Conns
               PROVE  conn'[j].rec[p] = "none" /\ ~Reaches(j, p)
    BY <1>2 DEF NothingBeforeRun, Reaches
  <2>1. run[p].pc \in Before /\ p \in Ops
    BY <1>3, <1>5 DEF Ops
  <2> QED
    BY <1>3, <1>5, <2>1 DEF Inv, NothingBeforeRun
<1>9. Places'
  BY <1>2, <1>3, <1>5 DEF Inv, Places
<1>10. LeadsBounded'
  BY <1>2 DEF Inv, LeadsBounded
<1> QED
  BY <1>6, <1>7, <1>8, <1>9, <1>10 DEF Inv

\* Nothing is connected, submitted or posted at the start.
LEMMA InitInv == Init => Inv
<1> SUFFICES ASSUME Init
             PROVE  Inv
  OBVIOUS
<1>1. NoOp \notin Ops /\ 0 \in Leads /\ 0 \in 0..MaxFaults /\ 0 <= 0 + 1
  BY CompanionAssumption DEF CompanionAssumption, Leads
<1>2. /\ NotStarted \in Native /\ NotStarted.pc = "off" /\ NotStarted.lead = 0
      /\ NotStarted.op = NoOp /\ NotStarted.receipts = {}
  BY <1>1 DEF NotStarted, Native
<1>3. NoReply \in Reply /\ NoReply.kind = "none" /\ NoReply.op = NoOp
  BY DEF NoReply, Reply
<1>4. /\ conn \in [Conns -> Connection] /\ \A k \in Conns : QueueAgrees(conn[k])
      /\ \A k \in Conns : conn[k].rec = [o \in Ops |-> "none"]
  BY FreshConnections DEF Init
<1>5. native \in [Conns -> Native] /\ reply \in [Conns -> Reply]
  BY <1>2, <1>3 DEF Init
<1>6. TypeOK
  BY <1>1, <1>4, <1>5
  DEF Init, TypeOK, Connection, QueueAgrees, Native, Reply, Phases, Said
<1>7. \A k \in Conns, o \in Ops : ~Reaches(k, o)
  BY <1>1, <1>2, <1>3 DEF Init, Reaches
<1>8. ReachedWasHanded /\ NothingBeforeRun
  <2>1. RunOps \subseteq Ops
    BY DEF Ops
  <2> QED
    BY <1>4, <1>7, <2>1 DEF ReachedWasHanded, NothingBeforeRun
<1>9. Places
  BY <1>4 DEF Init, Places
<1>10. LeadsBounded
  BY <1>1, <1>2, <1>3 DEF Init, LeadsBounded
<1> QED
  BY <1>6, <1>8, <1>9, <1>10 DEF Inv

\* Every step keeps the invariant.
LEMMA InvStep == Inv /\ [Next]_vars => Inv'
<1> SUFFICES ASSUME Inv, [Next]_vars
             PROVE  Inv'
  OBVIOUS
<1>1. ASSUME NEW k \in Conns, Create(k)
      PROVE  Inv'
  BY <1>1, CreateInv
<1>2. ASSUME NEW k \in Conns,
             \/ PanelAsks(k) \/ Authorize(k) \/ PanelSubmits(k) \/ PanelRevokes(k)
             \/ PanelCloses(k) \/ BrowserSilent(k)
      PROVE  Inv'
  BY <1>2, PanelInv
<1>3. ASSUME NEW k \in Conns,
             AttachNative(k) \/ Receive(k) \/ Execute(k) \/ PostFails(k) \/ NativeEnds(k)
      PROVE  Inv'
  BY <1>3, NativeInv
<1>4. ASSUME NEW k \in Conns, Serve(k)
      PROVE  Inv'
  BY <1>4, CheckExchangeInv, ExchangeInv DEF Serve
<1>5. ASSUME NEW o \in RunOps, RunFinds(o) \/ RunSubmits(o) \/ RunEnds(o)
      PROVE  Inv'
  BY <1>5, RunInv
<1>6. CASE Disallow \/ UNCHANGED vars
  <2>1. UNCHANGED <<conn, panel, native, requests, reply, run, faults>> /\ allowed' \in BOOLEAN
    BY <1>6 DEF Disallow, vars, Inv, TypeOK
  <2>2. TypeOK'
    BY <2>1 DEF Inv, TypeOK
  <2>3. ReachedWasHanded' /\ NothingBeforeRun' /\ Places' /\ LeadsBounded'
    BY <2>1 DEF Inv, ReachedWasHanded, NothingBeforeRun, Reaches, Places, LeadsBounded
  <2> QED
    BY <2>2, <2>3 DEF Inv
<1> QED
  BY <1>1, <1>2, <1>3, <1>4, <1>5, <1>6 DEF Next

\* In every reachable state the invariant holds.
LEMMA Invariance == Spec => []Inv
BY InitInv, InvStep, PTL DEF Spec

-----------------------------------------------------------------------------
(* The theorems.                                                           *)

\* Connections, programs and exchanges keep their shape, a queued operation is the one
\* whose receipt says so, and no program runs ahead of the broker by more than the
\* exchanges that failed.
THEOREM TypeCorrect == Spec => []TypeOK
<1>1. Inv => TypeOK
  BY DEF Inv
<1> QED
  BY <1>1, Invariance, PTL

\* What the broker reports as not executed, or a run as refused, no program has executed,
\* although answers are under way when a connection is revoked.
THEOREM NotExecutedIsTrueHolds == Spec => []NotExecutedIsTrue
<1>1. Inv => NotExecutedIsTrue
  <2> SUFFICES ASSUME Inv
               PROVE  NotExecutedIsTrue
    OBVIOUS
  <2>1. ASSUME NEW k \in Conns, NEW o \in Ops, Known(k),
               conn[k].rec[o] \in {"none", "queued", "not_executed"}
        PROVE  o \notin native[k].receipts
    BY <2>1 DEF Inv, ReachedWasHanded, Reaches, Handed, Known
  <2>2. ASSUME NEW o \in RunOps, run[o].pc = "refused", NEW k \in Conns
        PROVE  o \notin native[k].receipts
    BY <2>2 DEF Inv, NothingBeforeRun, Reaches
  <2> QED
    BY <2>1, <2>2 DEF NotExecutedIsTrue
<1> QED
  BY <1>1, Invariance, PTL

=============================================================================
