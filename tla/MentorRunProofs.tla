-------------------------- MODULE MentorRunProofs ---------------------------
(* Proofs about MentorRun for every number of runs, processes, workers and *)
(* operations and every value of the limits.                               *)
EXTENDS MentorRun, TLAPS

\* The records of TypeOK.
Worker == [pc : Pcs, run : Runs \cup {"none"}, lease : Leases \cup {NoLease},
           cause : {"none", "changed", "other"},
           call : {"none", "prepared", "written_off", "sent"}]
Process == [generation : Nat, bodies : [Runs -> Entries]]
LeaseOrNone == Leases \cup {NoLease}

\* What a row and the call that is open on it must agree on: the lease is there exactly
\* while the run is executed, an open call is marked as started and belongs to the lease
\* of a running run, a run at rest has none, and a run that ended with its body in place
\* and an open call says so.
RowOK(row, open) ==
  /\ row.status \in {"running", "cancelling"} <=> row.lease # NoLease
  /\ row.leaseLive => row.lease # NoLease
  /\ row.status = "none" => row = NoRow
  /\ open # NoLease => row.callStarted
  /\ row.status = "running" => open \in {NoLease, row.lease}
  /\ row.status \in {"queued"} \cup RestingStatuses => ~row.callStarted
  /\ terminal(row.status) /\ row.body /\ open # NoLease => row.resultUnknown

\* Row and successor of it: the run is the same one, and a lost body does not return.
Succeeds(row, old) == /\ row.status # "none"
                      /\ row.saved = old.saved /\ row.proc = old.proc
                      /\ row.body => old.body

RowsOK == \A r \in Runs : RowOK(run[r], openCall[r])

\* What a step may do to a row, with the call open before it: the action properties of
\* MentorRun, for one run.
RowStep(old, new, open) ==
  /\ new.requests > old.requests => open \in {NoLease, old.lease}
  /\ old.status = "cancelling" =>
       /\ new.status \in {"cancelling", "cancelled"} \/ (new.status = "failed" /\ ~new.body)
       /\ new.requests = old.requests
  /\ new.status = "succeeded" /\ old.status # "succeeded" => old.leaseLive /\ open = old.lease

Lawful == \A r \in Runs : RowStep(run[r], run'[r], openCall[r])

\* The process that holds the body of a temporary run is the only one that saves it, so
\* its entry never meets the row's version by accident.
NeverForged ==
  \A r \in Runs : run[r].body /\ ~run[r].saved =>
    run[r].proc \in Procs /\ memory[run[r].proc].bodies[r] # "forged"

\* A worker executes a run that exists, under a lease no other worker holds.
WorksOnRun ==
  \A w \in Workers : work[w].pc # "idle" =>
    /\ work[w].run \in Runs /\ work[w].lease \in Leases
    /\ run[work[w].run].status # "none"
    /\ run[work[w].run].saved \/ run[work[w].run].proc = ProcOf[w]

OneWorkerPerLease ==
  \A v, w \in Workers : v # w /\ work[v].pc # "idle" /\ work[w].pc # "idle"
                          => work[v].lease # work[w].lease

\* While a worker holds the run's lease and waits for an answer, the open call is its.
Calling == {"dispatch", "calling", "answered"}
CallIsOpen ==
  \A w \in Workers :
    work[w].pc \in Calling /\ run[work[w].run].lease = work[w].lease
      => openCall[work[w].run] = work[w].lease

WorkInv == WorksOnRun /\ OneWorkerPerLease /\ CallIsOpen

Inv == TypeOK /\ RowsOK /\ NeverForged /\ WorkInv

\* TypeOK in terms of the records above.
LEMMA TypeParts ==
  TypeOK <=> /\ run \in [Runs -> Row]
             /\ context \in [Runs -> BOOLEAN]
             /\ gate \in [open : BOOLEAN, generation : Nat]
             /\ procs \in [Procs -> [up : BOOLEAN, live : BOOLEAN]]
             /\ memory \in [Procs -> Process]
             /\ work \in [Workers -> Worker]
             /\ done \subseteq Ops
             /\ disruptions \in 0 .. MaxDisruptions
             /\ openCall \in [Runs -> LeaseOrNone]
             /\ \A r \in Runs :
                  /\ run[r].status \in {"running", "cancelling"} <=> run[r].lease # NoLease
                  /\ run[r].leaseLive => run[r].lease # NoLease
BY DEF TypeOK, Worker, Process, LeaseOrNone

-----------------------------------------------------------------------------
(* What the handlers do to a row.                                          *)

\* What Unleased and Bodiless leave as it was.
Kept(new, row) ==
  /\ new.status = row.status /\ new.saved = row.saved /\ new.proc = row.proc
  /\ new.generation = row.generation /\ new.requests = row.requests
  /\ new.callStarted = row.callStarted /\ new.resultUnknown = row.resultUnknown

\* Giving up the lease and the body touches nothing else of the row.
LEMMA RowOperations ==
  ASSUME NEW row \in Row
  PROVE  /\ Unleased(row) \in Row /\ Kept(Unleased(row), row)
         /\ Unleased(row).lease = NoLease /\ Unleased(row).leaseLive = FALSE
         /\ Unleased(row).body = row.body
         /\ Bodiless(row) \in Row /\ Kept(Bodiless(row), row)
         /\ Bodiless(row).body = FALSE
         /\ Bodiless(row).lease = row.lease /\ Bodiless(row).leaseLive = row.leaseLive
BY DEF Unleased, Bodiless, Row, Kept

\* A row that is settled, with or without its body, keeps its open call in view.
LEMMA SettledRow ==
  ASSUME NEW row \in Row, NEW open \in LeaseOrNone, RowOK(row, open), row.status # "none",
         NEW s \in TerminalStatuses, NEW new \in Row,
         new.status = s, new.lease = NoLease, new.leaseLive = FALSE,
         new.saved = row.saved, new.proc = row.proc, new.callStarted = row.callStarted,
         new.body => row.body,
         new.body /\ open # NoLease => new.resultUnknown
  PROVE  RowOK(new, open) /\ Succeeds(new, row)
BY DEF RowOK, Succeeds, TerminalStatuses, RestingStatuses, terminal

-----------------------------------------------------------------------------
(* Commits.                                                                *)

\* Only the save of another process, of a temporary run, turns an entry into a forged one.
LEMMA CachedBodies ==
  ASSUME memory \in [Procs -> Process], NEW p \in Procs, NEW r \in Runs, NEW row \in Row,
         NEW committed \in BOOLEAN
  PROVE  /\ Cached(p, r, row, committed) \in [Procs -> Process]
         /\ \A q \in Procs, t \in Runs :
              Cached(p, r, row, committed)[q].bodies[t] = "forged" =>
                \/ memory[q].bodies[t] = "forged" /\ ~(t = r /\ q = p /\ ~row.saved)
                \/ t = r /\ q # p /\ ~row.saved /\ committed
<1>1. CASE row.saved
  BY <1>1 DEF Cached
<1>2. CASE ~row.saved
  <2> DEFINE mine == [generation |-> row.generation,
                      bodies |-> [(IF memory[p].generation = row.generation
                                   THEN memory[p].bodies ELSE NoBodies)
                                  EXCEPT ![r] = IF ~row.body THEN "none"
                                                ELSE IF committed THEN "current" ELSE "ahead"]]
             theirs(q) == IF committed THEN [memory[q] EXCEPT !.bodies[r] = Overtaken(@)]
                                       ELSE memory[q]
  <2>1. Cached(p, r, row, committed) = [q \in Procs |-> IF q # p THEN theirs(q) ELSE mine]
    BY <1>2 DEF Cached
  <2>2. mine \in Process
        /\ \A t \in Runs : mine.bodies[t] = "forged" => t # r /\ memory[p].bodies[t] = "forged"
    <3>1. NoBodies \in [Runs -> Entries] /\ memory[p].bodies \in [Runs -> Entries]
          /\ \A t \in Runs : NoBodies[t] # "forged"
      BY DEF NoBodies, Entries, Process
    <3>2. row.generation \in Nat
      BY DEF Row
    <3> QED
      BY <3>1, <3>2 DEF Process, Entries
  <2>3. ASSUME NEW q \in Procs
        PROVE  /\ theirs(q) \in Process
               /\ \A t \in Runs : theirs(q).bodies[t] = "forged" =>
                    memory[q].bodies[t] = "forged" \/ (t = r /\ committed)
    <3>1. Overtaken(memory[q].bodies[r]) \in Entries
      BY DEF Overtaken, Entries, Process
    <3> QED
      BY <3>1 DEF Process
  <2> HIDE DEF mine, theirs
  <2> QED
    BY <1>2, <2>1, <2>2, <2>3
<1> QED
  BY <1>1, <1>2

\* The tail of every handler keeps the rows in order when the row it saves is, and
\* changes no other row.
LEMMA CommitKeeps ==
  ASSUME Inv, NEW p \in Procs, NEW r \in Runs, NEW row \in Row, NEW open \in LeaseOrNone,
         NEW outcome \in Outcomes, Commit(p, r, row, open, outcome),
         RowOK(row, open), Succeeds(row, run[r]), RowStep(run[r], row, openCall[r]),
         row.body /\ ~row.saved => row.proc = p
  PROVE  /\ run' \in [Runs -> Row] /\ openCall' \in [Runs -> LeaseOrNone]
         /\ memory' \in [Procs -> Process] /\ disruptions' \in 0 .. MaxDisruptions
         /\ RowsOK' /\ NeverForged' /\ Lawful
         /\ \A t \in Runs \ {r} : run'[t] = run[t] /\ openCall'[t] = openCall[t]
         /\ IF outcome = "lost" THEN run'[r] = run[r] /\ openCall'[r] = openCall[r]
                                ELSE run'[r] = row /\ openCall'[r] = open
<1>1. /\ run \in [Runs -> Row] /\ openCall \in [Runs -> LeaseOrNone]
      /\ memory \in [Procs -> Process] /\ disruptions \in 0 .. MaxDisruptions
  BY TypeParts DEF Inv
<1>2. /\ run' = IF outcome = "lost" THEN run ELSE [run EXCEPT ![r] = row]
      /\ openCall' = IF outcome = "lost" THEN openCall ELSE [openCall EXCEPT ![r] = open]
      /\ memory' = Cached(p, r, row, outcome # "lost")
      /\ disruptions' = IF outcome = "ok" THEN disruptions ELSE disruptions + 1
  BY DEF Commit
<1>3. disruptions' \in 0 .. MaxDisruptions
  BY <1>1, <1>2, MentorAssumption DEF Outcomes, MentorAssumption
<1>4. /\ run' \in [Runs -> Row] /\ openCall' \in [Runs -> LeaseOrNone]
      /\ \A t \in Runs \ {r} : run'[t] = run[t] /\ openCall'[t] = openCall[t]
      /\ IF outcome = "lost" THEN run'[r] = run[r] /\ openCall'[r] = openCall[r]
                             ELSE run'[r] = row /\ openCall'[r] = open
  BY <1>1, <1>2
<1>5. /\ memory' \in [Procs -> Process]
      /\ \A q \in Procs, t \in Runs : memory'[q].bodies[t] = "forged" =>
           \/ memory[q].bodies[t] = "forged" /\ ~(t = r /\ q = p /\ ~row.saved)
           \/ t = r /\ q # p /\ ~row.saved /\ outcome # "lost"
  <2> DEFINE committed == outcome # "lost"
  <2>1. committed \in BOOLEAN /\ memory' = Cached(p, r, row, committed)
    BY <1>2
  <2>2. committed => outcome # "lost"
    OBVIOUS
  <2> HIDE DEF committed
  <2> QED
    BY <1>1, <2>1, <2>2, CachedBodies
<1>6. RowsOK'
  BY <1>4 DEF Inv, RowsOK
<1>7. NeverForged'
  <2> SUFFICES ASSUME NEW t \in Runs, run'[t].body, ~run'[t].saved
               PROVE  run'[t].proc \in Procs /\ memory'[run'[t].proc].bodies[t] # "forged"
    BY DEF NeverForged
  <2>1. CASE t # r \/ outcome = "lost"
    <3>1. run'[t] = run[t] /\ run[t].proc \in Procs /\ memory[run[t].proc].bodies[t] # "forged"
      BY <1>4, <2>1 DEF Inv, NeverForged
    <3> QED
      BY <1>5, <2>1, <3>1
  <2>2. CASE t = r /\ outcome # "lost"
    BY <1>4, <1>5, <2>2 DEF Inv, NeverForged, Succeeds
  <2> QED
    BY <2>1, <2>2
<1>8. Lawful
  <2>1. \A t \in Runs : RowStep(run[t], run[t], openCall[t])
    BY <1>1 DEF RowStep, Row
  <2> QED
    BY <1>4, <2>1 DEF Lawful
<1> QED
  BY <1>3, <1>4, <1>5, <1>6, <1>7, <1>8

\* A step that leaves the rows alone is lawful.
LEMMA UnchangedIsLawful ==
  ASSUME Inv, run' = run
  PROVE  Lawful
BY TypeParts DEF Inv, Lawful, RowStep, Row

\* The workers' part of the invariant survives a step in which leases are only given up,
\* an open call changes only with its lease, and no worker begins a call.
LEMMA WorkKept ==
  ASSUME Inv, work' \in [Workers -> Worker],
         \A r \in Runs :
           /\ run[r].status # "none" =>
                run'[r].status # "none" /\ run'[r].saved = run[r].saved /\ run'[r].proc = run[r].proc
           /\ run'[r].lease \in {run[r].lease, NoLease}
           /\ run'[r].lease # NoLease => openCall'[r] = openCall[r],
         \A w \in Workers : work'[w].pc # "idle" =>
           /\ work[w].pc # "idle"
           /\ work'[w].run = work[w].run /\ work'[w].lease = work[w].lease
           /\ work'[w].pc \in Calling => work[w].pc \in Calling
  PROVE  WorkInv'
<1>1. NoLease \notin Leases
  BY MentorAssumption DEF MentorAssumption
<1>2. WorksOnRun'
  BY DEF Inv, WorkInv, WorksOnRun
<1>3. OneWorkerPerLease'
  BY DEF Inv, WorkInv, OneWorkerPerLease
<1>4. CallIsOpen'
  <2> SUFFICES ASSUME NEW w \in Workers, work'[w].pc \in Calling,
                      run'[work'[w].run].lease = work'[w].lease
               PROVE  openCall'[work'[w].run] = work'[w].lease
    BY DEF CallIsOpen
  <2>1. work'[w].pc # "idle"
    BY DEF Calling
  <2>2. /\ work[w].run \in Runs /\ work[w].lease \in Leases /\ work[w].pc \in Calling
        /\ work'[w].run = work[w].run /\ work'[w].lease = work[w].lease
    BY <2>1 DEF Inv, WorkInv, WorksOnRun
  <2> QED
    BY <1>1, <2>2 DEF Inv, WorkInv, CallIsOpen
<1> QED
  BY <1>2, <1>3, <1>4 DEF WorkInv

\* The parts of the invariant after a step, put together.
LEMMA InvFromParts ==
  ASSUME run' \in [Runs -> Row], context' \in [Runs -> BOOLEAN],
         gate' \in [open : BOOLEAN, generation : Nat],
         procs' \in [Procs -> [up : BOOLEAN, live : BOOLEAN]],
         memory' \in [Procs -> Process], work' \in [Workers -> Worker], done' \subseteq Ops,
         disruptions' \in 0 .. MaxDisruptions, openCall' \in [Runs -> LeaseOrNone],
         RowsOK', NeverForged', WorkInv'
  PROVE  Inv'
<1>1. \A r \in Runs :
        /\ run'[r].status \in {"running", "cancelling"} <=> run'[r].lease # NoLease
        /\ run'[r].leaseLive => run'[r].lease # NoLease
  BY DEF RowsOK, RowOK
<1> QED
  BY <1>1 DEF Inv, TypeOK, Worker, Process, LeaseOrNone

-----------------------------------------------------------------------------
(* Commands of the learner.                                                *)

\* A command that saves a good row, gives up a lease or none, and leaves the open call
\* of a lease alone keeps the invariant.
LEMMA CommandKeeps ==
  ASSUME Inv, NEW p \in Procs, NEW op \in Ops, NEW r \in Runs, NEW row \in Row,
         NEW open \in LeaseOrNone, CommandTail(p, op, r, row, open),
         RowOK(row, open), Succeeds(row, run[r]), RowStep(run[r], row, openCall[r]),
         row.body /\ ~row.saved => row.proc = p,
         row.lease \in {run[r].lease, NoLease}, row.lease # NoLease => open = openCall[r]
  PROVE  Inv' /\ Lawful
<1>1. PICK outcome \in Outcomes : Commit(p, r, row, open, outcome)
  BY DEF CommandTail
<1>2. /\ run' \in [Runs -> Row] /\ openCall' \in [Runs -> LeaseOrNone]
      /\ memory' \in [Procs -> Process] /\ disruptions' \in 0 .. MaxDisruptions
      /\ RowsOK' /\ NeverForged' /\ Lawful
      /\ \A t \in Runs \ {r} : run'[t] = run[t] /\ openCall'[t] = openCall[t]
      /\ IF outcome = "lost" THEN run'[r] = run[r] /\ openCall'[r] = openCall[r]
                             ELSE run'[r] = row /\ openCall'[r] = open
  BY <1>1, CommitKeeps
<1>3. UNCHANGED <<context, gate, procs, work>> /\ done' \subseteq Ops
  BY DEF CommandTail, Inv, TypeOK
<1>4. /\ context' \in [Runs -> BOOLEAN] /\ gate' \in [open : BOOLEAN, generation : Nat]
      /\ procs' \in [Procs -> [up : BOOLEAN, live : BOOLEAN]] /\ work' \in [Workers -> Worker]
  BY <1>3, TypeParts DEF Inv
<1>5. \A t \in Runs :
        /\ run[t].status # "none" =>
             run'[t].status # "none" /\ run'[t].saved = run[t].saved /\ run'[t].proc = run[t].proc
        /\ run'[t].lease \in {run[t].lease, NoLease}
        /\ run'[t].lease # NoLease => openCall'[t] = openCall[t]
  BY <1>2 DEF Succeeds
<1>6. WorkInv'
  BY <1>3, <1>4, <1>5, WorkKept
<1> QED
  BY <1>2, <1>3, <1>4, <1>6, InvFromParts

\* A body that can be decoded is saved, or is held by this process.
LEMMA DecodableHere ==
  ASSUME NEW p \in Procs, NEW r \in Runs, Decodable(p, r)
  PROVE  run[r].body /\ ~run[r].saved => run[r].proc = p
BY DEF Decodable

\* The commands.
LEMMA CommandInv ==
  ASSUME Inv, NEW p \in Procs, NEW op \in Ops, NEW r \in Runs, CommandStep(p, op, r)
  PROVE  Inv' /\ Lawful
<1> DEFINE row == run[r]
<1>1. row \in Row /\ openCall[r] \in LeaseOrNone /\ NoLease \in LeaseOrNone
      /\ RowOK(row, openCall[r])
  BY TypeParts DEF Inv, RowsOK, LeaseOrNone
<1>2. row.status # "none"
  BY DEF CommandStep, Stop, Clear, Respond, Resume, RetryStart, CanContinue, CommandGate
<1>3. CASE Stop(p, op, r)
  <2>1. CASE terminal(row.status) \/ row.status = "cancelling"
    <3>1. UNCHANGED <<run, context, gate, procs, memory, work, disruptions, openCall>>
          /\ done' \subseteq Ops
      BY <1>3, <2>1 DEF Stop, Inv, TypeOK
    <3>2. TypeOK'
      BY <3>1 DEF Inv, TypeOK
    <3>3. Inv'
      BY <3>1, <3>2 DEF Inv, RowsOK, NeverForged, WorkInv, WorksOnRun, OneWorkerPerLease,
                        CallIsOpen
    <3> QED
      BY <3>1, <3>3, UnchangedIsLawful
  <2>2. CASE ~(terminal(row.status) \/ row.status = "cancelling")
    <3> DEFINE s == IF row.status = "running" THEN "cancelling" ELSE "cancelled"
               new == [row EXCEPT !.status = s]
    <3>1. CommandTail(p, op, r, new, openCall[r]) /\ Decodable(p, r)
      BY <1>3, <2>2 DEF Stop
    <3>2. s \in {"cancelling", "cancelled"} /\ (s = "cancelling" <=> row.status = "running")
      OBVIOUS
    <3> HIDE DEF s
    <3>3. /\ new \in Row /\ new.status = s /\ new.saved = row.saved /\ new.proc = row.proc
          /\ new.lease = row.lease /\ new.leaseLive = row.leaseLive /\ new.body = row.body
          /\ new.callStarted = row.callStarted /\ new.requests = row.requests
      BY <1>1, <3>2 DEF Row, Statuses, TerminalStatuses
    <3> HIDE DEF new
    <3>4. RowOK(new, openCall[r])
      BY <1>1, <1>2, <2>2, <3>2, <3>3
      DEF RowOK, Row, Statuses, TerminalStatuses, RestingStatuses, terminal
    <3>5. Succeeds(new, row) /\ RowStep(row, new, openCall[r])
      BY <1>1, <2>2, <3>2, <3>3 DEF Succeeds, RowStep, Row
    <3> QED
      BY <1>1, <3>1, <3>3, <3>4, <3>5, CommandKeeps, DecodableHere
  <2> QED
    BY <2>1, <2>2
<1>4. CASE Clear(p, op, r)
  <2> DEFINE c == [row EXCEPT !.status = "cancelled"]
             new == Unleased(Bodiless(c))
  <2>1. /\ c \in Row /\ c.status = "cancelled" /\ c.saved = row.saved /\ c.proc = row.proc
        /\ c.callStarted = row.callStarted /\ c.requests = row.requests
    BY <1>1 DEF Row, Statuses, TerminalStatuses
  <2>2. CommandTail(p, op, r, new, openCall[r])
    BY <1>4 DEF Clear
  <2> HIDE DEF c
  <2>3. /\ new \in Row /\ new.status = "cancelled" /\ new.saved = row.saved
        /\ new.proc = row.proc /\ new.lease = NoLease /\ new.leaseLive = FALSE
        /\ new.body = FALSE /\ new.callStarted = row.callStarted /\ new.requests = row.requests
    <3> DEFINE b == Bodiless(c)
    <3>1. b \in Row /\ Kept(b, c) /\ b.body = FALSE
      BY <2>1, RowOperations
    <3> HIDE DEF b
    <3>2. /\ Unleased(b) \in Row /\ Kept(Unleased(b), b) /\ Unleased(b).lease = NoLease
          /\ Unleased(b).leaseLive = FALSE /\ Unleased(b).body = b.body
      BY <3>1, RowOperations
    <3>3. new = Unleased(b)
      BY DEF b
    <3> QED
      BY <2>1, <3>1, <3>2, <3>3 DEF Kept
  <2> HIDE DEF new
  <2>4. RowOK(new, openCall[r]) /\ Succeeds(new, row)
    BY <1>1, <1>2, <2>3, SettledRow DEF TerminalStatuses
  <2>5. RowStep(row, new, openCall[r])
    BY <1>1, <2>3 DEF RowStep, Row
  <2> QED
    BY <1>1, <2>2, <2>3, <2>4, <2>5, CommandKeeps
<1>5. CASE Respond(p, op, r)
  <2> DEFINE new == [row EXCEPT !.status = "queued", !.todo = @ \ {"question"}]
  <2>1. CommandTail(p, op, r, new, openCall[r]) /\ row.status = "waiting" /\ Decodable(p, r)
    BY <1>5 DEF Respond, CanContinue
  <2>2. /\ new \in Row /\ new.status = "queued" /\ new.saved = row.saved /\ new.proc = row.proc
        /\ new.lease = row.lease /\ new.leaseLive = row.leaseLive /\ new.body = row.body
        /\ new.callStarted = row.callStarted /\ new.requests = row.requests
    BY <1>1 DEF Row, Statuses
  <2> HIDE DEF new
  <2>3. RowOK(new, openCall[r]) /\ Succeeds(new, row) /\ RowStep(row, new, openCall[r])
    BY <1>1, <2>1, <2>2
    DEF RowOK, RestingStatuses, TerminalStatuses, terminal, Succeeds, RowStep, Row
  <2> QED
    BY <1>1, <2>1, <2>2, <2>3, CommandKeeps, DecodableHere
<1>6. /\ Requeued(row) \in Row /\ Requeued(row).status \in {"queued", "waiting"}
      /\ Requeued(row).saved = row.saved /\ Requeued(row).proc = row.proc
      /\ Requeued(row).lease = row.lease /\ Requeued(row).leaseLive = row.leaseLive
      /\ Requeued(row).body = row.body /\ Requeued(row).callStarted = row.callStarted
      /\ Requeued(row).requests = row.requests
  <2> DEFINE s == IF "question" \in row.todo THEN "waiting" ELSE "queued"
             todo == row.todo \ {"limit"}
             new == [row EXCEPT !.status = s, !.todo = todo]
  <2>1. s \in {"queued", "waiting"} /\ todo \in SUBSET Todo /\ Requeued(row) = new
    BY <1>1 DEF Requeued, Row
  <2>2. s \in Statuses
    BY <2>1 DEF Statuses, RestingStatuses
  <2> HIDE DEF s, todo
  <2>3. /\ new \in Row /\ new.status = s /\ new.saved = row.saved /\ new.proc = row.proc
        /\ new.lease = row.lease /\ new.leaseLive = row.leaseLive /\ new.body = row.body
        /\ new.callStarted = row.callStarted /\ new.requests = row.requests
    BY <1>1, <2>1, <2>2 DEF Row
  <2> HIDE DEF new
  <2> QED
    BY <2>1, <2>3
<1>7. CASE Resume(p, op, r)
  <2>1. CommandTail(p, op, r, Requeued(row), openCall[r]) /\ row.status = "paused" /\ Decodable(p, r)
    BY <1>7 DEF Resume, CanContinue
  <2>2. RowOK(Requeued(row), openCall[r]) /\ Succeeds(Requeued(row), row)
        /\ RowStep(row, Requeued(row), openCall[r])
    BY <1>1, <1>6, <2>1
    DEF RowOK, RestingStatuses, TerminalStatuses, terminal, Succeeds, RowStep, Row
  <2> QED
    BY <1>1, <1>6, <2>1, <2>2, CommandKeeps, DecodableHere
<1>8. CASE RetryStart(p, op, r)
  <2> DEFINE q == Requeued(row)
             new == [q EXCEPT !.callStarted = FALSE, !.resultUnknown = FALSE]
  <2>1. CommandTail(p, op, r, new, NoLease) /\ row.status = "failed" /\ Decodable(p, r)
    BY <1>8 DEF RetryStart, CanContinue
  <2> HIDE DEF q
  <2>2. /\ new \in Row /\ new.status \in {"queued", "waiting"} /\ new.saved = row.saved
        /\ new.proc = row.proc /\ new.lease = row.lease /\ new.leaseLive = row.leaseLive
        /\ new.body = row.body /\ new.callStarted = FALSE /\ new.requests = row.requests
    BY <1>6 DEF Row, q
  <2> HIDE DEF new
  <2>3. /\ RowOK(new, NoLease) /\ Succeeds(new, row) /\ RowStep(row, new, openCall[r])
        /\ new.lease = NoLease
    BY <1>1, <2>1, <2>2
    DEF RowOK, RestingStatuses, TerminalStatuses, terminal, Succeeds, RowStep, Row
  <2> QED
    BY <1>1, <2>1, <2>2, <2>3, CommandKeeps, DecodableHere
<1> QED
  BY <1>3, <1>4, <1>5, <1>7, <1>8 DEF CommandStep

-----------------------------------------------------------------------------
(* Create.                                                                 *)

LEMMA CreateInv ==
  ASSUME Inv, NEW p \in Entry, NEW r \in Runs, NEW saved \in SavedModes, Create(p, r, saved)
  PROVE  Inv' /\ Lawful
<1> DEFINE row == [NoRow EXCEPT !.status = "queued", !.saved = saved, !.proc = p,
                                !.generation = gate.generation, !.body = TRUE]
           kept == Cached(p, r, row, TRUE)
<1>1. /\ p \in Procs /\ saved \in BOOLEAN /\ NoLease \in LeaseOrNone
      /\ run \in [Runs -> Row] /\ openCall \in [Runs -> LeaseOrNone]
      /\ memory \in [Procs -> Process] /\ disruptions \in 0 .. MaxDisruptions
      /\ gate.generation \in Nat /\ run[r].status = "none"
  BY TypeParts, MentorAssumption DEF Inv, MentorAssumption, Create, LeaseOrNone
<1>2. PICK outcome \in Outcomes :
        /\ run' = IF outcome = "lost" THEN run ELSE [run EXCEPT ![r] = row]
        /\ memory' = [kept EXCEPT ![p].bodies[r] = IF outcome = "ok" THEN @ ELSE "none"]
        /\ disruptions' = IF outcome = "ok" THEN disruptions ELSE disruptions + 1
  BY DEF Create
<1>3. /\ row \in Row /\ row.status = "queued" /\ row.saved = saved /\ row.proc = p
      /\ row.lease = NoLease /\ row.leaseLive = FALSE /\ row.callStarted = FALSE
      /\ row.requests = 0 /\ row.body = TRUE
  BY <1>1 DEF Row, NoRow, Statuses, LeaseOrNone
<1> HIDE DEF row
<1>4. run[r] = NoRow /\ openCall[r] = NoLease
  BY <1>1 DEF Inv, RowsOK, RowOK, NoRow
<1>5. /\ kept \in [Procs -> Process]
      /\ \A q \in Procs, t \in Runs : kept[q].bodies[t] = "forged" =>
           \/ memory[q].bodies[t] = "forged" /\ ~(t = r /\ q = p /\ ~row.saved)
           \/ t = r /\ q # p
  <2> DEFINE committed == TRUE
  <2>1. committed \in BOOLEAN /\ kept = Cached(p, r, row, committed)
    OBVIOUS
  <2> HIDE DEF committed, kept
  <2> QED
    BY <1>1, <1>3, <2>1, CachedBodies
<1> HIDE DEF kept
<1>6. /\ memory' \in [Procs -> Process]
      /\ \A q \in Procs, t \in Runs : memory'[q].bodies[t] = "forged" =>
           kept[q].bodies[t] = "forged"
  <2> DEFINE e == IF outcome = "ok" THEN kept[p].bodies[r] ELSE "none"
  <2>1. e \in Entries /\ (e = "forged" => kept[p].bodies[r] = "forged")
    BY <1>1, <1>5 DEF Process, Entries
  <2>2. memory' = [kept EXCEPT ![p].bodies[r] = e]
    BY <1>1, <1>2, <1>5
  <2> HIDE DEF e
  <2> QED
    BY <1>1, <1>5, <2>1, <2>2 DEF Process
<1>7. run' \in [Runs -> Row] /\ run'[r] \in {row, NoRow} /\ \A t \in Runs \ {r} : run'[t] = run[t]
  BY <1>1, <1>2, <1>3, <1>4
<1>8. UNCHANGED <<context, gate, procs, work, done, openCall>>
  BY DEF Create
<1>9. disruptions' \in 0 .. MaxDisruptions
  BY <1>1, <1>2, MentorAssumption DEF Outcomes, MentorAssumption
<1>10. RowsOK'
  <2>1. RowOK(row, NoLease)
    BY <1>3 DEF RowOK, RestingStatuses, TerminalStatuses, terminal
  <2> QED
    BY <1>4, <1>7, <1>8, <2>1 DEF Inv, RowsOK
<1>11. NeverForged'
  <2> SUFFICES ASSUME NEW t \in Runs, run'[t].body, ~run'[t].saved
               PROVE  run'[t].proc \in Procs /\ memory'[run'[t].proc].bodies[t] # "forged"
    BY DEF NeverForged
  <2>1. CASE t = r
    <3>1. run'[t] = row
      BY <1>7, <2>1 DEF NoRow
    <3> QED
      BY <1>1, <1>3, <1>5, <1>6, <2>1, <3>1
  <2>2. CASE t # r
    <3>1. run'[t] = run[t] /\ run[t].proc \in Procs /\ memory[run[t].proc].bodies[t] # "forged"
      BY <1>7, <2>2 DEF Inv, NeverForged
    <3> QED
      BY <1>5, <1>6, <2>2, <3>1
  <2> QED
    BY <2>1, <2>2
<1>12. Lawful
  <2>1. RowStep(NoRow, row, NoLease) /\ RowStep(NoRow, NoRow, NoLease)
    BY <1>3 DEF RowStep, NoRow
  <2>2. \A t \in Runs : RowStep(run[t], run[t], openCall[t])
    BY <1>1 DEF RowStep, Row
  <2> QED
    BY <1>4, <1>7, <2>1, <2>2 DEF Lawful
<1>13. WorkInv'
  <2>1. work' \in [Workers -> Worker]
    BY <1>8, TypeParts DEF Inv
  <2>2. \A t \in Runs : run'[t].lease = run[t].lease
    BY <1>3, <1>4, <1>7 DEF NoRow
  <2>3. \A t \in Runs : run[t].status # "none" => run'[t] = run[t]
    BY <1>1, <1>7
  <2> QED
    BY <1>8, <2>1, <2>2, <2>3, WorkKept
<1> QED
  <2>1. /\ context' \in [Runs -> BOOLEAN] /\ gate' \in [open : BOOLEAN, generation : Nat]
        /\ procs' \in [Procs -> [up : BOOLEAN, live : BOOLEAN]] /\ work' \in [Workers -> Worker]
        /\ done' \subseteq Ops /\ openCall' \in [Runs -> LeaseOrNone]
    BY <1>8, TypeParts DEF Inv
  <2> QED
    BY <1>6, <1>7, <1>9, <1>10, <1>11, <1>12, <1>13, <2>1, InvFromParts

-----------------------------------------------------------------------------
(* Execution.                                                              *)

\* A step of one worker that changes no row: it goes on, or fails, and begins no call.
LEMMA WorkStepInv ==
  ASSUME Inv, NEW w \in Workers, work[w].pc # "idle",
         UNCHANGED <<run, context, gate, procs, memory, done, disruptions, openCall>>,
         NEW next \in Worker, work' = [work EXCEPT ![w] = next],
         next.run = work[w].run, next.lease = work[w].lease,
         next.pc \in Calling => work[w].pc \in Calling
  PROVE  Inv' /\ Lawful
<1>1. work' \in [Workers -> Worker] /\ \A v \in Workers : v # w => work'[v] = work[v]
      /\ work'[w] = next
  BY TypeParts DEF Inv
<1>2. WorkInv'
  BY <1>1, WorkKept
<1>3. /\ run' \in [Runs -> Row] /\ context' \in [Runs -> BOOLEAN]
      /\ gate' \in [open : BOOLEAN, generation : Nat]
      /\ procs' \in [Procs -> [up : BOOLEAN, live : BOOLEAN]] /\ memory' \in [Procs -> Process]
      /\ done' \subseteq Ops /\ disruptions' \in 0 .. MaxDisruptions
      /\ openCall' \in [Runs -> LeaseOrNone]
  BY TypeParts DEF Inv
<1>4. RowsOK' /\ NeverForged'
  BY DEF Inv, RowsOK, NeverForged
<1> QED
  BY <1>1, <1>2, <1>3, <1>4, InvFromParts, UnchangedIsLawful

\* An execution that fails only says so.
LEMMA FailInv ==
  ASSUME Inv, NEW w \in Workers, work[w].pc # "idle",
         UNCHANGED <<run, context, gate, procs, memory, done, disruptions, openCall>>,
         NEW cause \in {"changed", "other"}, Fail(w, cause)
  PROVE  Inv' /\ Lawful
<1> DEFINE next == [work[w] EXCEPT !.pc = "finish", !.cause = cause]
<1>1. work \in [Workers -> Worker]
  BY TypeParts DEF Inv
<1>2. work' = [work EXCEPT ![w] = next]
  BY <1>1 DEF Fail
<1>3. /\ next \in Worker /\ next.run = work[w].run /\ next.lease = work[w].lease
      /\ next.pc = "finish"
  BY <1>1 DEF Worker, Pcs
<1> HIDE DEF next
<1> QED
  BY <1>2, <1>3, WorkStepInv DEF Calling

LEMMA CauseType ==
  ASSUME NEW w \in Workers
  PROVE  Cause(w) \in {"changed", "other"}
BY DEF Cause

\* The steps of an execution that touch no row.
LEMMA QuietStepInv ==
  ASSUME Inv, NEW w \in Workers,
         \/ Dispatch(w) \/ ModelAnswers(w) \/ CompatibilityRetry(w)
         \/ ModelFails(w) \/ Reconfigured(w) \/ RenewalFails(w)
  PROVE  Inv' /\ Lawful
<1>1. UNCHANGED <<run, context, gate, procs, memory, done, disruptions, openCall>>
  BY DEF Dispatch, ModelAnswers, CompatibilityRetry, ModelFails, Reconfigured, RenewalFails,
         OthersUnchanged
<1>2. work[w].pc # "idle"
  BY DEF Dispatch, ModelAnswers, CompatibilityRetry, ModelFails, Reconfigured, RenewalFails,
         Executing
<1>3. work \in [Workers -> Worker]
  BY TypeParts DEF Inv
<1>4. ASSUME NEW pc \in Pcs, NEW call \in {"none", "prepared", "written_off", "sent"}
      PROVE  /\ At(w, pc, call) \in Worker /\ At(w, pc, call).pc = pc
             /\ At(w, pc, call).run = work[w].run /\ At(w, pc, call).lease = work[w].lease
  BY <1>3 DEF At, Worker
<1>5. CASE \E cause \in {"changed", "other"} : Fail(w, cause)
  BY <1>1, <1>2, <1>5, FailInv
<1>6. CASE Dispatch(w) /\ work' = [work EXCEPT ![w] = At(w, "calling", "sent")]
  <2> DEFINE next == At(w, "calling", "sent")
  <2>1. next \in Worker /\ next.run = work[w].run /\ next.lease = work[w].lease
    BY <1>4 DEF Pcs
  <2>2. work[w].pc \in Calling
    BY <1>6 DEF Dispatch, Calling
  <2> HIDE DEF next
  <2> QED
    BY <1>1, <1>2, <1>6, <2>1, <2>2, WorkStepInv DEF next
<1>7. CASE ModelAnswers(w)
  <2> DEFINE next == At(w, "answered", "none")
  <2>1. next \in Worker /\ next.run = work[w].run /\ next.lease = work[w].lease
    BY <1>4 DEF Pcs
  <2>2. work[w].pc \in Calling /\ work' = [work EXCEPT ![w] = next]
    BY <1>7 DEF ModelAnswers, Calling
  <2> HIDE DEF next
  <2> QED
    BY <1>1, <1>2, <2>1, <2>2, WorkStepInv
<1>8. CASE CompatibilityRetry(w)
  <2> DEFINE next == At(w, "ready", "none")
  <2>1. next \in Worker /\ next.run = work[w].run /\ next.lease = work[w].lease
    BY <1>4 DEF Pcs
  <2>2. work[w].pc \in Calling /\ work' = [work EXCEPT ![w] = next]
    BY <1>8 DEF CompatibilityRetry, Calling
  <2> HIDE DEF next
  <2> QED
    BY <1>1, <1>2, <2>1, <2>2, WorkStepInv
<1>9. CASE ModelFails(w) \/ Reconfigured(w) \/ RenewalFails(w)
  <2>1. \E cause \in {"changed", "other"} : Fail(w, cause)
    BY <1>9, CauseType DEF ModelFails, Reconfigured, RenewalFails
  <2> QED
    BY <1>5, <2>1
<1>10. CASE Dispatch(w)
  <2>1. \/ work' = [work EXCEPT ![w] = At(w, "calling", "sent")]
        \/ Fail(w, "changed") \/ Fail(w, "other")
    BY <1>10 DEF Dispatch
  <2> QED
    BY <1>5, <1>6, <1>10, <2>1
<1> QED
  BY <1>7, <1>8, <1>9, <1>10

\* The row a worker saves: the run it had found running, still running or at rest, with
\* no call open or the one that begins now.
LEMMA RestedRow ==
  ASSUME NEW old \in Row, NEW row \in Row, NEW open \in LeaseOrNone, NEW before \in LeaseOrNone,
         RowOK(old, before), old.status = "running",
         row.saved = old.saved, row.proc = old.proc, row.body = old.body,
         row.lease = old.lease, row.leaseLive = old.leaseLive,
         row.status \in {"running", "succeeded", "failed"} \cup RestingStatuses,
         row.status = "succeeded" => old.leaseLive /\ before = old.lease,
         \/ open = NoLease /\ row.callStarted = FALSE
         \/ row.status = "running" /\ open = row.lease /\ row.callStarted = TRUE
  PROVE  /\ Rested(row) \in Row /\ RowOK(Rested(row), open) /\ Succeeds(Rested(row), old)
         /\ RowStep(old, Rested(row), before)
         /\ Rested(row).body = old.body /\ Rested(row).saved = old.saved
         /\ Rested(row).proc = old.proc /\ Rested(row).lease \in {old.lease, NoLease}
<1> DEFINE new == Rested(row)
<1>1. before \in {NoLease, old.lease} /\ old.lease # NoLease
  BY DEF RowOK
<1>2. CASE row.status = "running"
  <2>1. new = row
    BY <1>2 DEF Rested, terminal, TerminalStatuses, RestingStatuses
  <2> HIDE DEF new
  <2> QED
    <3>1. RowOK(row, open) /\ Succeeds(row, old) /\ RowStep(old, row, before)
      BY <1>1, <1>2
      DEF RowOK, Succeeds, RowStep, terminal, TerminalStatuses, RestingStatuses
    <3> QED
      BY <2>1, <3>1 DEF new
<1>3. CASE row.status # "running"
  <2>1. new = Unleased(row)
    BY <1>3 DEF Rested, terminal, TerminalStatuses, RestingStatuses
  <2> HIDE DEF new
  <2>2. /\ new \in Row /\ Kept(new, row) /\ new.lease = NoLease /\ new.leaseLive = FALSE
        /\ new.body = row.body
    BY <2>1, RowOperations
  <2>3. open = NoLease /\ new.callStarted = FALSE /\ new.status = row.status
    BY <1>3, <2>2 DEF Kept
  <2>4. RowOK(new, open) /\ Succeeds(new, old)
    BY <1>3, <2>2, <2>3 DEF RowOK, Succeeds, Kept, RestingStatuses
  <2>5. RowStep(old, new, before)
    BY <1>1, <2>2, <2>3 DEF RowStep
  <2> QED
    BY <2>2, <2>4, <2>5 DEF Kept, new
<1> QED
  BY <1>2, <1>3

\* mutateTx: the lease is this worker's and only its, so whatever becomes of the open
\* call concerns no other worker.
LEMMA MutateInv ==
  ASSUME Inv, NEW w \in Workers, work[w].pc # "idle", NEW row \in Row, NEW open \in LeaseOrNone,
         NEW next \in Worker, Mutate(w, row, open, next), OthersUnchanged,
         LET old == run[work[w].run]
         IN CanMutate(w) =>
              /\ row.saved = old.saved /\ row.proc = old.proc /\ row.body = old.body
              /\ row.lease = old.lease /\ row.leaseLive = old.leaseLive
              /\ row.status \in {"running", "succeeded", "failed"} \cup RestingStatuses
              /\ row.status = "succeeded" => work[w].pc \in Calling
              /\ \/ open = NoLease /\ row.callStarted = FALSE
                 \/ row.status = "running" /\ open = work[w].lease /\ row.callStarted = TRUE,
         next.pc # "idle" => /\ next.run = work[w].run /\ next.lease = work[w].lease
                             /\ next.pc \in Calling => open = work[w].lease
  PROVE  Inv' /\ Lawful
<1>1. CASE ~CanMutate(w)
  <2>1. Fail(w, Cause(w)) /\ UNCHANGED <<run, openCall, memory, disruptions>>
    BY <1>1 DEF Mutate
  <2> QED
    BY <2>1, CauseType, FailInv DEF OthersUnchanged
<1>2. CASE CanMutate(w)
  <2> DEFINE r == work[w].run
             old == run[r]
             new == Rested(row)
  <2>1. /\ r \in Runs /\ work[w].lease \in Leases /\ old \in Row /\ openCall[r] \in LeaseOrNone
        /\ RowOK(old, openCall[r]) /\ ProcOf[w] \in Procs /\ work \in [Workers -> Worker]
        /\ NoLease \notin Leases
    BY TypeParts, MentorAssumption DEF Inv, WorkInv, WorksOnRun, RowsOK, MentorAssumption
  <2>2. /\ old.lease = work[w].lease /\ old.leaseLive /\ old.status = "running"
        /\ old.body /\ Decodable(ProcOf[w], r)
    BY <1>2 DEF CanMutate, HoldsLease, Running
  <2>3. work[w].pc \in Calling => openCall[r] = old.lease
    BY <2>2 DEF Inv, WorkInv, CallIsOpen
  <2>4. /\ new \in Row /\ RowOK(new, open) /\ Succeeds(new, old) /\ RowStep(old, new, openCall[r])
        /\ new.body = old.body /\ new.saved = old.saved
        /\ new.proc = old.proc /\ new.lease \in {old.lease, NoLease}
    <3>1. /\ row.saved = old.saved /\ row.proc = old.proc /\ row.body = old.body
          /\ row.lease = old.lease /\ row.leaseLive = old.leaseLive
          /\ row.status \in {"running", "succeeded", "failed"} \cup RestingStatuses
          /\ row.status = "succeeded" => old.leaseLive /\ openCall[r] = old.lease
          /\ \/ open = NoLease /\ row.callStarted = FALSE
             \/ row.status = "running" /\ open = row.lease /\ row.callStarted = TRUE
      BY <1>2, <2>2, <2>3
    <3> DEFINE before == openCall[r]
    <3>2. before \in LeaseOrNone /\ RowOK(old, before)
          /\ (row.status = "succeeded" => old.leaseLive /\ before = old.lease)
      BY <2>1, <3>1
    <3> HIDE DEF before, old
    <3>3. /\ Rested(row) \in Row /\ RowOK(Rested(row), open) /\ Succeeds(Rested(row), old)
          /\ RowStep(old, Rested(row), before)
          /\ Rested(row).body = old.body /\ Rested(row).saved = old.saved
          /\ Rested(row).proc = old.proc /\ Rested(row).lease \in {old.lease, NoLease}
      BY <2>1, <2>2, <3>1, <3>2, RestedRow
    <3> QED
      BY <3>3 DEF before
  <2>5. PICK outcome \in Outcomes :
          /\ Commit(ProcOf[w], r, new, open, outcome)
          /\ IF outcome = "ok" THEN work' = [work EXCEPT ![w] = next] ELSE Fail(w, "other")
    BY <1>2 DEF Mutate
  <2> HIDE DEF new
  <2>6. /\ run' \in [Runs -> Row] /\ openCall' \in [Runs -> LeaseOrNone]
        /\ memory' \in [Procs -> Process] /\ disruptions' \in 0 .. MaxDisruptions
        /\ RowsOK' /\ NeverForged' /\ Lawful
        /\ \A t \in Runs \ {r} : run'[t] = run[t] /\ openCall'[t] = openCall[t]
        /\ IF outcome = "lost" THEN run'[r] = run[r] /\ openCall'[r] = openCall[r]
                               ELSE run'[r] = new /\ openCall'[r] = open
    BY <2>1, <2>2, <2>4, <2>5, CommitKeeps, DecodableHere
  <2>7. /\ work' \in [Workers -> Worker] /\ \A v \in Workers : v # w => work'[v] = work[v]
        /\ work'[w].pc # "idle" =>
             /\ work'[w].run = work[w].run /\ work'[w].lease = work[w].lease
             /\ work'[w].pc \in Calling => outcome = "ok" /\ open = work[w].lease
    <3>1. CASE outcome = "ok"
      BY <2>1, <2>5, <3>1
    <3>2. CASE outcome # "ok"
      <4> DEFINE f == [work[w] EXCEPT !.pc = "finish", !.cause = "other"]
      <4>1. work' = [work EXCEPT ![w] = f]
        BY <2>1, <2>5, <3>2 DEF Fail
      <4>2. f \in Worker /\ f.run = work[w].run /\ f.lease = work[w].lease /\ f.pc = "finish"
        BY <2>1 DEF Worker, Pcs
      <4> HIDE DEF f
      <4> QED
        BY <2>1, <4>1, <4>2 DEF Calling
    <3> QED
      BY <3>1, <3>2
  <2>8. WorksOnRun' /\ OneWorkerPerLease'
    <3>1. \A t \in Runs : run[t].status # "none" =>
            run'[t].status # "none" /\ run'[t].saved = run[t].saved /\ run'[t].proc = run[t].proc
      BY <2>4, <2>6 DEF Succeeds
    <3>2. WorksOnRun'
      BY <2>7, <3>1 DEF Inv, WorkInv, WorksOnRun
    <3>3. OneWorkerPerLease'
      BY <2>7 DEF Inv, WorkInv, OneWorkerPerLease
    <3> QED
      BY <3>2, <3>3
  <2>9. CallIsOpen'
    <3> SUFFICES ASSUME NEW v \in Workers, work'[v].pc \in Calling,
                        run'[work'[v].run].lease = work'[v].lease
                 PROVE  openCall'[work'[v].run] = work'[v].lease
      BY DEF CallIsOpen
    <3>1. work'[v].pc # "idle"
      BY DEF Calling
    <3>2. CASE v = w
      BY <2>1, <2>6, <2>7, <3>1, <3>2
    <3>3. CASE v # w
      <4>1. work'[v] = work[v] /\ work[v].run \in Runs /\ work[v].lease \in Leases
        BY <2>7, <3>1, <3>3 DEF Inv, WorkInv, WorksOnRun
      <4>2. work[v].lease # work[w].lease
        BY <3>1, <3>3, <4>1 DEF Inv, WorkInv, OneWorkerPerLease
      <4>3. CASE work[v].run = r
        <5>1. run'[r].lease \in {work[w].lease, NoLease}
          BY <2>2, <2>4, <2>6
        <5> QED
          BY <2>1, <4>1, <4>2, <4>3, <5>1
      <4>4. CASE work[v].run # r
        BY <2>6, <4>1, <4>4 DEF Inv, WorkInv, CallIsOpen
      <4> QED
        BY <4>3, <4>4
    <3> QED
      BY <3>2, <3>3
  <2>10. /\ context' \in [Runs -> BOOLEAN] /\ gate' \in [open : BOOLEAN, generation : Nat]
         /\ procs' \in [Procs -> [up : BOOLEAN, live : BOOLEAN]] /\ done' \subseteq Ops
    BY TypeParts DEF Inv, OthersUnchanged
  <2> QED
    BY <2>6, <2>7, <2>8, <2>9, <2>10, InvFromParts DEF WorkInv
<1> QED
  BY <1>1, <1>2

\* What the execution of a claimed run saves through mutateTx.
LEMMA ExecutionInv ==
  ASSUME Inv, NEW w \in Workers,
         \/ StartCall(w) \/ AppendAssistant(w) \/ Complete(w) \/ PauseForToolSteps(w) \/ Execute(w)
  PROVE  Inv' /\ Lawful
<1> DEFINE r == work[w].run
           old == run[r]
<1>1. work[w].pc # "idle" /\ OthersUnchanged
  BY DEF StartCall, AppendAssistant, Complete, PauseForToolSteps, Execute
<1>2. /\ r \in Runs /\ old \in Row /\ work[w] \in Worker /\ work[w].lease \in LeaseOrNone
      /\ NoLease \in LeaseOrNone
  BY <1>1, TypeParts DEF Inv, WorkInv, WorksOnRun, LeaseOrNone
<1>3. CanMutate(w) => old.status = "running"
  BY DEF CanMutate, Running
<1>4. ASSUME NEW pc \in Pcs, NEW call \in {"none", "prepared", "written_off", "sent"}
      PROVE  /\ At(w, pc, call) \in Worker /\ At(w, pc, call).pc = pc
             /\ At(w, pc, call).run = work[w].run /\ At(w, pc, call).lease = work[w].lease
  BY <1>2 DEF At, Worker
<1>5. NoWork \in Worker /\ NoWork.pc = "idle"
  BY DEF NoWork, Worker, Pcs
<1> DEFINE rec == Recorded(r)
<1>6. /\ rec \in Row /\ rec.saved = old.saved /\ rec.proc = old.proc /\ rec.body = old.body
      /\ rec.lease = old.lease /\ rec.leaseLive = old.leaseLive /\ rec.status = old.status
      /\ rec.callStarted = FALSE
  BY <1>2 DEF Recorded, Row
<1>7. ASSUME NEW row \in Row, NEW next \in Worker, Mutate(w, row, NoLease, next),
             row.saved = old.saved, row.proc = old.proc, row.body = old.body,
             row.lease = old.lease, row.leaseLive = old.leaseLive, row.callStarted = FALSE,
             row.status \in {old.status, "succeeded", "failed"} \cup RestingStatuses,
             row.status = "succeeded" => work[w].pc \in Calling \/ old.status = "succeeded",
             next.pc # "idle" => /\ next.run = work[w].run /\ next.lease = work[w].lease
                                 /\ next.pc \notin Calling
      PROVE  Inv' /\ Lawful
  <2>1. CanMutate(w) =>
          /\ row.status \in {"running", "succeeded", "failed"} \cup RestingStatuses
          /\ row.status = "succeeded" => work[w].pc \in Calling
    BY <1>3, <1>7
  <2> QED
    BY <1>1, <1>2, <1>7, <2>1, MutateInv
<1>8. CASE StartCall(w)
  <2> DEFINE row == [old EXCEPT !.requests = @ + 1, !.callStarted = TRUE]
             next == At(w, "dispatch", "prepared")
  <2>1. Mutate(w, row, work[w].lease, next)
    BY <1>8 DEF StartCall
  <2>2. /\ row \in Row /\ row.saved = old.saved /\ row.proc = old.proc /\ row.body = old.body
        /\ row.lease = old.lease /\ row.leaseLive = old.leaseLive /\ row.status = old.status
        /\ row.callStarted = TRUE
    <3> DEFINE n == old.requests + 1
    <3>1. n \in Nat /\ row = [old EXCEPT !.requests = n, !.callStarted = TRUE]
      BY <1>2 DEF Row
    <3> HIDE DEF n, row, old
    <3> QED
      BY <1>2, <3>1 DEF Row
  <2>3. next \in Worker /\ next.run = work[w].run /\ next.lease = work[w].lease
    BY <1>4 DEF Pcs
  <2> HIDE DEF row, next
  <2> QED
    BY <1>1, <1>2, <1>3, <2>1, <2>2, <2>3, MutateInv
<1>9. CASE AppendAssistant(w)
  <2> DEFINE row == [rec EXCEPT !.todo = @ \cup {"call"}]
             next == At(w, "tools", "none")
  <2>1. Mutate(w, row, NoLease, next)
    BY <1>9 DEF AppendAssistant
  <2> HIDE DEF rec
  <2>2. /\ row \in Row /\ row.saved = old.saved /\ row.proc = old.proc /\ row.body = old.body
        /\ row.lease = old.lease /\ row.leaseLive = old.leaseLive /\ row.status = old.status
        /\ row.callStarted = FALSE
    <3> DEFINE todo == rec.todo \cup {"call"}
    <3>1. todo \in SUBSET Todo /\ row = [rec EXCEPT !.todo = todo]
      BY <1>6 DEF Row, Todo
    <3> HIDE DEF todo, row
    <3> QED
      BY <1>6, <3>1 DEF Row
  <2>3. /\ next \in Worker /\ next.run = work[w].run /\ next.lease = work[w].lease
        /\ next.pc \notin Calling
    BY <1>4 DEF Pcs, Calling
  <2> HIDE DEF row, next
  <2> QED
    BY <1>7, <2>1, <2>2, <2>3
<1>10. ASSUME NEW status \in {"succeeded", "failed", "paused"}
       PROVE  LET row == [rec EXCEPT !.status = status]
              IN /\ row \in Row /\ row.saved = old.saved /\ row.proc = old.proc
                 /\ row.body = old.body /\ row.lease = old.lease
                 /\ row.leaseLive = old.leaseLive /\ row.status = status
                 /\ row.callStarted = FALSE
  <2> HIDE DEF rec
  <2>1. status \in Statuses
    BY DEF Statuses, RestingStatuses, TerminalStatuses
  <2> QED
    BY <1>6, <2>1 DEF Row
<1>11. CASE Complete(w)
  <2>1. PICK status \in {"succeeded", "failed"} :
          Mutate(w, [rec EXCEPT !.status = status], NoLease, NoWork)
    BY <1>11 DEF Complete
  <2>2. work[w].pc \in Calling
    BY <1>11 DEF Complete, Calling
  <2> DEFINE row == [rec EXCEPT !.status = status]
  <2>3. /\ row \in Row /\ row.saved = old.saved /\ row.proc = old.proc /\ row.body = old.body
        /\ row.lease = old.lease /\ row.leaseLive = old.leaseLive /\ row.status = status
        /\ row.callStarted = FALSE
    BY <1>10
  <2>4. Mutate(w, row, NoLease, NoWork)
    BY <2>1
  <2> HIDE DEF row
  <2> QED
    BY <1>5, <1>7, <2>2, <2>3, <2>4
<1>12. CASE PauseForToolSteps(w)
  <2> DEFINE row == [rec EXCEPT !.status = "paused"]
  <2>1. Mutate(w, row, NoLease, NoWork)
    BY <1>12 DEF PauseForToolSteps
  <2>2. /\ row \in Row /\ row.saved = old.saved /\ row.proc = old.proc /\ row.body = old.body
        /\ row.lease = old.lease /\ row.leaseLive = old.leaseLive /\ row.status = "paused"
        /\ row.callStarted = FALSE
    BY <1>10
  <2> HIDE DEF row
  <2> QED
    BY <1>5, <1>7, <2>1, <2>2 DEF RestingStatuses
<1>13. CASE Execute(w)
  <2> DEFINE without == [rec EXCEPT !.todo = @ \ {"call"}]
             added(asks, limit) == (IF asks THEN {"question"} ELSE {})
                                   \cup (IF limit THEN {"limit"} ELSE {})
             row(asks, limit) == [without EXCEPT !.todo = @ \cup (IF asks THEN {"question"} ELSE {})
                                                            \cup (IF limit THEN {"limit"} ELSE {})]
  <2>1. PICK asks \in BOOLEAN, limit \in BOOLEAN :
          IF asks /\ ~limit
          THEN Mutate(w, [row(asks, limit) EXCEPT !.status = "waiting"], NoLease, NoWork)
          ELSE Mutate(w, row(asks, limit), NoLease, At(w, "ready", "none"))
    BY <1>13 DEF Execute
  <2> HIDE DEF rec
  <2> DEFINE todo == (rec.todo \ {"call"}) \cup added(asks, limit)
             saved == [rec EXCEPT !.todo = todo]
  <2>2. todo \in SUBSET Todo
    BY <1>6 DEF Row, Todo
  <2>3. row(asks, limit) = saved
    BY <1>6 DEF Row
  <2> HIDE DEF todo, row, without, added
  <2>4. /\ saved \in Row /\ saved.saved = old.saved /\ saved.proc = old.proc
        /\ saved.body = old.body /\ saved.lease = old.lease /\ saved.leaseLive = old.leaseLive
        /\ saved.status = old.status /\ saved.callStarted = FALSE
    BY <1>6, <2>2 DEF Row
  <2> HIDE DEF saved
  <2>5. CASE asks /\ ~limit
    <3> DEFINE resting == [saved EXCEPT !.status = "waiting"]
    <3>1. Mutate(w, resting, NoLease, NoWork)
      BY <2>1, <2>3, <2>5
    <3>2. /\ resting \in Row /\ resting.saved = old.saved /\ resting.proc = old.proc
          /\ resting.body = old.body /\ resting.lease = old.lease
          /\ resting.leaseLive = old.leaseLive
          /\ resting.status = "waiting" /\ resting.callStarted = FALSE
      BY <2>4 DEF Row, Statuses, RestingStatuses
    <3> HIDE DEF resting
    <3> QED
      BY <1>5, <1>7, <3>1, <3>2 DEF RestingStatuses
  <2>6. CASE ~(asks /\ ~limit)
    <3> DEFINE next == At(w, "ready", "none")
    <3>1. Mutate(w, saved, NoLease, next)
      BY <2>1, <2>3, <2>6
    <3>2. /\ next \in Worker /\ next.run = work[w].run /\ next.lease = work[w].lease
          /\ next.pc \notin Calling
      BY <1>4 DEF Pcs, Calling
    <3> HIDE DEF next
    <3> QED
      BY <1>7, <2>4, <3>1, <3>2
  <2> QED
    BY <2>5, <2>6
<1> QED
  BY <1>8, <1>9, <1>11, <1>12, <1>13

-----------------------------------------------------------------------------
(* Claims, settlements and sweeps.                                         *)

\* modelusage.RecoverTx writes calls off and leaves the executions as they are.
LEMMA RecoveredWork ==
  ASSUME work \in [Workers -> Worker]
  PROVE  /\ Recovered \in [Workers -> Worker]
         /\ \A w \in Workers : /\ Recovered[w].pc = work[w].pc /\ Recovered[w].run = work[w].run
                               /\ Recovered[w].lease = work[w].lease
<1>1. ASSUME NEW w \in Workers
      PROVE  LET v == [work[w] EXCEPT !.call = "written_off"]
             IN /\ v \in Worker /\ v.pc = work[w].pc /\ v.run = work[w].run
                /\ v.lease = work[w].lease
  BY DEF Worker
<1> QED
  BY <1>1 DEF Recovered

\* A worker that settles a run leaves the work of all others as it was; the row has no
\* lease any more.
LEMMA SettleKeeps ==
  ASSUME Inv, NEW p \in Procs, NEW r \in Runs, NEW row \in Row, NEW outcome \in Outcomes,
         Commit(p, r, row, openCall[r], outcome), RowOK(row, openCall[r]),
         Succeeds(row, run[r]), RowStep(run[r], row, openCall[r]),
         row.body /\ ~row.saved => row.proc = p, row.lease = NoLease, OthersUnchanged,
         work' \in [Workers -> Worker],
         \A w \in Workers : work'[w].pc # "idle" =>
           /\ work'[w].pc = work[w].pc
           /\ work'[w].run = work[w].run /\ work'[w].lease = work[w].lease
  PROVE  Inv' /\ Lawful
<1>1. openCall[r] \in LeaseOrNone
  BY TypeParts DEF Inv
<1>2. /\ run' \in [Runs -> Row] /\ openCall' \in [Runs -> LeaseOrNone]
      /\ memory' \in [Procs -> Process] /\ disruptions' \in 0 .. MaxDisruptions
      /\ RowsOK' /\ NeverForged' /\ Lawful
      /\ \A t \in Runs \ {r} : run'[t] = run[t] /\ openCall'[t] = openCall[t]
      /\ IF outcome = "lost" THEN run'[r] = run[r] /\ openCall'[r] = openCall[r]
                             ELSE run'[r] = row /\ openCall'[r] = openCall[r]
  BY <1>1, CommitKeeps
<1>3. \A t \in Runs :
        /\ run[t].status # "none" =>
             run'[t].status # "none" /\ run'[t].saved = run[t].saved /\ run'[t].proc = run[t].proc
        /\ run'[t].lease \in {run[t].lease, NoLease}
        /\ run'[t].lease # NoLease => openCall'[t] = openCall[t]
  BY <1>2 DEF Succeeds
<1>4. WorkInv'
  BY <1>3, WorkKept
<1>5. /\ context' \in [Runs -> BOOLEAN] /\ gate' \in [open : BOOLEAN, generation : Nat]
      /\ procs' \in [Procs -> [up : BOOLEAN, live : BOOLEAN]] /\ done' \subseteq Ops
  BY TypeParts DEF Inv, OthersUnchanged
<1> QED
  BY <1>2, <1>4, <1>5, InvFromParts

\* A row without its lease and its body.
LEMMA DroppedRow ==
  ASSUME NEW row \in Row
  PROVE  LET new == Unleased(Bodiless(row))
         IN /\ new \in Row /\ Kept(new, row) /\ new.lease = NoLease /\ new.leaseLive = FALSE
            /\ new.body = FALSE
<1> DEFINE b == Bodiless(row)
<1>1. b \in Row /\ Kept(b, row) /\ b.body = FALSE
  BY RowOperations
<1> HIDE DEF b
<1>2. /\ Unleased(b) \in Row /\ Kept(Unleased(b), b) /\ Unleased(b).lease = NoLease
      /\ Unleased(b).leaseLive = FALSE /\ Unleased(b).body = b.body
  BY <1>1, RowOperations
<1>3. Kept(Unleased(b), row)
  BY <1>1, <1>2 DEF Kept
<1> QED
  BY <1>1, <1>2, <1>3 DEF b

\* The row a claim saves: settled, or running under the fresh lease without a call.
LEMMA ClaimedRowOK ==
  ASSUME Inv, NEW p \in Procs, NEW r \in Runs, NEW lease \in Leases, Claimable(p, r)
  PROVE  LET new == ClaimedRow(p, r, lease)
         IN /\ new \in Row /\ RowOK(new, openCall[r]) /\ Succeeds(new, run[r])
            /\ RowStep(run[r], new, openCall[r])
            /\ new.body /\ ~new.saved => new.proc = p
            /\ \/ new.lease = NoLease /\ new.status # "running"
               \/ new.lease = lease /\ openCall[r] = NoLease
<1> DEFINE row == run[r]
           open == openCall[r]
           new == ClaimedRow(p, r, lease)
<1>1. /\ row \in Row /\ open \in LeaseOrNone /\ RowOK(row, open) /\ NoLease \notin Leases
      /\ row.status \in {"queued", "running", "cancelling"} /\ (row.saved \/ row.proc = p)
  BY TypeParts, MentorAssumption DEF Inv, RowsOK, Claimable, MentorAssumption
<1>2. CASE ~Decodable(p, r)
  <2> DEFINE f == [row EXCEPT !.status = "failed"]
  <2>1. /\ f \in Row /\ f.status = "failed" /\ f.saved = row.saved /\ f.proc = row.proc
        /\ f.callStarted = row.callStarted /\ f.requests = row.requests
    BY <1>1 DEF Row, Statuses, TerminalStatuses
  <2>2. new = Unleased(Bodiless(f))
    BY <1>2 DEF ClaimedRow
  <2> HIDE DEF f, new
  <2>3. /\ new \in Row /\ Kept(new, f) /\ new.lease = NoLease /\ new.leaseLive = FALSE
        /\ new.body = FALSE
    BY <2>1, <2>2, DroppedRow
  <2>4. /\ new.status = "failed" /\ new.saved = row.saved /\ new.proc = row.proc
        /\ new.callStarted = row.callStarted /\ new.requests = row.requests
    BY <2>1, <2>3 DEF Kept
  <2>5. RowOK(new, open) /\ Succeeds(new, row)
    <3> HIDE DEF row, open
    <3> QED
      BY <1>1, <2>3, <2>4, SettledRow DEF TerminalStatuses
  <2>6. RowStep(row, new, open)
    BY <1>1, <2>3, <2>4 DEF RowStep, Row
  <2> QED
    BY <2>3, <2>4, <2>5, <2>6 DEF new
<1>3. CASE Decodable(p, r) /\ MustSettle(row)
  <2> DEFINE s == IF row.status = "cancelling" THEN "cancelled" ELSE "failed"
             f == [row EXCEPT !.status = s, !.resultUnknown = row.callStarted]
  <2>1. /\ s \in {"cancelled", "failed"} /\ (row.status = "cancelling" => s = "cancelled")
        /\ new = Unleased(f)
    BY <1>3 DEF ClaimedRow
  <2> HIDE DEF s
  <2>2. /\ f \in Row /\ f.status = s /\ f.saved = row.saved /\ f.proc = row.proc
        /\ f.callStarted = row.callStarted /\ f.requests = row.requests
        /\ f.resultUnknown = row.callStarted /\ f.body = row.body
    BY <1>1, <2>1 DEF Row, Statuses, TerminalStatuses
  <2> HIDE DEF f, new
  <2>3. /\ new \in Row /\ Kept(new, f) /\ new.lease = NoLease /\ new.leaseLive = FALSE
        /\ new.body = f.body
    BY <2>1, <2>2, RowOperations
  <2>4. /\ new.status = s /\ new.saved = row.saved /\ new.proc = row.proc
        /\ new.callStarted = row.callStarted /\ new.requests = row.requests
        /\ new.resultUnknown = row.callStarted /\ new.body = row.body
    BY <2>2, <2>3 DEF Kept
  <2>5. RowOK(new, open) /\ Succeeds(new, row)
    <3>1. open # NoLease => new.resultUnknown
      BY <1>1, <2>4 DEF RowOK
    <3> HIDE DEF row, open
    <3> QED
      BY <1>1, <2>1, <2>3, <2>4, <3>1, SettledRow DEF TerminalStatuses
  <2>6. RowStep(row, new, open)
    BY <1>1, <2>1, <2>3, <2>4 DEF RowStep, Row
  <2> QED
    BY <1>1, <2>1, <2>3, <2>4, <2>5, <2>6 DEF new
<1>4. CASE Decodable(p, r) /\ ~MustSettle(row)
  <2>1. new = [row EXCEPT !.status = "running", !.lease = lease, !.leaseLive = TRUE]
    BY <1>4 DEF ClaimedRow
  <2>2. /\ new \in Row /\ new.status = "running" /\ new.lease = lease /\ new.leaseLive = TRUE
        /\ new.saved = row.saved /\ new.proc = row.proc /\ new.body = row.body
        /\ new.callStarted = row.callStarted /\ new.requests = row.requests
    <3> HIDE DEF new
    <3> QED
      BY <1>1, <2>1 DEF Row, Statuses
  <2>3. open = NoLease /\ row.callStarted = FALSE /\ row.status # "cancelling"
    BY <1>1, <1>4 DEF MustSettle, RowOK, Row
  <2> HIDE DEF new
  <2>4. RowOK(new, open)
    BY <1>1, <2>2, <2>3 DEF RowOK, terminal, TerminalStatuses, RestingStatuses
  <2>5. Succeeds(new, row) /\ RowStep(row, new, open)
    BY <1>1, <2>2, <2>3 DEF Succeeds, RowStep, Row
  <2> QED
    BY <1>1, <2>2, <2>3, <2>4, <2>5 DEF new
<1> QED
  BY <1>2, <1>3, <1>4

\* Service.claim: the lease is one that no row, no open call and no worker mentions, so
\* the execution that begins is alone with it.
LEMMA ClaimInv ==
  ASSUME Inv, NEW w \in Workers, Claim(w)
  PROVE  Inv' /\ Lawful
<1> DEFINE p == ProcOf[w]
           lease == CHOOSE l \in Leases : l \notin InUse
<1>1. p \in Procs /\ work \in [Workers -> Worker] /\ NoLease \notin Leases
      /\ work[w].pc = "idle"
  BY TypeParts, MentorAssumption DEF Inv, MentorAssumption, Claim
<1>2. lease \in Leases /\ lease \notin InUse
  BY DEF Claim
<1>3. UNCHANGED <<context, gate, procs, done>>
  BY DEF Claim
<1>4. /\ Recovered \in [Workers -> Worker]
      /\ \A v \in Workers : /\ Recovered[v].pc = work[v].pc /\ Recovered[v].run = work[v].run
                            /\ Recovered[v].lease = work[v].lease
  BY <1>1, RecoveredWork
<1>5. /\ context' \in [Runs -> BOOLEAN] /\ gate' \in [open : BOOLEAN, generation : Nat]
      /\ procs' \in [Procs -> [up : BOOLEAN, live : BOOLEAN]] /\ done' \subseteq Ops
  BY <1>3, TypeParts DEF Inv
<1>6. CASE work' = Recovered /\ UNCHANGED <<run, memory, disruptions, openCall>>
  <2>1. WorkInv'
    BY <1>4, <1>6, WorkKept
  <2>2. RowsOK' /\ NeverForged' /\ run' \in [Runs -> Row] /\ memory' \in [Procs -> Process]
        /\ disruptions' \in 0 .. MaxDisruptions /\ openCall' \in [Runs -> LeaseOrNone]
    BY <1>6, TypeParts DEF Inv, RowsOK, NeverForged
  <2> QED
    BY <1>4, <1>5, <1>6, <2>1, <2>2, InvFromParts, UnchangedIsLawful
<1>7. ASSUME NEW r \in Runs, Claimable(p, r), NEW outcome \in Outcomes,
             Commit(p, r, ClaimedRow(p, r, lease), openCall[r], outcome),
             IF outcome = "ok" /\ ClaimedRow(p, r, lease).status = "running"
             THEN \E entry \in EntryPoints(r, lease) : work' = [Recovered EXCEPT ![w] = entry]
             ELSE work' = IF outcome = "lost" THEN work ELSE Recovered
      PROVE  Inv' /\ Lawful
  <2> DEFINE row == ClaimedRow(p, r, lease)
  <2> HIDE DEF lease
  <2>1. /\ row \in Row /\ RowOK(row, openCall[r]) /\ Succeeds(row, run[r])
        /\ RowStep(run[r], row, openCall[r])
        /\ row.body /\ ~row.saved => row.proc = p
        /\ \/ row.lease = NoLease /\ row.status # "running"
           \/ row.lease = lease /\ openCall[r] = NoLease
    BY <1>1, <1>2, <1>7, ClaimedRowOK
  <2>2. Commit(p, r, row, openCall[r], outcome) /\ openCall[r] \in LeaseOrNone
    BY <1>7, TypeParts DEF Inv
  <2>3. run[r].saved \/ run[r].proc = p
    BY <1>7 DEF Claimable
  <2>4. \/ /\ outcome = "ok" /\ row.status = "running"
           /\ \E entry \in EntryPoints(r, lease) : work' = [Recovered EXCEPT ![w] = entry]
        \/ work' \in {work, Recovered}
    BY <1>7
  <2> HIDE DEF row, p
  <2>5. /\ run' \in [Runs -> Row] /\ openCall' \in [Runs -> LeaseOrNone]
        /\ memory' \in [Procs -> Process] /\ disruptions' \in 0 .. MaxDisruptions
        /\ RowsOK' /\ NeverForged' /\ Lawful
        /\ \A t \in Runs \ {r} : run'[t] = run[t] /\ openCall'[t] = openCall[t]
        /\ IF outcome = "lost" THEN run'[r] = run[r] /\ openCall'[r] = openCall[r]
                               ELSE run'[r] = row /\ openCall'[r] = openCall[r]
    BY <1>1, <2>1, <2>2, CommitKeeps
  <2>6. ASSUME NEW entry \in EntryPoints(r, lease)
        PROVE  /\ entry \in Worker /\ entry.pc \notin Calling
               /\ entry.pc # "idle" => entry.run = r /\ entry.lease = lease
    <3>1. NoWork \in Worker /\ NoWork.pc = "idle"
      BY DEF NoWork, Worker, Pcs
    <3>2. ASSUME NEW pc \in {"finish", "tools", "ready"}, NEW cause \in {"none", "changed"}
          PROVE  LET e == [NoWork EXCEPT !.pc = pc, !.run = r, !.lease = lease, !.cause = cause]
                 IN e \in Worker /\ e.pc = pc /\ e.run = r /\ e.lease = lease
      BY <1>2 DEF NoWork, Worker, Pcs
    <3>3. \/ entry = NoWork
          \/ \E pc \in {"finish", "tools", "ready"}, cause \in {"none", "changed"} :
               entry = [NoWork EXCEPT !.pc = pc, !.run = r, !.lease = lease, !.cause = cause]
      BY <2>6 DEF EntryPoints
    <3>4. CASE entry = NoWork
      BY <3>1, <3>4 DEF Calling
    <3>5. CASE entry # NoWork
      <4>1. PICK pc \in {"finish", "tools", "ready"}, cause \in {"none", "changed"} :
              entry = [NoWork EXCEPT !.pc = pc, !.run = r, !.lease = lease, !.cause = cause]
        BY <3>3, <3>5
      <4>2. entry \in Worker /\ entry.pc = pc /\ entry.run = r /\ entry.lease = lease
        BY <3>2, <4>1
      <4> QED
        BY <4>2 DEF Calling
    <3> QED
      BY <3>4, <3>5
  <2>7. /\ work' \in [Workers -> Worker]
        /\ \A v \in Workers : work'[v].pc # "idle" =>
             \/ /\ work[v].pc # "idle" /\ work'[v].pc = work[v].pc
                /\ work'[v].run = work[v].run /\ work'[v].lease = work[v].lease
             \/ /\ v = w /\ outcome = "ok" /\ work'[v].run = r /\ work'[v].lease = lease
                /\ work'[v].pc \notin Calling
    <3>1. CASE work' \in {work, Recovered}
      BY <1>1, <1>4, <3>1
    <3>2. CASE outcome = "ok" /\ \E entry \in EntryPoints(r, lease) : work' = [Recovered EXCEPT ![w] = entry]
      <4>1. PICK entry \in EntryPoints(r, lease) : work' = [Recovered EXCEPT ![w] = entry]
        BY <3>2
      <4>2. /\ entry \in Worker /\ entry.pc \notin Calling
            /\ entry.pc # "idle" => entry.run = r /\ entry.lease = lease
        BY <2>6
      <4> QED
        BY <1>4, <3>2, <4>1, <4>2
    <3> QED
      BY <2>4, <3>1, <3>2
  <2>8. /\ \A v \in Workers : work[v].lease # lease
        /\ \A t \in Runs : run[t].lease # lease
    BY <1>2 DEF InUse
  <2>9. WorksOnRun'
    <3>1. \A t \in Runs : run[t].status # "none" =>
            run'[t].status # "none" /\ run'[t].saved = run[t].saved /\ run'[t].proc = run[t].proc
      BY <2>1, <2>5 DEF Succeeds
    <3>2. outcome = "ok" => /\ run'[r].status # "none"
                            /\ run'[r].saved \/ run'[r].proc = ProcOf[w]
      BY <2>1, <2>3, <2>5 DEF Succeeds, p
    <3> QED
      BY <1>2, <2>7, <3>1, <3>2 DEF Inv, WorkInv, WorksOnRun
  <2>10. OneWorkerPerLease'
    BY <2>7, <2>8 DEF Inv, WorkInv, OneWorkerPerLease
  <2>11. CallIsOpen'
    <3> SUFFICES ASSUME NEW v \in Workers, work'[v].pc \in Calling,
                        run'[work'[v].run].lease = work'[v].lease
                 PROVE  openCall'[work'[v].run] = work'[v].lease
      BY DEF CallIsOpen
    <3>1. /\ work[v].pc \in Calling /\ work[v].pc # "idle"
          /\ work'[v].run = work[v].run /\ work'[v].lease = work[v].lease
      BY <2>7 DEF Calling
    <3>2. work[v].run \in Runs /\ work[v].lease \in Leases
      BY <3>1 DEF Inv, WorkInv, WorksOnRun
    <3>3. openCall'[work[v].run] = openCall[work[v].run]
      BY <2>5, <3>2
    <3>4. run[work[v].run].lease = work[v].lease
      BY <1>1, <2>1, <2>5, <2>8, <3>1, <3>2
    <3> QED
      BY <3>1, <3>3, <3>4 DEF Inv, WorkInv, CallIsOpen
  <2> QED
    BY <1>5, <2>5, <2>7, <2>9, <2>10, <2>11, InvFromParts DEF WorkInv
<1>8. \/ work' = Recovered /\ UNCHANGED <<run, memory, disruptions, openCall>>
      \/ \E r \in Runs, outcome \in Outcomes :
           /\ Claimable(p, r)
           /\ Commit(p, r, ClaimedRow(p, r, lease), openCall[r], outcome)
           /\ IF outcome = "ok" /\ ClaimedRow(p, r, lease).status = "running"
              THEN \E entry \in EntryPoints(r, lease) : work' = [Recovered EXCEPT ![w] = entry]
              ELSE work' = IF outcome = "lost" THEN work ELSE Recovered
  BY DEF Claim
<1> QED
  BY <1>6, <1>7, <1>8

\* finish: it settles the run under this worker's lease or leaves it alone; the process
\* is the one that holds the body.
LEMMA FinishInv ==
  ASSUME Inv, NEW w \in Workers, Finish(w)
  PROVE  Inv' /\ Lawful
<1> DEFINE p == ProcOf[w]
           r == work[w].run
           old == run[r]
           row == IF Decodable(p, r) THEN old ELSE Bodiless(old)
           open == openCall[r]
<1>1. /\ p \in Procs /\ work \in [Workers -> Worker] /\ work[w].pc = "finish"
      /\ OthersUnchanged /\ work' = [work EXCEPT ![w] = NoWork]
  BY TypeParts, MentorAssumption DEF Inv, MentorAssumption, Finish
<1>2. /\ r \in Runs /\ old \in Row /\ open \in LeaseOrNone /\ RowOK(old, open)
      /\ old.status # "none" /\ (old.saved \/ old.proc = p)
  BY <1>1, TypeParts DEF Inv, RowsOK, WorkInv, WorksOnRun
<1>3. /\ work' \in [Workers -> Worker]
      /\ \A v \in Workers : work'[v].pc # "idle" =>
           /\ work'[v].pc = work[v].pc
           /\ work'[v].run = work[v].run /\ work'[v].lease = work[v].lease
  <2>1. NoWork \in Worker /\ NoWork.pc = "idle"
    BY DEF NoWork, Worker, Pcs
  <2> QED
    BY <1>1, <2>1
<1>4. CASE \E outcome \in Outcomes : Commit(p, r, Finished(row, work[w].cause), open, outcome)
           /\ ~terminal(old.status)
  <2> DEFINE s == IF row.status = "cancelling" \/ work[w].cause = "changed"
                  THEN "cancelled" ELSE "failed"
             unknown == row.resultUnknown \/ row.callStarted
             f == [row EXCEPT !.status = s, !.resultUnknown = unknown]
             new == Finished(row, work[w].cause)
  <2>1. PICK outcome \in Outcomes : Commit(p, r, new, open, outcome)
    BY <1>4
  <2>2. row \in Row /\ Kept(row, old) /\ (row.body => old.body)
    <3>1. CASE Decodable(p, r)
      BY <1>2, <3>1 DEF Kept
    <3>2. CASE ~Decodable(p, r)
      <4> HIDE DEF old
      <4>1. Bodiless(old) \in Row /\ Kept(Bodiless(old), old) /\ Bodiless(old).body = FALSE
        BY <1>2, RowOperations
      <4> QED
        BY <3>2, <4>1
    <3> QED
      BY <3>1, <3>2
  <2> HIDE DEF row
  <2>3. new = Unleased(f)
    BY <2>2 DEF Finished, Row
  <2>4. /\ s \in {"cancelled", "failed"} /\ (row.status = "cancelling" => s = "cancelled")
        /\ unknown \in BOOLEAN /\ (row.callStarted => unknown)
    BY <2>2 DEF Row
  <2> HIDE DEF s, unknown
  <2>5. /\ f \in Row /\ f.status = s /\ f.saved = row.saved /\ f.proc = row.proc
        /\ f.callStarted = row.callStarted /\ f.requests = row.requests
        /\ f.resultUnknown = unknown /\ f.body = row.body
    BY <2>2, <2>4 DEF Row, Statuses, TerminalStatuses
  <2> HIDE DEF f, new
  <2>6. /\ new \in Row /\ Kept(new, f) /\ new.lease = NoLease /\ new.leaseLive = FALSE
        /\ new.body = f.body
    BY <2>3, <2>5, RowOperations
  <2>7. /\ new.status = s /\ new.saved = old.saved /\ new.proc = old.proc
        /\ new.callStarted = old.callStarted /\ new.requests = old.requests
        /\ new.resultUnknown = unknown /\ (new.body => old.body)
        /\ (old.status = "cancelling" => s = "cancelled") /\ (old.callStarted => unknown)
    BY <2>2, <2>4, <2>5, <2>6 DEF Kept
  <2>8. RowOK(new, open) /\ Succeeds(new, old)
    <3>1. open # NoLease => new.resultUnknown
      BY <1>2, <2>7 DEF RowOK
    <3> HIDE DEF old, open
    <3> QED
      BY <1>2, <2>4, <2>6, <2>7, <3>1, SettledRow DEF TerminalStatuses
  <2>9. RowStep(old, new, open)
    BY <1>2, <2>4, <2>6, <2>7 DEF RowStep, Row
  <2>10. new.body /\ ~new.saved => new.proc = p
    BY <1>2, <2>7
  <2> HIDE DEF p, r
  <2> QED
    BY <1>1, <1>2, <1>3, <2>1, <2>6, <2>8, <2>9, <2>10, SettleKeeps
<1>5. CASE memory' \in {memory, Drop(p, r)} /\ UNCHANGED <<run, disruptions, openCall>>
  <2>1. memory \in [Procs -> Process]
    BY TypeParts DEF Inv
  <2>2. /\ memory' \in [Procs -> Process]
        /\ \A q \in Procs, t \in Runs : memory'[q].bodies[t] = "forged" =>
             memory[q].bodies[t] = "forged"
    <3>1. CASE memory' = memory
      BY <2>1, <3>1
    <3>2. CASE memory' = Drop(p, r)
      BY <1>1, <1>2, <2>1, <3>2 DEF Drop, Process, Entries
    <3> QED
      BY <1>5, <3>1, <3>2
  <2>3. RowsOK' /\ NeverForged'
    BY <1>5, <2>2 DEF Inv, RowsOK, NeverForged
  <2>4. WorkInv'
    BY <1>3, <1>5, WorkKept
  <2>5. /\ context' \in [Runs -> BOOLEAN] /\ gate' \in [open : BOOLEAN, generation : Nat]
        /\ procs' \in [Procs -> [up : BOOLEAN, live : BOOLEAN]] /\ done' \subseteq Ops
        /\ run' \in [Runs -> Row] /\ disruptions' \in 0 .. MaxDisruptions
        /\ openCall' \in [Runs -> LeaseOrNone]
    BY <1>1, <1>5, TypeParts DEF Inv, OthersUnchanged
  <2> QED
    BY <1>3, <1>5, <2>2, <2>3, <2>4, <2>5, InvFromParts, UnchangedIsLawful
<1>6. \/ /\ ~terminal(old.status)
         /\ \E outcome \in Outcomes : Commit(p, r, Finished(row, work[w].cause), open, outcome)
      \/ memory' \in {memory, Drop(p, r)} /\ UNCHANGED <<run, disruptions, openCall>>
  BY DEF Finish
<1> QED
  BY <1>4, <1>5, <1>6

\* Sweep: the swept runs lose body and lease, so no entry is read for them again.
LEMMA SweepInv ==
  ASSUME Inv, NEW p \in Procs, Sweep(p)
  PROVE  Inv' /\ Lawful
<1> DEFINE swept == {r \in Runs : Sweepable(p, r)}
<1>1. /\ run \in [Runs -> Row] /\ memory \in [Procs -> Process] /\ work \in [Workers -> Worker]
      /\ gate.generation \in Nat /\ procs \in [Procs -> [up : BOOLEAN, live : BOOLEAN]]
      /\ openCall \in [Runs -> LeaseOrNone]
  BY TypeParts DEF Inv
<1>2. /\ NoBodies \in [Runs -> Entries] /\ \A r \in Runs : NoBodies[r] # "forged"
  BY DEF NoBodies, Entries
<1>3. UNCHANGED <<context, gate, done, disruptions, openCall>>
  BY DEF Sweep
<1>4. /\ context' \in [Runs -> BOOLEAN] /\ gate' \in [open : BOOLEAN, generation : Nat]
      /\ done' \subseteq Ops /\ disruptions' \in 0 .. MaxDisruptions
      /\ openCall' \in [Runs -> LeaseOrNone]
  BY <1>3, TypeParts DEF Inv
<1>5. CASE ~gate.open
  <2>1. memory' = [memory EXCEPT ![p].bodies = NoBodies] /\ UNCHANGED <<run, procs, work>>
    BY <1>5 DEF Sweep
  <2>2. /\ memory' \in [Procs -> Process]
        /\ \A q \in Procs, t \in Runs : memory'[q].bodies[t] = "forged" =>
             memory[q].bodies[t] = "forged"
    BY <1>1, <1>2, <2>1 DEF Process
  <2>3. RowsOK' /\ NeverForged'
    BY <1>3, <2>1, <2>2 DEF Inv, RowsOK, NeverForged
  <2>4. WorkInv'
    BY <1>1, <1>3, <2>1, WorkKept
  <2> QED
    BY <1>1, <1>4, <2>1, <2>2, <2>3, <2>4, InvFromParts, UnchangedIsLawful
<1>6. CASE gate.open
  <2>1. /\ run' = [r \in Runs |-> IF r \in swept THEN Swept(run[r]) ELSE run[r]]
        /\ memory' = [q \in Procs |->
             IF q = p THEN [generation |-> gate.generation, bodies |-> Released(p, swept)]
             ELSE [memory[q] EXCEPT !.bodies = [r \in Runs |->
                     IF r \in swept THEN Overtaken(@[r]) ELSE @[r]]]]
        /\ procs' = [procs EXCEPT ![p].live = TRUE]
        /\ work' = Recovered
    BY <1>6 DEF Sweep
  <2>2. ASSUME NEW r \in swept
        PROVE  /\ Swept(run[r]) \in Row /\ RowOK(Swept(run[r]), openCall[r])
               /\ Succeeds(Swept(run[r]), run[r]) /\ RowStep(run[r], Swept(run[r]), openCall[r])
               /\ Swept(run[r]).body = FALSE /\ Swept(run[r]).lease = NoLease
    <3> DEFINE row == run[r]
               open == openCall[r]
               s == IF terminal(row.status) THEN row.status ELSE "failed"
               unknown == row.resultUnknown \/ row.callStarted
               f == [row EXCEPT !.status = s, !.resultUnknown = unknown]
               new == Swept(row)
    <3>1. row \in Row /\ open \in LeaseOrNone /\ RowOK(row, open) /\ row.body
      BY <1>1 DEF Inv, RowsOK, Sweepable
    <3>2. row.status # "none"
      BY <3>1 DEF RowOK, NoRow
    <3>3. new = Unleased(Bodiless(f))
      BY <3>1 DEF Swept, Row
    <3>4. /\ s \in TerminalStatuses /\ s \in Statuses /\ unknown \in BOOLEAN
          /\ (row.status # "succeeded" => s # "succeeded")
          /\ (row.status = "cancelling" => s = "failed")
      BY <3>1 DEF terminal, TerminalStatuses, Statuses, Row
    <3> HIDE DEF s, unknown
    <3>5. /\ f \in Row /\ f.status = s /\ f.saved = row.saved /\ f.proc = row.proc
          /\ f.callStarted = row.callStarted /\ f.requests = row.requests
      BY <3>1, <3>4 DEF Row
    <3> HIDE DEF f, new
    <3>6. /\ new \in Row /\ Kept(new, f) /\ new.lease = NoLease /\ new.leaseLive = FALSE
          /\ new.body = FALSE
      BY <3>3, <3>5, DroppedRow
    <3>7. /\ new.status = s /\ new.saved = row.saved /\ new.proc = row.proc
          /\ new.callStarted = row.callStarted /\ new.requests = row.requests
      BY <3>5, <3>6 DEF Kept
    <3>8. RowOK(new, open) /\ Succeeds(new, row)
      <4> HIDE DEF row, open
      <4> QED
        BY <3>1, <3>2, <3>4, <3>6, <3>7, SettledRow
    <3>9. RowStep(row, new, open)
      BY <3>1, <3>4, <3>6, <3>7 DEF RowStep, Row
    <3> QED
      BY <3>6, <3>8, <3>9 DEF new
  <2>3. /\ run' \in [Runs -> Row]
        /\ \A r \in Runs : r \in swept => run'[r] = Swept(run[r])
        /\ \A r \in Runs : r \notin swept => run'[r] = run[r]
    BY <1>1, <2>1, <2>2
  <2>4. RowsOK'
    BY <1>3, <2>2, <2>3 DEF Inv, RowsOK
  <2>5. Lawful
    <3>1. \A t \in Runs : RowStep(run[t], run[t], openCall[t])
      BY <1>1 DEF RowStep, Row
    <3> QED
      BY <2>2, <2>3, <3>1 DEF Lawful
  <2>6. /\ memory' \in [Procs -> Process]
        /\ \A q \in Procs, t \in Runs : t \notin swept /\ memory'[q].bodies[t] = "forged" =>
             memory[q].bodies[t] = "forged"
    <3> DEFINE mine == [generation |-> gate.generation, bodies |-> Released(p, swept)]
               theirs(q) == [r \in Runs |-> IF r \in swept THEN Overtaken(memory[q].bodies[r])
                                            ELSE memory[q].bodies[r]]
               other(q) == [memory[q] EXCEPT !.bodies = theirs(q)]
    <3> HIDE DEF swept
    <3>1. mine \in Process
          /\ \A t \in Runs : mine.bodies[t] = "forged" => memory[p].bodies[t] = "forged"
      BY <1>1 DEF Process, Released, Entries
    <3>2. ASSUME NEW q \in Procs
          PROVE  /\ other(q) \in Process
                 /\ \A t \in Runs : t \notin swept => other(q).bodies[t] = memory[q].bodies[t]
      <4>1. \A r \in Runs : Overtaken(memory[q].bodies[r]) \in Entries
        BY <1>1 DEF Overtaken, Entries, Process
      <4>2. theirs(q) \in [Runs -> Entries]
            /\ \A t \in Runs : t \notin swept => theirs(q)[t] = memory[q].bodies[t]
        BY <1>1, <4>1 DEF Process
      <4> HIDE DEF theirs
      <4> QED
        BY <1>1, <4>2 DEF Process
    <3>3. memory' = [q \in Procs |-> IF q = p THEN mine ELSE other(q)]
      BY <1>1, <2>1 DEF Process
    <3> HIDE DEF mine, other
    <3> QED
      BY <3>1, <3>2, <3>3
  <2>7. NeverForged'
    <3> SUFFICES ASSUME NEW t \in Runs, run'[t].body, ~run'[t].saved
                 PROVE  run'[t].proc \in Procs /\ memory'[run'[t].proc].bodies[t] # "forged"
      BY DEF NeverForged
    <3>1. t \notin swept /\ run'[t] = run[t]
      BY <2>2, <2>3
    <3>2. run[t].proc \in Procs /\ memory[run[t].proc].bodies[t] # "forged"
      BY <3>1 DEF Inv, NeverForged
    <3> QED
      BY <2>6, <3>1, <3>2
  <2>8. work' \in [Workers -> Worker]
        /\ \A w \in Workers : /\ work'[w].pc = work[w].pc /\ work'[w].run = work[w].run
                              /\ work'[w].lease = work[w].lease
    BY <1>1, <2>1, RecoveredWork
  <2>9. WorkInv'
    <3>1. \A r \in Runs :
            /\ run[r].status # "none" =>
                 run'[r].status # "none" /\ run'[r].saved = run[r].saved /\ run'[r].proc = run[r].proc
            /\ run'[r].lease \in {run[r].lease, NoLease}
      BY <2>2, <2>3 DEF Succeeds
    <3> QED
      BY <1>3, <2>8, <3>1, WorkKept
  <2>10. procs' \in [Procs -> [up : BOOLEAN, live : BOOLEAN]]
    BY <1>1, <2>1
  <2> QED
    BY <1>4, <2>3, <2>4, <2>5, <2>6, <2>7, <2>8, <2>9, <2>10, InvFromParts
<1> QED
  BY <1>5, <1>6

-----------------------------------------------------------------------------
(* Erasure and the surroundings.                                           *)

\* Steps that change no row, no worker and no body.
LEMMA OutsideInv ==
  ASSUME Inv,
         \/ CloseLearning \/ OpenLearning
         \/ \E r \in Runs : ContextChanges(r)
         \/ \E p \in Procs : LivenessLapses(p)
  PROVE  Inv' /\ Lawful
<1>1. /\ UNCHANGED <<run, memory, work, done, openCall>>
      /\ context' \in [Runs -> BOOLEAN] /\ gate' \in [open : BOOLEAN, generation : Nat]
      /\ procs' \in [Procs -> [up : BOOLEAN, live : BOOLEAN]]
      /\ disruptions' \in 0 .. MaxDisruptions
  <2>1. /\ context \in [Runs -> BOOLEAN] /\ gate \in [open : BOOLEAN, generation : Nat]
        /\ procs \in [Procs -> [up : BOOLEAN, live : BOOLEAN]]
        /\ disruptions \in 0 .. MaxDisruptions /\ MaxDisruptions \in Nat
    BY TypeParts, MentorAssumption DEF Inv, MentorAssumption
  <2>2. CASE CloseLearning
    BY <2>1, <2>2 DEF CloseLearning
  <2>3. CASE OpenLearning
    BY <2>1, <2>3 DEF OpenLearning
  <2>4. CASE \E r \in Runs : ContextChanges(r)
    BY <2>1, <2>4 DEF ContextChanges, Disruption
  <2>5. CASE \E p \in Procs : LivenessLapses(p)
    <3>1. PICK p \in Procs : LivenessLapses(p)
      BY <2>5
    <3>2. procs' = [procs EXCEPT ![p].live = FALSE]
          /\ UNCHANGED <<run, context, gate, memory, work, done, openCall>>
      BY <3>1 DEF LivenessLapses
    <3>3. procs' \in [Procs -> [up : BOOLEAN, live : BOOLEAN]]
      BY <2>1, <3>2
    <3>4. disruptions' \in 0 .. MaxDisruptions
      BY <2>1, <3>1 DEF LivenessLapses, Disruption
    <3> QED
      BY <2>1, <3>2, <3>3, <3>4
  <2> QED
    BY <2>2, <2>3, <2>4, <2>5
<1>2. /\ run' \in [Runs -> Row] /\ memory' \in [Procs -> Process]
      /\ work' \in [Workers -> Worker] /\ done' \subseteq Ops
      /\ openCall' \in [Runs -> LeaseOrNone]
  BY <1>1, TypeParts DEF Inv
<1>3. RowsOK' /\ NeverForged'
  BY <1>1 DEF Inv, RowsOK, NeverForged
<1>4. WorkInv'
  BY <1>1, <1>2, WorkKept
<1> QED
  BY <1>1, <1>2, <1>3, <1>4, InvFromParts, UnchangedIsLawful

\* The erasure settles every run and forgets its open call.
LEMMA ScrubInv ==
  ASSUME Inv, ScrubLearning
  PROVE  Inv' /\ Lawful
<1>1. /\ run \in [Runs -> Row] /\ run' = [r \in Runs |-> Scrubbed(run[r])]
      /\ openCall' = [r \in Runs |-> NoLease]
      /\ UNCHANGED <<context, gate, procs, memory, work, done, disruptions>>
  BY TypeParts DEF Inv, ScrubLearning
<1>2. ASSUME NEW r \in Runs
      PROVE  LET new == Scrubbed(run[r])
             IN /\ new \in Row /\ RowOK(new, NoLease) /\ RowStep(run[r], new, openCall[r])
                /\ new.body = FALSE /\ new.lease = NoLease
                /\ run[r].status # "none" => Succeeds(new, run[r])
  <2> DEFINE row == run[r]
             new == Scrubbed(row)
  <2>1. row \in Row /\ RowOK(row, openCall[r])
    BY <1>1 DEF Inv, RowsOK
  <2>2. CASE row.status = "none"
    <3>1. new = row /\ row = NoRow
      BY <2>1, <2>2 DEF RowOK, Scrubbed
    <3>2. NoRow \in Row /\ RowOK(NoRow, NoLease) /\ RowStep(NoRow, NoRow, openCall[r])
      BY <2>1, <3>1 DEF RowOK, NoRow, RowStep, terminal, TerminalStatuses, RestingStatuses
    <3> HIDE DEF new, row
    <3> QED
      BY <2>2, <3>1, <3>2 DEF NoRow, new, row
  <2>3. CASE row.status # "none"
    <3> DEFINE c == [row EXCEPT !.status = "cancelled", !.callStarted = FALSE]
    <3>1. /\ c \in Row /\ c.status = "cancelled" /\ c.saved = row.saved /\ c.proc = row.proc
          /\ c.callStarted = FALSE /\ c.requests = row.requests
      BY <2>1 DEF Row, Statuses, TerminalStatuses
    <3>2. new = Unleased(Bodiless(c))
      BY <2>3 DEF Scrubbed
    <3> HIDE DEF c, new
    <3>3. /\ new \in Row /\ Kept(new, c) /\ new.lease = NoLease /\ new.leaseLive = FALSE
          /\ new.body = FALSE
      BY <3>1, <3>2, DroppedRow
    <3>4. /\ new.status = "cancelled" /\ new.saved = row.saved /\ new.proc = row.proc
          /\ new.callStarted = FALSE /\ new.requests = row.requests
      BY <3>1, <3>3 DEF Kept
    <3>5. RowOK(new, NoLease) /\ Succeeds(new, row)
      BY <3>3, <3>4 DEF RowOK, Succeeds, terminal, TerminalStatuses, RestingStatuses
    <3>6. RowStep(row, new, openCall[r])
      BY <2>1, <3>3, <3>4 DEF RowStep, Row
    <3> QED
      BY <3>3, <3>5, <3>6 DEF new
  <2> QED
    BY <2>2, <2>3
<1>3. /\ run' \in [Runs -> Row] /\ openCall' \in [Runs -> LeaseOrNone]
      /\ \A r \in Runs : run'[r] = Scrubbed(run[r]) /\ openCall'[r] = NoLease
  BY <1>1, <1>2 DEF LeaseOrNone
<1>4. RowsOK' /\ NeverForged' /\ Lawful
  BY <1>2, <1>3 DEF RowsOK, NeverForged, Lawful
<1>5. /\ context' \in [Runs -> BOOLEAN] /\ gate' \in [open : BOOLEAN, generation : Nat]
      /\ procs' \in [Procs -> [up : BOOLEAN, live : BOOLEAN]] /\ memory' \in [Procs -> Process]
      /\ work' \in [Workers -> Worker] /\ done' \subseteq Ops
      /\ disruptions' \in 0 .. MaxDisruptions
  BY <1>1, TypeParts DEF Inv
<1>6. WorkInv'
  <2>1. \A r \in Runs :
          /\ run[r].status # "none" =>
               run'[r].status # "none" /\ run'[r].saved = run[r].saved /\ run'[r].proc = run[r].proc
          /\ run'[r].lease = NoLease
    BY <1>2, <1>3 DEF Succeeds
  <2> QED
    BY <1>1, <1>5, <2>1, WorkKept
<1> QED
  BY <1>3, <1>4, <1>5, <1>6, InvFromParts

\* Time passes for one run.
LEMMA TimeInv ==
  ASSUME Inv, NEW r \in Runs, LeaseExpires(r) \/ RunExpires(r)
  PROVE  Inv' /\ Lawful
<1> DEFINE row == run[r]
           new == run'[r]
<1>1. /\ run \in [Runs -> Row] /\ RowOK(row, openCall[r])
      /\ UNCHANGED <<context, gate, procs, memory, work, done, openCall>>
      /\ row.status # "none"
  BY TypeParts DEF Inv, RowsOK, RowOK, NoRow, LeaseExpires, RunExpires
<1>2. disruptions' \in 0 .. MaxDisruptions
  BY TypeParts, MentorAssumption DEF Inv, LeaseExpires, RunExpires, Disruption, MentorAssumption
<1>3. \/ run' = [run EXCEPT ![r].leaseLive = FALSE]
      \/ run' = [run EXCEPT ![r].expired = TRUE]
  BY DEF LeaseExpires, RunExpires
<1>4. /\ run' \in [Runs -> Row] /\ \A t \in Runs \ {r} : run'[t] = run[t]
      /\ new.status = row.status /\ new.saved = row.saved /\ new.proc = row.proc
      /\ new.lease = row.lease /\ (new.leaseLive => row.leaseLive) /\ new.body = row.body
      /\ new.callStarted = row.callStarted /\ new.requests = row.requests
      /\ new.resultUnknown = row.resultUnknown
  <2>1. CASE run' = [run EXCEPT ![r].leaseLive = FALSE]
    BY <1>1, <2>1 DEF Row
  <2>2. CASE run' = [run EXCEPT ![r].expired = TRUE]
    BY <1>1, <2>2 DEF Row
  <2> QED
    BY <1>3, <2>1, <2>2
<1>5. RowOK(new, openCall[r])
  BY <1>1, <1>4 DEF RowOK
<1>6. RowsOK' /\ NeverForged'
  BY <1>1, <1>4, <1>5 DEF Inv, RowsOK, NeverForged
<1>7. Lawful
  BY <1>1, <1>4 DEF Lawful, RowStep, Row
<1>8. /\ context' \in [Runs -> BOOLEAN] /\ gate' \in [open : BOOLEAN, generation : Nat]
      /\ procs' \in [Procs -> [up : BOOLEAN, live : BOOLEAN]] /\ memory' \in [Procs -> Process]
      /\ work' \in [Workers -> Worker] /\ done' \subseteq Ops
      /\ openCall' \in [Runs -> LeaseOrNone]
  BY <1>1, TypeParts DEF Inv
<1>9. WorkInv'
  BY <1>1, <1>4, <1>8, WorkKept
<1> QED
  BY <1>2, <1>4, <1>6, <1>7, <1>8, <1>9, InvFromParts

\* A crash takes the bodies and the executions of the process.
LEMMA CrashInv ==
  ASSUME Inv, NEW p \in Procs, Crash(p)
  PROVE  Inv' /\ Lawful
<1>1. /\ memory \in [Procs -> Process] /\ work \in [Workers -> Worker]
      /\ memory' = [memory EXCEPT ![p].bodies = NoBodies]
      /\ work' = [w \in Workers |-> IF ProcOf[w] = p THEN NoWork ELSE work[w]]
      /\ UNCHANGED <<run, context, gate, done, openCall>>
  BY TypeParts DEF Inv, Crash
<1>2. disruptions' \in 0 .. MaxDisruptions /\ procs' \in [Procs -> [up : BOOLEAN, live : BOOLEAN]]
  <2>1. /\ procs \in [Procs -> [up : BOOLEAN, live : BOOLEAN]]
        /\ procs' = [procs EXCEPT ![p].up = FALSE]
        /\ disruptions \in 0 .. MaxDisruptions /\ MaxDisruptions \in Nat /\ Disruption
    BY TypeParts, MentorAssumption DEF Inv, Crash, MentorAssumption
  <2>2. procs' \in [Procs -> [up : BOOLEAN, live : BOOLEAN]]
    BY <2>1
  <2>3. disruptions' \in 0 .. MaxDisruptions
    BY <2>1 DEF Disruption
  <2> QED
    BY <2>2, <2>3
<1>3. /\ NoBodies \in [Runs -> Entries] /\ \A r \in Runs : NoBodies[r] # "forged"
  BY DEF NoBodies, Entries
<1>4. /\ memory' \in [Procs -> Process]
      /\ \A q \in Procs, t \in Runs : memory'[q].bodies[t] = "forged" =>
           memory[q].bodies[t] = "forged"
  BY <1>1, <1>3 DEF Process
<1>5. NoWork \in Worker /\ NoWork.pc = "idle"
  BY DEF NoWork, Worker, Pcs
<1>6. /\ work' \in [Workers -> Worker]
      /\ \A w \in Workers : work'[w].pc # "idle" => work'[w] = work[w]
  BY <1>1, <1>5
<1>7. RowsOK' /\ NeverForged'
  BY <1>1, <1>4 DEF Inv, RowsOK, NeverForged
<1>8. WorkInv'
  BY <1>1, <1>6, WorkKept
<1>9. /\ run' \in [Runs -> Row] /\ context' \in [Runs -> BOOLEAN]
      /\ gate' \in [open : BOOLEAN, generation : Nat] /\ done' \subseteq Ops
      /\ openCall' \in [Runs -> LeaseOrNone]
  BY <1>1, TypeParts DEF Inv
<1> QED
  BY <1>1, <1>2, <1>4, <1>6, <1>7, <1>8, <1>9, InvFromParts, UnchangedIsLawful

-----------------------------------------------------------------------------
(* The specification.                                                      *)

LEMMA InitInv ==
  Init => Inv
<1> SUFFICES ASSUME Init
             PROVE  Inv
  OBVIOUS
<1>1. NoRow \in Row /\ RowOK(NoRow, NoLease) /\ NoRow.body = FALSE
  <2>1. NoRow \in Row
    BY DEF NoRow, Row, Statuses, NoLease
  <2> QED
    BY <2>1 DEF NoRow, RowOK, terminal, TerminalStatuses, RestingStatuses
<1>2. /\ run = [r \in Runs |-> NoRow] /\ openCall = [r \in Runs |-> NoLease]
      /\ work = [w \in Workers |-> NoWork]
      /\ memory = [p \in Procs |-> [generation |-> 0, bodies |-> NoBodies]]
  BY DEF Init
<1>3. NoWork \in Worker /\ NoWork.pc = "idle"
  BY DEF NoWork, Worker, Pcs
<1>4. /\ run \in [Runs -> Row] /\ openCall \in [Runs -> LeaseOrNone]
      /\ work \in [Workers -> Worker] /\ memory \in [Procs -> Process]
  <2>1. [generation |-> 0, bodies |-> NoBodies] \in Process
    BY DEF Process, NoBodies, Entries
  <2> QED
    BY <1>1, <1>2, <1>3, <2>1 DEF LeaseOrNone
<1>5. /\ context \in [Runs -> BOOLEAN] /\ gate \in [open : BOOLEAN, generation : Nat]
      /\ procs \in [Procs -> [up : BOOLEAN, live : BOOLEAN]] /\ done \subseteq Ops
      /\ disruptions \in 0 .. MaxDisruptions
  BY MentorAssumption DEF Init, MentorAssumption
<1>6. RowsOK /\ NeverForged
  BY <1>1, <1>2 DEF RowsOK, NeverForged
<1>7. WorkInv
  BY <1>2, <1>3 DEF WorkInv, WorksOnRun, OneWorkerPerLease, CallIsOpen, Calling
<1>8. TypeOK
  BY <1>4, <1>5, <1>6, TypeParts DEF RowsOK, RowOK
<1> QED
  BY <1>6, <1>7, <1>8 DEF Inv

LEMMA InvStep ==
  Inv /\ [Next]_vars => Inv' /\ Lawful
<1> SUFFICES ASSUME Inv, [Next]_vars
             PROVE  Inv' /\ Lawful
  OBVIOUS
<1>1. CASE UNCHANGED vars
  <2>1. TypeOK'
    BY <1>1 DEF vars, Inv, TypeOK
  <2>2. Inv'
    BY <1>1, <2>1 DEF vars, Inv, RowsOK, NeverForged, WorkInv, WorksOnRun, OneWorkerPerLease,
                      CallIsOpen
  <2> QED
    BY <1>1, <2>2, UnchangedIsLawful DEF vars
<1>2. CASE Next
  <2>1. CASE \E p \in Entry, r \in Runs, saved \in SavedModes : Create(p, r, saved)
    BY <2>1, CreateInv
  <2>2. CASE \E p \in Procs, op \in Ops, r \in Runs : CommandStep(p, op, r)
    BY <2>2, CommandInv
  <2>3. ASSUME NEW w \in Workers, WorkerStep(w)
        PROVE  Inv' /\ Lawful
    BY <2>3, ClaimInv, QuietStepInv, ExecutionInv, FinishInv DEF WorkerStep
  <2>4. CASE \E p \in Procs : Sweep(p) \/ LivenessLapses(p) \/ Crash(p)
    BY <2>4, SweepInv, OutsideInv, CrashInv
  <2>5. CASE CloseLearning \/ ScrubLearning \/ OpenLearning
    BY <2>5, OutsideInv, ScrubInv
  <2>6. CASE \E r \in Runs : LeaseExpires(r) \/ RunExpires(r) \/ ContextChanges(r)
    BY <2>6, OutsideInv, TimeInv
  <2> QED
    BY <1>2, <2>1, <2>2, <2>3, <2>4, <2>5, <2>6 DEF Next
<1> QED
  BY <1>1, <1>2

LEMMA InvHolds ==
  Spec => []Inv
BY InitInv, InvStep, PTL DEF Spec

-----------------------------------------------------------------------------
(* What is sent for a run that is being cancelled.                         *)

\* A settled row without its body: nothing brings such a run back.
Over(row) == terminal(row.status) /\ ~row.body

\* A call that is prepared in the ledger is about to be sent, or its execution has
\* failed; its worker still holds the run's lease unless the run is over, for whoever
\* takes the lease over writes the call off (RecoverTx) in the same transaction.
PreparedHolds ==
  \A w \in Workers : work[w].call = "prepared" =>
    /\ work[w].pc \in {"dispatch", "finish"}
    /\ run[work[w].run].lease = work[w].lease \/ Over(run[work[w].run])

\* A step keeps PreparedHolds and sends only from Dispatch.
PreparedStep == PreparedHolds' /\ \A w \in Workers : Sends(w) => work[w].pc = "dispatch"

\* A row keeps its lease, or the run is over after the step.
LeaseKept(old, new) == (new.lease = old.lease /\ (Over(old) => Over(new))) \/ Over(new)

\* The workers begin no call and send none, and those with a prepared call find the
\* lease as it was.
LEMMA PreparedKept ==
  ASSUME Inv, PreparedHolds,
         \A w \in Workers : work'[w].call = "prepared" =>
           /\ work[w].call = "prepared" /\ work'[w].run = work[w].run
           /\ work'[w].lease = work[w].lease /\ work'[w].pc \in {"dispatch", "finish"}
           /\ LeaseKept(run[work[w].run], run'[work[w].run]),
         \A w \in Workers : Sends(w) => work[w].pc = "dispatch"
  PROVE  PreparedStep
<1> SUFFICES ASSUME NEW w \in Workers, work'[w].call = "prepared"
             PROVE  /\ work'[w].pc \in {"dispatch", "finish"}
                    /\ run'[work'[w].run].lease = work'[w].lease \/ Over(run'[work'[w].run])
  BY DEF PreparedStep, PreparedHolds
<1>1. run[work[w].run].lease = work[w].lease \/ Over(run[work[w].run])
  BY DEF PreparedHolds
<1> QED
  BY <1>1 DEF LeaseKept

\* A prepared call belongs to a run; that run is executed under its worker's lease or
\* is over.
LEMMA PreparedRun ==
  ASSUME Inv, PreparedHolds, NEW w \in Workers, work[w].call = "prepared"
  PROVE  /\ work[w].pc \in {"dispatch", "finish"} /\ work[w].pc # "idle"
         /\ work[w].run \in Runs
         /\ \/ run[work[w].run].lease = work[w].lease
               /\ run[work[w].run].status \in {"running", "cancelling"}
            \/ Over(run[work[w].run])
<1>1. work[w].pc # "idle" /\ work[w].pc \in {"dispatch", "finish"}
  BY DEF PreparedHolds
<1>2. work[w].run \in Runs /\ work[w].lease \in Leases /\ NoLease \notin Leases
  BY <1>1, MentorAssumption DEF Inv, WorkInv, WorksOnRun, MentorAssumption
<1>3. RowOK(run[work[w].run], openCall[work[w].run])
  BY <1>2 DEF Inv, RowsOK
<1> QED
  BY <1>1, <1>2, <1>3 DEF PreparedHolds, RowOK

\* No other worker has a prepared call for the run whose lease this one holds.
LEMMA PreparedAlone ==
  ASSUME Inv, PreparedHolds, NEW w \in Workers, work[w].pc # "idle",
         run[work[w].run].lease = work[w].lease, ~terminal(run[work[w].run].status),
         NEW v \in Workers \ {w}, work[v].call = "prepared"
  PROVE  work[v].run # work[w].run
<1>1. work[v].pc # "idle" /\ (run[work[v].run].lease = work[v].lease \/ Over(run[work[v].run]))
  BY PreparedRun
<1>2. work[v].lease # work[w].lease
  BY <1>1 DEF Inv, WorkInv, OneWorkerPerLease
<1> QED
  BY <1>1, <1>2 DEF Over

\* A step that touches no worker and takes no lease without settling its run.
LEMMA PreparedRows ==
  ASSUME Inv, PreparedHolds, work' = work,
         \A r \in Runs : LeaseKept(run[r], run'[r])
  PROVE  PreparedStep
<1>1. \A w \in Workers : ~Sends(w)
  BY DEF Sends
<1>2. \A w \in Workers : work[w].call = "prepared" =>
        work[w].pc \in {"dispatch", "finish"} /\ work[w].run \in Runs
  BY PreparedRun
<1> QED
  BY <1>1, <1>2, PreparedKept

LEMMA SameLease ==
  \A row : LeaseKept(row, row)
BY DEF LeaseKept

\* A command keeps the lease, or settles the run and drops its body.
LEMMA PreparedCommand ==
  ASSUME Inv, PreparedHolds, NEW p \in Procs, NEW op \in Ops, NEW r \in Runs,
         CommandStep(p, op, r)
  PROVE  PreparedStep
<1>1. run \in [Runs -> Row]
  BY TypeParts DEF Inv
<1>2. ASSUME NEW row, NEW open, CommandTail(p, op, r, row, open), LeaseKept(run[r], row)
      PROVE  PreparedStep
  <2>1. PICK outcome \in Outcomes : Commit(p, r, row, open, outcome)
    BY <1>2 DEF CommandTail
  <2>2. work' = work /\ (run' = run \/ run' = [run EXCEPT ![r] = row])
    BY <1>2, <2>1 DEF CommandTail, Commit
  <2>3. \A t \in Runs : LeaseKept(run[t], run'[t])
    BY <1>1, <1>2, <2>2, SameLease
  <2> QED
    BY <2>2, <2>3, PreparedRows
<1>3. CASE Stop(p, op, r)
  <2>1. CASE terminal(run[r].status) \/ run[r].status = "cancelling"
    BY <1>3, <2>1, PreparedRows, SameLease DEF Stop
  <2>2. CASE ~(terminal(run[r].status) \/ run[r].status = "cancelling")
    <3> DEFINE new == [run[r] EXCEPT !.status = IF @ = "running" THEN "cancelling" ELSE "cancelled"]
    <3>1. CommandTail(p, op, r, new, openCall[r])
      BY <1>3, <2>2 DEF Stop
    <3>2. new.lease = run[r].lease
      BY <1>1 DEF Row
    <3>3. LeaseKept(run[r], new)
      BY <2>2, <3>2 DEF LeaseKept, Over
    <3> HIDE DEF new
    <3> QED
      BY <1>2, <3>1, <3>3
  <2> QED
    BY <2>1, <2>2
<1>4. CASE Clear(p, op, r)
  <2> DEFINE c == [run[r] EXCEPT !.status = "cancelled"]
             new == Unleased(Bodiless(c))
  <2>1. CommandTail(p, op, r, new, openCall[r])
    BY <1>4 DEF Clear
  <2>2. c \in Row /\ c.status = "cancelled"
    BY <1>1 DEF Row, Statuses, TerminalStatuses
  <2> HIDE DEF c
  <2>3. new.status = "cancelled" /\ new.body = FALSE
    BY <2>2, DroppedRow DEF Kept
  <2>4. LeaseKept(run[r], new)
    BY <2>3 DEF LeaseKept, Over, terminal, TerminalStatuses
  <2> HIDE DEF new
  <2> QED
    BY <1>2, <2>1, <2>4
<1>5. CASE Respond(p, op, r)
  <2> DEFINE new == [run[r] EXCEPT !.status = "queued", !.todo = @ \ {"question"}]
  <2>1. CommandTail(p, op, r, new, openCall[r]) /\ run[r].body
    BY <1>5 DEF Respond, CanContinue
  <2>2. new.lease = run[r].lease
    BY <1>1 DEF Row
  <2>3. LeaseKept(run[r], new)
    BY <2>1, <2>2 DEF LeaseKept, Over
  <2> HIDE DEF new
  <2> QED
    BY <1>2, <2>1, <2>3
<1>6. CASE Resume(p, op, r)
  <2>1. CommandTail(p, op, r, Requeued(run[r]), openCall[r]) /\ run[r].body
    BY <1>6 DEF Resume, CanContinue
  <2>2. Requeued(run[r]).lease = run[r].lease
    BY <1>1 DEF Row, Requeued
  <2>3. LeaseKept(run[r], Requeued(run[r]))
    BY <2>1, <2>2 DEF LeaseKept, Over
  <2> QED
    BY <1>2, <2>1, <2>3
<1>7. CASE RetryStart(p, op, r)
  <2> DEFINE new == [Requeued(run[r]) EXCEPT !.callStarted = FALSE, !.resultUnknown = FALSE]
  <2>1. CommandTail(p, op, r, new, NoLease) /\ run[r].body
    BY <1>7 DEF RetryStart, CanContinue
  <2>2. new.lease = run[r].lease
    BY <1>1 DEF Row, Requeued
  <2>3. LeaseKept(run[r], new)
    BY <2>1, <2>2 DEF LeaseKept, Over
  <2> HIDE DEF new
  <2> QED
    BY <1>2, <2>1, <2>3
<1> QED
  BY <1>3, <1>4, <1>5, <1>6, <1>7 DEF CommandStep

LEMMA PreparedCreate ==
  ASSUME Inv, PreparedHolds, NEW p \in Entry, NEW r \in Runs, NEW saved \in SavedModes,
         Create(p, r, saved)
  PROVE  PreparedStep
<1> DEFINE row == [NoRow EXCEPT !.status = "queued", !.saved = saved, !.proc = p,
                                !.generation = gate.generation, !.body = TRUE]
<1>1. run \in [Runs -> Row] /\ run[r].status = "none" /\ RowOK(run[r], openCall[r])
  BY TypeParts DEF Inv, Create, RowsOK
<1>2. work' = work /\ (run' = run \/ run' = [run EXCEPT ![r] = row])
  BY DEF Create
<1>3. row.lease = NoLease /\ run[r].lease = NoLease
  BY <1>1 DEF NoRow, RowOK
<1>4. LeaseKept(run[r], row)
  BY <1>1, <1>3 DEF LeaseKept, Over, terminal, TerminalStatuses
<1> HIDE DEF row
<1>5. \A t \in Runs : LeaseKept(run[t], run'[t])
  BY <1>1, <1>2, <1>4, SameLease
<1> QED
  BY <1>2, <1>5, PreparedRows

\* The erasure, time and the steps that touch no row.
LEMMA PreparedOutside ==
  ASSUME Inv, PreparedHolds,
         \/ CloseLearning \/ OpenLearning \/ ScrubLearning
         \/ \E r \in Runs : LeaseExpires(r) \/ RunExpires(r) \/ ContextChanges(r)
         \/ \E p \in Procs : LivenessLapses(p)
  PROVE  PreparedStep
<1>1. run \in [Runs -> Row]
  BY TypeParts DEF Inv
<1>2. work' = work
  BY DEF CloseLearning, OpenLearning, ScrubLearning, LeaseExpires, RunExpires, ContextChanges,
         LivenessLapses
<1>3. CASE ScrubLearning
  <2>1. ASSUME NEW t \in Runs
        PROVE  LeaseKept(run[t], Scrubbed(run[t]))
    <3>1. CASE run[t].status = "none"
      BY <3>1, SameLease DEF Scrubbed
    <3>2. CASE run[t].status # "none"
      <4> DEFINE c == [run[t] EXCEPT !.status = "cancelled", !.callStarted = FALSE]
      <4>1. c \in Row /\ c.status = "cancelled"
        BY <1>1 DEF Row, Statuses, TerminalStatuses
      <4>2. Scrubbed(run[t]) = Unleased(Bodiless(c))
        BY <3>2 DEF Scrubbed
      <4> HIDE DEF c
      <4>3. Scrubbed(run[t]).status = "cancelled" /\ Scrubbed(run[t]).body = FALSE
        BY <4>1, <4>2, DroppedRow DEF Kept
      <4> QED
        BY <4>3 DEF LeaseKept, Over, terminal, TerminalStatuses
    <3> QED
      BY <3>1, <3>2
  <2>2. \A t \in Runs : LeaseKept(run[t], run'[t])
    BY <1>3, <2>1 DEF ScrubLearning
  <2> QED
    BY <1>2, <2>2, PreparedRows
<1>4. CASE \E r \in Runs : LeaseExpires(r) \/ RunExpires(r)
  <2>1. PICK r \in Runs : \/ run' = [run EXCEPT ![r].leaseLive = FALSE]
                          \/ run' = [run EXCEPT ![r].expired = TRUE]
    BY <1>4 DEF LeaseExpires, RunExpires
  <2>2. \A t \in Runs : /\ run'[t].lease = run[t].lease /\ run'[t].status = run[t].status
                        /\ run'[t].body = run[t].body
    BY <1>1, <2>1 DEF Row
  <2>3. \A t \in Runs : LeaseKept(run[t], run'[t])
    BY <2>2 DEF LeaseKept, Over
  <2> QED
    BY <1>2, <2>3, PreparedRows
<1>5. CASE run' = run
  BY <1>2, <1>5, PreparedRows, SameLease
<1> QED
  BY <1>3, <1>4, <1>5 DEF CloseLearning, OpenLearning, ContextChanges, LivenessLapses

\* RecoverTx writes off what no live lease covers, and sends nothing.
LEMMA RecoveredCalls ==
  ASSUME Inv
  PROVE  \A w \in Workers :
           /\ Recovered[w].run = work[w].run /\ Recovered[w].lease = work[w].lease
           /\ Recovered[w].pc = work[w].pc
           /\ Recovered[w].call = "prepared" => work[w].call = "prepared" /\ Covered(w)
           /\ work[w].call = "prepared" => Recovered[w].call # "sent"
<1>1. work \in [Workers -> Worker]
  BY TypeParts DEF Inv
<1>2. ASSUME NEW w \in Workers
      PROVE  [work[w] EXCEPT !.call = "written_off"].call = "written_off"
  BY <1>1 DEF Worker
<1> QED
  BY <1>1, <1>2, RecoveredWork DEF Recovered

LEMMA PreparedSweep ==
  ASSUME Inv, PreparedHolds, NEW p \in Procs, Sweep(p)
  PROVE  PreparedStep
<1> DEFINE swept == {r \in Runs : Sweepable(p, r)}
<1>1. run \in [Runs -> Row]
  BY TypeParts DEF Inv
<1>2. CASE ~gate.open
  BY <1>2, PreparedRows, SameLease DEF Sweep
<1>3. CASE gate.open
  <2>1. /\ run' = [r \in Runs |-> IF r \in swept THEN Swept(run[r]) ELSE run[r]]
        /\ work' = Recovered
    BY <1>3 DEF Sweep
  <2>2. ASSUME NEW t \in Runs
        PROVE  LeaseKept(run[t], Swept(run[t]))
    <3> DEFINE s == IF terminal(run[t].status) THEN run[t].status ELSE "failed"
               unknown == run[t].resultUnknown \/ run[t].callStarted
               f == [run[t] EXCEPT !.status = s, !.resultUnknown = unknown]
    <3>1. s \in TerminalStatuses /\ unknown \in BOOLEAN
      BY <1>1 DEF terminal, TerminalStatuses, Row
    <3>2. Swept(run[t]) = Unleased(Bodiless(f))
      BY <1>1 DEF Swept, Row
    <3> HIDE DEF s, unknown
    <3>3. f \in Row /\ f.status = s
      BY <1>1, <3>1 DEF Row, Statuses
    <3> HIDE DEF f
    <3>4. Swept(run[t]).status = s /\ Swept(run[t]).body = FALSE
      BY <3>2, <3>3, DroppedRow DEF Kept
    <3> QED
      BY <3>1, <3>4 DEF LeaseKept, Over, terminal
  <2>3. \A t \in Runs : LeaseKept(run[t], run'[t])
    BY <2>1, <2>2, SameLease
  <2>4. \A w \in Workers : ~Sends(w)
    BY <2>1, RecoveredCalls DEF Sends
  <2>5. ASSUME NEW w \in Workers, work'[w].call = "prepared"
        PROVE  /\ work[w].call = "prepared" /\ work'[w].run = work[w].run
               /\ work'[w].lease = work[w].lease /\ work'[w].pc \in {"dispatch", "finish"}
               /\ LeaseKept(run[work[w].run], run'[work[w].run])
    <3>1. /\ work[w].call = "prepared" /\ work'[w].run = work[w].run
          /\ work'[w].lease = work[w].lease /\ work'[w].pc = work[w].pc
      BY <2>1, <2>5, RecoveredCalls
    <3>2. work[w].pc \in {"dispatch", "finish"} /\ work[w].run \in Runs
      BY <3>1, PreparedRun
    <3> QED
      BY <2>3, <3>1, <3>2
  <2> QED
    BY <2>4, <2>5, PreparedKept
<1> QED
  BY <1>2, <1>3

LEMMA PreparedCrash ==
  ASSUME Inv, PreparedHolds, NEW p \in Procs, Crash(p)
  PROVE  PreparedStep
<1>1. run' = run /\ work' = [w \in Workers |-> IF ProcOf[w] = p THEN NoWork ELSE work[w]]
  BY DEF Crash
<1>2. NoWork.call = "none"
  BY DEF NoWork
<1>3. \A w \in Workers : ~Sends(w)
  BY <1>1, <1>2 DEF Sends
<1>4. \A w \in Workers : work'[w].call = "prepared" => work'[w] = work[w]
  BY <1>1, <1>2
<1>5. \A w \in Workers : work[w].call = "prepared" => work[w].pc \in {"dispatch", "finish"}
  BY PreparedRun
<1> QED
  BY <1>1, <1>3, <1>4, <1>5, PreparedKept, SameLease

\* A claim finds no prepared call on a queued run, and writes off the one of the lease it
\* takes over.
LEMMA PreparedClaim ==
  ASSUME Inv, PreparedHolds, NEW w \in Workers, Claim(w)
  PROVE  PreparedStep
<1> DEFINE p == ProcOf[w]
           lease == CHOOSE l \in Leases : l \notin InUse
<1>1. run \in [Runs -> Row] /\ work \in [Workers -> Worker]
  BY TypeParts DEF Inv
<1>2. CASE work' = work /\ run' = run
  BY <1>2, PreparedRows, SameLease
<1>3. ASSUME NEW entries, entries \subseteq Worker,
             \A e \in entries : e.call = "none",
             \/ work' = Recovered
             \/ \E e \in entries : work' = [Recovered EXCEPT ![w] = e]
      PROVE  /\ \A v \in Workers : ~Sends(v)
             /\ \A v \in Workers : work'[v].call = "prepared" => work'[v] = Recovered[v]
  <2>1. Recovered \in [Workers -> Worker]
    BY <1>1, RecoveredWork
  <2>2. \A v \in Workers : work'[v] = Recovered[v] \/ work'[v].call = "none"
    BY <1>3, <2>1
  <2> QED
    BY <2>2, RecoveredCalls DEF Sends
<1>4. ASSUME NEW r \in Runs, Claimable(p, r), NEW row,
             run' = run \/ run' = [run EXCEPT ![r] = row],
             \A v \in Workers : ~Sends(v),
             \A v \in Workers : work'[v].call = "prepared" => work'[v] = Recovered[v]
      PROVE  PreparedStep
  <2>1. ASSUME NEW v \in Workers, work'[v].call = "prepared"
        PROVE  /\ work[v].call = "prepared" /\ work'[v].run = work[v].run
               /\ work'[v].lease = work[v].lease /\ work'[v].pc \in {"dispatch", "finish"}
               /\ LeaseKept(run[work[v].run], run'[work[v].run])
    <3>1. /\ work[v].call = "prepared" /\ work'[v].run = work[v].run
          /\ work'[v].lease = work[v].lease /\ work'[v].pc = work[v].pc /\ Covered(v)
      BY <1>4, <2>1, RecoveredCalls
    <3>2. work[v].pc \in {"dispatch", "finish"} /\ work[v].run \in Runs
      BY <3>1, PreparedRun
    <3>3. work[v].run # r
      BY <1>4, <3>1 DEF Covered, HoldsLease, Claimable
    <3>4. run'[work[v].run] = run[work[v].run]
      BY <1>1, <1>4, <3>2, <3>3
    <3> QED
      BY <3>1, <3>2, <3>4, SameLease
  <2> QED
    BY <1>4, <2>1, PreparedKept
<1>5. CASE work' = Recovered /\ run' = run
  <2>1. ASSUME NEW v \in Workers, work'[v].call = "prepared"
        PROVE  /\ work[v].call = "prepared" /\ work'[v].run = work[v].run
               /\ work'[v].lease = work[v].lease /\ work'[v].pc \in {"dispatch", "finish"}
    BY <1>5, <2>1, RecoveredCalls, PreparedRun
  <2>2. \A v \in Workers : ~Sends(v)
    BY <1>5, RecoveredCalls DEF Sends
  <2> QED
    BY <1>5, <2>1, <2>2, PreparedKept, SameLease
<1>6. ASSUME NEW r \in Runs, Claimable(p, r), NEW outcome \in Outcomes,
             Commit(p, r, ClaimedRow(p, r, lease), openCall[r], outcome),
             IF outcome = "ok" /\ ClaimedRow(p, r, lease).status = "running"
             THEN \E entry \in EntryPoints(r, lease) : work' = [Recovered EXCEPT ![w] = entry]
             ELSE work' = IF outcome = "lost" THEN work ELSE Recovered
      PROVE  PreparedStep
  <2>1. lease \in Leases
    BY DEF Claim
  <2>2. run' = run \/ run' = [run EXCEPT ![r] = ClaimedRow(p, r, lease)]
    BY <1>6 DEF Commit
  <2>3. outcome = "lost" => run' = run /\ work' = work
    BY <1>6 DEF Commit
  <2>4. outcome # "lost" =>
          \/ work' = Recovered
          \/ \E e \in EntryPoints(r, lease) : work' = [Recovered EXCEPT ![w] = e]
    BY <1>6
  <2> HIDE DEF lease
  <2>5. EntryPoints(r, lease) \subseteq Worker /\ \A e \in EntryPoints(r, lease) : e.call = "none"
    <3>1. NoWork \in Worker /\ NoWork.call = "none"
      BY DEF NoWork, Worker, Pcs
    <3>2. ASSUME NEW pc \in {"finish", "tools", "ready"}, NEW cause \in {"none", "changed"}
          PROVE  LET e == [NoWork EXCEPT !.pc = pc, !.run = r, !.lease = lease, !.cause = cause]
                 IN e \in Worker /\ e.call = "none"
      BY <2>1 DEF NoWork, Worker, Pcs
    <3>3. \A e \in EntryPoints(r, lease) :
            \/ e = NoWork
            \/ \E pc \in {"finish", "tools", "ready"}, cause \in {"none", "changed"} :
                 e = [NoWork EXCEPT !.pc = pc, !.run = r, !.lease = lease, !.cause = cause]
      BY DEF EntryPoints
    <3> QED
      BY <3>1, <3>2, <3>3
  <2>6. CASE outcome = "lost"
    BY <1>2, <2>3, <2>6
  <2>7. CASE outcome # "lost"
    <3>1. /\ \A v \in Workers : ~Sends(v)
          /\ \A v \in Workers : work'[v].call = "prepared" => work'[v] = Recovered[v]
      BY <1>3, <2>4, <2>5, <2>7
    <3> QED
      BY <1>4, <1>6, <2>2, <3>1
  <2> QED
    BY <2>6, <2>7
<1>7. \/ work' = Recovered /\ UNCHANGED <<run, memory, disruptions, openCall>>
      \/ \E r \in Runs, outcome \in Outcomes :
           /\ Claimable(p, r)
           /\ Commit(p, r, ClaimedRow(p, r, lease), openCall[r], outcome)
           /\ IF outcome = "ok" /\ ClaimedRow(p, r, lease).status = "running"
              THEN \E entry \in EntryPoints(r, lease) : work' = [Recovered EXCEPT ![w] = entry]
              ELSE work' = IF outcome = "lost" THEN work ELSE Recovered
  BY DEF Claim
<1> QED
  BY <1>5, <1>6, <1>7

\* A failed execution keeps its call as it is.
LEMMA FailedWork ==
  ASSUME Inv, NEW w \in Workers, NEW cause, Fail(w, cause)
  PROVE  /\ \A v \in Workers \ {w} : work'[v] = work[v]
         /\ work'[w].pc = "finish" /\ work'[w].run = work[w].run
         /\ work'[w].lease = work[w].lease /\ work'[w].call = work[w].call
BY TypeParts DEF Inv, Fail, Worker

\* A step of one worker that changes no row and begins no call.
LEMMA PreparedWork ==
  ASSUME Inv, PreparedHolds, NEW w \in Workers, run' = run,
         \A v \in Workers \ {w} : work'[v] = work[v],
         work'[w].call = "prepared" =>
           /\ work[w].call = "prepared" /\ work'[w].pc = "finish"
           /\ work'[w].run = work[w].run /\ work'[w].lease = work[w].lease,
         Sends(w) => work[w].pc = "dispatch"
  PROVE  PreparedStep
<1>1. \A v \in Workers : Sends(v) => work[v].pc = "dispatch"
  BY DEF Sends
<1>2. \A v \in Workers : work'[v].call = "prepared" =>
        /\ work[v].call = "prepared" /\ work'[v].run = work[v].run
        /\ work'[v].lease = work[v].lease /\ work'[v].pc \in {"dispatch", "finish"}
        /\ LeaseKept(run[work[v].run], run'[work[v].run])
  BY PreparedRun, SameLease
<1> QED
  BY <1>1, <1>2, PreparedKept

LEMMA PreparedFail ==
  ASSUME Inv, PreparedHolds, NEW w \in Workers, run' = run, NEW cause, Fail(w, cause)
  PROVE  PreparedStep
BY FailedWork, PreparedWork DEF Sends

LEMMA PreparedQuiet ==
  ASSUME Inv, PreparedHolds, NEW w \in Workers,
         \/ Dispatch(w) \/ ModelAnswers(w) \/ CompatibilityRetry(w)
         \/ ModelFails(w) \/ Reconfigured(w) \/ RenewalFails(w)
  PROVE  PreparedStep
<1>1. run' = run /\ work \in [Workers -> Worker]
  BY TypeParts DEF Inv, Dispatch, ModelAnswers, CompatibilityRetry, ModelFails, Reconfigured,
                   RenewalFails
<1>2. ASSUME NEW pc, NEW call, work' = [work EXCEPT ![w] = At(w, pc, call)], call # "prepared",
             call = "sent" => work[w].pc = "dispatch"
      PROVE  PreparedStep
  <2>1. At(w, pc, call).call = call
    BY <1>1 DEF At, Worker
  <2>2. (\A v \in Workers \ {w} : work'[v] = work[v]) /\ work'[w].call = call
    BY <1>1, <1>2, <2>1
  <2> QED
    BY <1>1, <1>2, <2>2, PreparedWork DEF Sends
<1>3. CASE Dispatch(w)
  BY <1>1, <1>2, <1>3, PreparedFail DEF Dispatch
<1>4. CASE ModelAnswers(w) \/ CompatibilityRetry(w)
  BY <1>2, <1>4 DEF ModelAnswers, CompatibilityRetry
<1>5. CASE ModelFails(w) \/ Reconfigured(w) \/ RenewalFails(w)
  BY <1>1, <1>5, PreparedFail DEF ModelFails, Reconfigured, RenewalFails
<1> QED
  BY <1>3, <1>4, <1>5

\* mutateTx: it gives up the lease of its own run only, on which no other worker has a
\* prepared call; what it prepares is under that lease.
LEMMA PreparedMutate ==
  ASSUME Inv, PreparedHolds, NEW w \in Workers, work[w].pc \in {"ready", "answered", "tools"},
         NEW row, NEW open, NEW next, Mutate(w, row, open, next),
         next.call \in {"none", "prepared"},
         CanMutate(w) /\ next.call = "prepared" =>
           /\ next.pc = "dispatch" /\ next.run = work[w].run /\ next.lease = work[w].lease
           /\ Rested(row).lease = work[w].lease
  PROVE  PreparedStep
<1>1. run \in [Runs -> Row] /\ work \in [Workers -> Worker] /\ work[w].run \in Runs
  BY TypeParts DEF Inv, WorkInv, WorksOnRun
<1>2. work[w].call # "prepared"
  BY DEF PreparedHolds
<1>3. CASE ~CanMutate(w)
  BY <1>3, PreparedFail DEF Mutate
<1>4. CASE CanMutate(w)
  <2>1. PICK outcome \in Outcomes :
          /\ Commit(ProcOf[w], work[w].run, Rested(row), open, outcome)
          /\ IF outcome = "ok" THEN work' = [work EXCEPT ![w] = next] ELSE Fail(w, "other")
    BY <1>4 DEF Mutate
  <2>2. /\ run[work[w].run].lease = work[w].lease /\ ~terminal(run[work[w].run].status)
        /\ work[w].pc # "idle"
    BY <1>4 DEF CanMutate, HoldsLease, Running, terminal, TerminalStatuses
  <2>3. run' = IF outcome = "lost" THEN run ELSE [run EXCEPT ![work[w].run] = Rested(row)]
    BY <2>1 DEF Commit
  <2>4. /\ \A v \in Workers \ {w} : work'[v] = work[v]
        /\ work'[w].call = "prepared" =>
             /\ work'[w].pc = "dispatch" /\ work'[w].run = work[w].run
             /\ work'[w].lease = work[w].lease /\ outcome = "ok"
             /\ Rested(row).lease = work[w].lease
    <3>1. CASE outcome = "ok"
      BY <1>1, <1>4, <2>1, <3>1
    <3>2. CASE outcome # "ok"
      BY <1>2, <2>1, <3>2, FailedWork
    <3> QED
      BY <3>1, <3>2
  <2>5. \A v \in Workers : ~Sends(v)
    BY <1>2, <2>4 DEF Sends
  <2>6. ASSUME NEW v \in Workers, work'[v].call = "prepared"
        PROVE  /\ work'[v].pc \in {"dispatch", "finish"}
               /\ run'[work'[v].run].lease = work'[v].lease \/ Over(run'[work'[v].run])
    <3>1. CASE v = w
      BY <1>1, <2>3, <2>4, <2>6, <3>1
    <3>2. CASE v # w
      <4>1. work'[v] = work[v] /\ work[v].call = "prepared"
        BY <2>4, <2>6, <3>2
      <4>2. work[v].run # work[w].run /\ work[v].run \in Runs
        BY <2>2, <3>2, <4>1, PreparedAlone, PreparedRun
      <4>3. run'[work[v].run] = run[work[v].run]
        BY <1>1, <2>3, <4>2
      <4> QED
        BY <4>1, <4>3 DEF PreparedHolds
    <3> QED
      BY <3>1, <3>2
  <2> QED
    BY <2>5, <2>6 DEF PreparedStep, PreparedHolds
<1> QED
  BY <1>3, <1>4

LEMMA PreparedExecution ==
  ASSUME Inv, PreparedHolds, NEW w \in Workers,
         \/ StartCall(w) \/ AppendAssistant(w) \/ Complete(w) \/ PauseForToolSteps(w)
         \/ Execute(w)
  PROVE  PreparedStep
<1>1. work \in [Workers -> Worker] /\ run \in [Runs -> Row]
  BY TypeParts DEF Inv
<1>2. ASSUME NEW pc, NEW call
      PROVE  /\ At(w, pc, call).call = call /\ At(w, pc, call).pc = pc
             /\ At(w, pc, call).run = work[w].run /\ At(w, pc, call).lease = work[w].lease
  BY <1>1 DEF At, Worker
<1>3. NoWork.call = "none"
  BY DEF NoWork
<1>4. ASSUME NEW row, NEW open, NEW next, next \in {NoWork, At(w, "tools", "none"), At(w, "ready", "none")},
             Mutate(w, row, open, next), work[w].pc \in {"ready", "answered", "tools"}
      PROVE  PreparedStep
  BY <1>2, <1>3, <1>4, PreparedMutate
<1>5. CASE StartCall(w)
  <2> DEFINE row == [run[work[w].run] EXCEPT !.requests = @ + 1, !.callStarted = TRUE]
             next == At(w, "dispatch", "prepared")
  <2>1. Mutate(w, row, work[w].lease, next) /\ work[w].pc = "ready"
    BY <1>5 DEF StartCall
  <2>2. CanMutate(w) => Rested(row).lease = work[w].lease
    <3> SUFFICES ASSUME CanMutate(w)
                 PROVE  Rested(row).lease = work[w].lease
      OBVIOUS
    <3>1. /\ work[w].run \in Runs /\ run[work[w].run].lease = work[w].lease
          /\ run[work[w].run].status = "running"
      BY <2>1 DEF CanMutate, HoldsLease, Running, Inv, WorkInv, WorksOnRun
    <3>2. row.status = "running" /\ row.lease = work[w].lease
      BY <1>1, <3>1 DEF Row
    <3> HIDE DEF row
    <3> QED
      BY <3>2 DEF Rested, terminal, TerminalStatuses, RestingStatuses
  <2>3. /\ next.call = "prepared" /\ next.pc = "dispatch"
        /\ next.run = work[w].run /\ next.lease = work[w].lease
    BY <1>2
  <2> HIDE DEF row, next
  <2> QED
    BY <2>1, <2>2, <2>3, PreparedMutate
<1>6. CASE AppendAssistant(w)
  BY <1>4, <1>6 DEF AppendAssistant
<1>7. CASE Complete(w)
  BY <1>4, <1>7 DEF Complete
<1>8. CASE PauseForToolSteps(w)
  BY <1>4, <1>8 DEF PauseForToolSteps
<1>9. CASE Execute(w)
  <2>1. work[w].pc = "tools"
    BY <1>9 DEF Execute
  <2>2. \E row, next : /\ Mutate(w, row, NoLease, next)
                       /\ next \in {NoWork, At(w, "ready", "none")}
    BY <1>9 DEF Execute
  <2> QED
    BY <1>4, <2>1, <2>2
<1> QED
  BY <1>5, <1>6, <1>7, <1>8, <1>9

\* finish settles the run of its own lease and forgets its work.
LEMMA PreparedFinish ==
  ASSUME Inv, PreparedHolds, NEW w \in Workers, Finish(w)
  PROVE  PreparedStep
<1>1. run \in [Runs -> Row] /\ work \in [Workers -> Worker] /\ work[w].pc = "finish"
  BY TypeParts DEF Inv, Finish
<1>2. NoWork.call = "none" /\ work' = [work EXCEPT ![w] = NoWork]
  BY DEF NoWork, Finish
<1>3. (\A v \in Workers \ {w} : work'[v] = work[v]) /\ work'[w].call = "none"
  BY <1>1, <1>2
<1>4. CASE run' = run
  BY <1>3, <1>4, PreparedWork DEF Sends
<1>5. CASE run' # run
  <2>1. HoldsLease(w) /\ ~terminal(run[work[w].run].status)
    BY <1>5 DEF Finish
  <2>2. PICK row : run' = [run EXCEPT ![work[w].run] = row]
    BY <1>5 DEF Finish, Commit
  <2>3. \A v \in Workers : ~Sends(v)
    BY <1>3 DEF Sends
  <2>4. ASSUME NEW v \in Workers, work'[v].call = "prepared"
        PROVE  /\ work[v].call = "prepared" /\ work'[v] = work[v]
               /\ work[v].pc \in {"dispatch", "finish"}
               /\ LeaseKept(run[work[v].run], run'[work[v].run])
    <3>1. v # w /\ work'[v] = work[v] /\ work[v].call = "prepared"
      BY <1>3, <2>4
    <3>2. work[v].run # work[w].run /\ work[v].run \in Runs /\ work[v].pc \in {"dispatch", "finish"}
      BY <1>1, <2>1, <3>1, PreparedAlone, PreparedRun DEF HoldsLease
    <3>3. run'[work[v].run] = run[work[v].run]
      BY <1>1, <2>2, <3>2
    <3> QED
      BY <3>1, <3>2, <3>3, SameLease
  <2> QED
    BY <2>3, <2>4, PreparedKept
<1> QED
  BY <1>4, <1>5

LEMMA PreparedStepHolds ==
  Inv /\ PreparedHolds /\ [Next]_vars => PreparedStep
<1> SUFFICES ASSUME Inv, PreparedHolds, [Next]_vars
             PROVE  PreparedStep
  OBVIOUS
<1>1. CASE UNCHANGED vars
  BY <1>1, PreparedRows, SameLease DEF vars
<1>2. CASE Next
  <2>1. CASE \E p \in Entry, r \in Runs, saved \in SavedModes : Create(p, r, saved)
    BY <2>1, PreparedCreate
  <2>2. CASE \E p \in Procs, op \in Ops, r \in Runs : CommandStep(p, op, r)
    BY <2>2, PreparedCommand
  <2>3. ASSUME NEW w \in Workers, WorkerStep(w)
        PROVE  PreparedStep
    BY <2>3, PreparedClaim, PreparedQuiet, PreparedExecution, PreparedFinish DEF WorkerStep
  <2>4. CASE \E p \in Procs : Sweep(p) \/ Crash(p)
    BY <2>4, PreparedSweep, PreparedCrash
  <2>5. CASE \/ CloseLearning \/ OpenLearning \/ ScrubLearning
             \/ \E r \in Runs : LeaseExpires(r) \/ RunExpires(r) \/ ContextChanges(r)
             \/ \E p \in Procs : LivenessLapses(p)
    BY <2>5, PreparedOutside
  <2> QED
    BY <1>2, <2>1, <2>2, <2>3, <2>4, <2>5 DEF Next
<1> QED
  BY <1>1, <1>2

LEMMA PreparedHoldsAlways ==
  Spec => []PreparedHolds
<1>1. Init => PreparedHolds
  BY DEF Init, PreparedHolds, NoWork
<1> QED
  BY <1>1, InvHolds, PreparedStepHolds, PTL DEF Spec, PreparedStep

\* Every variable of the mentor runs keeps its type, and a run holds a lease exactly
\* while it is running or being cancelled (claim, mutateTx, finish, Sweep).
THEOREM TypeCorrect ==
  Spec => []TypeOK
<1>1. Inv => TypeOK
  BY DEF Inv
<1> QED
  BY <1>1, InvHolds, PTL

\* A run that ended with its body in place while a model call was unanswered is marked
\* as having an unknown result, whatever crashed or lost its lease.
THEOREM InterruptedCallsAreUnknownHolds ==
  Spec => []InterruptedCallsAreUnknown
<1>1. Inv => InterruptedCallsAreUnknown
  BY DEF Inv, RowsOK, RowOK, InterruptedCallsAreUnknown
<1> QED
  BY <1>1, InvHolds, PTL

\* A temporary body that decode accepts is the one its row was last saved with: only the
\* process that holds a body saves its run, so no other body reaches the row's version.
THEOREM DecodesCommittedBodyHolds ==
  Spec => []DecodesCommittedBody
<1>1. Inv => DecodesCommittedBody
  BY DEF Inv, NeverForged, DecodesCommittedBody, Decodable
<1> QED
  BY <1>1, InvHolds, PTL

\* No model call is begun while an earlier one of the run is unanswered, but under the
\* lease that began it: a claim settles a run whose call had started.
THEOREM NoAutomaticReplayHolds ==
  Spec => NoAutomaticReplay
<1>1. Inv /\ [Next]_vars =>
        [\A r \in Runs : run'[r].requests > run[r].requests
           => openCall[r] \in {NoLease, run[r].lease}]_vars
  BY InvStep DEF Lawful, RowStep
<1> QED
  BY <1>1, InvHolds, PTL DEF Spec, NoAutomaticReplay

\* A run being cancelled stays so until it is cancelled, or failed without its body, and
\* begins no further call: every handler that could continue it checks the status.  What
\* is still sent for it is the call that was open when it was stopped, since a prepared
\* call goes out only under the lease it was begun with.
THEOREM StopIsMonotonicHolds ==
  Spec => StopIsMonotonic
<1> DEFINE Stopped(r) == /\ \/ run'[r].status \in {"cancelling", "cancelled"}
                            \/ run'[r].status = "failed" /\ ~run'[r].body
                         /\ run'[r].requests = run[r].requests
<1>1. Inv /\ [Next]_vars => [\A r \in Runs : run[r].status = "cancelling" => Stopped(r)]_vars
  BY InvStep DEF Lawful, RowStep
<1>2. Inv /\ PreparedHolds /\ [Next]_vars =>
        [\A r \in Runs : run[r].status = "cancelling" =>
           \A w \in Workers : work[w].run = r /\ Sends(w) => openCall[r] = work[w].lease]_vars
  <2> SUFFICES ASSUME Inv, PreparedHolds, [Next]_vars, NEW w \in Workers, Sends(w),
                      run[work[w].run].status = "cancelling"
               PROVE  openCall[work[w].run] = work[w].lease
    OBVIOUS
  <2>1. work[w].pc = "dispatch" /\ work[w].call = "prepared"
    BY PreparedStepHolds DEF PreparedStep, Sends
  <2>2. run[work[w].run].lease = work[w].lease
    BY <2>1 DEF PreparedHolds, Over, terminal, TerminalStatuses
  <2> QED
    BY <2>1, <2>2 DEF Inv, WorkInv, CallIsOpen, Calling
<1>3. Inv /\ PreparedHolds /\ [Next]_vars =>
        [\A r \in Runs : run[r].status = "cancelling" =>
           /\ \/ run'[r].status \in {"cancelling", "cancelled"}
              \/ run'[r].status = "failed" /\ ~run'[r].body
           /\ run'[r].requests = run[r].requests
           /\ \A w \in Workers : work[w].run = r /\ Sends(w) => openCall[r] = work[w].lease]_vars
  BY <1>1, <1>2
<1> QED
  BY <1>3, InvHolds, PreparedHoldsAlways, PTL DEF Spec, StopIsMonotonic

\* A run succeeds only by the answer to its own open call, under the live lease the call
\* was begun with.
THEOREM SuccessUnderOwnLeaseHolds ==
  Spec => SuccessUnderOwnLease
<1>1. Inv /\ [Next]_vars =>
        [\A r \in Runs : run'[r].status = "succeeded" /\ run[r].status # "succeeded"
           => run[r].leaseLive /\ openCall[r] = run[r].lease]_vars
  BY InvStep DEF Lawful, RowStep
<1> QED
  BY <1>1, InvHolds, PTL DEF Spec, SuccessUnderOwnLease
=============================================================================
