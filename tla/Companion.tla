----------------------------- MODULE Companion ------------------------------
(***************************************************************************)
(* The optional local connection: a panel in the browser, the in-memory     *)
(* broker of the server, the edu-companion program on the learner's machine *)
(* and the mentor run that may use it as a tool.                            *)
(*                                                                         *)
(* Every exported method of the broker holds its mutex, so it is one step;  *)
(* what an HTTP handler or localOperation does in several calls is several  *)
(* steps.  The native program posts one exchange at a time, but one it gave *)
(* up may still be served.  Sequence numbers are kept as their lead over    *)
(* the last one the broker accepted.  A lease is fresh or has run out.      *)
(***************************************************************************)
EXTENDS Naturals, FiniteSets

CONSTANTS
    Pairings,       \* bound: connections, numbered as they are created
    RunOps,         \* operations of mentor runs (run and tool call)
    PanelOps,       \* PanelOps[k]: operations the panel submits on k
    Capacity,       \* receipts a connection stores (8 MiB)
    NoOp,           \* a value that is no operation
    MaxFaults       \* bound: lost requests and replies, failed checks, exits

Conns == 1..Pairings
NoConn == 0
Ops == RunOps \union UNION {PanelOps[k] : k \in Conns}

ASSUME CompanionAssumption ==
    /\ Pairings \in Nat /\ Capacity \in Nat /\ MaxFaults \in Nat
    /\ DOMAIN PanelOps = Conns
    /\ NoOp \notin Ops
    \* the panel draws a fresh UUID for every operation
    /\ \A j, k \in Conns : j # k => PanelOps[j] \intersect PanelOps[k] = {}
    /\ \A k \in Conns : PanelOps[k] \intersect RunOps = {}

VARIABLES
    conn,       \* conn[k]: the broker's connection
    panel,      \* panel[k]: the page that made it, and the operation it asked for
    native,     \* native[k]: Client.Run and its Provider
    requests,   \* exchanges on their way to the broker
    reply,      \* reply[k]: answer to the exchange native[k] waits for
    run,        \* run[o]: localOperation of a mentor run
    allowed,    \* identity, conversation and privacy generation still match
    faults      \* faults so far

vars == <<conn, panel, native, requests, reply, run, allowed, faults>>

\* What a receipt says; "none" is an operation without a record.
Final == {"completed", "unknown", "not_executed"}

NewConnection == [phase |-> "pairing", revoked |-> FALSE,
                  browser |-> "fresh", queue |-> NoOp,
                  rec |-> [o \in Ops |-> "none"], stored |-> 0]
NoConnection == [NewConnection EXCEPT !.phase = "none"]

NotStarted == [pc |-> "off", lead |-> 0, op |-> NoOp, receipt |-> NoOp,
               receipts |-> {}]

\* Run has returned; what was executed remains.
Over(n) == [NotStarted EXCEPT !.pc = "ended", !.receipts = n.receipts]

NoReply == [kind |-> "none", op |-> NoOp]
Denied == [kind |-> "denied", op |-> NoOp]
Delivery(op) == [kind |-> "delivery", op |-> op]

Init ==
    /\ conn = [k \in Conns |-> NoConnection]
    /\ panel = [k \in Conns |-> [pc |-> "open", op |-> NoOp]]
    /\ native = [k \in Conns |-> NotStarted]
    /\ requests = {}
    /\ reply = [k \in Conns |-> NoReply]
    /\ run = [o \in RunOps |-> [pc |-> "idle", conn |-> NoConn]]
    /\ allowed = TRUE
    /\ faults = 0

Fault == faults < MaxFaults /\ faults' = faults + 1

Known(k) == conn[k].phase \in {"pairing", "attached", "granted"}
Granted(k) == conn[k].phase = "granted"

\* Slip: what was handed out is reported as not executed.
RevokedForgetting(c) ==
    [c EXCEPT !.revoked = TRUE, !.queue = NoOp,
              !.rec = [o \in Ops |-> IF c.rec[o] \in {"queued", "dispatched"}
                                     THEN "not_executed" ELSE c.rec[o]]]

Revoked(c) ==
    [c EXCEPT !.revoked = TRUE, !.queue = NoOp,
              !.rec = [o \in Ops |-> CASE c.rec[o] = "queued" -> "not_executed"
                                       [] c.rec[o] = "dispatched" -> "unknown"
                                       [] OTHER -> c.rec[o]]]

\* Broker.browser: a granted connection whose page was silent is revoked first.
Looked(c) == IF c.phase = "granted" /\ c.browser = "expired" THEN Revoked(c) ELSE c

\* Broker.View: the page is there.
Seen(c) == IF Looked(c).revoked THEN Looked(c) ELSE [Looked(c) EXCEPT !.browser = "fresh"]

----------------------------------------------------------------------------
(* The panel.                                                              *)

\* Create forgets connections whose page has been silent for five minutes.  A
\* page pairs again only when its connection is revoked, or it is a new page.
Create(k) ==
    /\ conn[k].phase = "none" /\ \A j \in 1..(k - 1) : conn[j].phase # "none"
    /\ \A j \in 1..(k - 1) : panel[j].pc = "closed" \/ conn[j].revoked
    /\ allowed
    /\ \E gone \in SUBSET {j \in Conns : Known(j) /\ (conn[j].revoked \/ conn[j].browser = "expired")} :
         conn' = [j \in Conns |-> CASE j = k -> NewConnection
                                    [] j \in gone -> [NoConnection EXCEPT !.phase = "deleted"]
                                    [] OTHER -> conn[j]]
    /\ panel' = [j \in Conns |-> IF j < k THEN [pc |-> "closed", op |-> NoOp] ELSE panel[j]]
    /\ UNCHANGED <<native, requests, reply, run, allowed, faults>>

\* Slip: the host does not look at the grant again.
CheckPassesOnce(k) == Known(k)

\* CheckCompanion, which also fails when its transaction or its request does.
\* Without a grant a new generation does not matter to it.
CheckPasses(k) == allowed \/ ~Granted(k)

CheckFails(k) == (~allowed /\ UNCHANGED faults) \/ Fault

\* Every request of the panel but pair and revoke begins with View and the
\* check; "status" ends here, a submission has passed and goes on.
PanelAsks(k) ==
    /\ panel[k] = [pc |-> "open", op |-> NoOp] /\ Known(k)
    /\ \/ /\ CheckPasses(k)
          /\ conn' = [conn EXCEPT ![k] = Seen(@)]
          /\ \E o \in {NoOp} \union PanelOps[k] : panel' = [panel EXCEPT ![k].op = o]
          /\ UNCHANGED faults
       \/ /\ CheckFails(k)
          /\ conn' = [conn EXCEPT ![k] = Revoked(Seen(@))]
          /\ UNCHANGED panel
    /\ UNCHANGED <<native, requests, reply, run, allowed>>

\* Broker.Authorize, after a check of the grant it is about to give; it fails
\* when another connection of the conversation is granted.
Authorize(k) ==
    /\ panel[k].pc = "open" /\ conn[k].phase = "attached" /\ ~conn[k].revoked
    /\ allowed
    /\ \A j \in Conns \ {k} : ~(Granted(j) /\ ~conn[j].revoked)
    /\ conn' = [conn EXCEPT ![k].phase = "granted", ![k].browser = "fresh"]
    /\ UNCHANGED <<panel, native, requests, reply, run, allowed, faults>>

\* The guards of submit that come before the look at the records; heard says
\* whether the native program's last exchange is within the lease.
Accepts(c, heard) ==
    ~c.revoked /\ c.phase = "granted" /\ c.browser = "fresh" /\ heard

\* submit: a known operation is answered with its receipt, a new one needs the
\* queue and the store to have room.
Submitted(c, heard, o) ==
    IF Accepts(c, heard) /\ c.rec[o] = "none" /\ c.queue = NoOp /\ c.stored < Capacity
    THEN [c EXCEPT !.rec[o] = "queued", !.queue = o]
    ELSE c

PanelSubmits(k) ==
    /\ panel[k].op # NoOp
    /\ \E heard \in BOOLEAN :
         conn' = [conn EXCEPT ![k] = IF Known(k) THEN Submitted(Looked(@), heard, panel[k].op) ELSE @]
    /\ panel' = [panel EXCEPT ![k].op = NoOp]
    /\ UNCHANGED <<native, requests, reply, run, allowed, faults>>

PanelRevokes(k) ==
    /\ panel[k].pc = "open" /\ Known(k)
    /\ conn' = [conn EXCEPT ![k] = Revoked(@)]
    /\ UNCHANGED <<panel, native, requests, reply, run, allowed, faults>>

\* The page goes away; its farewell reaches the broker or not.
PanelCloses(k) ==
    /\ panel[k].pc = "open" /\ conn[k].phase # "none"
    /\ panel' = [panel EXCEPT ![k] = [pc |-> "closed", op |-> NoOp]]
    /\ \/ Known(k) /\ conn' = [conn EXCEPT ![k] = Revoked(@)]
       \/ UNCHANGED conn
    /\ UNCHANGED <<native, requests, reply, run, allowed, faults>>

----------------------------------------------------------------------------
(* The native program: Client.Attach and Client.Run.                       *)

\* The loop of Run goes round: the next exchange, with the receipt that has not
\* been acknowledged yet.  The second it rests is part of the request's way.
Posts(k, n, others) ==
    /\ native' = [native EXCEPT ![k] = [n EXCEPT !.pc = "posting", !.lead = @ + 1]]
    /\ requests' = others \union
         {[conn |-> k, lead |-> n.lead + 1, receipt |-> n.receipt, stage |-> "sent"]}

\* The code is good once, and for five minutes, after which nobody attaches; a
\* lost answer wastes it.
AttachNative(k) ==
    /\ native[k].pc = "off" /\ conn[k].phase = "pairing" /\ ~conn[k].revoked
    /\ conn' = [conn EXCEPT ![k].phase = "attached"]
    /\ \/ Posts(k, native[k], requests) /\ UNCHANGED faults
       \/ native' = [native EXCEPT ![k].pc = "ended"] /\ Fault /\ UNCHANGED requests
    /\ UNCHANGED <<panel, reply, run, allowed>>

\* The answer arrives: a refusal ends Run, an operation is executed next.
Receive(k) ==
    /\ native[k].pc = "posting" /\ reply[k].kind # "none"
    /\ reply' = [reply EXCEPT ![k] = NoReply]
    /\ \/ /\ reply[k].kind = "denied"
          /\ native' = [native EXCEPT ![k] = Over(@)]
          /\ UNCHANGED requests
       \/ /\ reply[k].kind = "delivery" /\ reply[k].op = NoOp
          /\ Posts(k, [native[k] EXCEPT !.receipt = NoOp], requests)
       \/ /\ reply[k].kind = "delivery" /\ reply[k].op # NoOp
          /\ native' = [native EXCEPT ![k].pc = "executing", ![k].receipt = NoOp,
                                      ![k].op = reply[k].op]
          /\ UNCHANGED requests
    /\ UNCHANGED <<conn, panel, run, allowed, faults>>

\* Provider.Execute consumes the identity of the operation, then runs it; a
\* known one is answered with its receipt.
Execute(k) ==
    LET o == native[k].op
    IN  /\ native[k].pc = "executing"
        /\ Posts(k, [native[k] EXCEPT !.op = NoOp, !.receipt = o, !.receipts = @ \union {o}], requests)
        /\ UNCHANGED <<conn, panel, reply, run, allowed, faults>>

\* The post fails or times out: the request is lost, or is still under way, or
\* its answer is lost.  The receipt is kept for the next one.
PostFails(k) ==
    /\ native[k].pc = "posting"
    /\ Fault
    /\ \E kept \in {requests, {m \in requests : m.conn # k}} : Posts(k, native[k], kept)
    /\ reply' = [reply EXCEPT ![k] = NoReply]
    /\ UNCHANGED <<conn, panel, run, allowed>>

\* Nothing was heard for a lease, or the learner ends the program.
NativeEnds(k) ==
    /\ native[k].pc \in {"posting", "executing"}
    /\ Fault
    /\ native' = [native EXCEPT ![k] = Over(@)]
    /\ reply' = [reply EXCEPT ![k] = NoReply]
    /\ UNCHANGED <<conn, panel, requests, run, allowed>>

----------------------------------------------------------------------------
(* The channel handler: companionChannel.                                  *)

\* An answer is of use only to the exchange the program waits for, whose number
\* is ahead of every accepted one.
Answer(m, r) ==
    reply' = IF native[m.conn].pc = "posting" /\ native[m.conn].lead = m.lead /\ m.lead > 0
             THEN [reply EXCEPT ![m.conn] = r] ELSE reply

\* Verify, Principal and CheckCompanion; a failed check revokes the channel.
CheckExchange(m) ==
    LET k == m.conn
        verified == Known(k) /\ ~conn[k].revoked /\ m.lead > 0
    IN  /\ m.stage = "sent"
        /\ \/ /\ verified /\ CheckPasses(k)
              /\ requests' = (requests \ {m}) \union {[m EXCEPT !.stage = "checked"]}
              /\ UNCHANGED <<conn, reply, faults>>
           \/ /\ verified /\ CheckFails(k)
              /\ requests' = requests \ {m}
              /\ conn' = [conn EXCEPT ![k] = Revoked(@)]
              /\ Answer(m, Denied)
           \/ /\ ~verified
              /\ requests' = requests \ {m}
              /\ Answer(m, Denied)
              /\ UNCHANGED <<conn, faults>>
        /\ UNCHANGED <<panel, native, run, allowed>>

\* Slip: an exchange does not look at the page's lease.
AliveWithoutBrowser(c) == ~c.revoked

\* What Exchange demands before it looks at the body.
Alive(c) == ~c.revoked /\ c.browser = "fresh"

ReceiptAccepted(c, o) ==
    o # NoOp => c.phase = "granted" /\ c.rec[o] \in {"dispatched", "completed"}

\* The receipt is stored, or marked unknown when the store is full.
Stored(c, o) ==
    IF o = NoOp \/ c.rec[o] = "completed" THEN c
    ELSE IF c.stored < Capacity THEN [c EXCEPT !.rec[o] = "completed", !.stored = @ + 1]
    ELSE [c EXCEPT !.rec[o] = "unknown"]

\* Slip: the operation stays queued until its receipt arrives.
HandedOutKept(c) == IF c.queue = NoOp THEN c ELSE [c EXCEPT !.rec[c.queue] = "dispatched"]

\* Handing out consumes the queue.
HandedOut(c) ==
    IF c.queue = NoOp THEN c
    ELSE [c EXCEPT !.rec[c.queue] = "dispatched", !.queue = NoOp]

\* The sequence was accepted: every other number is nearer to the last one.
Nearer(n, by) == IF n > by THEN n - by ELSE 0

Exchange(m) ==
    LET k == m.conn
        c == conn[k]
        stored == Stored(c, m.receipt)
        accepted == Known(k) /\ m.lead > 0
    IN  /\ m.stage = "checked"
        /\ requests' = {IF x.conn = k /\ accepted THEN [x EXCEPT !.lead = Nearer(@, m.lead)]
                        ELSE x : x \in requests \ {m}}
        /\ native' = IF accepted THEN [native EXCEPT ![k].lead = Nearer(@, m.lead)] ELSE native
        /\ \/ /\ ~accepted
              /\ Answer(m, Denied)
              /\ UNCHANGED conn
           \/ /\ accepted /\ ~Alive(c)
              /\ Answer(m, Denied)
              /\ conn' = [conn EXCEPT ![k] = Revoked(@)]
           \/ /\ accepted /\ Alive(c) /\ ~ReceiptAccepted(c, m.receipt)
              /\ Answer(m, Denied)
              /\ UNCHANGED conn
           \/ /\ accepted /\ Alive(c) /\ ReceiptAccepted(c, m.receipt)
              /\ Answer(m, Delivery(stored.queue))
              /\ conn' = [conn EXCEPT ![k] = HandedOut(stored)]
        /\ UNCHANGED <<panel, run, allowed, faults>>

----------------------------------------------------------------------------
(* The mentor run: localOperation.                                         *)

\* The tool has answered: with a refusal, or with a receipt or that the outcome
\* is unknown.
RunOver(o, how) == [run EXCEPT ![o] = [pc |-> how, conn |-> NoConn]]

\* ModelConnection; without one that is heard the tool answers a refusal.
RunFinds(o) ==
    /\ run[o].pc = "idle"
    /\ \/ \E k \in Conns : /\ Accepts(conn[k], TRUE)
                           /\ run' = [run EXCEPT ![o] = [pc |-> "found", conn |-> k]]
       \/ run' = RunOver(o, "refused")
    /\ UNCHANGED <<conn, panel, native, requests, reply, allowed, faults>>

\* ModelSubmit; an error of it is a refusal too.
RunSubmits(o) ==
    LET k == run[o].conn
    IN  /\ run[o].pc = "found"
        /\ \E heard \in BOOLEAN :
             /\ conn' = [conn EXCEPT ![k] = Submitted(@, heard, o)]
             /\ run' = IF Accepts(conn[k], heard) /\ conn'[k].rec[o] # "none"
                       THEN [run EXCEPT ![o].pc = "waiting"] ELSE RunOver(o, "refused")
        /\ UNCHANGED <<panel, native, requests, reply, allowed, faults>>

\* A final receipt, ModelReceipt's refusal, the ten second deadline or the end of
\* the execution: whatever it was, the operation is not submitted again.
RunEnds(o) ==
    /\ run[o].pc = "waiting"
    /\ run' = RunOver(o, "answered")
    /\ UNCHANGED <<conn, panel, native, requests, reply, allowed, faults>>

----------------------------------------------------------------------------
(* Time and the rest of the server.                                        *)

\* The page was not heard for a lease; of a revoked connection nobody asks.
BrowserSilent(k) ==
    /\ Known(k) /\ ~conn[k].revoked /\ conn[k].browser = "fresh"
    /\ conn' = [conn EXCEPT ![k].browser = "expired"]
    /\ UNCHANGED <<panel, native, requests, reply, run, allowed, faults>>

\* The device is revoked, the conversation deleted or the generation erased.
Disallow ==
    /\ allowed
    /\ allowed' = FALSE
    /\ UNCHANGED <<conn, panel, native, requests, reply, run, faults>>

----------------------------------------------------------------------------

NativeStep(k) == Receive(k) \/ Execute(k)
Serve(k) == \E m \in requests : m.conn = k /\ (CheckExchange(m) \/ Exchange(m))

Next ==
    \/ \E k \in Conns :
         \/ Create(k) \/ PanelAsks(k) \/ Authorize(k) \/ PanelSubmits(k)
         \/ PanelRevokes(k) \/ PanelCloses(k)
         \/ AttachNative(k) \/ Receive(k) \/ Execute(k) \/ PostFails(k) \/ NativeEnds(k)
         \/ Serve(k)
         \/ BrowserSilent(k)
    \/ \E o \in RunOps : RunFinds(o) \/ RunSubmits(o) \/ RunEnds(o)
    \/ Disallow

\* Run loops and handlers go on, and a closed page's lease runs out.
Fairness ==
    \A k \in Conns :
      /\ WF_vars(NativeStep(k))
      /\ WF_vars(Serve(k))
      /\ WF_vars(panel[k].pc = "closed" /\ BrowserSilent(k))

Spec == Init /\ [][Next]_vars /\ Fairness

----------------------------------------------------------------------------
(* Properties.                                                             *)

Leads == 0..(MaxFaults + 1)

\* Connections, the native programs and the exchanges have the shape the code
\* gives them; a queued operation is the one whose receipt says so.
TypeOK ==
    /\ conn \in [Conns -> [phase : {"none", "pairing", "attached", "granted", "deleted"},
                           revoked : BOOLEAN,
                           browser : {"fresh", "expired"},
                           queue : Ops \union {NoOp},
                           rec : [Ops -> {"none", "queued", "dispatched"} \union Final],
                           stored : 0..Capacity]]
    /\ \A k \in Conns, o \in Ops : conn[k].rec[o] = "queued" <=> conn[k].queue = o
    /\ panel \in [Conns -> [pc : {"open", "closed"}, op : Ops \union {NoOp}]]
    /\ native \in [Conns -> [pc : {"off", "posting", "executing", "ended"},
                             lead : Leads,
                             op : Ops \union {NoOp}, receipt : Ops \union {NoOp},
                             receipts : SUBSET Ops]]
    /\ requests \subseteq [conn : Conns, lead : Leads, receipt : Ops \union {NoOp},
                           stage : {"sent", "checked"}]
    /\ reply \in [Conns -> [kind : {"none", "denied", "delivery"}, op : Ops \union {NoOp}]]
    /\ run \in [RunOps -> [pc : {"idle", "found", "waiting", "refused", "answered"},
                           conn : Conns \union {NoConn}]]
    /\ allowed \in BOOLEAN
    /\ faults \in 0..MaxFaults

\* What is reported as not executed, to the panel by its receipt or to the model
\* by a refusal, has not been executed and never will be, although replies are
\* under way when a connection is revoked (Broker.revoke, localOperation).
NotExecutedIsTrue ==
    /\ \A k \in Conns, o \in Ops :
         Known(k) /\ conn[k].rec[o] \in {"none", "queued", "not_executed"} => o \notin native[k].receipts
    /\ \A o \in RunOps : run[o].pc = "refused" => \A k \in Conns : o \notin native[k].receipts

\* When the page is gone, even without its farewell, the native program ends:
\* no run of the model keeps the connection alive (the two leases).
ClosedPageEndsNative ==
    \A k \in Conns :
      panel[k].pc = "closed" /\ native[k].pc # "off" ~> native[k].pc = "ended"

\* An erasure or a revoked device ends every granted connection: its program
\* ends although page and run go on (companionChannel checks every exchange).
DisallowedEndsNative ==
    \A k \in Conns :
      ~allowed /\ Granted(k) /\ native[k].pc # "off" ~> native[k].pc = "ended" \/ ~Granted(k)

=============================================================================
