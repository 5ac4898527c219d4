---------------------------- MODULE ModelGateway ----------------------------
(***************************************************************************)
(* The CLI model gateway: admission, leases, dispatch and output.          *)
(*                                                                         *)
(* invokeHTTP registers an execution with its process, accepts the request  *)
(* in one transaction (de-duplication, shared admission, lease, prepared    *)
(* call), keeps the lease alive beside the upstream call (Maintain), takes  *)
(* the device and request rows around every upstream send and every write   *)
(* to the client (guard), and finishes the request when the upstream body   *)
(* is closed.  Cancellation and revocation commit to the same rows and are  *)
(* announced by NOTIFY; Sweep recovers what a dead process leaves.          *)
(*                                                                         *)
(* Time is in ticks of Renewal.  ttl[x] is how long the lease of x still    *)
(* lives.  The privacy gates that guard() also takes are the subject of     *)
(* ReadPermits.                                                             *)
(***************************************************************************)
EXTENDS Naturals, FiniteSets

CONSTANTS
    Processes,      \* server processes on one database
    Calls,          \* bound: number of invokeHTTP calls, numbered as they arrive
    Requests,       \* request ids
    Devices,        \* devices
    ProcessOf,      \* ProcessOf[x]: the process that serves execution x
    DeviceOf,       \* DeviceOf[r]: the device that sends request r
    RequestMaps,    \* which request each execution may carry: a request that
                    \* several executions carry is a client's retry
    Capacity,       \* Limits.Concurrency at the start
    Duration,       \* lease length in ticks: 30 s / 10 s
    Attempts,       \* bound: Attempts[x] upstream attempts of execution x
    MaxDisruptions  \* bound: crashes, lost replies, failed calls, cancels,
                    \* revocations, lower settings

Executions == 1..Calls
NoExecution == 0

ASSUME ConstantsAssumption ==
    /\ Calls \in Nat
    /\ ProcessOf \in [Executions -> Processes]
    /\ DeviceOf \in [Requests -> Devices]
    /\ RequestMaps \subseteq [Executions -> Requests]
    /\ Capacity \in Nat /\ Capacity >= 2
    /\ Duration \in Nat /\ Duration >= 2
    /\ Attempts \in [Executions -> Nat \ {0}]
    /\ MaxDisruptions \in Nat

VARIABLES
    req,        \* req[x]: the request execution x carries
    row,        \* learning_cli_model_requests; state "none" is no row
    leased,     \* executions with a row in learning_model_execution_leases
    ttl,        \* lease_until of the lease, the request and its calls
    born,       \* created_at of the lease
    call,       \* call[x][n]: dispatch_state of attempt n in learning_model_calls;
                \* "counted" is received, failed, cancelled or outcome_unknown
    capacity,   \* Limits.Concurrency
    revoked,    \* devices whose revoked_at is set
    ready,      \* processes whose NOTIFY connection listens
    notices,    \* notices[p]: notifications on their way to process p
    ex,         \* ex[x]: an execution
    sent,       \* <<x, n>>: attempt n of x has reached the upstream
    done,       \* requests whose final output the client has
    disruptions

db == <<row, leased, ttl, born, call, capacity, revoked>>
vars == <<req, db, ready, notices, ex, sent, done, disruptions>>

NoRow == [state |-> "none", holder |-> NoExecution]

\* pc    idle, accept, run (before RoundTrip), retry, sending (RoundTrip holds
\*       the rows, the ledger is committed), wrote (bytes are out, the rows still
\*       held), upstream, writing (output holds the rows), closing (the body is
\*       closed, the lease no longer maintained), finalized, end
\* cause why its context is cancelled: "stopped" (request, device, settings or
\*       client) or "unavailable" (timeout, database or listener)
\* goal  the state finish is to record; "incomplete" is a failed state whose
\*       reason says that there is a result (length, content_filter)
Fresh == [pc |-> "idle", attempt |-> 0, cause |-> "none", goal |-> "none"]
Ended == [Fresh EXCEPT !.pc = "end"]

Init ==
    /\ req \in RequestMaps
    /\ row = [r \in Requests |-> NoRow]
    /\ leased = {}
    /\ ttl = [x \in Executions |-> 0]
    /\ born = [x \in Executions |-> 0]
    /\ call = [x \in Executions |-> [n \in 1..Attempts[x] |-> "none"]]
    /\ capacity = Capacity
    /\ revoked = {}
    /\ ready = Processes
    /\ notices = [p \in Processes |-> {}]
    /\ ex = [x \in Executions |-> Fresh]
    /\ sent = {}
    /\ done = {}
    /\ disruptions = 0

Disrupt == disruptions < MaxDisruptions /\ disruptions' = disruptions + 1

Open == {"accepted", "running"}
Results == {"succeeded", "incomplete"}

Row(x) == row[req[x]]
Device(x) == DeviceOf[req[x]]
Live(x) == x \in leased /\ ttl[x] > 0
Cancelled(x) == ex[x].cause # "none"

Registered == {"accept", "run", "retry", "sending", "wrote", "upstream", "writing",
               "closing", "finalized"}

\* Maintain runs from acceptance until the upstream body is closed.
Maintained == {"run", "retry", "sending", "wrote", "upstream", "writing"}

\* Places where a transaction holds the device FOR SHARE and the request row.
Holding == {"sending", "wrote", "writing"}

\* Bytes are at the upstream and its response body is open.
InFlight == {x \in Executions : ex[x].pc \in {"wrote", "upstream", "writing"}}

\* Slip: the guard locks nothing.
RowsFreeUnlocked(r) == TRUE

RowsFree(r) == \A x \in Executions : req[x] = r => ex[x].pc \notin Holding

DeviceFree(d) == \A r \in Requests : DeviceOf[r] = d => RowsFree(r)

Goto(x, pc) == [ex EXCEPT ![x].pc = pc]
End(x) == [ex EXCEPT ![x] = Ended]

\* The response loop is left with a result or a reason.  Only a result still
\* looks at the context.
Closing(x, goal) ==
    [ex EXCEPT ![x].pc = "closing", ![x].goal = goal,
               ![x].cause = IF goal \in Results THEN @ ELSE "none"]

\* execution.guardState(false): device, request and lease.
GuardOK(x) ==
    /\ Device(x) \notin revoked
    /\ Row(x).state \in Open
    /\ Live(x)

\* Slip: the reason is recorded as the state.
GoalForRaw(cause) == cause

\* The state an ended execution records for the reason it ended.
GoalFor(cause) == IF cause = "stopped" THEN "cancelled" ELSE "outcome_unknown"

----------------------------------------------------------------------------
(* Admission. *)

Register(x) ==
    /\ ex[x].pc = "idle"
    /\ \A y \in 1..(x - 1) : ex[y].pc # "idle"
    /\ ProcessOf[x] \in ready
    /\ ex' = Goto(x, "accept")
    /\ UNCHANGED <<req, db, ready, notices, sent, done, disruptions>>

LiveLeases == {x \in Executions : Live(x)}

\* Slip: leases of requests that are already cancelled do not count.
AdmittedIgnoringCancelled(x) ==
    LET live == {y \in LiveLeases : Row(y).state \in Open}
    IN  /\ Cardinality(live) < capacity - 1
        /\ \A y \in live : Device(y) # Device(x)

\* CheckTx: the CLI's share of the pool and one per device.
Admitted(x) ==
    /\ Cardinality(LiveLeases) < capacity - 1
    /\ \A y \in LiveLeases : Device(y) # Device(x)

\* Slip: a request id is not looked up.
AcceptableAgain(x) ==
    Device(x) \notin revoked /\ capacity >= 2 /\ Admitted(x)

Acceptable(x) ==
    /\ Device(x) \notin revoked
    /\ Row(x).state = "none"
    /\ capacity >= 2
    /\ Admitted(x)

Accept(x) ==
    /\ ex[x].pc = "accept"
    /\ Acceptable(x)
    /\ row' = [row EXCEPT ![req[x]] =
                  [NoRow EXCEPT !.state = "accepted", !.holder = x]]
    /\ leased' = leased \union {x}
    /\ ttl' = [ttl EXCEPT ![x] = Duration]
    /\ born' = [born EXCEPT ![x] = 1 + Cardinality({y \in Executions : born[y] > 0})]
    /\ call' = [call EXCEPT ![x][1] = "prepared"]
    /\ \/ ex' = [Goto(x, "run") EXCEPT ![x].attempt = 1] /\ UNCHANGED disruptions
       \/ ex' = End(x) /\ Disrupt      \* the commit's reply is lost
    /\ UNCHANGED <<req, capacity, revoked, ready, notices, sent, done>>

\* Refused by a check, or by the leases of web calls and mentor runs, which
\* share the pool and may fill it at any time.
AcceptRefused(x) ==
    /\ ex[x].pc = "accept"
    /\ ex' = End(x)
    /\ UNCHANGED <<req, db, ready, notices, sent, done, disruptions>>

----------------------------------------------------------------------------
(* upstreamTransport.RoundTrip. *)

\* modelusage.Finish: a prepared call was never dispatched, a settled one stays.
Settled(c) ==
    CASE c = "prepared" -> "not_dispatched"
      [] c = "dispatching" -> "counted"
      [] OTHER -> c

SettleRef(x) == [call EXCEPT ![x][ex[x].attempt] = Settled(@)]

\* A further attempt registers its call in a guarded transaction of its own.
BeginAttempt(x) ==
    /\ ex[x].pc = "retry"
    /\ ~Cancelled(x) /\ GuardOK(x)
    /\ call' = [call EXCEPT ![x][ex[x].attempt + 1] = "prepared"]
    /\ ex' = [Goto(x, "run") EXCEPT ![x].attempt = @ + 1]
    /\ UNCHANGED <<req, row, leased, ttl, born, capacity, revoked, ready,
                   notices, sent, done, disruptions>>

RowDispatched(x) == [row EXCEPT ![req[x]].state = "running"]

\* guard() takes the device, token and request rows until WroteRequest; the row
\* is updated; Usage.Dispatch commits the ledger on a second connection.  When
\* that fails the deferred release still commits the row.
Dispatch(x) ==
    /\ ex[x].pc = "run"
    /\ ~Cancelled(x) /\ GuardOK(x)
    /\ \/ /\ call' = [call EXCEPT ![x][ex[x].attempt] = "dispatching"]
          /\ ex' = Goto(x, "sending")
          /\ UNCHANGED <<row, disruptions>>
       \/ /\ Disrupt
          /\ row' = RowDispatched(x)
          /\ ex' = Closing(x, "failed")
          /\ UNCHANGED call
    /\ UNCHANGED <<req, leased, ttl, born, capacity, revoked, ready, notices,
                   sent, done>>

\* The guard refuses, or a cancelled context ends the attempt: before the guard,
\* or after it, when release commits the row's update.
GuardFailed(x) ==
    /\ ex[x].pc \in {"run", "retry"}
    /\ Cancelled(x) \/ ~GuardOK(x)
    /\ \/ UNCHANGED row
       \/ ex[x].pc = "run" /\ GuardOK(x) /\ row' = RowDispatched(x)
    /\ ex' = Closing(x, IF Cancelled(x) THEN GoalFor(ex[x].cause) ELSE "cancelled")
    /\ UNCHANGED <<req, leased, ttl, born, call, capacity, revoked, ready,
                   notices, sent, done, disruptions>>

\* The request is written to the upstream ...
Send(x) ==
    /\ ex[x].pc = "sending"
    /\ sent' = sent \union {<<x, ex[x].attempt>>}
    /\ ex' = Goto(x, "wrote")
    /\ UNCHANGED <<req, db, ready, notices, done, disruptions>>

\* ... and only then WroteRequest commits the row and lets the locks go.
WroteRequest(x) ==
    /\ ex[x].pc = "wrote"
    /\ \/ /\ row' = RowDispatched(x)
          /\ ex' = Goto(x, "upstream")
          /\ UNCHANGED <<call, disruptions>>
       \/ /\ Disrupt
          /\ ex' = Closing(x, "outcome_unknown")
          /\ call' = SettleRef(x)
          /\ UNCHANGED row
    /\ UNCHANGED <<req, leased, ttl, born, capacity, revoked, ready, notices,
                   sent, done>>

\* A cancelled context ends the attempt before, during or after the send.
AbortAttempt(x) ==
    /\ ex[x].pc \in {"sending", "upstream"}
    /\ Cancelled(x)
    /\ row' = IF ex[x].pc = "sending" THEN RowDispatched(x) ELSE row
    /\ call' = SettleRef(x)
    /\ ex' = Closing(x, GoalFor(ex[x].cause))
    /\ UNCHANGED <<req, leased, ttl, born, capacity, revoked, ready, notices,
                   sent, done, disruptions>>

----------------------------------------------------------------------------
(* The response loop of invokeHTTP. *)

\* One write to the client begins: guardState takes the rows.
WriteBegin(x) ==
    /\ ex[x].pc = "upstream"
    /\ ~Cancelled(x)
    /\ ex' = IF GuardOK(x) THEN Goto(x, "writing")
                           ELSE [ex EXCEPT ![x].cause = "stopped"]
    /\ UNCHANGED <<req, db, ready, notices, sent, done, disruptions>>

Write(x) ==
    /\ ex[x].pc = "writing"
    /\ ex' = Goto(x, "upstream")
    /\ UNCHANGED <<req, db, ready, notices, sent, done, disruptions>>

\* The upstream answers: a result, one cut short, a failure, nothing in time, or
\* a rejection that makes Client.Gateway try again without an option.
UpstreamEnds(x) ==
    /\ ex[x].pc = "upstream"
    /\ ~Cancelled(x)
    /\ \/ \E goal \in Results \union {"failed", "outcome_unknown"} : ex' = Closing(x, goal)
       \/ ex[x].attempt < Attempts[x] /\ ex' = Goto(x, "retry")
    /\ \/ call' = SettleRef(x) /\ UNCHANGED disruptions
       \/ UNCHANGED call /\ Disrupt           \* lease recovery will settle it
    /\ UNCHANGED <<req, row, leased, ttl, born, capacity, revoked, ready,
                   notices, sent, done>>

----------------------------------------------------------------------------
(* Finishing. *)

\* A cancelled context turns a good result into its cause, unless it comes
\* after invokeHTTP has looked.
Goals(x) ==
    {ex[x].goal} \union
    (IF Cancelled(x) THEN {GoalFor(ex[x].cause)} ELSE {})

\* Success needs a live lease, and nothing overwrites a terminal state.
FinishUpdates(x, goal) ==
    /\ Row(x).state \in Open
    /\ goal = "succeeded" => Live(x)

FinishedRow(x, goal) ==
    IF ~FinishUpdates(x, goal) THEN row
    ELSE [row EXCEPT ![req[x]].state = goal]

\* The update triggers a notification when it cancels the request.
Notified(n) == [p \in Processes |-> IF p \in ready THEN notices[p] \union {n}
                                                   ELSE notices[p]]

\* Something of x that recovery would still have to settle; when there is none
\* its lease_until is not read again.
Unsettled(x) ==
    \/ Row(x).holder = x /\ Row(x).state \in Open
    \/ \E n \in 1..Attempts[x] : call[x][n] \in {"prepared", "dispatching"}

Finish(x) ==
    /\ ex[x].pc = "closing"
    /\ \E goal \in Goals(x), replied \in BOOLEAN :
          /\ row' = FinishedRow(x, goal)
          /\ notices' = IF row' # row /\ goal = "cancelled"
                        THEN Notified(<<"request", req[x]>>) ELSE notices
          /\ ex' = IF goal \notin Results THEN End(x)
                   ELSE IF ~replied THEN Closing(x, "outcome_unknown")
                   ELSE IF goal = "succeeded" /\ ~FinishUpdates(x, goal)
                   THEN Closing(x, "cancelled")
                   ELSE Goto(x, "finalized")
          /\ IF replied THEN UNCHANGED disruptions ELSE Disrupt
    /\ call' = SettleRef(x)
    /\ leased' = leased \ {x}
    /\ UNCHANGED <<req, born, capacity, revoked, ready, sent, done>>
    /\ ttl' = [ttl EXCEPT ![x] = IF Unsettled(x)' THEN @ ELSE 0]

\* finish gives up after five seconds without the database.
FinishUnavailable(x) ==
    /\ ex[x].pc = "closing"
    /\ Disrupt
    /\ ex' = IF ex[x].goal \in Results
             THEN Closing(x, "outcome_unknown") ELSE End(x)
    /\ call' \in {call, SettleRef(x)}   \* a transaction of its own
    /\ UNCHANGED <<req, row, leased, ttl, born, capacity, revoked, ready,
                   notices, sent, done>>

\* The last output: guardState(true) wants the recorded result.
WriteFinal(x) ==
    /\ ex[x].pc = "finalized"
    /\ done' = IF /\ ~Cancelled(x)
                  /\ Device(x) \notin revoked
                  /\ Row(x).state \in Results
               THEN done \union {req[x]} ELSE done
    /\ ex' = End(x)
    /\ UNCHANGED <<req, db, ready, notices, sent, disruptions>>

----------------------------------------------------------------------------
(* modeladmission.Maintain and time. *)

Rank(x) == Cardinality({y \in LiveLeases : born[y] <= born[x]})

\* A renewal, one tick after the last, takes the same rows as the guard and
\* waits while they are held.
Renew(x) ==
    /\ ex[x].pc \in Maintained /\ ~Cancelled(x)
    /\ ttl[x] < Duration
    /\ RowsFree(req[x])
    /\ GuardOK(x) /\ Rank(x) <= capacity - 1
    /\ ttl' = [ttl EXCEPT ![x] = Duration]
    /\ UNCHANGED <<req, row, leased, born, call, capacity, revoked, ready,
                   notices, ex, sent, done, disruptions>>

\* Refused, failed, or still waiting when little of the lease is left.
RenewFailed(x) ==
    /\ ex[x].pc \in Maintained /\ ~Cancelled(x)
    /\ ttl[x] < Duration
    /\ \/ /\ RowsFree(req[x])
          /\ ~GuardOK(x) \/ Rank(x) > capacity - 1
          /\ ex' = [ex EXCEPT ![x].cause = "stopped"]
          /\ UNCHANGED disruptions
       \/ /\ ex' = [ex EXCEPT ![x].cause = "unavailable"]
          /\ IF ttl[x] <= 1 THEN UNCHANGED disruptions ELSE Disrupt
    /\ UNCHANGED <<req, db, ready, notices, sent, done>>

\* The timers of a live process are prompt: it cancels before the last tick of
\* a lease it could not renew, and a cancelled transport closes within a tick.
LeaseInTime(x) == ex[x].pc \in Maintained => ~Cancelled(x) /\ ttl[x] > 1

Tick ==
    /\ \A x \in Executions : LeaseInTime(x)
    /\ ttl' = [x \in Executions |-> IF ttl[x] > 0 THEN ttl[x] - 1 ELSE 0]
    /\ UNCHANGED <<req, row, leased, born, call, capacity, revoked, ready,
                   notices, ex, sent, done, disruptions>>

----------------------------------------------------------------------------
(* Cancellation, revocation, notification, recovery. *)

\* Slip: a recovered call was never dispatched.
RecoveredCallNotDispatched(c) ==
    IF c \in {"prepared", "dispatching"} THEN "not_dispatched" ELSE c

RecoveredCall(c) ==
    CASE c = "prepared" -> "not_dispatched"
      [] c = "dispatching" -> "counted"
      [] OTHER -> c

\* Slip: only requests whose lease row is still there are recovered.
ExpiredLease(x) == x # NoExecution /\ x \in leased /\ ttl[x] = 0

\* lease_until of the request and its calls has passed.
Expired(x) == x # NoExecution /\ born[x] > 0 /\ ttl[x] = 0

\* recover: the calls and the requests of expired leases; it waits for rows
\* that a guard holds.
Recover(rows) ==
    /\ \A x \in Executions : Expired(x) => RowsFree(req[x])
    /\ call' = [x \in Executions |->
                  IF Expired(x) THEN [n \in 1..Attempts[x] |-> RecoveredCall(call[x][n])]
                                ELSE call[x]]
    /\ row' = [r \in Requests |->
                 IF rows[r].state \in Open /\ Expired(rows[r].holder)
                 THEN [rows[r] EXCEPT !.state = "outcome_unknown"] ELSE rows[r]]

\* The recovery worker also deletes expired leases.
Sweep ==
    /\ Recover(row)
    /\ leased' = {x \in leased : ~Expired(x)}
    /\ UNCHANGED <<req, ttl, born, capacity, revoked, ready, notices, ex,
                   sent, done, disruptions>>

\* A client that asks for the state of a request recovers too.
ReadState(d) ==
    /\ d \notin revoked
    /\ Recover(row)
    /\ UNCHANGED <<req, leased, ttl, born, capacity, revoked, ready, notices,
                   ex, sent, done, disruptions>>

\* Slip: a finished request can still be cancelled.
CancellableAlways == {"none", "accepted", "running", "succeeded", "incomplete"}

Cancellable == {"none", "accepted", "running"}

\* A cancel before the request arrives leaves a tombstone; one after its end
\* changes nothing but what its answer recovers.
Cancel(r) ==
    /\ DeviceOf[r] \notin revoked
    /\ RowsFree(r)
    /\ row[r].state \in Cancellable
    /\ Disrupt
    /\ Recover([row EXCEPT ![r].state = "cancelled"])
    /\ notices' = IF row[r].state = "none" THEN notices ELSE Notified(<<"request", r>>)
    /\ UNCHANGED <<req, leased, ttl, born, capacity, revoked, ready, ex, sent,
                   done>>

Revoke(d) ==
    /\ d \notin revoked
    /\ DeviceFree(d)
    /\ Disrupt
    /\ revoked' = revoked \union {d}
    /\ notices' = Notified(<<"device", d>>)
    /\ UNCHANGED <<req, row, leased, ttl, born, call, capacity, ready, ex, sent,
                   done>>

Matches(n, x) == n \in {<<"request", req[x]>>, <<"device", Device(x)>>}

\* Its context still matters, and keeps the first cause.  In accept it makes the
\* transaction fail.
Attentive(x) ==
    /\ ex[x].pc \in Registered /\ ~Cancelled(x)
    /\ ex[x].pc = "closing" => ex[x].goal \in Results

CancelWith(X, cause) ==
    [x \in Executions |->
        IF x \notin X \/ ~Attentive(x) THEN ex[x]
        ELSE IF ex[x].pc = "accept" THEN Ended ELSE [ex[x] EXCEPT !.cause = cause]]

Deliver(p) == \E n \in notices[p] :
    /\ notices' = [notices EXCEPT ![p] = @ \ {n}]
    /\ ex' = CancelWith({x \in Executions : ProcessOf[x] = p /\ Matches(n, x)}, "stopped")
    /\ UNCHANGED <<req, db, ready, sent, done, disruptions>>

\* The NOTIFY connection breaks: every execution of the process is cancelled
\* and none registers until it listens again.
ListenerLost(p) ==
    /\ p \in ready
    /\ Disrupt
    /\ ready' = ready \ {p}
    /\ notices' = [notices EXCEPT ![p] = {}]
    /\ ex' = CancelWith({x \in Executions : ProcessOf[x] = p}, "unavailable")
    /\ UNCHANGED <<req, db, sent, done>>

Listen(p) ==
    /\ p \notin ready
    /\ ready' = ready \union {p}
    /\ UNCHANGED <<req, db, notices, ex, sent, done, disruptions>>

\* The client goes away or RequestTimeout passes.
Timeout(x) ==
    /\ Attentive(x)
    /\ \E cause \in {"stopped", "unavailable"} : ex' = CancelWith({x}, cause)
    /\ UNCHANGED <<req, db, ready, notices, sent, done, disruptions>>

Crash(p) ==
    /\ Disrupt
    /\ ex' = [x \in Executions |-> IF ProcessOf[x] = p /\ ex[x].pc \in Registered
                                   THEN Ended ELSE ex[x]]
    /\ notices' = [notices EXCEPT ![p] = {}]
    /\ ready' = ready \union {p}
    /\ UNCHANGED <<req, db, sent, done>>

LowerCapacity ==
    /\ capacity > 1
    /\ Disrupt
    /\ capacity' = capacity - 1
    /\ UNCHANGED <<req, row, leased, ttl, born, call, revoked, ready, notices,
                   ex, sent, done>>

----------------------------------------------------------------------------

Step(x) ==
    \/ Accept(x) \/ AcceptRefused(x) \/ BeginAttempt(x) \/ Dispatch(x)
    \/ GuardFailed(x) \/ Send(x) \/ WroteRequest(x)
    \/ AbortAttempt(x) \/ Write(x) \/ Finish(x) \/ WriteFinal(x)

Next ==
    \/ \E x \in Executions :
          \/ Register(x) \/ Step(x) \/ WriteBegin(x) \/ UpstreamEnds(x)
          \/ FinishUnavailable(x) \/ Renew(x) \/ RenewFailed(x) \/ Timeout(x)
    \/ \E r \in Requests : Cancel(r)
    \/ \E d \in Devices : Revoke(d) \/ ReadState(d)
    \/ \E p \in Processes : Deliver(p) \/ ListenerLost(p) \/ Listen(p) \/ Crash(p)
    \/ LowerCapacity \/ Tick \/ Sweep

\* An execution's own steps go on, its RequestTimeout is a timer, time passes
\* and the recovery worker runs every ten seconds.  The upstream may never
\* answer, notifications may never arrive, renewals may never succeed.
Fairness ==
    /\ \A x \in Executions : WF_vars(Step(x)) /\ WF_vars(Timeout(x))
    /\ WF_vars(Tick)
    /\ WF_vars(Sweep)

Spec == Init /\ [][Next]_vars /\ Fairness

----------------------------------------------------------------------------
(* Properties. *)

States == Open \union Results \union {"failed", "cancelled", "outcome_unknown"}

\* Rows and executions hold the values of their columns and variables; a
\* request's state satisfies the CHECK of its table.
TypeOK ==
    /\ req \in RequestMaps
    /\ row \in [Requests -> [state : States \union {"none"},
                             holder : Executions \union {NoExecution}]]
    /\ leased \subseteq Executions
    /\ ttl \in [Executions -> 0..Duration]
    /\ born \in [Executions -> 0..Cardinality(Executions)]
    /\ \A x \in Executions : call[x] \in [1..Attempts[x] ->
              {"none", "prepared", "dispatching", "counted", "not_dispatched"}]
    /\ capacity \in 1..Capacity
    /\ revoked \subseteq Devices
    /\ ready \subseteq Processes
    /\ \A p \in Processes : notices[p] \subseteq
            ({"request"} \X Requests) \union ({"device"} \X Devices)
    /\ \A x \in Executions : ex[x] \in
              [pc : Registered \union {"idle", "end"}, attempt : 0..Attempts[x],
               cause : {"none", "stopped", "unavailable"},
               goal : States \union {"none"}]
    /\ \A s \in sent : s[1] \in Executions /\ s[2] \in 1..Attempts[s[1]]
    /\ done \subseteq Requests
    /\ disruptions \in 0..MaxDisruptions

\* Open upstream calls never exceed the CLI's share of the pool, nor one per
\* device: a cancelled or expired request keeps its place until its
\* transport is closed (CheckTx, Maintain, finish; cli-model-gateway.md, 7).
UpstreamWithinCapacity ==
    /\ Cardinality(InFlight) <= Capacity - 1
    /\ \A x, y \in InFlight : Device(x) = Device(y) => x = y

\* A call whose bytes reached the upstream is counted, whatever is lost
\* afterwards: the ledger never settles it as not dispatched (Dispatch,
\* modelusage.Finish, RecoverTx).
SentCallsAreCounted ==
    \A s \in sent : call[s[1]][s[2]] \notin {"none", "prepared", "not_dispatched"}

\* However often a client repeats a request id, through crashes and lost
\* replies, one execution at most takes it upstream (accept).
OneSenderPerRequest ==
    \A s, t \in sent : req[s[1]] = req[t[1]] => s[1] = t[1]

\* A client that has the final output never finds another outcome on record:
\* no cancel, recovery or late finish replaces it (finish, guardState).
FinalOutputIsRecorded ==
    \A r \in done : row[r].state \in Results

\* From the commit of a cancel, a revocation or a recovery on, nothing more of
\* the request is sent upstream or written to the client, even by an execution
\* that was past its checks (guard keeps its row locks across the write).
NothingAfterStop ==
    [][\A x \in Executions :
         \/ ex[x].pc = "sending" /\ ex'[x].pc = "wrote"
         \/ ex[x].pc = "writing" /\ ex'[x].pc = "upstream"
         => Row(x).state \in Open /\ Device(x) \notin revoked]_vars

\* Every accepted request reaches a final state and gives its place back, if
\* need be through Sweep, though the upstream hangs or the process dies.
EventuallySettled ==
    \A x \in Executions :
        (x \in leased \/ Unsettled(x)) ~> (x \notin leased /\ ~Unsettled(x))

=============================================================================
