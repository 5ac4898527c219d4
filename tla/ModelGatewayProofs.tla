------------------------- MODULE ModelGatewayProofs -------------------------
(***************************************************************************)
(* Theorems about the model gateway, for any number of processes, calls,    *)
(* requests, devices and attempts, and any lease length and capacity.       *)
(*                                                                         *)
(* The inductive invariant ties each execution to the rows it works under:  *)
(* once accepted it is the holder of its request's row for good, while it   *)
(* holds the row locks the request is open and its device valid, and while  *)
(* its lease is maintained the lease is live, so that the live leases, which *)
(* admission bounds, cover every open upstream call.                        *)
(***************************************************************************)
EXTENDS ModelGateway, FiniteSetTheorems, TLAPS

PCs == Registered \union {"idle", "end"}
Causes == {"none", "stopped", "unavailable"}
GoalStates == States \union {"none"}
CallStates == {"none", "prepared", "dispatching", "counted", "not_dispatched"}
Notices == ({"request"} \X Requests) \union ({"device"} \X Devices)

\* The attempt is with the upstream, as far as the ledger is concerned.
Dispatched == {"dispatching", "counted"}

\* Past accept: the execution owns its request's row.
Active == Registered \ {"accept"}

ExOK(e) ==
    /\ e \in [Executions -> [pc : PCs, attempt : Nat, cause : Causes, goal : GoalStates]]
    /\ \A x \in Executions : e[x].attempt <= Attempts[x]

CallOK(c) ==
    /\ c = [x \in Executions |-> c[x]]
    /\ \A x \in Executions : c[x] \in [1..Attempts[x] -> CallStates]

RowTyped(w) ==
    w \in [Requests -> [state : States \union {"none"},
                        holder : Executions \union {NoExecution}]]

\* TypeOK, with the functions' domains.
Types ==
    /\ req \in RequestMaps
    /\ RowTyped(row)
    /\ leased \subseteq Executions
    /\ ttl \in [Executions -> 0..Duration]
    /\ born \in [Executions -> 0..Calls]
    /\ CallOK(call)
    /\ capacity \in 1..Capacity
    /\ revoked \subseteq Devices
    /\ ready \subseteq Processes
    /\ notices \in [Processes -> SUBSET Notices]
    /\ ExOK(ex)
    /\ sent \subseteq Executions \X Nat
    /\ \A s \in sent : s[2] \in 1..Attempts[s[1]]
    /\ done \subseteq Requests
    /\ disruptions \in 0..MaxDisruptions

----------------------------------------------------------------------------
(* The inductive invariant. *)

\* An execution that is not accepted yet has had no lease.
NotBorn == \A x \in Executions : ex[x].pc \in {"idle", "accept"} => born[x] = 0

\* A request without a row has no holder, and a holder carries the request.
RowsOK ==
    \A r \in Requests :
        /\ row[r].state = "none" => row[r].holder = NoExecution
        /\ row[r].holder # NoExecution => req[row[r].holder] = r

\* An accepted execution is the holder of its row and has a call; before another
\* attempt there is one left, and when it closes it has a state to record.
HolderOK ==
    \A x \in Executions :
        /\ ex[x].pc \in Active => Row(x).holder = x /\ ex[x].attempt >= 1
        /\ ex[x].pc = "retry" => ex[x].attempt < Attempts[x]
        /\ ex[x].pc = "closing" => ex[x].goal \in States

\* While the guard holds the rows, nothing has stopped the request.
HoldingOK ==
    \A x \in Executions :
        ex[x].pc \in Holding => Row(x).state \in Open /\ Device(x) \notin revoked

\* A maintained lease is live.
LeaseOK == \A x \in Executions : ex[x].pc \in Maintained => Live(x)

\* The ledger is committed before the send.
SendingOK ==
    \A x \in Executions : ex[x].pc = "sending" => call[x][ex[x].attempt] \in Dispatched

\* What was sent was sent by the row's holder, is in the ledger as dispatched, and
\* is no later attempt than the current one.
SentOK ==
    \A s \in sent :
        /\ Row(s[1]).holder = s[1]
        /\ call[s[1]][s[2]] \in Dispatched
        /\ ex[s[1]].pc \in Active => s[2] <= ex[s[1]].attempt

\* Admission's promise about live leases.
PoolOK ==
    /\ Cardinality(LiveLeases) <= Capacity - 1
    /\ \A x, y \in LiveLeases : Device(x) = Device(y) => x = y

Inv ==
    /\ Types /\ NotBorn /\ RowsOK /\ HolderOK /\ HoldingOK /\ LeaseOK
    /\ SendingOK /\ SentOK /\ FinalOutputIsRecorded /\ PoolOK

----------------------------------------------------------------------------
(* What every step but Accept obeys, and why that keeps the invariant. *)

StepLaw(x) ==
    /\ ex'[x].pc \in {"idle", "accept"} => ex[x].pc \in {"idle", "accept"}
    /\ ex'[x].pc \in Active => ex[x].pc \in Active /\ ex'[x].attempt >= ex[x].attempt
    /\ ex'[x].pc = "retry" => ex'[x].attempt < Attempts[x]
    /\ ex'[x].pc = "closing" => ex'[x].goal \in States
    /\ ex'[x].pc \in Maintained => x \in leased' /\ ttl'[x] > 0
    /\ ex'[x].pc \in Holding => row'[req[x]].state \in Open /\ Device(x) \notin revoked'
    /\ ex'[x].pc = "sending" => call'[x][ex'[x].attempt] \in Dispatched

RowLaw(r) ==
    /\ row'[r].holder = row[r].holder
    /\ row'[r].state = "none" => row[r].state = "none"
    /\ row[r].state \in Results => row'[r].state \in Results

SentLaw ==
    \A s \in sent' :
        /\ s \in sent \/ (ex[s[1]].pc = "sending" /\ s[2] = ex[s[1]].attempt)
        /\ call'[s[1]][s[2]] \in Dispatched

Law ==
    /\ UNCHANGED <<req, born>>
    /\ \A x \in Executions : StepLaw(x)
    /\ \A r \in Requests : RowLaw(r)
    /\ SentLaw
    /\ \A x \in Executions : x \in leased' /\ ttl'[x] > 0 => x \in leased /\ ttl[x] > 0
    /\ \A r \in done' : r \in done \/ row'[r].state \in Results

LEMMA ExecutionsFinite ==
    /\ IsFiniteSet(Executions)
    /\ Cardinality(Executions) = Calls
    /\ \A x \in Executions : x \in Nat /\ x # NoExecution
<1>1. Calls \in Nat
  BY ConstantsAssumption DEF ConstantsAssumption
<1>2. IsFiniteSet(1..Calls) /\ Cardinality(1..Calls) = Calls
  BY <1>1, FS_Interval
<1>. QED
  BY <1>1, <1>2 DEF Executions, NoExecution

\* The constants, in the form the steps below use.
LEMMA ConstantFacts ==
    /\ Calls \in Nat
    /\ ProcessOf \in [Executions -> Processes]
    /\ DeviceOf \in [Requests -> Devices]
    /\ RequestMaps \subseteq [Executions -> Requests]
    /\ Capacity \in Nat /\ Capacity >= 2
    /\ Duration \in Nat /\ Duration >= 2
    /\ \A x \in Executions : Attempts[x] \in Nat /\ Attempts[x] >= 1
    /\ MaxDisruptions \in Nat
<1>1. Attempts \in [Executions -> Nat \ {0}]
  BY ConstantsAssumption DEF ConstantsAssumption
<1>2. \A x \in Executions : Attempts[x] \in Nat /\ Attempts[x] >= 1
  BY <1>1
<1>. QED
  BY <1>2, ConstantsAssumption DEF ConstantsAssumption

LEMMA TypeFacts ==
    ASSUME Types
    PROVE  /\ req \in [Executions -> Requests]
           /\ \A r \in Requests : row[r] \in [state : States \union {"none"},
                                              holder : Executions \union {NoExecution}]
           /\ \A x \in Executions :
                 /\ req[x] \in Requests
                 /\ Device(x) \in Devices
                 /\ ttl[x] \in 0..Duration
                 /\ ex[x] \in [pc : PCs, attempt : Nat, cause : Causes, goal : GoalStates]
                 /\ ex[x].pc \in PCs /\ ex[x].attempt \in Nat /\ ex[x].cause \in Causes
                 /\ ex[x].goal \in GoalStates
                 /\ ex[x].attempt <= Attempts[x]
           /\ \A s \in sent : s = <<s[1], s[2]>> /\ s[1] \in Executions /\ s[2] \in Nat
<1>1. req \in [Executions -> Requests]
  BY ConstantFacts DEF Types
<1>2. \A x \in Executions : req[x] \in Requests /\ Device(x) \in Devices
  BY <1>1, ConstantFacts DEF Device
<1>3. \A r \in Requests : row[r] \in [state : States \union {"none"},
                                      holder : Executions \union {NoExecution}]
  BY DEF Types, RowTyped
<1>4. \A x \in Executions :
         /\ ttl[x] \in 0..Duration
         /\ ex[x] \in [pc : PCs, attempt : Nat, cause : Causes, goal : GoalStates]
         /\ ex[x].attempt <= Attempts[x]
  BY DEF Types, ExOK
<1>5. \A s \in sent : s = <<s[1], s[2]>> /\ s[1] \in Executions /\ s[2] \in Nat
  BY DEF Types
<1>. QED
  BY <1>1, <1>2, <1>3, <1>4, <1>5

LEMMA ActiveParts ==
    /\ Maintained \subseteq Active
    /\ Holding \subseteq Maintained
    /\ "sending" \in Holding /\ "retry" \in Active
    /\ "idle" \notin Active /\ "accept" \notin Active /\ "end" \notin Active
BY DEF Maintained, Active, Registered, Holding

\* A step that obeys the law keeps the invariant.
LEMMA LawKeeps ==
    ASSUME Inv, Types', Law
    PROVE  Inv'
<1>1. Types /\ NotBorn /\ RowsOK /\ HolderOK /\ HoldingOK /\ LeaseOK
      /\ SendingOK /\ SentOK /\ FinalOutputIsRecorded /\ PoolOK
  BY DEF Inv
<1>2. /\ req' = req /\ born' = born
      /\ \A x \in Executions : StepLaw(x)
      /\ \A r \in Requests : RowLaw(r)
      /\ SentLaw
      /\ \A x \in Executions : x \in leased' /\ ttl'[x] > 0 => x \in leased /\ ttl[x] > 0
      /\ \A r \in done' : r \in done \/ row'[r].state \in Results
  BY DEF Law
<1>3. /\ \A x \in Executions : req[x] \in Requests
      /\ \A x \in Executions : ex[x].attempt \in Nat /\ ex'[x].attempt \in Nat
      /\ \A r \in Requests : row[r].holder \in Executions \union {NoExecution}
      /\ \A s \in sent : s[1] \in Executions /\ s[2] \in Nat
      /\ \A s \in sent' : s[1] \in Executions /\ s[2] \in Nat
      /\ done' \subseteq Requests /\ leased' \subseteq Executions
  <2>1. \A x \in Executions : ex'[x].attempt \in Nat
    BY DEF Types, ExOK
  <2>2. \A s \in sent' : s[1] \in Executions /\ s[2] \in Nat
    BY DEF Types
  <2>3. done' \subseteq Requests /\ leased' \subseteq Executions
    BY DEF Types
  <2>. QED
    BY <1>1, <2>1, <2>2, <2>3, TypeFacts
<1>4. NotBorn'
  BY <1>1, <1>2 DEF NotBorn, StepLaw
<1>5. RowsOK'
  BY <1>1, <1>2 DEF RowsOK, RowLaw
<1>6. HolderOK'
  BY <1>1, <1>2, <1>3 DEF HolderOK, StepLaw, RowLaw, Row
<1>7. HoldingOK'
  BY <1>2 DEF HoldingOK, StepLaw, Row, Device
<1>8. LeaseOK'
  BY <1>2 DEF LeaseOK, StepLaw, Live
<1>9. SendingOK'
  BY <1>2 DEF SendingOK, StepLaw
<1>10. SentOK'
  <2> SUFFICES ASSUME NEW s \in sent'
               PROVE  /\ Row(s[1])'.holder = s[1]
                      /\ call'[s[1]][s[2]] \in Dispatched
                      /\ ex'[s[1]].pc \in Active => s[2] <= ex'[s[1]].attempt
    BY DEF SentOK
  <2>1. s[1] \in Executions /\ s[2] \in Nat /\ req[s[1]] \in Requests
    BY <1>3
  <2>2. /\ Row(s[1]).holder = s[1]
        /\ ex[s[1]].pc \in Active => s[2] <= ex[s[1]].attempt
    BY <1>1, <1>2, <2>1, ActiveParts, <1>3 DEF SentOK, SentLaw, HolderOK, Active, Registered
  <2>3. Row(s[1])'.holder = s[1]
    BY <1>2, <2>1, <2>2 DEF Row, RowLaw
  <2>4. ex'[s[1]].pc \in Active => s[2] <= ex'[s[1]].attempt
    BY <1>2, <1>3, <2>1, <2>2 DEF StepLaw
  <2>5. call'[s[1]][s[2]] \in Dispatched
    BY <1>2 DEF SentLaw
  <2>. QED
    BY <2>3, <2>4, <2>5
<1>11. FinalOutputIsRecorded'
  BY <1>1, <1>2, <1>3 DEF FinalOutputIsRecorded, RowLaw
<1>12. PoolOK'
  <2>1. LiveLeases' \subseteq LiveLeases
    BY <1>2 DEF LiveLeases, Live
  <2>2. LiveLeases \subseteq Executions
    BY DEF LiveLeases
  <2>3. IsFiniteSet(LiveLeases)
    BY <2>2, ExecutionsFinite, FS_Subset
  <2>4. /\ Cardinality(LiveLeases') <= Cardinality(LiveLeases)
        /\ Cardinality(LiveLeases') \in Nat /\ Cardinality(LiveLeases) \in Nat
    BY <2>1, <2>3, FS_Subset, FS_CardinalityType
  <2>5. Cardinality(LiveLeases') <= Capacity - 1
    BY <1>1, <2>4, ConstantFacts DEF PoolOK
  <2>6. \A x, y \in LiveLeases' : Device(x)' = Device(y)' => x = y
    BY <1>1, <1>2, <2>1 DEF PoolOK, Device
  <2>. QED
    BY <2>5, <2>6 DEF PoolOK
<1>. QED
  BY <1>4, <1>5, <1>6, <1>7, <1>8, <1>9, <1>10, <1>11, <1>12 DEF Inv

----------------------------------------------------------------------------
(* What the assignments of the actions do. *)

LEMMA ExSet ==
    ASSUME ExOK(ex), NEW x \in Executions,
           NEW v \in [pc : PCs, attempt : Nat, cause : Causes, goal : GoalStates],
           v.attempt <= Attempts[x],
           ex' = [ex EXCEPT ![x] = v]
    PROVE  /\ ExOK(ex)'
           /\ ex'[x] = v
           /\ \A y \in Executions : y # x => ex'[y] = ex[y]
<1>1. ex'[x] = v /\ \A y \in Executions : y # x => ex'[y] = ex[y]
  BY DEF ExOK
<1>2. ex' \in [Executions -> [pc : PCs, attempt : Nat, cause : Causes, goal : GoalStates]]
  BY DEF ExOK
<1>3. \A y \in Executions : ex'[y].attempt <= Attempts[y]
  BY <1>1 DEF ExOK
<1>. QED
  BY <1>1, <1>2, <1>3 DEF ExOK

LEMMA GotoFacts ==
    ASSUME ExOK(ex), NEW x \in Executions, NEW p \in PCs, ex' = Goto(x, p)
    PROVE  /\ ExOK(ex)'
           /\ ex'[x].pc = p /\ ex'[x].attempt = ex[x].attempt
           /\ ex'[x].cause = ex[x].cause /\ ex'[x].goal = ex[x].goal
           /\ \A y \in Executions : y # x => ex'[y] = ex[y]
<1> DEFINE v == [ex[x] EXCEPT !.pc = p]
<1>1. ex[x] \in [pc : PCs, attempt : Nat, cause : Causes, goal : GoalStates]
      /\ ex[x].attempt <= Attempts[x]
  BY DEF ExOK
<1>2. /\ v \in [pc : PCs, attempt : Nat, cause : Causes, goal : GoalStates]
      /\ v.pc = p /\ v.attempt = ex[x].attempt
      /\ v.cause = ex[x].cause /\ v.goal = ex[x].goal
  BY <1>1
<1>3. ex' = [ex EXCEPT ![x] = v]
  BY DEF Goto
<1> HIDE DEF v
<1>4. ExOK(ex)' /\ ex'[x] = v /\ \A y \in Executions : y # x => ex'[y] = ex[y]
  BY <1>1, <1>2, <1>3, ExSet
<1>. QED
  BY <1>2, <1>4

LEMMA AttemptFacts ==
    ASSUME ExOK(ex), NEW x \in Executions, NEW p \in PCs, NEW a \in Nat,
           a <= Attempts[x],
           ex' = [Goto(x, p) EXCEPT ![x].attempt = a]
    PROVE  /\ ExOK(ex)'
           /\ ex'[x].pc = p /\ ex'[x].attempt = a
           /\ \A y \in Executions : y # x => ex'[y] = ex[y]
<1> DEFINE v == [ex[x] EXCEPT !.pc = p, !.attempt = a]
<1>1. ex[x] \in [pc : PCs, attempt : Nat, cause : Causes, goal : GoalStates]
  BY DEF ExOK
<1>2. /\ v \in [pc : PCs, attempt : Nat, cause : Causes, goal : GoalStates]
      /\ v.pc = p /\ v.attempt = a
  BY <1>1
<1>3. ex' = [ex EXCEPT ![x] = v]
  BY <1>1 DEF Goto, ExOK
<1> HIDE DEF v
<1>4. ExOK(ex)' /\ ex'[x] = v /\ \A y \in Executions : y # x => ex'[y] = ex[y]
  BY <1>2, <1>3, ExSet
<1>. QED
  BY <1>2, <1>4

LEMMA EndFacts ==
    ASSUME ExOK(ex), NEW x \in Executions, ex' = End(x)
    PROVE  /\ ExOK(ex)'
           /\ ex'[x].pc = "end"
           /\ \A y \in Executions : y # x => ex'[y] = ex[y]
<1>1. /\ Ended \in [pc : PCs, attempt : Nat, cause : Causes, goal : GoalStates]
      /\ Ended.pc = "end" /\ Ended.attempt = 0
  BY DEF Ended, Fresh, PCs, Causes, GoalStates
<1>2. Ended.attempt <= Attempts[x]
  BY <1>1, ConstantFacts
<1>3. ex' = [ex EXCEPT ![x] = Ended]
  BY DEF End
<1>4. ExOK(ex)' /\ ex'[x] = Ended /\ \A y \in Executions : y # x => ex'[y] = ex[y]
  BY <1>1, <1>2, <1>3, ExSet
<1>. QED
  BY <1>1, <1>4

LEMMA ClosingFacts ==
    ASSUME ExOK(ex), NEW x \in Executions, NEW goal \in States, ex' = Closing(x, goal)
    PROVE  /\ ExOK(ex)'
           /\ ex'[x].pc = "closing" /\ ex'[x].attempt = ex[x].attempt
           /\ ex'[x].goal = goal
           /\ \A y \in Executions : y # x => ex'[y] = ex[y]
<1> DEFINE cs == IF goal \in Results THEN ex[x].cause ELSE "none"
           v == [ex[x] EXCEPT !.pc = "closing", !.goal = goal, !.cause = cs]
<1>1. ex[x] \in [pc : PCs, attempt : Nat, cause : Causes, goal : GoalStates]
      /\ ex[x].attempt <= Attempts[x]
  BY DEF ExOK
<1>2. ex' = [ex EXCEPT ![x] = v]
  BY <1>1 DEF Closing, ExOK
<1>3. cs \in Causes
  BY <1>1 DEF Causes
<1>4. "closing" \in PCs /\ goal \in GoalStates
  BY DEF PCs, Registered, GoalStates
<1> HIDE DEF cs
<1>5. /\ v \in [pc : PCs, attempt : Nat, cause : Causes, goal : GoalStates]
      /\ v.pc = "closing" /\ v.attempt = ex[x].attempt /\ v.goal = goal
  BY <1>1, <1>3, <1>4
<1> HIDE DEF v
<1>6. ExOK(ex)' /\ ex'[x] = v /\ \A y \in Executions : y # x => ex'[y] = ex[y]
  BY <1>1, <1>2, <1>5, ExSet
<1>. QED
  BY <1>5, <1>6

LEMMA CauseFacts ==
    ASSUME ExOK(ex), NEW x \in Executions, NEW c \in Causes,
           ex' = [ex EXCEPT ![x].cause = c]
    PROVE  /\ ExOK(ex)'
           /\ ex'[x].pc = ex[x].pc /\ ex'[x].attempt = ex[x].attempt
           /\ ex'[x].goal = ex[x].goal
           /\ \A y \in Executions : y # x => ex'[y] = ex[y]
<1> DEFINE v == [ex[x] EXCEPT !.cause = c]
<1>1. ex[x] \in [pc : PCs, attempt : Nat, cause : Causes, goal : GoalStates]
      /\ ex[x].attempt <= Attempts[x]
  BY DEF ExOK
<1>2. /\ v \in [pc : PCs, attempt : Nat, cause : Causes, goal : GoalStates]
      /\ v.pc = ex[x].pc /\ v.attempt = ex[x].attempt /\ v.goal = ex[x].goal
  BY <1>1
<1>3. ex' = [ex EXCEPT ![x] = v]
  OBVIOUS
<1> HIDE DEF v
<1>4. ExOK(ex)' /\ ex'[x] = v /\ \A y \in Executions : y # x => ex'[y] = ex[y]
  BY <1>1, <1>2, <1>3, ExSet
<1>. QED
  BY <1>2, <1>4

LEMMA CallSet ==
    ASSUME CallOK(call), NEW x \in Executions, NEW f \in [1..Attempts[x] -> CallStates],
           call' = [call EXCEPT ![x] = f]
    PROVE  /\ CallOK(call)'
           /\ call'[x] = f
           /\ \A y \in Executions : y # x => call'[y] = call[y]
<1>1. call = [y \in Executions |-> call[y]]
  BY DEF CallOK
<1>2. call'[x] = f /\ \A y \in Executions : y # x => call'[y] = call[y]
  BY <1>1
<1>3. call' = [y \in Executions |-> call'[y]]
  BY <1>1
<1>4. \A y \in Executions : call'[y] \in [1..Attempts[y] -> CallStates]
  BY <1>2 DEF CallOK
<1>5. CallOK(call)'
  BY <1>3, <1>4 DEF CallOK
<1>. QED
  BY <1>2, <1>5

LEMMA SettleFacts ==
    ASSUME Types, NEW x \in Executions, ex[x].attempt \in 1..Attempts[x],
           call' = SettleRef(x)
    PROVE  /\ CallOK(call)'
           /\ \A y \in Executions : \A n \in 1..Attempts[y] :
                 call[y][n] \in Dispatched => call'[y][n] \in Dispatched
<1> DEFINE k == ex[x].attempt
           v == Settled(call[x][k])
           f == [call[x] EXCEPT ![k] = v]
<1>1. CallOK(call) /\ call[x] \in [1..Attempts[x] -> CallStates]
  BY DEF Types, CallOK
<1>2. call[x][k] \in CallStates
  BY <1>1
<1>3. v \in CallStates /\ (call[x][k] \in Dispatched => v \in Dispatched)
  BY <1>2 DEF Settled, CallStates, Dispatched
<1>4. call' = [call EXCEPT ![x] = f]
  BY DEF SettleRef
<1>5. k \in 1..Attempts[x]
  OBVIOUS
<1> HIDE DEF v, k
<1>6. /\ f \in [1..Attempts[x] -> CallStates] /\ f[k] = v
      /\ \A n \in 1..Attempts[x] : n # k => f[n] = call[x][n]
  BY <1>1, <1>3, <1>5
<1> HIDE DEF f
<1>7. CallOK(call)' /\ call'[x] = f /\ \A y \in Executions : y # x => call'[y] = call[y]
  BY <1>1, <1>4, <1>6, CallSet
<1>. QED
  BY <1>3, <1>6, <1>7

\* The only writes to a row that has been accepted: its state, while it is open.
LEMMA RowSet ==
    ASSUME Types, NEW r \in Requests, NEW g \in States,
           row[r].state \in Open, row' = [row EXCEPT ![r].state = g]
    PROVE  /\ RowTyped(row)'
           /\ \A q \in Requests : RowLaw(q)
           /\ row'[r].state = g
           /\ \A q \in Requests : q # r => row'[q] = row[q]
<1> DEFINE v == [row[r] EXCEPT !.state = g]
<1>1. row[r] \in [state : States \union {"none"}, holder : Executions \union {NoExecution}]
  BY DEF Types, RowTyped
<1>2. /\ v \in [state : States \union {"none"}, holder : Executions \union {NoExecution}]
      /\ v.state = g /\ v.holder = row[r].holder
  BY <1>1
<1>3. row' = [row EXCEPT ![r] = v]
  OBVIOUS
<1> HIDE DEF v
<1>4. row'[r] = v /\ \A q \in Requests : q # r => row'[q] = row[q]
  BY <1>3 DEF Types, RowTyped
<1>5. RowTyped(row)'
  BY <1>2, <1>3 DEF Types, RowTyped
<1>6. g # "none" /\ row[r].state \notin Results
  BY DEF States, Open, Results
<1>7. \A q \in Requests : RowLaw(q)
  BY <1>2, <1>4, <1>6 DEF RowLaw
<1>. QED
  BY <1>2, <1>4, <1>5, <1>7

LEMMA RowSame ==
    ASSUME row' = row
    PROVE  \A q \in Requests : RowLaw(q)
BY DEF RowLaw

\* An execution that stays where it is, registers or ends.
Keeps(y) ==
    \/ /\ ex'[y].pc = ex[y].pc /\ ex'[y].attempt = ex[y].attempt
       /\ ex'[y].goal = ex[y].goal
    \/ ex'[y].pc = "end"
    \/ ex[y].pc = "idle" /\ ex'[y].pc = "accept"

LEMMA KeepsLaw ==
    ASSUME Inv, NEW y \in Executions, Keeps(y),
           ex[y].pc \in Maintained => y \in leased' /\ ttl'[y] > 0,
           ex[y].pc \in Holding =>
              row'[req[y]].state \in Open /\ Device(y) \notin revoked',
           ex[y].pc = "sending" => call'[y][ex[y].attempt] \in Dispatched
    PROVE  StepLaw(y)
<1>1. /\ ex[y].attempt \in Nat
      /\ ex[y].pc = "retry" => ex[y].attempt < Attempts[y]
      /\ ex[y].pc = "closing" => ex[y].goal \in States
  BY TypeFacts DEF Inv, HolderOK
<1>2. /\ "end" \notin Active \union Maintained \union Holding
      /\ "accept" \notin Active \union Maintained \union Holding
      /\ "closing" \notin Maintained \union Holding
      /\ "finalized" \notin Maintained \union Holding
  BY DEF Active, Registered, Maintained, Holding
<1>3. CASE /\ ex'[y].pc = ex[y].pc /\ ex'[y].attempt = ex[y].attempt
           /\ ex'[y].goal = ex[y].goal
  BY <1>1, <1>3 DEF StepLaw
<1>4. CASE ex'[y].pc = "end"
  BY <1>2, <1>4 DEF StepLaw
<1>5. CASE ex[y].pc = "idle" /\ ex'[y].pc = "accept"
  BY <1>2, <1>5 DEF StepLaw
<1>. QED
  BY <1>3, <1>4, <1>5 DEF Keeps

\* The facts of the invariant that the steps below use.
LEMMA InvFacts ==
    ASSUME Inv
    PROVE  /\ Types
           /\ \A x \in Executions :
                 /\ ex[x].pc \in Active =>
                       /\ Row(x).holder = x /\ ex[x].attempt \in 1..Attempts[x]
                       /\ Row(x).state # "none"
                 /\ ex[x].pc = "retry" => ex[x].attempt + 1 \in 1..Attempts[x]
                 /\ ex[x].pc = "closing" => ex[x].goal \in States
                 /\ ex[x].pc \in Holding => Row(x).state \in Open /\ Device(x) \notin revoked
                 /\ ex[x].pc \in Maintained => x \in leased /\ ttl[x] > 0
                 /\ ex[x].pc = "sending" => call[x][ex[x].attempt] \in Dispatched
           /\ \A s \in sent :
                 /\ s[1] \in Executions /\ s[2] \in 1..Attempts[s[1]]
                 /\ call[s[1]][s[2]] \in Dispatched
<1>1. Types /\ RowsOK /\ HolderOK /\ HoldingOK /\ LeaseOK /\ SendingOK /\ SentOK
  BY DEF Inv
<1>2. ASSUME NEW x \in Executions
      PROVE  /\ ex[x].pc \in Active =>
                   /\ Row(x).holder = x /\ ex[x].attempt \in 1..Attempts[x]
                   /\ Row(x).state # "none"
             /\ ex[x].pc = "retry" => ex[x].attempt + 1 \in 1..Attempts[x]
             /\ ex[x].pc = "closing" => ex[x].goal \in States
  <2>1. /\ x # NoExecution /\ req[x] \in Requests /\ ex[x].attempt \in Nat
        /\ ex[x].attempt <= Attempts[x] /\ Attempts[x] \in Nat
    BY <1>1, ExecutionsFinite, TypeFacts, ConstantFacts
  <2>. QED
    BY <1>1, <2>1 DEF RowsOK, HolderOK, Row
<1>3. ASSUME NEW x \in Executions
      PROVE  /\ ex[x].pc \in Holding => Row(x).state \in Open /\ Device(x) \notin revoked
             /\ ex[x].pc \in Maintained => x \in leased /\ ttl[x] > 0
             /\ ex[x].pc = "sending" => call[x][ex[x].attempt] \in Dispatched
  BY <1>1 DEF HoldingOK, LeaseOK, Live, SendingOK
<1>4. ASSUME NEW s \in sent
      PROVE  /\ s[1] \in Executions /\ s[2] \in 1..Attempts[s[1]]
             /\ call[s[1]][s[2]] \in Dispatched
  BY <1>1 DEF Types, SentOK
<1>. QED
  BY <1>1, <1>2, <1>3, <1>4

LEMMA DisruptFacts ==
    ASSUME Types, Disrupt \/ UNCHANGED disruptions
    PROVE  disruptions' \in 0..MaxDisruptions
BY ConstantFacts DEF Types, Disrupt

LEMMA NotifiedFacts ==
    ASSUME Types, NEW n \in Notices
    PROVE  Notified(n) \in [Processes -> SUBSET Notices]
BY DEF Types, Notified

LEMMA SentSame ==
    ASSUME Inv, sent' = sent,
           \A y \in Executions : \A n \in 1..Attempts[y] :
              call[y][n] \in Dispatched => call'[y][n] \in Dispatched
    PROVE  SentLaw
<1>1. \A s \in sent : /\ s[1] \in Executions /\ s[2] \in 1..Attempts[s[1]]
                      /\ call[s[1]][s[2]] \in Dispatched
  BY InvFacts
<1>2. ASSUME NEW s \in sent
      PROVE  call'[s[1]][s[2]] \in Dispatched
  <2>1. s[1] \in Executions /\ s[2] \in 1..Attempts[s[1]] /\ call[s[1]][s[2]] \in Dispatched
    BY <1>1
  <2>. QED
    BY <2>1
<1>. QED
  BY <1>2 DEF SentLaw

\* The steps that leave the database alone.
LEMMA QuietTypes ==
    ASSUME Types, UNCHANGED <<req, db>>, ExOK(ex)',
           sent' \subseteq Executions \X Nat, \A s \in sent' : s[2] \in 1..Attempts[s[1]],
           done' \subseteq Requests,
           ready' \subseteq Processes, notices' \in [Processes -> SUBSET Notices],
           disruptions' \in 0..MaxDisruptions
    PROVE  Types'
<1>1. /\ req' = req /\ row' = row /\ leased' = leased /\ ttl' = ttl /\ born' = born
      /\ call' = call /\ capacity' = capacity /\ revoked' = revoked
  BY DEF db
<1>2. RowTyped(row)' /\ CallOK(call)'
  BY <1>1 DEF Types, RowTyped, CallOK
<1>. QED
  BY <1>1, <1>2 DEF Types

LEMMA QuietLaw ==
    ASSUME Inv, UNCHANGED <<req, db, sent, done>>, \A y \in Executions : StepLaw(y)
    PROVE  Law
<1>1. /\ req' = req /\ row' = row /\ leased' = leased /\ ttl' = ttl /\ born' = born
      /\ call' = call /\ sent' = sent /\ done' = done
  BY DEF db
<1>2. SentLaw
  BY <1>1, SentSame
<1>. QED
  BY <1>1, <1>2, RowSame DEF Law

LEMMA QuietKeeps ==
    ASSUME Inv, UNCHANGED <<req, db, sent, done>>, \A y \in Executions : Keeps(y)
    PROVE  Law
<1>1. /\ row' = row /\ leased' = leased /\ ttl' = ttl /\ call' = call /\ revoked' = revoked
  BY DEF db
<1>2. ASSUME NEW y \in Executions
      PROVE  StepLaw(y)
  <2>1. ex[y].pc \in Maintained => y \in leased' /\ ttl'[y] > 0
    BY <1>1, InvFacts
  <2>2. ex[y].pc \in Holding => row'[req[y]].state \in Open /\ Device(y) \notin revoked'
    BY <1>1, InvFacts DEF Row
  <2>3. ex[y].pc = "sending" => call'[y][ex[y].attempt] \in Dispatched
    BY <1>1, InvFacts
  <2>. QED
    BY <2>1, <2>2, <2>3, KeepsLaw
<1>. QED
  BY <1>2, QuietLaw

LEMMA KeepsOthers ==
    ASSUME NEW x \in Executions, \A y \in Executions : y # x => ex'[y] = ex[y], Keeps(x)
    PROVE  \A y \in Executions : Keeps(y)
BY DEF Keeps

LEMMA PCFacts ==
    /\ {"idle", "accept", "run", "retry", "sending", "wrote", "upstream", "writing",
        "closing", "finalized", "end"} = PCs
    /\ Active = {"run", "retry", "sending", "wrote", "upstream", "writing", "closing",
                 "finalized"}
BY DEF PCs, Registered, Active

LEMMA RegisterStep ==
    ASSUME Inv, NEW x \in Executions, Register(x)
    PROVE  Types' /\ Law
<1>1. Types /\ ExOK(ex)
  BY InvFacts DEF Types
<1>2. /\ ex[x].pc = "idle" /\ ex' = Goto(x, "accept")
      /\ UNCHANGED <<req, db, ready, notices, sent, done, disruptions>>
  BY DEF Register
<1>3. /\ ExOK(ex)' /\ ex'[x].pc = "accept"
      /\ \A y \in Executions : y # x => ex'[y] = ex[y]
  BY <1>1, <1>2, GotoFacts, PCFacts
<1>4. Keeps(x)
  BY <1>2, <1>3 DEF Keeps
<1>5. Types'
  BY <1>1, <1>2, <1>3, QuietTypes DEF Types
<1>. QED
  BY <1>2, <1>3, <1>4, <1>5, KeepsOthers, QuietKeeps

LEMMA AcceptRefusedStep ==
    ASSUME Inv, NEW x \in Executions, AcceptRefused(x)
    PROVE  Types' /\ Law
<1>1. Types /\ ExOK(ex)
  BY InvFacts DEF Types
<1>2. ex' = End(x) /\ UNCHANGED <<req, db, ready, notices, sent, done, disruptions>>
  BY DEF AcceptRefused
<1>3. /\ ExOK(ex)' /\ ex'[x].pc = "end"
      /\ \A y \in Executions : y # x => ex'[y] = ex[y]
  BY <1>1, <1>2, EndFacts
<1>4. Keeps(x)
  BY <1>3 DEF Keeps
<1>5. Types'
  BY <1>1, <1>2, <1>3, QuietTypes DEF Types
<1>. QED
  BY <1>2, <1>3, <1>4, <1>5, KeepsOthers, QuietKeeps

\* The step of one execution from a maintained place to another one: the law for
\* the others, which stay.
LEMMA OthersStay ==
    ASSUME Inv, UNCHANGED <<req, row, leased, ttl, revoked>>, NEW x \in Executions,
           \A y \in Executions : \A n \in 1..Attempts[y] :
              call[y][n] \in Dispatched => call'[y][n] \in Dispatched,
           \A y \in Executions : y # x => ex'[y] = ex[y],
           NEW y \in Executions, y # x
    PROVE  StepLaw(y)
<1>1. Keeps(y)
  BY DEF Keeps
<1>2. ex[y].pc \in Maintained => y \in leased' /\ ttl'[y] > 0
  BY InvFacts
<1>3. ex[y].pc \in Holding => row'[req[y]].state \in Open /\ Device(y) \notin revoked'
  BY InvFacts DEF Row
<1>4. ex[y].pc = "sending" => call'[y][ex[y].attempt] \in Dispatched
  BY InvFacts, PCFacts
<1>. QED
  BY <1>1, <1>2, <1>3, <1>4, KeepsLaw

LEMMA SendStep ==
    ASSUME Inv, NEW x \in Executions, Send(x)
    PROVE  Types' /\ Law
<1>1. Types /\ ExOK(ex)
  BY InvFacts DEF Types
<1>2. /\ ex[x].pc = "sending" /\ ex' = Goto(x, "wrote")
      /\ sent' = sent \union {<<x, ex[x].attempt>>}
      /\ UNCHANGED <<req, db, ready, notices, done, disruptions>>
  BY DEF Send
<1>3. /\ ExOK(ex)' /\ ex'[x].pc = "wrote" /\ ex'[x].attempt = ex[x].attempt
      /\ \A y \in Executions : y # x => ex'[y] = ex[y]
  BY <1>1, <1>2, GotoFacts, PCFacts
<1>4. /\ ex[x].attempt \in 1..Attempts[x] /\ ex[x].attempt \in Nat
      /\ call[x][ex[x].attempt] \in Dispatched
      /\ x \in leased /\ ttl[x] > 0 /\ Row(x).state \in Open /\ Device(x) \notin revoked
  BY <1>1, <1>2, InvFacts, TypeFacts, PCFacts DEF Maintained, Holding
<1>5. /\ req' = req /\ row' = row /\ leased' = leased /\ ttl' = ttl /\ born' = born
      /\ call' = call /\ revoked' = revoked /\ done' = done
  BY <1>2 DEF db
<1>6. Types'
  <2>1. sent' \subseteq Executions \X Nat /\ \A s \in sent' : s[2] \in 1..Attempts[s[1]]
    BY <1>1, <1>2, <1>4 DEF Types
  <2>. QED
    BY <1>1, <1>2, <1>3, <2>1, QuietTypes DEF Types
<1>7. SentLaw
  <2>1. \A s \in sent : call[s[1]][s[2]] \in Dispatched
    BY InvFacts
  <2>2. ASSUME NEW s \in sent'
        PROVE  s \in sent \/ s = <<x, ex[x].attempt>>
    BY <1>2
  <2>3. ASSUME NEW s, s = <<x, ex[x].attempt>>
        PROVE  s[1] = x /\ s[2] = ex[x].attempt
    BY <2>3
  <2>4. ASSUME NEW s \in sent'
        PROVE  /\ s \in sent \/ (ex[s[1]].pc = "sending" /\ s[2] = ex[s[1]].attempt)
               /\ call[s[1]][s[2]] \in Dispatched
    BY <1>2, <1>4, <2>1, <2>2, <2>3
  <2>. QED
    BY <1>5, <2>4 DEF SentLaw
<1>8. StepLaw(x)
  BY <1>2, <1>3, <1>4, <1>5, PCFacts DEF StepLaw, Row, Device
<1>9. \A y \in Executions : StepLaw(y)
  BY <1>3, <1>5, <1>8, OthersStay
<1>. QED
  BY <1>5, <1>6, <1>7, <1>9, RowSame DEF Law

LEMMA WriteBeginStep ==
    ASSUME Inv, NEW x \in Executions, WriteBegin(x)
    PROVE  Types' /\ Law
<1>1. Types /\ ExOK(ex)
  BY InvFacts DEF Types
<1>2. /\ ex[x].pc = "upstream"
      /\ UNCHANGED <<req, db, ready, notices, sent, done, disruptions>>
  BY DEF WriteBegin
<1>3. CASE GuardOK(x)
  <2>1. /\ ExOK(ex)' /\ ex'[x].pc = "writing" /\ ex'[x].attempt = ex[x].attempt
        /\ \A y \in Executions : y # x => ex'[y] = ex[y]
    BY <1>1, <1>3, GotoFacts, PCFacts DEF WriteBegin
  <2>2. Types'
    BY <1>1, <1>2, <2>1, QuietTypes DEF Types
  <2>3. /\ req' = req /\ row' = row /\ leased' = leased /\ ttl' = ttl
        /\ call' = call /\ revoked' = revoked
    BY <1>2 DEF db
  <2>4. x \in leased /\ ttl[x] > 0 /\ Row(x).state \in Open /\ Device(x) \notin revoked
        /\ ex[x].attempt \in Nat
    BY <1>1, <1>3, TypeFacts DEF GuardOK, Live
  <2>5. StepLaw(x)
    BY <1>2, <2>1, <2>3, <2>4, PCFacts DEF StepLaw, Row, Device
  <2>6. \A y \in Executions : StepLaw(y)
    BY <2>1, <2>3, <2>5, OthersStay
  <2>. QED
    BY <1>2, <2>2, <2>6, QuietLaw
<1>4. CASE ~GuardOK(x)
  <2>1. /\ ExOK(ex)' /\ ex'[x].pc = ex[x].pc /\ ex'[x].attempt = ex[x].attempt
        /\ ex'[x].goal = ex[x].goal
        /\ \A y \in Executions : y # x => ex'[y] = ex[y]
    BY <1>1, <1>4, CauseFacts DEF WriteBegin, Causes
  <2>2. Types'
    BY <1>1, <1>2, <2>1, QuietTypes DEF Types
  <2>3. Keeps(x)
    BY <2>1 DEF Keeps
  <2>. QED
    BY <1>2, <2>1, <2>2, <2>3, KeepsOthers, QuietKeeps
<1>. QED
  BY <1>3, <1>4

LEMMA WriteStep ==
    ASSUME Inv, NEW x \in Executions, Write(x)
    PROVE  Types' /\ Law
<1>1. Types /\ ExOK(ex)
  BY InvFacts DEF Types
<1>2. /\ ex[x].pc = "writing" /\ ex' = Goto(x, "upstream")
      /\ UNCHANGED <<req, db, ready, notices, sent, done, disruptions>>
  BY DEF Write
<1>3. /\ ExOK(ex)' /\ ex'[x].pc = "upstream" /\ ex'[x].attempt = ex[x].attempt
      /\ \A y \in Executions : y # x => ex'[y] = ex[y]
  BY <1>1, <1>2, GotoFacts, PCFacts
<1>4. Types'
  BY <1>1, <1>2, <1>3, QuietTypes DEF Types
<1>5. /\ req' = req /\ row' = row /\ leased' = leased /\ ttl' = ttl
      /\ call' = call /\ revoked' = revoked
  BY <1>2 DEF db
<1>6. x \in leased /\ ttl[x] > 0 /\ ex[x].attempt \in Nat
  BY <1>1, <1>2, InvFacts, TypeFacts DEF Maintained
<1>7. StepLaw(x)
  BY <1>2, <1>3, <1>5, <1>6, PCFacts DEF StepLaw, Holding
<1>8. \A y \in Executions : StepLaw(y)
  BY <1>3, <1>5, <1>7, OthersStay
<1>. QED
  BY <1>2, <1>4, <1>8, QuietLaw

LEMMA WriteFinalStep ==
    ASSUME Inv, NEW x \in Executions, WriteFinal(x)
    PROVE  Types' /\ Law
<1>1. Types /\ ExOK(ex) /\ req[x] \in Requests
  BY InvFacts, TypeFacts DEF Types
<1>2. /\ ex' = End(x)
      /\ UNCHANGED <<req, db, ready, notices, sent, disruptions>>
      /\ \/ done' = done
         \/ done' = done \union {req[x]} /\ Row(x).state \in Results
  <2>1. /\ ex' = End(x)
        /\ UNCHANGED <<req, db, ready, notices, sent, disruptions>>
    BY DEF WriteFinal
  <2>2. \/ done' = done
        \/ done' = done \union {req[x]} /\ Row(x).state \in Results
    BY DEF WriteFinal
  <2>. QED
    BY <2>1, <2>2
<1>3. /\ ExOK(ex)' /\ ex'[x].pc = "end"
      /\ \A y \in Executions : y # x => ex'[y] = ex[y]
  BY <1>1, <1>2, EndFacts
<1>4. /\ req' = req /\ row' = row /\ leased' = leased /\ ttl' = ttl /\ born' = born
      /\ call' = call /\ revoked' = revoked /\ sent' = sent
  BY <1>2 DEF db
<1>5. Types'
  <2>1. done' \subseteq Requests
    BY <1>1, <1>2 DEF Types
  <2>. QED
    BY <1>1, <1>2, <1>3, <2>1, QuietTypes DEF Types
<1>6. StepLaw(x)
  BY <1>3, PCFacts DEF StepLaw, Maintained, Holding
<1>7. \A y \in Executions : StepLaw(y)
  BY <1>3, <1>4, <1>6, OthersStay
<1>8. \A r \in done' : r \in done \/ row'[r].state \in Results
  BY <1>2, <1>4 DEF Row
<1>9. SentLaw
  BY <1>4, SentSame
<1>. QED
  BY <1>4, <1>5, <1>7, <1>8, <1>9, RowSame DEF Law

\* Cancelling contexts moves no execution, but ends one that is in accept.
LEMMA CancelFacts ==
    ASSUME Types, NEW X, NEW c \in Causes, ex' = CancelWith(X, c)
    PROVE  ExOK(ex)' /\ \A y \in Executions : Keeps(y)
<1> DEFINE next(y) == IF y \notin X \/ ~Attentive(y) THEN ex[y]
                      ELSE IF ex[y].pc = "accept" THEN Ended ELSE [ex[y] EXCEPT !.cause = c]
<1>1. ex' = [y \in Executions |-> next(y)]
  BY DEF CancelWith
<1>2. ASSUME NEW y \in Executions
      PROVE  /\ next(y) \in [pc : PCs, attempt : Nat, cause : Causes, goal : GoalStates]
             /\ next(y).attempt <= Attempts[y]
             /\ \/ /\ next(y).pc = ex[y].pc /\ next(y).attempt = ex[y].attempt
                   /\ next(y).goal = ex[y].goal
                \/ next(y).pc = "end"
  <2>1. /\ ex[y] \in [pc : PCs, attempt : Nat, cause : Causes, goal : GoalStates]
        /\ ex[y].attempt <= Attempts[y] /\ 0 <= Attempts[y]
    BY TypeFacts, ConstantFacts
  <2>2. /\ Ended \in [pc : PCs, attempt : Nat, cause : Causes, goal : GoalStates]
        /\ Ended.pc = "end" /\ Ended.attempt = 0
    BY DEF Ended, Fresh, PCs, Causes, GoalStates
  <2>3. next(y) = ex[y] \/ next(y) = Ended \/ next(y) = [ex[y] EXCEPT !.cause = c]
    OBVIOUS
  <2> HIDE DEF next
  <2>. QED
    BY <2>1, <2>2, <2>3
<1> HIDE DEF next
<1>3. \A y \in Executions : ex'[y] = next(y)
  BY <1>1
<1>4. ex' \in [Executions -> [pc : PCs, attempt : Nat, cause : Causes, goal : GoalStates]]
  BY <1>1, <1>2
<1>. QED
  BY <1>2, <1>3, <1>4 DEF ExOK, Keeps

LEMMA RenewFailedStep ==
    ASSUME Inv, NEW x \in Executions, RenewFailed(x)
    PROVE  Types' /\ Law
<1>1. Types /\ ExOK(ex)
  BY InvFacts DEF Types
<1>2. UNCHANGED <<req, db, ready, notices, sent, done>>
  BY DEF RenewFailed
<1>3. Disrupt \/ UNCHANGED disruptions
  BY DEF RenewFailed
<1>4. PICK c \in Causes : ex' = [ex EXCEPT ![x].cause = c]
  BY DEF RenewFailed, Causes
<1>5. /\ ExOK(ex)' /\ ex'[x].pc = ex[x].pc /\ ex'[x].attempt = ex[x].attempt
      /\ ex'[x].goal = ex[x].goal
      /\ \A y \in Executions : y # x => ex'[y] = ex[y]
  BY <1>1, <1>4, CauseFacts
<1>6. Keeps(x)
  BY <1>5 DEF Keeps
<1>7. Types'
  BY <1>1, <1>2, <1>3, <1>5, DisruptFacts, QuietTypes DEF Types
<1>. QED
  BY <1>2, <1>5, <1>6, <1>7, KeepsOthers, QuietKeeps

LEMMA TimeoutStep ==
    ASSUME Inv, NEW x \in Executions, Timeout(x)
    PROVE  Types' /\ Law
<1>1. Types
  BY InvFacts
<1>2. UNCHANGED <<req, db, ready, notices, sent, done, disruptions>>
  BY DEF Timeout
<1>3. PICK c \in Causes : ex' = CancelWith({x}, c)
  BY DEF Timeout, Causes
<1>4. ExOK(ex)' /\ \A y \in Executions : Keeps(y)
  BY <1>1, <1>3, CancelFacts
<1>5. Types'
  BY <1>1, <1>2, <1>4, QuietTypes DEF Types
<1>. QED
  BY <1>2, <1>4, <1>5, QuietKeeps

LEMMA DeliverStep ==
    ASSUME Inv, NEW p \in Processes, Deliver(p)
    PROVE  Types' /\ Law
<1>1. Types
  BY InvFacts
<1>2. PICK n \in notices[p] :
         /\ notices' = [notices EXCEPT ![p] = @ \ {n}]
         /\ ex' = CancelWith({x \in Executions : ProcessOf[x] = p /\ Matches(n, x)}, "stopped")
         /\ UNCHANGED <<req, db, ready, sent, done, disruptions>>
  BY DEF Deliver
<1>3. ExOK(ex)' /\ \A y \in Executions : Keeps(y)
  BY <1>1, <1>2, CancelFacts DEF Causes
<1>4. notices' \in [Processes -> SUBSET Notices]
  BY <1>1, <1>2 DEF Types
<1>5. Types'
  BY <1>1, <1>2, <1>3, <1>4, QuietTypes DEF Types
<1>. QED
  BY <1>2, <1>3, <1>5, QuietKeeps

LEMMA ListenerLostStep ==
    ASSUME Inv, NEW p \in Processes, ListenerLost(p)
    PROVE  Types' /\ Law
<1>1. Types
  BY InvFacts
<1>2. /\ Disrupt /\ ready' = ready \ {p} /\ notices' = [notices EXCEPT ![p] = {}]
      /\ ex' = CancelWith({x \in Executions : ProcessOf[x] = p}, "unavailable")
      /\ UNCHANGED <<req, db, sent, done>>
  BY DEF ListenerLost
<1>3. ExOK(ex)' /\ \A y \in Executions : Keeps(y)
  BY <1>1, <1>2, CancelFacts DEF Causes
<1>4. notices' \in [Processes -> SUBSET Notices] /\ ready' \subseteq Processes
  BY <1>1, <1>2 DEF Types
<1>5. Types'
  BY <1>1, <1>2, <1>3, <1>4, DisruptFacts, QuietTypes DEF Types
<1>. QED
  BY <1>2, <1>3, <1>5, QuietKeeps

LEMMA ListenStep ==
    ASSUME Inv, NEW p \in Processes, Listen(p)
    PROVE  Types' /\ Law
<1>1. Types
  BY InvFacts
<1>2. /\ ready' = ready \union {p}
      /\ UNCHANGED <<req, db, notices, ex, sent, done, disruptions>>
  BY DEF Listen
<1>3. ExOK(ex)' /\ ready' \subseteq Processes
  BY <1>1, <1>2 DEF Types, ExOK
<1>4. \A y \in Executions : Keeps(y)
  BY <1>2 DEF Keeps
<1>5. Types'
  BY <1>1, <1>2, <1>3, QuietTypes DEF Types
<1>. QED
  BY <1>2, <1>4, <1>5, QuietKeeps

LEMMA CrashStep ==
    ASSUME Inv, NEW p \in Processes, Crash(p)
    PROVE  Types' /\ Law
<1>1. Types
  BY InvFacts
<1>2. /\ Disrupt /\ notices' = [notices EXCEPT ![p] = {}] /\ ready' = ready \union {p}
      /\ UNCHANGED <<req, db, sent, done>>
  BY DEF Crash
<1> DEFINE next(y) == IF ProcessOf[y] = p /\ ex[y].pc \in Registered THEN Ended ELSE ex[y]
<1>3. ex' = [y \in Executions |-> next(y)]
  BY DEF Crash
<1>4. ASSUME NEW y \in Executions
      PROVE  /\ next(y) \in [pc : PCs, attempt : Nat, cause : Causes, goal : GoalStates]
             /\ next(y).attempt <= Attempts[y]
             /\ next(y) = ex[y] \/ next(y).pc = "end"
  <2>1. /\ ex[y] \in [pc : PCs, attempt : Nat, cause : Causes, goal : GoalStates]
        /\ ex[y].attempt <= Attempts[y] /\ 0 <= Attempts[y]
    BY <1>1, TypeFacts, ConstantFacts
  <2>2. /\ Ended \in [pc : PCs, attempt : Nat, cause : Causes, goal : GoalStates]
        /\ Ended.pc = "end" /\ Ended.attempt = 0
    BY DEF Ended, Fresh, PCs, Causes, GoalStates
  <2>3. next(y) = ex[y] \/ next(y) = Ended
    OBVIOUS
  <2> HIDE DEF next
  <2>. QED
    BY <2>1, <2>2, <2>3
<1> HIDE DEF next
<1>5. \A y \in Executions : ex'[y] = next(y)
  BY <1>3
<1>6. ex' \in [Executions -> [pc : PCs, attempt : Nat, cause : Causes, goal : GoalStates]]
  BY <1>3, <1>4
<1>7. ExOK(ex)' /\ \A y \in Executions : Keeps(y)
  BY <1>4, <1>5, <1>6 DEF ExOK, Keeps
<1>8. notices' \in [Processes -> SUBSET Notices] /\ ready' \subseteq Processes
  BY <1>1, <1>2 DEF Types
<1>9. Types'
  BY <1>1, <1>2, <1>7, <1>8, DisruptFacts, QuietTypes DEF Types
<1>. QED
  BY <1>2, <1>7, <1>9, QuietKeeps

----------------------------------------------------------------------------
(* The steps of one execution under its rows. *)

Elsewhere == UNCHANGED <<req, leased, ttl, born, capacity, revoked, ready, notices, sent, done>>

LEMMA WorkTypes ==
    ASSUME Types, Elsewhere, RowTyped(row)', CallOK(call)', ExOK(ex)',
           Disrupt \/ UNCHANGED disruptions
    PROVE  Types'
<1>1. disruptions' \in 0..MaxDisruptions
  BY DisruptFacts
<1>. QED
  BY <1>1 DEF Types, Elsewhere

LEMMA WorkLaw ==
    ASSUME Inv, Elsewhere, NEW x \in Executions,
           \A q \in Requests : RowLaw(q),
           \A q \in Requests : row[q].state \in Open => row'[q].state \in Open,
           \A y \in Executions : \A n \in 1..Attempts[y] :
              call[y][n] \in Dispatched => call'[y][n] \in Dispatched,
           \A y \in Executions : y # x => ex'[y] = ex[y],
           StepLaw(x)
    PROVE  Law
<1>1. /\ req' = req /\ leased' = leased /\ ttl' = ttl /\ born' = born
      /\ revoked' = revoked /\ sent' = sent /\ done' = done
  BY DEF Elsewhere
<1>2. ASSUME NEW y \in Executions, y # x
      PROVE  StepLaw(y)
  <2>1. Keeps(y)
    BY <1>2 DEF Keeps
  <2>2. ex[y].pc \in Maintained => y \in leased' /\ ttl'[y] > 0
    BY <1>1, InvFacts
  <2>3. req[y] \in Requests
    BY InvFacts, TypeFacts
  <2>4. ex[y].pc \in Holding => row'[req[y]].state \in Open /\ Device(y) \notin revoked'
    BY <1>1, <2>3, InvFacts DEF Row
  <2>5. ex[y].pc = "sending" => call'[y][ex[y].attempt] \in Dispatched
    BY InvFacts, PCFacts
  <2>. QED
    BY <2>1, <2>2, <2>4, <2>5, KeepsLaw
<1>3. SentLaw
  BY <1>1, SentSame
<1>. QED
  BY <1>1, <1>2, <1>3 DEF Law

\* The row of an execution becomes "running".
LEMMA RunningFacts ==
    ASSUME Types, NEW x \in Executions, Row(x).state \in Open, row' = RowDispatched(x)
    PROVE  /\ RowTyped(row)'
           /\ \A q \in Requests : RowLaw(q)
           /\ \A q \in Requests : row[q].state \in Open => row'[q].state \in Open
           /\ row'[req[x]].state \in Open
<1>1. req[x] \in Requests
  BY TypeFacts
<1>2. "running" \in States /\ "running" \in Open
  BY DEF States, Open
<1>3. row' = [row EXCEPT ![req[x]].state = "running"] /\ row[req[x]].state \in Open
  BY DEF RowDispatched, Row
<1>4. /\ RowTyped(row)' /\ \A q \in Requests : RowLaw(q)
      /\ row'[req[x]].state = "running"
      /\ \A q \in Requests : q # req[x] => row'[q] = row[q]
  BY <1>1, <1>2, <1>3, RowSet
<1>. QED
  BY <1>2, <1>4

LEMMA RowStays ==
    ASSUME Types, row' = row
    PROVE  /\ RowTyped(row)'
           /\ \A q \in Requests : RowLaw(q)
           /\ \A q \in Requests : row[q].state \in Open => row'[q].state \in Open
BY RowSame DEF Types, RowTyped

LEMMA CallStays ==
    ASSUME Types, call' = call
    PROVE  /\ CallOK(call)'
           /\ \A y \in Executions : \A n \in 1..Attempts[y] :
                 call[y][n] \in Dispatched => call'[y][n] \in Dispatched
BY DEF Types, CallOK

\* A guarded execution that closes or ends.
LEMMA LeaveLaw ==
    ASSUME NEW x \in Executions, ex[x].attempt \in Nat,
           \/ /\ ex[x].pc \in Active
              /\ ex'[x].pc = "finalized" \/ (ex'[x].pc = "closing" /\ ex'[x].goal \in States)
              /\ ex'[x].attempt = ex[x].attempt
           \/ ex'[x].pc = "end"
    PROVE  StepLaw(x)
BY PCFacts DEF StepLaw, Maintained, Holding

LEMMA GoalForOK == \A c : GoalFor(c) \in States
BY DEF GoalFor, States

LEMMA FixedGoalsOK ==
    {"failed", "cancelled", "outcome_unknown"} \union Results \subseteq States
BY DEF States

LEMMA BeginAttemptStep ==
    ASSUME Inv, NEW x \in Executions, BeginAttempt(x)
    PROVE  Types' /\ Law
<1> DEFINE k == ex[x].attempt + 1
           f == [call[x] EXCEPT ![k] = "prepared"]
<1>1. Types /\ ExOK(ex) /\ CallOK(call) /\ SentOK
  BY InvFacts DEF Types, Inv
<1>2. /\ ex[x].pc = "retry" /\ GuardOK(x)
      /\ call' = [call EXCEPT ![x] = f]
      /\ Elsewhere /\ row' = row /\ disruptions' = disruptions
  BY DEF BeginAttempt, Elsewhere
<1>3. ex' = [Goto(x, "run") EXCEPT ![x].attempt = @ + 1]
  BY DEF BeginAttempt
<1>4. /\ ex[x].attempt \in Nat /\ ex[x].attempt <= Attempts[x] /\ k \in 1..Attempts[x]
      /\ x \in leased /\ ttl[x] > 0 /\ Attempts[x] \in Nat
  BY <1>1, <1>2, InvFacts, TypeFacts, ConstantFacts DEF Maintained
<1>5. k \in Nat /\ k <= Attempts[x] /\ k >= ex[x].attempt
  BY <1>4
<1>6. ex' = [Goto(x, "run") EXCEPT ![x].attempt = k]
  BY <1>1, <1>3 DEF Goto, ExOK
<1>7. /\ f \in [1..Attempts[x] -> CallStates]
      /\ \A n \in 1..Attempts[x] : n # k => f[n] = call[x][n]
  BY <1>1, <1>4 DEF CallOK, CallStates
<1>8. \A s \in sent : s[1] = x => s[2] <= ex[x].attempt
  BY <1>1, <1>2, PCFacts DEF SentOK
<1>9. \A n \in Nat : n <= ex[x].attempt => n # k
  BY <1>4
<1> HIDE DEF k, f
<1>10. /\ ExOK(ex)' /\ ex'[x].pc = "run" /\ ex'[x].attempt = k
       /\ \A y \in Executions : y # x => ex'[y] = ex[y]
  BY <1>1, <1>5, <1>6, AttemptFacts, PCFacts
<1>11. CallOK(call)' /\ call'[x] = f /\ \A y \in Executions : y # x => call'[y] = call[y]
  BY <1>1, <1>2, <1>7, CallSet
<1>12. Types'
  BY <1>1, <1>2, <1>10, <1>11, RowStays, WorkTypes
<1>13. /\ req' = req /\ leased' = leased /\ ttl' = ttl /\ born' = born
       /\ revoked' = revoked /\ sent' = sent /\ done' = done
  BY <1>2 DEF Elsewhere
<1>14. StepLaw(x)
  BY <1>2, <1>4, <1>5, <1>10, <1>13, PCFacts DEF StepLaw, Holding
<1>15. ASSUME NEW y \in Executions, y # x
       PROVE  StepLaw(y)
  <2>1. Keeps(y)
    BY <1>10, <1>15 DEF Keeps
  <2>2. ex[y].pc \in Maintained => y \in leased' /\ ttl'[y] > 0
    BY <1>13, InvFacts
  <2>3. ex[y].pc \in Holding => row'[req[y]].state \in Open /\ Device(y) \notin revoked'
    BY <1>2, <1>13, InvFacts DEF Row
  <2>4. ex[y].pc = "sending" => call'[y][ex[y].attempt] \in Dispatched
    BY <1>11, <1>15, InvFacts
  <2>. QED
    BY <2>1, <2>2, <2>3, <2>4, KeepsLaw
<1>16. ASSUME NEW s \in sent
       PROVE  call'[s[1]][s[2]] \in Dispatched
  <2>1. /\ s[1] \in Executions /\ s[2] \in 1..Attempts[s[1]] /\ s[2] \in Nat
        /\ call[s[1]][s[2]] \in Dispatched
    BY <1>1, InvFacts, TypeFacts
  <2>2. CASE s[1] # x
    BY <1>11, <2>1, <2>2
  <2>3. CASE s[1] = x
    BY <1>7, <1>8, <1>9, <1>11, <2>1, <2>3
  <2>. QED
    BY <2>2, <2>3
<1>17. SentLaw
  BY <1>13, <1>16 DEF SentLaw
<1>. QED
  BY <1>2, <1>12, <1>13, <1>14, <1>15, <1>17, RowSame DEF Law

LEMMA DispatchStep ==
    ASSUME Inv, NEW x \in Executions, Dispatch(x)
    PROVE  Types' /\ Law
<1>1. Types /\ ExOK(ex) /\ CallOK(call)
  BY InvFacts DEF Types
<1>2. /\ ex[x].pc = "run" /\ GuardOK(x) /\ Elsewhere
  BY DEF Dispatch, Elsewhere
<1>3. /\ x \in leased /\ ttl[x] > 0 /\ Row(x).state \in Open /\ Device(x) \notin revoked
      /\ ex[x].attempt \in Nat /\ ex[x].attempt \in 1..Attempts[x]
  BY <1>1, <1>2, InvFacts, TypeFacts, PCFacts DEF GuardOK, Live
<1>4. /\ req' = req /\ leased' = leased /\ ttl' = ttl /\ revoked' = revoked
  BY <1>2 DEF Elsewhere
<1>5. CASE /\ call' = [call EXCEPT ![x][ex[x].attempt] = "dispatching"]
           /\ ex' = Goto(x, "sending")
           /\ UNCHANGED <<row, disruptions>>
  <2> DEFINE k == ex[x].attempt
             f == [call[x] EXCEPT ![k] = "dispatching"]
  <2>1. k \in 1..Attempts[x] /\ call' = [call EXCEPT ![x] = f]
    BY <1>3, <1>5
  <2> HIDE DEF k
  <2>2. /\ f \in [1..Attempts[x] -> CallStates] /\ f[k] = "dispatching"
        /\ \A n \in 1..Attempts[x] : n # k => f[n] = call[x][n]
    BY <1>1, <2>1 DEF CallOK, CallStates
  <2> HIDE DEF f
  <2>3. CallOK(call)' /\ call'[x] = f /\ \A y \in Executions : y # x => call'[y] = call[y]
    BY <1>1, <2>1, <2>2, CallSet
  <2>4. /\ call'[x][k] \in Dispatched
        /\ \A y \in Executions : \A n \in 1..Attempts[y] :
              call[y][n] \in Dispatched => call'[y][n] \in Dispatched
    BY <2>2, <2>3 DEF Dispatched
  <2>5. /\ ExOK(ex)' /\ ex'[x].pc = "sending" /\ ex'[x].attempt = k
        /\ \A y \in Executions : y # x => ex'[y] = ex[y]
    BY <1>1, <1>5, GotoFacts, PCFacts DEF k
  <2>6. StepLaw(x)
    <3>1. ex'[x].attempt >= ex[x].attempt
      BY <1>3, <2>5 DEF k
    <3>. QED
      BY <1>2, <1>3, <1>4, <1>5, <2>4, <2>5, <3>1, PCFacts DEF StepLaw, Row, Device
  <2>7. Types'
    BY <1>1, <1>2, <1>5, <2>3, <2>5, RowStays, WorkTypes
  <2>. QED
    BY <1>1, <1>2, <1>5, <2>4, <2>5, <2>6, <2>7, RowStays, WorkLaw
<1>6. CASE Disrupt /\ row' = RowDispatched(x) /\ ex' = Closing(x, "failed") /\ call' = call
  <2>1. /\ ExOK(ex)' /\ ex'[x].pc = "closing" /\ ex'[x].attempt = ex[x].attempt
        /\ ex'[x].goal \in States
        /\ \A y \in Executions : y # x => ex'[y] = ex[y]
    BY <1>1, <1>6, ClosingFacts, FixedGoalsOK
  <2>2. StepLaw(x)
    BY <1>2, <1>3, <2>1, PCFacts, LeaveLaw
  <2>3. Types'
    BY <1>1, <1>2, <1>3, <1>6, <2>1, RunningFacts, CallStays, WorkTypes
  <2>. QED
    BY <1>1, <1>2, <1>3, <1>6, <2>1, <2>2, <2>3, RunningFacts, CallStays, WorkLaw
<1>. QED
  BY <1>5, <1>6 DEF Dispatch

LEMMA GuardFailedStep ==
    ASSUME Inv, NEW x \in Executions, GuardFailed(x)
    PROVE  Types' /\ Law
<1>1. Types /\ ExOK(ex)
  BY InvFacts DEF Types
<1>2. /\ ex[x].pc \in Active /\ Elsewhere /\ call' = call /\ disruptions' = disruptions
      /\ row' = row \/ (GuardOK(x) /\ row' = RowDispatched(x))
  BY PCFacts DEF GuardFailed, Elsewhere
<1> DEFINE goal == IF Cancelled(x) THEN GoalFor(ex[x].cause) ELSE "cancelled"
<1>3. ex' = Closing(x, goal)
  BY DEF GuardFailed
<1>4. goal \in States
  BY GoalForOK, FixedGoalsOK
<1> HIDE DEF goal
<1>5. /\ ExOK(ex)' /\ ex'[x].pc = "closing" /\ ex'[x].attempt = ex[x].attempt
      /\ ex'[x].goal \in States
      /\ \A y \in Executions : y # x => ex'[y] = ex[y]
  BY <1>1, <1>3, <1>4, ClosingFacts
<1>6. StepLaw(x)
  BY <1>1, <1>2, <1>5, TypeFacts, LeaveLaw
<1>7. /\ RowTyped(row)'
      /\ \A q \in Requests : RowLaw(q)
      /\ \A q \in Requests : row[q].state \in Open => row'[q].state \in Open
  BY <1>1, <1>2, RowStays, RunningFacts DEF GuardOK
<1>8. Types'
  BY <1>1, <1>2, <1>5, <1>7, CallStays, WorkTypes
<1>. QED
  BY <1>1, <1>2, <1>5, <1>6, <1>7, <1>8, CallStays, WorkLaw

LEMMA WroteRequestStep ==
    ASSUME Inv, NEW x \in Executions, WroteRequest(x)
    PROVE  Types' /\ Law
<1>1. Types /\ ExOK(ex)
  BY InvFacts DEF Types
<1>2. ex[x].pc = "wrote" /\ Elsewhere
  BY DEF WroteRequest, Elsewhere
<1>3. /\ x \in leased /\ ttl[x] > 0 /\ Row(x).state \in Open
      /\ ex[x].attempt \in Nat /\ ex[x].attempt \in 1..Attempts[x]
  BY <1>1, <1>2, InvFacts, TypeFacts, PCFacts DEF Maintained, Holding
<1>4. CASE /\ row' = RowDispatched(x)
           /\ ex' = Goto(x, "upstream")
           /\ UNCHANGED <<call, disruptions>>
  <2>1. /\ ExOK(ex)' /\ ex'[x].pc = "upstream" /\ ex'[x].attempt = ex[x].attempt
        /\ \A y \in Executions : y # x => ex'[y] = ex[y]
    BY <1>1, <1>4, GotoFacts, PCFacts
  <2>2. leased' = leased /\ ttl' = ttl
    BY <1>2 DEF Elsewhere
  <2>3. StepLaw(x)
    BY <1>2, <1>3, <2>1, <2>2, PCFacts DEF StepLaw, Holding
  <2>4. Types'
    BY <1>1, <1>2, <1>3, <1>4, <2>1, RunningFacts, CallStays, WorkTypes
  <2>. QED
    BY <1>1, <1>2, <1>3, <1>4, <2>1, <2>3, <2>4, RunningFacts, CallStays, WorkLaw
<1>5. CASE /\ Disrupt
           /\ ex' = Closing(x, "outcome_unknown")
           /\ call' = SettleRef(x)
           /\ row' = row
  <2>1. /\ ExOK(ex)' /\ ex'[x].pc = "closing" /\ ex'[x].attempt = ex[x].attempt
        /\ ex'[x].goal \in States
        /\ \A y \in Executions : y # x => ex'[y] = ex[y]
    BY <1>1, <1>5, ClosingFacts, FixedGoalsOK
  <2>2. StepLaw(x)
    BY <1>2, <1>3, <2>1, PCFacts, LeaveLaw
  <2>3. Types'
    BY <1>1, <1>2, <1>3, <1>5, <2>1, RowStays, SettleFacts, WorkTypes
  <2>. QED
    BY <1>1, <1>2, <1>3, <1>5, <2>1, <2>2, <2>3, RowStays, SettleFacts, WorkLaw
<1>. QED
  BY <1>4, <1>5 DEF WroteRequest

LEMMA AbortAttemptStep ==
    ASSUME Inv, NEW x \in Executions, AbortAttempt(x)
    PROVE  Types' /\ Law
<1>1. Types /\ ExOK(ex)
  BY InvFacts DEF Types
<1>2. /\ ex[x].pc \in {"sending", "upstream"} /\ Elsewhere /\ disruptions' = disruptions
      /\ call' = SettleRef(x) /\ ex' = Closing(x, GoalFor(ex[x].cause))
      /\ row' = row \/ (ex[x].pc = "sending" /\ row' = RowDispatched(x))
  BY DEF AbortAttempt, Elsewhere
<1>3. ex[x].pc \in Active /\ ex[x].attempt \in Nat /\ ex[x].attempt \in 1..Attempts[x]
  BY <1>1, <1>2, InvFacts, TypeFacts, PCFacts
<1>4. /\ ExOK(ex)' /\ ex'[x].pc = "closing" /\ ex'[x].attempt = ex[x].attempt
      /\ ex'[x].goal \in States
      /\ \A y \in Executions : y # x => ex'[y] = ex[y]
  BY <1>1, <1>2, GoalForOK, ClosingFacts
<1>5. StepLaw(x)
  BY <1>3, <1>4, LeaveLaw
<1>6. ex[x].pc = "sending" => Row(x).state \in Open
  BY InvFacts DEF Holding
<1>7. /\ RowTyped(row)'
      /\ \A q \in Requests : RowLaw(q)
      /\ \A q \in Requests : row[q].state \in Open => row'[q].state \in Open
  BY <1>1, <1>2, <1>6, RowStays, RunningFacts
<1>8. Types'
  BY <1>1, <1>2, <1>3, <1>4, <1>7, SettleFacts, WorkTypes
<1>. QED
  BY <1>1, <1>2, <1>3, <1>4, <1>5, <1>7, <1>8, SettleFacts, WorkLaw

LEMMA UpstreamEndsStep ==
    ASSUME Inv, NEW x \in Executions, UpstreamEnds(x)
    PROVE  Types' /\ Law
<1>1. Types /\ ExOK(ex)
  BY InvFacts DEF Types
<1>2. /\ ex[x].pc = "upstream" /\ Elsewhere /\ row' = row
      /\ Disrupt \/ UNCHANGED disruptions
      /\ call' = call \/ call' = SettleRef(x)
  BY DEF UpstreamEnds, Elsewhere
<1>3. /\ ex[x].pc \in Active /\ ex[x].attempt \in Nat /\ ex[x].attempt \in 1..Attempts[x]
      /\ x \in leased /\ ttl[x] > 0
  BY <1>1, <1>2, InvFacts, TypeFacts, PCFacts DEF Maintained
<1>4. /\ CallOK(call)'
      /\ \A y \in Executions : \A n \in 1..Attempts[y] :
            call[y][n] \in Dispatched => call'[y][n] \in Dispatched
  BY <1>1, <1>2, <1>3, SettleFacts, CallStays
<1>5. leased' = leased /\ ttl' = ttl
  BY <1>2 DEF Elsewhere
<1>6. /\ ExOK(ex)' /\ StepLaw(x)
      /\ \A y \in Executions : y # x => ex'[y] = ex[y]
  <2>1. CASE \E goal \in Results \union {"failed", "outcome_unknown"} : ex' = Closing(x, goal)
    <3>1. PICK goal \in States : ex' = Closing(x, goal)
      BY <2>1, FixedGoalsOK
    <3>2. /\ ExOK(ex)' /\ ex'[x].pc = "closing" /\ ex'[x].attempt = ex[x].attempt
          /\ ex'[x].goal \in States
          /\ \A y \in Executions : y # x => ex'[y] = ex[y]
      BY <1>1, <3>1, ClosingFacts
    <3>. QED
      BY <1>3, <3>2, LeaveLaw
  <2>2. CASE ex[x].attempt < Attempts[x] /\ ex' = Goto(x, "retry")
    <3>1. /\ ExOK(ex)' /\ ex'[x].pc = "retry" /\ ex'[x].attempt = ex[x].attempt
          /\ \A y \in Executions : y # x => ex'[y] = ex[y]
      BY <1>1, <2>2, GotoFacts, PCFacts
    <3>2. StepLaw(x)
      BY <1>3, <1>5, <2>2, <3>1, PCFacts DEF StepLaw, Holding
    <3>. QED
      BY <3>1, <3>2
  <2>. QED
    BY <2>1, <2>2 DEF UpstreamEnds
<1>7. Types'
  BY <1>1, <1>2, <1>4, <1>6, RowStays, WorkTypes
<1>. QED
  BY <1>1, <1>2, <1>4, <1>6, <1>7, RowStays, WorkLaw

LEMMA FinishUnavailableStep ==
    ASSUME Inv, NEW x \in Executions, FinishUnavailable(x)
    PROVE  Types' /\ Law
<1>1. Types /\ ExOK(ex)
  BY InvFacts DEF Types
<1>2. /\ ex[x].pc = "closing" /\ Elsewhere /\ row' = row /\ Disrupt
      /\ call' = call \/ call' = SettleRef(x)
      /\ ex' = Closing(x, "outcome_unknown") \/ ex' = End(x)
  BY DEF FinishUnavailable, Elsewhere
<1>3. ex[x].pc \in Active /\ ex[x].attempt \in Nat /\ ex[x].attempt \in 1..Attempts[x]
  BY <1>1, <1>2, InvFacts, TypeFacts, PCFacts
<1>4. /\ CallOK(call)'
      /\ \A y \in Executions : \A n \in 1..Attempts[y] :
            call[y][n] \in Dispatched => call'[y][n] \in Dispatched
  BY <1>1, <1>2, <1>3, SettleFacts, CallStays
<1>5. /\ ExOK(ex)' /\ StepLaw(x)
      /\ \A y \in Executions : y # x => ex'[y] = ex[y]
  <2>1. CASE ex' = Closing(x, "outcome_unknown")
    <3>1. /\ ExOK(ex)' /\ ex'[x].pc = "closing" /\ ex'[x].attempt = ex[x].attempt
          /\ ex'[x].goal \in States
          /\ \A y \in Executions : y # x => ex'[y] = ex[y]
      BY <1>1, <2>1, ClosingFacts, FixedGoalsOK
    <3>. QED
      BY <1>3, <3>1, LeaveLaw
  <2>2. CASE ex' = End(x)
    BY <1>1, <1>3, <2>2, EndFacts, LeaveLaw
  <2>. QED
    BY <1>2, <2>1, <2>2
<1>6. Types'
  BY <1>1, <1>2, <1>4, <1>5, RowStays, WorkTypes
<1>. QED
  BY <1>1, <1>2, <1>4, <1>5, <1>6, RowStays, WorkLaw

LEMMA FinishStep ==
    ASSUME Inv, NEW x \in Executions, Finish(x)
    PROVE  Types' /\ Law
<1>1. Types /\ ExOK(ex)
  BY InvFacts DEF Types
<1>2. /\ ex[x].pc = "closing"
      /\ call' = SettleRef(x) /\ leased' = leased \ {x}
      /\ UNCHANGED <<req, born, capacity, revoked, ready, sent, done>>
  BY DEF Finish
<1>3. PICK goal \in Goals(x), replied \in BOOLEAN :
         /\ row' = FinishedRow(x, goal)
         /\ notices' = IF row' # row /\ goal = "cancelled"
                       THEN Notified(<<"request", req[x]>>) ELSE notices
         /\ ex' = IF goal \notin Results THEN End(x)
                  ELSE IF ~replied THEN Closing(x, "outcome_unknown")
                  ELSE IF goal = "succeeded" /\ ~FinishUpdates(x, goal)
                  THEN Closing(x, "cancelled")
                  ELSE Goto(x, "finalized")
         /\ IF replied THEN UNCHANGED disruptions ELSE Disrupt
  BY DEF Finish
<1>4. /\ ex[x].pc \in Active /\ ex[x].attempt \in Nat /\ ex[x].attempt \in 1..Attempts[x]
      /\ Row(x).holder = x /\ req[x] \in Requests /\ ex[x].goal \in States
      /\ ttl[x] \in 0..Duration
  BY <1>1, <1>2, InvFacts, TypeFacts, PCFacts
<1>5. goal \in States
  BY <1>4, GoalForOK DEF Goals
<1>6. /\ CallOK(call)'
      /\ \A y \in Executions : \A n \in 1..Attempts[y] :
            call[y][n] \in Dispatched => call'[y][n] \in Dispatched
  BY <1>1, <1>2, <1>4, SettleFacts
<1>7. /\ ExOK(ex)' /\ StepLaw(x)
      /\ \A y \in Executions : y # x => ex'[y] = ex[y]
  <2>1. CASE ex' = End(x)
    BY <1>1, <1>4, <2>1, EndFacts, LeaveLaw
  <2>2. CASE \E g \in States : ex' = Closing(x, g)
    <3>1. PICK g \in States : ex' = Closing(x, g)
      BY <2>2
    <3>2. /\ ExOK(ex)' /\ ex'[x].pc = "closing" /\ ex'[x].attempt = ex[x].attempt
          /\ ex'[x].goal \in States
          /\ \A y \in Executions : y # x => ex'[y] = ex[y]
      BY <1>1, <3>1, ClosingFacts
    <3>. QED
      BY <1>4, <3>2, LeaveLaw
  <2>3. CASE ex' = Goto(x, "finalized")
    <3>1. /\ ExOK(ex)' /\ ex'[x].pc = "finalized" /\ ex'[x].attempt = ex[x].attempt
          /\ \A y \in Executions : y # x => ex'[y] = ex[y]
      BY <1>1, <2>3, GotoFacts, PCFacts
    <3>. QED
      BY <1>4, <3>1, LeaveLaw
  <2>. QED
    BY <1>3, <2>1, <2>2, <2>3, FixedGoalsOK
<1>8. Disrupt \/ UNCHANGED disruptions
  BY <1>3
\* What it writes: the state of its own row, while that is open.
<1>9. /\ RowTyped(row)'
      /\ \A q \in Requests : RowLaw(q)
      /\ \A q \in Requests : q # req[x] => row'[q] = row[q]
  <2>1. CASE FinishUpdates(x, goal)
    <3>1. row' = [row EXCEPT ![req[x]].state = goal] /\ row[req[x]].state \in Open
      BY <1>3, <2>1 DEF FinishedRow, FinishUpdates, Row
    <3>. QED
      BY <1>1, <1>4, <1>5, <3>1, RowSet
  <2>2. CASE ~FinishUpdates(x, goal)
    <3>1. row' = row
      BY <1>3, <2>2 DEF FinishedRow
    <3>. QED
      BY <1>1, <3>1, RowStays
  <2>. QED
    BY <2>1, <2>2
<1>10. notices' \in [Processes -> SUBSET Notices]
  <2>1. <<"request", req[x]>> \in Notices
    BY <1>4 DEF Notices
  <2>. QED
    BY <1>1, <1>3, <2>1, NotifiedFacts DEF Types
<1> DEFINE keep == Unsettled(x)'
           left == IF keep THEN ttl[x] ELSE 0
<1>11. ttl' = [ttl EXCEPT ![x] = left]
  BY DEF Finish
<1>12. left \in 0..Duration
  BY <1>4, ConstantFacts
<1> HIDE DEF left
<1>13. /\ ttl' \in [Executions -> 0..Duration]
       /\ \A y \in Executions : y # x => ttl'[y] = ttl[y]
  BY <1>1, <1>11, <1>12 DEF Types
<1>14. Types'
  BY <1>1, <1>2, <1>6, <1>7, <1>8, <1>9, <1>10, <1>13, DisruptFacts DEF Types
<1>15. ASSUME NEW y \in Executions, y # x
       PROVE  StepLaw(y)
  <2>1. Keeps(y)
    BY <1>7, <1>15 DEF Keeps
  <2>2. ex[y].pc \in Maintained => y \in leased' /\ ttl'[y] > 0
    BY <1>2, <1>13, <1>15, InvFacts
  <2>3. ex[y].pc \in Holding => row'[req[y]].state \in Open /\ Device(y) \notin revoked'
    <3>1. ASSUME ex[y].pc \in Holding
          PROVE  req[y] # req[x]
      <4>1. Row(y).holder = y
        BY <3>1, ActiveParts, InvFacts
      <4>. QED
        BY <1>4, <1>15, <4>1 DEF Row
    <3>2. req[y] \in Requests
      BY <1>1, TypeFacts
    <3>. QED
      BY <1>2, <1>9, <3>1, <3>2, InvFacts DEF Row
  <2>4. ex[y].pc = "sending" => call'[y][ex[y].attempt] \in Dispatched
    BY <1>6, InvFacts, PCFacts
  <2>. QED
    BY <2>1, <2>2, <2>3, <2>4, KeepsLaw
<1>16. \A y \in Executions : y \in leased' /\ ttl'[y] > 0 => y \in leased /\ ttl[y] > 0
  BY <1>2, <1>13
<1>17. SentLaw
  BY <1>2, <1>6, SentSame
<1>. QED
  BY <1>2, <1>7, <1>9, <1>14, <1>15, <1>16, <1>17 DEF Law

----------------------------------------------------------------------------
(* Leases and time. *)

LEMMA RenewStep ==
    ASSUME Inv, NEW x \in Executions, Renew(x)
    PROVE  Types' /\ Law
<1>1. Types
  BY InvFacts
<1>2. /\ x \in leased /\ ttl[x] > 0 /\ ttl' = [ttl EXCEPT ![x] = Duration]
      /\ UNCHANGED <<req, row, leased, born, call, capacity, revoked, ready, notices, ex,
                     sent, done, disruptions>>
  BY DEF Renew, GuardOK, Live
<1>3. /\ ttl' \in [Executions -> 0..Duration] /\ ttl'[x] > 0
      /\ \A y \in Executions : y # x => ttl'[y] = ttl[y]
  BY <1>1, <1>2, ConstantFacts DEF Types
<1>4. Types'
  <2>1. ExOK(ex)'
    BY <1>1, <1>2 DEF Types, ExOK
  <2>. QED
    BY <1>1, <1>2, <1>3, <2>1, RowStays, CallStays DEF Types
<1>5. ASSUME NEW y \in Executions
      PROVE  StepLaw(y)
  <2>1. Keeps(y)
    BY <1>2 DEF Keeps
  <2>2. ex[y].pc \in Maintained => y \in leased' /\ ttl'[y] > 0
    BY <1>2, <1>3, InvFacts
  <2>3. ex[y].pc \in Holding => row'[req[y]].state \in Open /\ Device(y) \notin revoked'
    BY <1>2, InvFacts DEF Row
  <2>4. ex[y].pc = "sending" => call'[y][ex[y].attempt] \in Dispatched
    BY <1>2, InvFacts
  <2>. QED
    BY <2>1, <2>2, <2>3, <2>4, KeepsLaw
<1>6. SentLaw
  BY <1>1, <1>2, CallStays, SentSame
<1>. QED
  BY <1>2, <1>3, <1>4, <1>5, <1>6, RowSame DEF Law

LEMMA TickStep ==
    ASSUME Inv, Tick
    PROVE  Types' /\ Law
<1>1. Types
  BY InvFacts
<1>2. /\ \A x \in Executions : LeaseInTime(x)
      /\ ttl' = [x \in Executions |-> IF ttl[x] > 0 THEN ttl[x] - 1 ELSE 0]
      /\ UNCHANGED <<req, row, leased, born, call, capacity, revoked, ready, notices, ex,
                     sent, done, disruptions>>
  BY DEF Tick
<1>3. ASSUME NEW y \in Executions
      PROVE  /\ ttl'[y] \in 0..Duration
             /\ ttl[y] > 1 => ttl'[y] > 0
             /\ ttl'[y] > 0 => ttl[y] > 0
  <2>1. ttl[y] \in 0..Duration /\ Duration \in Nat
    BY <1>1, TypeFacts, ConstantFacts
  <2>2. ttl'[y] = IF ttl[y] > 0 THEN ttl[y] - 1 ELSE 0
    BY <1>2
  <2>. QED
    BY <2>1, <2>2
<1>4. ttl' \in [Executions -> 0..Duration]
  BY <1>2, <1>3
<1>5. Types'
  <2>1. ExOK(ex)'
    BY <1>1, <1>2 DEF Types, ExOK
  <2>. QED
    BY <1>1, <1>2, <1>4, <2>1, RowStays, CallStays DEF Types
<1>6. ASSUME NEW y \in Executions
      PROVE  StepLaw(y)
  <2>1. Keeps(y)
    BY <1>2 DEF Keeps
  <2>2. ex[y].pc \in Maintained => y \in leased' /\ ttl'[y] > 0
    BY <1>2, <1>3, InvFacts DEF LeaseInTime
  <2>3. ex[y].pc \in Holding => row'[req[y]].state \in Open /\ Device(y) \notin revoked'
    BY <1>2, InvFacts DEF Row
  <2>4. ex[y].pc = "sending" => call'[y][ex[y].attempt] \in Dispatched
    BY <1>2, InvFacts
  <2>. QED
    BY <2>1, <2>2, <2>3, <2>4, KeepsLaw
<1>7. SentLaw
  BY <1>1, <1>2, CallStays, SentSame
<1>. QED
  BY <1>2, <1>3, <1>5, <1>6, <1>7, RowSame DEF Law

----------------------------------------------------------------------------
(* Cancellation, revocation and recovery. *)

\* Recovery settles sent calls as counted, and changes no row that a guard holds.
LEMMA RecoverFacts ==
    ASSUME Inv, NEW rows, RowTyped(rows), Recover(rows),
           \A r \in Requests : rows[r].holder = row[r].holder
    PROVE  /\ RowTyped(row)' /\ CallOK(call)'
           /\ \A y \in Executions : \A n \in 1..Attempts[y] :
                 call[y][n] \in Dispatched => call'[y][n] \in Dispatched
           /\ \A r \in Requests :
                 /\ row'[r].holder = row[r].holder
                 /\ rows[r].state \notin Open => row'[r] = rows[r]
                 /\ row'[r].state \in {rows[r].state, "outcome_unknown"}
           /\ \A y \in Executions :
                 ex[y].pc \in Holding => row'[req[y]] = rows[req[y]]
<1>1. Types /\ RowsOK
  BY DEF Inv
<1> DEFINE new(r) == IF rows[r].state \in Open /\ Expired(rows[r].holder)
                     THEN [rows[r] EXCEPT !.state = "outcome_unknown"] ELSE rows[r]
           newCall(y) == IF Expired(y)
                         THEN [n \in 1..Attempts[y] |-> RecoveredCall(call[y][n])]
                         ELSE call[y]
<1>2. /\ \A x \in Executions : Expired(x) => RowsFree(req[x])
      /\ row' = [r \in Requests |-> new(r)]
      /\ call' = [y \in Executions |-> newCall(y)]
  BY DEF Recover
<1>3. ASSUME NEW r \in Requests
      PROVE  /\ new(r) \in [state : States \union {"none"},
                            holder : Executions \union {NoExecution}]
             /\ new(r).holder = row[r].holder
             /\ rows[r].state \notin Open => new(r) = rows[r]
             /\ new(r).state \in {rows[r].state, "outcome_unknown"}
             /\ new(r) = rows[r] \/ Expired(rows[r].holder)
  <2>1. /\ rows[r] \in [state : States \union {"none"},
                        holder : Executions \union {NoExecution}]
        /\ rows[r].holder = row[r].holder /\ "outcome_unknown" \in States
    BY DEF RowTyped, States
  <2>. QED
    BY <2>1
<1>4. ASSUME NEW y \in Executions
      PROVE  /\ newCall(y) \in [1..Attempts[y] -> CallStates]
             /\ \A n \in 1..Attempts[y] :
                   call[y][n] \in Dispatched => newCall(y)[n] \in Dispatched
  <2>1. call[y] \in [1..Attempts[y] -> CallStates]
    BY <1>1 DEF Types, CallOK
  <2>2. \A c \in CallStates : /\ RecoveredCall(c) \in CallStates
                              /\ c \in Dispatched => RecoveredCall(c) \in Dispatched
    BY DEF RecoveredCall, CallStates, Dispatched
  <2>. QED
    BY <2>1, <2>2
<1> HIDE DEF new, newCall
<1>5. /\ \A r \in Requests : row'[r] = new(r)
      /\ \A y \in Executions : call'[y] = newCall(y)
  BY <1>2
<1>6. RowTyped(row)'
  BY <1>2, <1>3 DEF RowTyped
<1>7. CallOK(call)'
  <2>1. call' = [y \in Executions |-> call'[y]]
    BY <1>2
  <2>. QED
    BY <1>4, <1>5, <2>1 DEF CallOK
<1>8. ASSUME NEW y \in Executions, ex[y].pc \in Holding
      PROVE  row'[req[y]] = rows[req[y]]
  <2> DEFINE h == rows[req[y]].holder
  <2>1. req[y] \in Requests
    BY <1>1, TypeFacts
  <2>2. h = row[req[y]].holder /\ h \in Executions \union {NoExecution}
    BY <2>1 DEF RowTyped
  <2>3. h # NoExecution => req[h] = req[y]
    BY <1>1, <2>1, <2>2 DEF RowsOK
  <2>4. ASSUME Expired(h)
        PROVE  FALSE
    <3>1. h # NoExecution
      BY <2>4 DEF Expired
    <3>2. RowsFree(req[h])
      BY <1>2, <2>2, <2>4, <3>1
    <3>. QED
      BY <1>8, <2>3, <3>1, <3>2 DEF RowsFree
  <2>. QED
    BY <1>3, <1>5, <2>1, <2>4
<1>. QED
  BY <1>3, <1>4, <1>5, <1>6, <1>7, <1>8

\* Recovery from the rows as they are.
LEMMA RecoverLaw ==
    ASSUME Inv, Recover(row),
           UNCHANGED <<req, ttl, born, capacity, revoked, ready, notices, ex, sent, done,
                       disruptions>>,
           leased' \subseteq leased,
           \A y \in Executions : y \in leased /\ ttl[y] > 0 => y \in leased'
    PROVE  Types' /\ Law
<1>1. Types /\ RowTyped(row)
  BY InvFacts DEF Types
<1>2. /\ RowTyped(row)' /\ CallOK(call)'
      /\ \A y \in Executions : \A n \in 1..Attempts[y] :
            call[y][n] \in Dispatched => call'[y][n] \in Dispatched
      /\ \A r \in Requests :
            /\ row'[r].holder = row[r].holder
            /\ row[r].state \notin Open => row'[r] = row[r]
            /\ row'[r].state \in {row[r].state, "outcome_unknown"}
      /\ \A y \in Executions : ex[y].pc \in Holding => row'[req[y]] = row[req[y]]
  BY <1>1, RecoverFacts
<1>3. Types'
  <2>1. ExOK(ex)'
    BY <1>1 DEF Types, ExOK
  <2>. QED
    BY <1>1, <1>2, <2>1 DEF Types
<1>4. \A r \in Requests : RowLaw(r)
  <2>1. \A r \in Requests : row[r].state \in Results => row[r].state \notin Open
    BY DEF Results, Open
  <2>. QED
    BY <1>2, <2>1 DEF RowLaw
<1>5. ASSUME NEW y \in Executions
      PROVE  StepLaw(y)
  <2>1. Keeps(y)
    BY DEF Keeps
  <2>2. ex[y].pc \in Maintained => y \in leased' /\ ttl'[y] > 0
    BY InvFacts
  <2>3. ex[y].pc \in Holding => row'[req[y]].state \in Open /\ Device(y) \notin revoked'
    BY <1>2, InvFacts DEF Row
  <2>4. ex[y].pc = "sending" => call'[y][ex[y].attempt] \in Dispatched
    BY <1>2, InvFacts, PCFacts
  <2>. QED
    BY <2>1, <2>2, <2>3, <2>4, KeepsLaw
<1>6. SentLaw
  BY <1>2, SentSame
<1>. QED
  BY <1>3, <1>4, <1>5, <1>6 DEF Law

LEMMA SweepStep ==
    ASSUME Inv, Sweep
    PROVE  Types' /\ Law
<1>1. /\ Recover(row) /\ leased' = {x \in leased : ~Expired(x)}
      /\ UNCHANGED <<req, ttl, born, capacity, revoked, ready, notices, ex, sent, done,
                     disruptions>>
  BY DEF Sweep
<1>2. \A y \in Executions : y \in leased /\ ttl[y] > 0 => y \in leased'
  BY <1>1 DEF Expired
<1>. QED
  BY <1>1, <1>2, RecoverLaw

LEMMA ReadStateStep ==
    ASSUME Inv, NEW d \in Devices, ReadState(d)
    PROVE  Types' /\ Law
BY RecoverLaw DEF ReadState

LEMMA CancelStep ==
    ASSUME Inv, NEW r \in Requests, Cancel(r)
    PROVE  Types' /\ Law
<1> DEFINE rows == [row EXCEPT ![r].state = "cancelled"]
<1>1. Types /\ RowTyped(row)
  BY InvFacts DEF Types
<1>2. /\ RowsFree(r) /\ row[r].state \in Cancellable /\ Disrupt /\ Recover(rows)
      /\ UNCHANGED <<req, leased, ttl, born, capacity, revoked, ready, ex, sent, done>>
      /\ notices' = notices \/ notices' = Notified(<<"request", r>>)
  BY DEF Cancel
<1>3. /\ RowTyped(rows)
      /\ rows[r].state = "cancelled" /\ rows[r].holder = row[r].holder
      /\ \A q \in Requests : q # r => rows[q] = row[q]
  <2> DEFINE v == [row[r] EXCEPT !.state = "cancelled"]
  <2>1. row[r] \in [state : States \union {"none"}, holder : Executions \union {NoExecution}]
    BY <1>1 DEF RowTyped
  <2>2. /\ v \in [state : States \union {"none"}, holder : Executions \union {NoExecution}]
        /\ v.state = "cancelled" /\ v.holder = row[r].holder
    BY <2>1 DEF States
  <2>3. rows = [row EXCEPT ![r] = v]
    OBVIOUS
  <2> HIDE DEF v, rows
  <2>. QED
    BY <1>1, <2>2, <2>3 DEF RowTyped
<1> HIDE DEF rows
<1>4. \A q \in Requests : rows[q].holder = row[q].holder
  BY <1>3
<1>5. /\ RowTyped(row)' /\ CallOK(call)'
      /\ \A y \in Executions : \A n \in 1..Attempts[y] :
            call[y][n] \in Dispatched => call'[y][n] \in Dispatched
      /\ \A q \in Requests :
            /\ row'[q].holder = row[q].holder
            /\ rows[q].state \notin Open => row'[q] = rows[q]
            /\ row'[q].state \in {rows[q].state, "outcome_unknown"}
      /\ \A y \in Executions : ex[y].pc \in Holding => row'[req[y]] = rows[req[y]]
  BY <1>2, <1>3, <1>4, RecoverFacts
<1>6. notices' \in [Processes -> SUBSET Notices]
  <2>1. <<"request", r>> \in Notices
    BY DEF Notices
  <2>. QED
    BY <1>1, <1>2, <2>1, NotifiedFacts DEF Types
<1>7. Types'
  <2>1. ExOK(ex)'
    BY <1>1, <1>2 DEF Types, ExOK
  <2>. QED
    BY <1>1, <1>2, <1>5, <1>6, <2>1, DisruptFacts DEF Types
<1>8. \A q \in Requests : RowLaw(q)
  <2>1. \A q \in Requests : row[q].state \in Results => row[q].state \notin Open
    BY DEF Results, Open
  <2>2. row[r].state \notin Results
    BY <1>2 DEF Cancellable, Results
  <2>. QED
    BY <1>3, <1>5, <2>1, <2>2 DEF RowLaw
<1>9. ASSUME NEW y \in Executions
      PROVE  StepLaw(y)
  <2>1. Keeps(y)
    BY <1>2 DEF Keeps
  <2>2. ex[y].pc \in Maintained => y \in leased' /\ ttl'[y] > 0
    BY <1>2, InvFacts
  <2>3. ex[y].pc \in Holding => row'[req[y]].state \in Open /\ Device(y) \notin revoked'
    <3>1. req[y] \in Requests
      BY <1>1, TypeFacts
    <3>2. ex[y].pc \in Holding => req[y] # r
      BY <1>2 DEF RowsFree
    <3>. QED
      BY <1>2, <1>3, <1>5, <3>1, <3>2, InvFacts DEF Row
  <2>4. ex[y].pc = "sending" => call'[y][ex[y].attempt] \in Dispatched
    BY <1>5, InvFacts, PCFacts
  <2>. QED
    BY <2>1, <2>2, <2>3, <2>4, KeepsLaw
<1>10. SentLaw
  BY <1>2, <1>5, SentSame
<1>. QED
  BY <1>2, <1>7, <1>8, <1>9, <1>10 DEF Law

LEMMA RevokeStep ==
    ASSUME Inv, NEW d \in Devices, Revoke(d)
    PROVE  Types' /\ Law
<1>1. Types
  BY InvFacts
<1>2. /\ DeviceFree(d) /\ Disrupt
      /\ revoked' = revoked \union {d} /\ notices' = Notified(<<"device", d>>)
      /\ UNCHANGED <<req, row, leased, ttl, born, call, capacity, ready, ex, sent, done>>
  BY DEF Revoke
<1>3. notices' \in [Processes -> SUBSET Notices]
  <2>1. <<"device", d>> \in Notices
    BY DEF Notices
  <2>. QED
    BY <1>1, <1>2, <2>1, NotifiedFacts
<1>4. Types'
  <2>1. ExOK(ex)' /\ revoked' \subseteq Devices
    BY <1>1, <1>2 DEF Types, ExOK
  <2>. QED
    BY <1>1, <1>2, <1>3, <2>1, RowStays, CallStays, DisruptFacts DEF Types
<1>5. ASSUME NEW y \in Executions
      PROVE  StepLaw(y)
  <2>1. Keeps(y)
    BY <1>2 DEF Keeps
  <2>2. ex[y].pc \in Maintained => y \in leased' /\ ttl'[y] > 0
    BY <1>2, InvFacts
  <2>3. req[y] \in Requests
    BY <1>1, TypeFacts
  <2>4. ex[y].pc \in Holding => Device(y) # d
    BY <1>2, <2>3 DEF DeviceFree, RowsFree, Device
  <2>5. ex[y].pc \in Holding => row'[req[y]].state \in Open /\ Device(y) \notin revoked'
    BY <1>2, <2>4, InvFacts DEF Row
  <2>6. ex[y].pc = "sending" => call'[y][ex[y].attempt] \in Dispatched
    BY <1>2, InvFacts
  <2>. QED
    BY <2>1, <2>2, <2>5, <2>6, KeepsLaw
<1>6. SentLaw
  BY <1>1, <1>2, CallStays, SentSame
<1>. QED
  BY <1>2, <1>4, <1>5, <1>6, RowSame DEF Law

LEMMA LowerCapacityStep ==
    ASSUME Inv, LowerCapacity
    PROVE  Types' /\ Law
<1>1. Types
  BY InvFacts
<1>2. /\ capacity > 1 /\ Disrupt /\ capacity' = capacity - 1
      /\ UNCHANGED <<req, row, leased, ttl, born, call, revoked, ready, notices, ex, sent,
                     done>>
  BY DEF LowerCapacity
<1>3. Types'
  <2>1. ExOK(ex)'
    BY <1>1, <1>2 DEF Types, ExOK
  <2>2. capacity' \in 1..Capacity
    BY <1>1, <1>2, ConstantFacts DEF Types
  <2>. QED
    BY <1>1, <1>2, <2>1, <2>2, RowStays, CallStays, DisruptFacts DEF Types
<1>4. ASSUME NEW y \in Executions
      PROVE  StepLaw(y)
  <2>1. Keeps(y)
    BY <1>2 DEF Keeps
  <2>2. ex[y].pc \in Maintained => y \in leased' /\ ttl'[y] > 0
    BY <1>2, InvFacts
  <2>3. ex[y].pc \in Holding => row'[req[y]].state \in Open /\ Device(y) \notin revoked'
    BY <1>2, InvFacts DEF Row
  <2>4. ex[y].pc = "sending" => call'[y][ex[y].attempt] \in Dispatched
    BY <1>2, InvFacts
  <2>. QED
    BY <2>1, <2>2, <2>3, <2>4, KeepsLaw
<1>5. SentLaw
  BY <1>1, <1>2, CallStays, SentSame
<1>. QED
  BY <1>2, <1>3, <1>4, <1>5, RowSame DEF Law

----------------------------------------------------------------------------
(* Acceptance, the one step that adds a row, a lease and a holder. *)

LEMMA AcceptStep ==
    ASSUME Inv, NEW x \in Executions, Accept(x)
    PROVE  Inv'
<1> DEFINE new == [NoRow EXCEPT !.state = "accepted", !.holder = x]
           age == 1 + Cardinality({y \in Executions : born[y] > 0})
           f == [call[x] EXCEPT ![1] = "prepared"]
<1>1. /\ Types /\ NotBorn /\ RowsOK /\ HolderOK /\ HoldingOK /\ LeaseOK
      /\ SendingOK /\ SentOK /\ FinalOutputIsRecorded /\ PoolOK
  BY DEF Inv
<1>2. /\ ex[x].pc = "accept" /\ Row(x).state = "none" /\ Admitted(x)
      /\ row' = [row EXCEPT ![req[x]] = new]
      /\ leased' = leased \union {x}
      /\ ttl' = [ttl EXCEPT ![x] = Duration]
      /\ born' = [born EXCEPT ![x] = age]
      /\ call' = [call EXCEPT ![x] = f]
      /\ UNCHANGED <<req, capacity, revoked, ready, notices, sent, done>>
  BY DEF Accept, Acceptable
<1>3. /\ req[x] \in Requests /\ x \in Nat /\ x # NoExecution
      /\ Attempts[x] \in Nat /\ 1 <= Attempts[x] /\ 1 \in 1..Attempts[x]
      /\ ex[x].attempt \in Nat
  BY <1>1, TypeFacts, ExecutionsFinite, ConstantFacts
<1>4. /\ new \in [state : States \union {"none"}, holder : Executions \union {NoExecution}]
      /\ new.state = "accepted" /\ new.holder = x
  BY DEF NoRow, States, Open
<1>5. born[x] = 0
  BY <1>1, <1>2 DEF NotBorn
<1>6. age \in 0..Calls
  <2> DEFINE S == {y \in Executions : born[y] > 0}
  <2>1. S \subseteq Executions /\ x \notin S
    BY <1>5
  <2>2. IsFiniteSet(S) /\ Cardinality(S) \in Nat
    BY <2>1, ExecutionsFinite, FS_Subset, FS_CardinalityType
  <2>3. /\ IsFiniteSet(S \union {x}) /\ Cardinality(S \union {x}) = Cardinality(S) + 1
    BY <2>1, <2>2, FS_AddElement
  <2>4. S \union {x} \subseteq Executions
    BY <2>1
  <2>5. Cardinality(S \union {x}) <= Calls
    BY <2>4, ExecutionsFinite, FS_Subset
  <2> HIDE DEF S
  <2>6. Cardinality(S) + 1 <= Calls
    BY <2>3, <2>5
  <2>7. age = 1 + Cardinality(S)
    BY DEF S
  <2>. QED
    BY <2>2, <2>6, <2>7, ConstantFacts
<1>7. f \in [1..Attempts[x] -> CallStates]
  BY <1>1, <1>3 DEF Types, CallOK, CallStates
<1> HIDE DEF new, age, f
<1>8. /\ row'[req[x]].state = "accepted" /\ row'[req[x]].holder = x
      /\ \A r \in Requests : r # req[x] => row'[r] = row[r]
      /\ RowTyped(row)'
  BY <1>1, <1>2, <1>3, <1>4 DEF Types, RowTyped
<1>9. CallOK(call)' /\ call'[x] = f /\ \A y \in Executions : y # x => call'[y] = call[y]
  BY <1>1, <1>2, <1>7, CallSet DEF Types
<1>10. /\ ExOK(ex)'
       /\ \A y \in Executions : y # x => ex'[y] = ex[y]
       /\ (ex'[x].pc = "run" /\ ex'[x].attempt = 1) \/ ex'[x].pc = "end"
       /\ Disrupt \/ UNCHANGED disruptions
  <2>1. ExOK(ex)
    BY <1>1 DEF Types
  <2>2. CASE ex' = [Goto(x, "run") EXCEPT ![x].attempt = 1] /\ UNCHANGED disruptions
    <3>1. /\ ExOK(ex)' /\ ex'[x].pc = "run" /\ ex'[x].attempt = 1
          /\ \A y \in Executions : y # x => ex'[y] = ex[y]
      BY <1>3, <2>1, <2>2, AttemptFacts, PCFacts
    <3>. QED
      BY <2>2, <3>1
  <2>3. CASE ex' = End(x) /\ Disrupt
    BY <2>1, <2>3, EndFacts
  <2>. QED
    BY <2>2, <2>3 DEF Accept
<1>11. /\ ttl' \in [Executions -> 0..Duration] /\ ttl'[x] = Duration /\ Duration > 0
       /\ \A y \in Executions : y # x => ttl'[y] = ttl[y]
  BY <1>1, <1>2, ConstantFacts DEF Types
<1>12. /\ born' \in [Executions -> 0..Calls]
       /\ \A y \in Executions : y # x => born'[y] = born[y]
  BY <1>1, <1>2, <1>6 DEF Types
<1>13. Types'
  BY <1>1, <1>2, <1>8, <1>9, <1>10, <1>11, <1>12, DisruptFacts DEF Types
\* Nobody else works on the request, and nothing of it was sent.
<1>14. /\ \A y \in Executions : ex[y].pc \in Active => req[y] # req[x]
       /\ \A s \in sent : s[1] \in Executions /\ req[s[1]] # req[x] /\ s[1] # x
  <2>1. \A y \in Executions : ex[y].pc \in Active => req[y] # req[x]
    BY <1>2, InvFacts DEF Row
  <2>2. row[req[x]].holder = NoExecution
    BY <1>1, <1>2, <1>3 DEF RowsOK, Row
  <2>3. \A s \in sent : s[1] \in Executions /\ row[req[s[1]]].holder = s[1]
    BY <1>1, InvFacts DEF SentOK, Row
  <2>4. \A s \in sent : s[1] # NoExecution
    BY <2>3, ExecutionsFinite
  <2>. QED
    BY <2>1, <2>2, <2>3, <2>4
<1>15. \A y \in Executions : req[y] \in Requests
  BY <1>1, TypeFacts
<1>16. NotBorn'
  BY <1>1, <1>2, <1>10, <1>12 DEF NotBorn
<1>17. RowsOK'
  BY <1>1, <1>2, <1>3, <1>8 DEF RowsOK
<1>18. HolderOK'
  <2> SUFFICES ASSUME NEW y \in Executions
               PROVE  /\ ex'[y].pc \in Active => row'[req[y]].holder = y /\ ex'[y].attempt >= 1
                      /\ ex'[y].pc = "retry" => ex'[y].attempt < Attempts[y]
                      /\ ex'[y].pc = "closing" => ex'[y].goal \in States
    BY <1>2 DEF HolderOK, Row
  <2>1. CASE y = x
    BY <1>8, <1>10, <2>1, PCFacts
  <2>2. CASE y # x
    BY <1>1, <1>8, <1>10, <1>14, <1>15, <2>2 DEF HolderOK, Row
  <2>. QED
    BY <2>1, <2>2
<1>19. HoldingOK'
  <2> SUFFICES ASSUME NEW y \in Executions, ex'[y].pc \in Holding
               PROVE  row'[req[y]].state \in Open /\ Device(y) \notin revoked
    BY <1>2 DEF HoldingOK, Row, Device
  <2>1. y # x
    BY <1>10 DEF Holding
  <2>2. ex[y].pc \in Holding /\ req[y] # req[x]
    BY <1>10, <1>14, <2>1, ActiveParts
  <2>. QED
    BY <1>1, <1>8, <1>15, <2>2 DEF HoldingOK, Row
<1>20. LeaseOK'
  BY <1>1, <1>2, <1>10, <1>11 DEF LeaseOK, Live
<1>21. SendingOK'
  BY <1>1, <1>9, <1>10 DEF SendingOK
<1>22. SentOK'
  BY <1>1, <1>2, <1>8, <1>9, <1>10, <1>14, <1>15 DEF SentOK, Row
<1>23. FinalOutputIsRecorded'
  <2>1. req[x] \notin done
    BY <1>1, <1>2 DEF FinalOutputIsRecorded, Row, Results
  <2>2. done \subseteq Requests
    BY <1>1 DEF Types
  <2>. QED
    BY <1>1, <1>2, <1>8, <2>1, <2>2 DEF FinalOutputIsRecorded
<1>24. PoolOK'
  <2>1. LiveLeases \subseteq Executions
    BY DEF LiveLeases
  <2>2. IsFiniteSet(LiveLeases) /\ Cardinality(LiveLeases) \in Nat
    BY <2>1, ExecutionsFinite, FS_Subset, FS_CardinalityType
  <2>3. LiveLeases' \subseteq LiveLeases \union {x}
    BY <1>2, <1>11 DEF LiveLeases, Live
  <2>4. /\ IsFiniteSet(LiveLeases \union {x})
        /\ Cardinality(LiveLeases \union {x}) <= Cardinality(LiveLeases) + 1
    <3>1. CASE x \in LiveLeases
      <4>1. LiveLeases \union {x} = LiveLeases
        BY <3>1
      <4>2. Cardinality(LiveLeases \union {x}) = Cardinality(LiveLeases)
        BY <4>1, Zenon
      <4>3. Cardinality(LiveLeases) <= Cardinality(LiveLeases) + 1
        BY <2>2
      <4>. QED
        BY <2>2, <4>1, <4>2, <4>3
    <3>2. CASE x \notin LiveLeases
      <4>1. /\ IsFiniteSet(LiveLeases \union {x})
            /\ Cardinality(LiveLeases \union {x}) = Cardinality(LiveLeases) + 1
        BY <2>2, <3>2, FS_AddElement
      <4>. QED
        BY <2>2, <4>1
    <3>. QED
      BY <3>1, <3>2
  <2>5. /\ Cardinality(LiveLeases') <= Cardinality(LiveLeases \union {x})
        /\ Cardinality(LiveLeases') \in Nat /\ Cardinality(LiveLeases \union {x}) \in Nat
    BY <2>3, <2>4, FS_Subset, FS_CardinalityType
  <2>6. Cardinality(LiveLeases) < capacity - 1 /\ capacity \in 1..Capacity
    BY <1>1, <1>2 DEF Admitted, Types
  <2>7. Cardinality(LiveLeases') <= Capacity - 1
    BY <2>2, <2>4, <2>5, <2>6, ConstantFacts
  <2>8. \A y \in LiveLeases : Device(y) # Device(x)
    BY <1>2 DEF Admitted
  <2>9. \A y, z \in LiveLeases' : Device(y)' = Device(z)' => y = z
    BY <1>1, <1>2, <2>3, <2>8 DEF PoolOK, Device
  <2>. QED
    BY <2>7, <2>9 DEF PoolOK
<1>. QED
  BY <1>13, <1>16, <1>17, <1>18, <1>19, <1>20, <1>21, <1>22, <1>23, <1>24 DEF Inv

----------------------------------------------------------------------------
(* The invariant holds. *)

LEMMA InitInv == Init => Inv
<1> SUFFICES ASSUME Init
             PROVE  Inv
  OBVIOUS
<1>1. /\ req \in RequestMaps /\ row = [r \in Requests |-> NoRow] /\ leased = {}
      /\ ttl = [x \in Executions |-> 0] /\ born = [x \in Executions |-> 0]
      /\ call = [x \in Executions |-> [n \in 1..Attempts[x] |-> "none"]]
      /\ capacity = Capacity /\ revoked = {} /\ ready = Processes
      /\ notices = [p \in Processes |-> {}] /\ ex = [x \in Executions |-> Fresh]
      /\ sent = {} /\ done = {} /\ disruptions = 0
  BY DEF Init
<1>2. \A x \in Executions : ex[x].pc = "idle"
  BY <1>1 DEF Fresh
<1>3. \A r \in Requests : row[r].state = "none" /\ row[r].holder = NoExecution
  BY <1>1 DEF NoRow
<1>4. Types
  <2>1. RowTyped(row)
    BY <1>1 DEF RowTyped, NoRow
  <2>2. CallOK(call)
    <3>1. call = [x \in Executions |-> call[x]]
      BY <1>1
    <3>2. \A x \in Executions : call[x] \in [1..Attempts[x] -> CallStates]
      BY <1>1 DEF CallStates
    <3>. QED
      BY <3>1, <3>2 DEF CallOK
  <2>3. ExOK(ex)
    <3>1. /\ Fresh \in [pc : PCs, attempt : Nat, cause : Causes, goal : GoalStates]
          /\ Fresh.attempt = 0
      BY DEF Fresh, PCs, Causes, GoalStates
    <3>2. \A x \in Executions : ex[x] = Fresh /\ 0 <= Attempts[x]
      BY <1>1, ConstantFacts
    <3>3. ex \in [Executions -> [pc : PCs, attempt : Nat, cause : Causes, goal : GoalStates]]
      BY <1>1, <3>1
    <3>. QED
      BY <3>1, <3>2, <3>3 DEF ExOK
  <2>4. /\ ttl \in [Executions -> 0..Duration] /\ born \in [Executions -> 0..Calls]
        /\ capacity \in 1..Capacity /\ disruptions \in 0..MaxDisruptions
    BY <1>1, ConstantFacts
  <2>5. notices \in [Processes -> SUBSET Notices]
    BY <1>1
  <2>. QED
    BY <1>1, <2>1, <2>2, <2>3, <2>4, <2>5 DEF Types
<1>5. NotBorn
  BY <1>1 DEF NotBorn
<1>6. RowsOK
  BY <1>3 DEF RowsOK
<1>7. HolderOK /\ HoldingOK /\ LeaseOK /\ SendingOK
  BY <1>2, ActiveParts DEF HolderOK, HoldingOK, LeaseOK, SendingOK
<1>8. SentOK /\ FinalOutputIsRecorded
  BY <1>1 DEF SentOK, FinalOutputIsRecorded
<1>9. PoolOK
  <2>1. LiveLeases = {}
    BY <1>1 DEF LiveLeases, Live
  <2>2. Cardinality({}) = 0
    BY FS_EmptySet
  <2>. QED
    BY <2>1, <2>2, ConstantFacts DEF PoolOK
<1>. QED
  BY <1>4, <1>5, <1>6, <1>7, <1>8, <1>9 DEF Inv

LEMMA StutterStep ==
    ASSUME Inv, UNCHANGED vars
    PROVE  Inv'
BY DEF Inv, vars, db, Types, RowTyped, CallOK, ExOK, NotBorn, RowsOK, HolderOK, HoldingOK,
       LeaseOK, SendingOK, SentOK, FinalOutputIsRecorded, PoolOK, LiveLeases, Live, Row,
       Device

LEMMA InvStep == Inv /\ [Next]_vars => Inv'
<1> SUFFICES ASSUME Inv, [Next]_vars
             PROVE  Inv'
  OBVIOUS
<1>1. ASSUME NEW x \in Executions, Register(x) \/ WriteBegin(x) \/ UpstreamEnds(x)
             \/ FinishUnavailable(x) \/ Renew(x) \/ RenewFailed(x) \/ Timeout(x)
      PROVE  Inv'
  BY <1>1, RegisterStep, WriteBeginStep, UpstreamEndsStep, FinishUnavailableStep, RenewStep,
     RenewFailedStep, TimeoutStep, LawKeeps
<1>2. ASSUME NEW x \in Executions, Step(x)
      PROVE  Inv'
  <2>1. CASE Accept(x)
    BY <2>1, AcceptStep
  <2>2. CASE AcceptRefused(x) \/ BeginAttempt(x) \/ Dispatch(x) \/ GuardFailed(x) \/ Send(x)
    BY <2>2, AcceptRefusedStep, BeginAttemptStep, DispatchStep, GuardFailedStep, SendStep,
       LawKeeps
  <2>3. CASE WroteRequest(x) \/ AbortAttempt(x) \/ Write(x) \/ Finish(x) \/ WriteFinal(x)
    BY <2>3, WroteRequestStep, AbortAttemptStep, WriteStep, FinishStep, WriteFinalStep,
       LawKeeps
  <2>. QED
    BY <1>2, <2>1, <2>2, <2>3 DEF Step
<1>3. ASSUME NEW r \in Requests, Cancel(r)
      PROVE  Inv'
  BY <1>3, CancelStep, LawKeeps
<1>4. ASSUME NEW d \in Devices, Revoke(d) \/ ReadState(d)
      PROVE  Inv'
  BY <1>4, RevokeStep, ReadStateStep, LawKeeps
<1>5. ASSUME NEW p \in Processes, Deliver(p) \/ ListenerLost(p) \/ Listen(p) \/ Crash(p)
      PROVE  Inv'
  BY <1>5, DeliverStep, ListenerLostStep, ListenStep, CrashStep, LawKeeps
<1>6. CASE LowerCapacity \/ Tick \/ Sweep
  BY <1>6, LowerCapacityStep, TickStep, SweepStep, LawKeeps
<1>7. CASE UNCHANGED vars
  BY <1>7, StutterStep
<1>. QED
  BY <1>1, <1>2, <1>3, <1>4, <1>5, <1>6, <1>7 DEF Next

\* The inductive invariant holds of every reachable state.
THEOREM InvHolds == Spec => []Inv
BY InitInv, InvStep, PTL DEF Spec

----------------------------------------------------------------------------
(* The properties. *)

\* Rows, leases, the ledger and the executions keep their types, whatever the
\* number of processes, calls, requests, devices and attempts.
THEOREM TypeCorrect == Spec => []TypeOK
<1>1. Inv => TypeOK
  <2> SUFFICES ASSUME Inv
               PROVE  TypeOK
    OBVIOUS
  <2>1. Types
    BY DEF Inv
  <2>2. \A x \in Executions : ex[x] \in
              [pc : Registered \union {"idle", "end"}, attempt : 0..Attempts[x],
               cause : {"none", "stopped", "unavailable"},
               goal : States \union {"none"}]
    <3> SUFFICES ASSUME NEW x \in Executions
                 PROVE  ex[x] \in [pc : Registered \union {"idle", "end"},
                                   attempt : 0..Attempts[x],
                                   cause : {"none", "stopped", "unavailable"},
                                   goal : States \union {"none"}]
      OBVIOUS
    <3>1. /\ ex[x] \in [pc : PCs, attempt : Nat, cause : Causes, goal : GoalStates]
          /\ ex[x].attempt <= Attempts[x] /\ Attempts[x] \in Nat
      BY <2>1, TypeFacts, ConstantFacts
    <3>2. ex[x].attempt \in 0..Attempts[x]
      BY <3>1
    <3>. QED
      BY <3>1, <3>2 DEF PCs, Causes, GoalStates
  <2>3. \A x \in Executions : call[x] \in [1..Attempts[x] ->
              {"none", "prepared", "dispatching", "counted", "not_dispatched"}]
    BY <2>1 DEF Types, CallOK, CallStates
  <2>4. \A p \in Processes : notices[p] \subseteq
            ({"request"} \X Requests) \union ({"device"} \X Devices)
    BY <2>1 DEF Types, Notices
  <2>5. born \in [Executions -> 0..Cardinality(Executions)]
    BY <2>1, ExecutionsFinite DEF Types
  <2>6. \A s \in sent : s[1] \in Executions /\ s[2] \in 1..Attempts[s[1]]
    BY <2>1, TypeFacts DEF Types
  <2>. QED
    BY <2>1, <2>2, <2>3, <2>4, <2>5, <2>6 DEF TypeOK, Types, RowTyped
<1>. QED
  BY <1>1, InvHolds, PTL

\* Open upstream calls never exceed the CLI's share of the pool, nor one per
\* device: each has a live lease, because Maintain cancels it before the lease
\* runs out, and CheckTx bounds the live leases.
THEOREM UpstreamWithinCapacityHolds == Spec => []UpstreamWithinCapacity
<1>1. Inv => UpstreamWithinCapacity
  <2> SUFFICES ASSUME Inv
               PROVE  UpstreamWithinCapacity
    OBVIOUS
  <2>1. LeaseOK /\ PoolOK
    BY DEF Inv
  <2>2. InFlight \subseteq LiveLeases
    BY <2>1 DEF InFlight, LiveLeases, LeaseOK, Maintained
  <2>3. LiveLeases \subseteq Executions
    BY DEF LiveLeases
  <2>4. IsFiniteSet(LiveLeases)
    BY <2>3, ExecutionsFinite, FS_Subset
  <2>5. /\ Cardinality(InFlight) <= Cardinality(LiveLeases)
        /\ Cardinality(InFlight) \in Nat /\ Cardinality(LiveLeases) \in Nat
    BY <2>2, <2>4, FS_Subset, FS_CardinalityType
  <2>6. Cardinality(InFlight) <= Capacity - 1
    BY <2>1, <2>5, ConstantFacts DEF PoolOK
  <2>. QED
    BY <2>1, <2>2, <2>6 DEF UpstreamWithinCapacity, PoolOK
<1>. QED
  BY <1>1, InvHolds, PTL

\* A call whose bytes reached the upstream is never settled as not dispatched:
\* the ledger is committed before the send, and neither Finish nor recovery takes
\* a dispatching call back.
THEOREM SentCallsAreCountedHolds == Spec => []SentCallsAreCounted
<1>1. Inv => SentCallsAreCounted
  BY DEF Inv, SentOK, SentCallsAreCounted, Dispatched
<1>. QED
  BY <1>1, InvHolds, PTL

\* However often a client repeats a request id, at most one execution takes it
\* upstream: only the holder of the row sends, and a row never changes its holder.
THEOREM OneSenderPerRequestHolds == Spec => []OneSenderPerRequest
<1>1. Inv => OneSenderPerRequest
  BY DEF Inv, SentOK, OneSenderPerRequest, Row
<1>. QED
  BY <1>1, InvHolds, PTL

\* A client that has the final output never finds another outcome on record.
THEOREM FinalOutputIsRecordedHolds == Spec => []FinalOutputIsRecorded
<1>1. Inv => FinalOutputIsRecorded
  BY DEF Inv
<1>. QED
  BY <1>1, InvHolds, PTL

\* After the commit of a cancel, a revocation or a recovery nothing of the request
\* is sent upstream or written to the client: whoever sends or writes holds the
\* rows those commits need.
THEOREM NothingAfterStopHolds == Spec => NothingAfterStop
<1>1. Inv => [\A x \in Executions :
                 \/ ex[x].pc = "sending" /\ ex'[x].pc = "wrote"
                 \/ ex[x].pc = "writing" /\ ex'[x].pc = "upstream"
                 => Row(x).state \in Open /\ Device(x) \notin revoked]_vars
  BY DEF Inv, HoldingOK, Holding
<1>. QED
  BY <1>1, InvHolds, PTL DEF NothingAfterStop

=============================================================================
