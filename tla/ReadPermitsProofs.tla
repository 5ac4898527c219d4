-------------------------- MODULE ReadPermitsProofs -------------------------
(* Proofs about ReadPermits for every number of processes, requests and    *)
(* owners, every mixture of responses and every bound.                     *)
EXTENDS ReadPermits, WellFoundedInduction, TLAPS

\* The records of TypeOK.
Reader == [pc : ReaderPC, proc : Processes \cup {NoProcess}, cancelled : BOOLEAN,
           seen : 0..MaxGeneration, guard : SUBSET Owners, gates : SUBSET Owners,
           wgs : SUBSET Owners]
Manager == [closed : SUBSET Owners, gen : [Owners -> 1..MaxGeneration]]
Barrier == [pc : {"idle", "lock", "wgates", "drain", "commit", "abort"},
            proc : Processes \cup {NoProcess}, held : SUBSET Owners,
            wgs : SUBSET Owners, target : 0..MaxGeneration]

\* Which locks a request holds at each place, by its kind.
ReaderShape(r, x) ==
    /\ x.pc = "idle" => x = Idle
    /\ x.pc # "idle" => x.proc \in Processes
    /\ x.gates \subseteq ReadSet[r] /\ x.guard \subseteq ReadSet[r] /\ x.wgs \subseteq ReadSet[r]
    /\ x.pc = "reading" => x.gates = {} /\ x.guard = {} /\ x.wgs = {}
    /\ x.pc = "gates" => x.gates # ReadSet[r] /\ x.wgs = {}
    /\ x.pc = "writegates" => x.gates = ReadSet[r] /\ x.wgs # ReadSet[r]
    /\ x.pc \in {"check", "writing"} => x.gates = ReadSet[r]
    /\ x.pc = "guard" => x.guard # ReadSet[r] /\ Kind[r] # "buffered"
    /\ Kind[r] = "control" =>
         /\ x.pc # "reading"
         /\ x.pc = "guard" => x.gates = {} /\ x.wgs = {}
         /\ x.pc \in {"gates", "writegates", "check", "writing"} => x.guard = ReadSet[r]
    /\ Kind[r] = "output" =>
         /\ x.pc = "guard" => x.gates = ReadSet[r]
         /\ x.pc \in {"gates", "writegates", "check"} => x.guard = {}
         /\ x.pc = "writing" => x.guard = ReadSet[r]

\* The owners a request has locked are open and not the barrier's; one that has all its
\* guard locks has seen the current generation.
ReaderLocks(r, x) ==
    /\ x.gates \cup x.guard \subseteq open \ bar.held
    /\ x.guard = ReadSet[r] => x.seen = generation

ReadersOK == \A r \in Readers : ReaderShape(r, rd[r]) /\ ReaderLocks(r, rd[r])

\* How far the barrier is: what it holds, what it aims at, and what its process lets in.
BarrierOK ==
    /\ bar.pc = "idle" => bar = NoBarrier
    /\ bar.pc # "idle" => bar.proc \in Processes
    /\ bar.pc = "lock" => /\ bar.held # Owners /\ bar.wgs = {}
                          /\ bar.target \in {0, generation + 1}
    /\ bar.pc = "wgates" => bar.held = Owners /\ bar.wgs # Owners /\ bar.target = generation + 1
    /\ bar.pc \in {"drain", "commit"} =>
         /\ bar.held = Owners /\ bar.wgs = {} /\ bar.target = generation + 1
         /\ mgr[bar.proc].closed = Owners
         /\ \A o \in Owners : mgr[bar.proc].gen[o] = bar.target
    /\ bar.pc = "commit" => \A r \in Readers : rd[r].pc = "idle" \/ rd[r].proc # bar.proc
    /\ bar.pc = "abort" => /\ bar.held = {} /\ bar.wgs # Owners
                           /\ bar.target \in {generation, generation + 1} /\ bar.target >= 2

\* No call of Open comes from a later generation than the current one.
PendingOK == \A c \in pending : c.gen <= generation

Inv == TypeOK /\ ReadersOK /\ BarrierOK /\ PendingOK

\* TypeOK in terms of the records above.
LEMMA TypeParts ==
    TypeOK <=> /\ generation \in 1..MaxGeneration
               /\ open \subseteq Owners
               /\ erasing \in BOOLEAN
               /\ mgr \in [Processes -> Manager]
               /\ rd \in [Readers -> Reader]
               /\ bar \in Barrier
               /\ pending \subseteq [proc : Processes, owner : Owners, gen : 1..MaxGeneration]
               /\ faults \in 0..MaxFaults
BY DEF TypeOK, Manager, Reader, Barrier

-----------------------------------------------------------------------------
(* The order of the owners.                                                *)

\* Every locker finds a next owner as long as it lacks one.
LEMMA LeastIsMember ==
    ASSUME NEW S, S \subseteq Owners, S # {}
    PROVE  Least(S) \in S
<1> DEFINE R == OpToRel(<, Nat)
<1>1. S \subseteq Nat
  BY ConstantsAssumption DEF ConstantsAssumption, Owners
<1>2. PICK o \in S : \A x \in S : ~(<<x, o>> \in R)
  BY <1>1, NatLessThanWellFounded, WFMin
<1>3. \A x, y \in Nat : x < y => <<x, y>> \in R
  BY DEF OpToRel
<1> HIDE DEF R
<1>4. \A x \in S : o <= x
  <2> SUFFICES ASSUME NEW x \in S
               PROVE  o <= x
    OBVIOUS
  <2>1. x \in Nat /\ o \in Nat /\ ~(<<x, o>> \in R)
    BY <1>1, <1>2
  <2>2. ~(x < o)
    BY <1>3, <2>1
  <2> QED
    BY <2>1, <2>2
<1> QED
  BY <1>4 DEF Least

-----------------------------------------------------------------------------
(* Requests.                                                               *)

LEMMA IdleOK ==
    ASSUME NEW r \in Readers
    PROVE  /\ Idle \in Reader /\ ReaderShape(r, Idle) /\ ReaderLocks(r, Idle)
           /\ Idle.pc = "idle"
<1>1. ReadSet[r] # {} /\ MaxGeneration \in Nat
  BY ConstantsAssumption DEF ConstantsAssumption
<1>2. Idle \in Reader
  BY <1>1 DEF Idle, Reader, ReaderPC
<1> QED
  BY <1>1, <1>2 DEF Idle, ReaderShape, ReaderLocks

\* A request that moves on with the locks its place requires disturbs nothing else: the
\* barrier only minds that nobody enters a drained process.
LEMMA ReaderMoves ==
    ASSUME Inv, NEW r \in Readers, NEW x \in Reader, rd' = [rd EXCEPT ![r] = x],
           UNCHANGED <<generation, open, erasing, mgr, bar, pending>>,
           faults' \in 0..MaxFaults,
           ReaderShape(r, x), ReaderLocks(r, x),
           bar.pc = "commit" => \/ x.pc = "idle" \/ x.proc # bar.proc
                                \/ rd[r].pc # "idle" /\ rd[r].proc = x.proc
    PROVE  Inv'
<1>1. rd' \in [Readers -> Reader] /\ rd'[r] = x /\ \A q \in Readers : q # r => rd'[q] = rd[q]
  BY TypeParts DEF Inv
<1>2. TypeOK'
  BY <1>1, TypeParts DEF Inv, TypeOK, Reader
<1>3. ReadersOK'
  <2>1. \A q \in Readers : ReaderShape(q, rd'[q])
    BY <1>1 DEF Inv, ReadersOK
  <2>2. \A q \in Readers : ReaderLocks(q, rd[q])'
    BY <1>1 DEF Inv, ReadersOK, ReaderLocks
  <2> QED
    BY <2>1, <2>2 DEF ReadersOK
<1>4. BarrierOK'
  BY <1>1 DEF Inv, BarrierOK
<1>5. PendingOK'
  BY DEF Inv, PendingOK
<1> QED
  BY <1>2, <1>3, <1>4, <1>5 DEF Inv

LEMMA AcquireInv ==
    ASSUME Inv, NEW r \in Readers, NEW p \in Processes, Acquire(r, p)
    PROVE  Inv'
<1> DEFINE pc == IF Kind[r] = "control" THEN "guard" ELSE "reading"
           x == [Idle EXCEPT !.pc = pc, !.proc = p]
<1>1. ReadSet[r] # {} /\ ReadSet[r] \subseteq Owners /\ Kind[r] \in Kinds /\ MaxGeneration \in Nat
  BY ConstantsAssumption DEF ConstantsAssumption
<1>2. rd' = [rd EXCEPT ![r] = x] /\ ReadSet[r] \cap mgr[p].closed = {}
      /\ UNCHANGED <<generation, open, erasing, mgr, bar, pending, faults>>
  BY DEF Acquire
<1>3. pc \in {"guard", "reading"} /\ (pc = "guard" <=> Kind[r] = "control")
  OBVIOUS
<1> HIDE DEF pc
<1>4. /\ x \in Reader /\ x.pc = pc /\ x.proc = p /\ x.gates = {} /\ x.guard = {} /\ x.wgs = {}
  <2>1. /\ Idle \in Reader /\ Idle.gates = {} /\ Idle.guard = {} /\ Idle.wgs = {}
    BY IdleOK DEF Idle
  <2>2. pc \in ReaderPC
    BY <1>3 DEF ReaderPC
  <2> QED
    BY <2>1, <2>2 DEF Reader
<1> HIDE DEF x
<1>5. ReaderShape(r, x) /\ ReaderLocks(r, x)
  BY <1>1, <1>3, <1>4 DEF ReaderShape, ReaderLocks, Kinds
<1>6. bar.pc = "commit" => x.proc # bar.proc
  BY <1>1, <1>2, <1>4 DEF Inv, BarrierOK
<1>7. faults' \in 0..MaxFaults
  BY <1>2 DEF Inv, TypeOK
<1> QED
  BY <1>2, <1>4, <1>5, <1>6, <1>7, ReaderMoves

\* A request that ends gives everything up.
LEMMA ReaderEnds ==
    ASSUME Inv, NEW r \in Readers, rd' = [rd EXCEPT ![r] = Idle],
           UNCHANGED <<generation, open, erasing, mgr, bar, pending, faults>>
    PROVE  Inv'
<1>1. faults' \in 0..MaxFaults
  BY DEF Inv, TypeOK
<1> QED
  BY <1>1, IdleOK, ReaderMoves

\* The steps of a request.
LEMMA ReaderInv ==
    ASSUME Inv, NEW r \in Readers, ReaderStep(r) \/ ClientCancel(r)
    PROVE  Inv'
<1> DEFINE old == rd[r]
<1>1. /\ ReadSet[r] # {} /\ ReadSet[r] \subseteq Owners /\ Kind[r] \in Kinds
      /\ MaxGeneration \in Nat /\ MaxFaults \in Nat
  BY ConstantsAssumption DEF ConstantsAssumption
<1>2. /\ rd \in [Readers -> Reader] /\ old \in Reader /\ ReaderShape(r, old)
      /\ ReaderLocks(r, old) /\ generation \in 1..MaxGeneration /\ faults \in 0..MaxFaults
  BY TypeParts DEF Inv, ReadersOK
<1>3. ASSUME NEW x \in Reader, rd' = [rd EXCEPT ![r] = x],
             UNCHANGED <<generation, open, erasing, mgr, bar, pending, faults>>,
             ReaderShape(r, x), ReaderLocks(r, x), old.pc # "idle", x.proc = old.proc
      PROVE  Inv'
  BY <1>2, <1>3, ReaderMoves
<1>4. CASE ReadContent(r)
  <2> DEFINE x == [old EXCEPT !.pc = "gates", !.seen = generation]
  <2>1. /\ rd' = [rd EXCEPT ![r] = x] /\ old.pc = "reading"
        /\ UNCHANGED <<generation, open, erasing, mgr, bar, pending, faults>>
    BY <1>2, <1>4 DEF ReadContent
  <2>2. /\ x \in Reader /\ x.pc = "gates" /\ x.seen = generation
        /\ x.proc = old.proc /\ x.guard = old.guard /\ x.gates = old.gates /\ x.wgs = old.wgs
    <3>1. generation \in 0..MaxGeneration /\ "gates" \in ReaderPC
      BY <1>1, <1>2 DEF ReaderPC
    <3> QED
      BY <1>2, <3>1 DEF Reader
  <2> HIDE DEF x
  <2>3. ReaderShape(r, x) /\ ReaderLocks(r, x)
    BY <1>1, <1>2, <2>1, <2>2 DEF ReaderShape, ReaderLocks
  <2> QED
    BY <1>3, <2>1, <2>2, <2>3
<1>5. CASE LockReadGate(r)
  <2> DEFINE o == Least(ReadSet[r] \ old.gates)
             gates == old.gates \cup {o}
             pc == IF ReadSet[r] = gates THEN "writegates" ELSE old.pc
             x == [old EXCEPT !.gates = gates, !.pc = pc]
  <2>1. /\ rd' = [rd EXCEPT ![r] = x] /\ old.pc = "gates" /\ SharedGranted(o) /\ o \in open
        /\ UNCHANGED <<generation, open, erasing, mgr, bar, pending, faults>>
    BY <1>2, <1>5 DEF LockReadGate
  <2>2. o \in ReadSet[r]
    BY <1>1, <1>2, <2>1, LeastIsMember DEF ReaderShape
  <2> HIDE DEF o
  <2>3. /\ gates \subseteq ReadSet[r] /\ gates \subseteq open \ bar.held
        /\ pc \in {"gates", "writegates"} /\ (pc = "writegates" <=> gates = ReadSet[r])
    BY <1>2, <2>1, <2>2 DEF ReaderShape, ReaderLocks, SharedGranted
  <2> HIDE DEF gates, pc
  <2>4. /\ x \in Reader /\ x.pc = pc /\ x.gates = gates /\ x.seen = old.seen
        /\ x.proc = old.proc /\ x.guard = old.guard /\ x.wgs = old.wgs
    BY <1>1, <1>2, <2>3 DEF Reader, ReaderPC
  <2> HIDE DEF x
  <2>5. ReaderShape(r, x) /\ ReaderLocks(r, x)
    BY <1>1, <1>2, <2>1, <2>3, <2>4 DEF ReaderShape, ReaderLocks
  <2> QED
    BY <1>3, <2>1, <2>4, <2>5
<1>6. CASE LockWriteGate(r)
  <2> DEFINE o == Least(ReadSet[r] \ old.wgs)
             wgs == old.wgs \cup {o}
             pc == IF ReadSet[r] = wgs THEN "check" ELSE old.pc
             x == [old EXCEPT !.wgs = wgs, !.pc = pc]
  <2>1. /\ rd' = [rd EXCEPT ![r] = x] /\ old.pc = "writegates"
        /\ UNCHANGED <<generation, open, erasing, mgr, bar, pending, faults>>
    BY <1>2, <1>6 DEF LockWriteGate
  <2>2. o \in ReadSet[r]
    BY <1>1, <1>2, <2>1, LeastIsMember DEF ReaderShape
  <2> HIDE DEF o
  <2>3. /\ wgs \subseteq ReadSet[r]
        /\ pc \in {"check", "writegates"} /\ (pc = "check" <=> wgs = ReadSet[r])
    BY <1>2, <2>1, <2>2 DEF ReaderShape
  <2> HIDE DEF wgs, pc
  <2>4. /\ x \in Reader /\ x.pc = pc /\ x.wgs = wgs /\ x.seen = old.seen
        /\ x.proc = old.proc /\ x.guard = old.guard /\ x.gates = old.gates
    BY <1>1, <1>2, <2>3 DEF Reader, ReaderPC
  <2> HIDE DEF x
  <2>5. ReaderShape(r, x) /\ ReaderLocks(r, x)
    BY <1>1, <1>2, <2>1, <2>3, <2>4 DEF ReaderShape, ReaderLocks
  <2> QED
    BY <1>3, <2>1, <2>4, <2>5
<1>7. CASE Revalidate(r)
  <2> DEFINE pc == IF Kind[r] = "output" THEN "guard" ELSE "writing"
             x == [old EXCEPT !.pc = pc]
  <2>1. /\ rd' = [rd EXCEPT ![r] = x] /\ old.pc = "check"
        /\ UNCHANGED <<generation, open, erasing, mgr, bar, pending, faults>>
    BY <1>2, <1>7 DEF Revalidate
  <2>2. pc \in {"guard", "writing"} /\ (pc = "guard" <=> Kind[r] = "output")
    OBVIOUS
  <2> HIDE DEF pc
  <2>3. /\ x \in Reader /\ x.pc = pc /\ x.wgs = old.wgs /\ x.seen = old.seen
        /\ x.proc = old.proc /\ x.guard = old.guard /\ x.gates = old.gates
    BY <1>1, <1>2, <2>2 DEF Reader, ReaderPC
  <2> HIDE DEF x
  <2>4. ReaderShape(r, x) /\ ReaderLocks(r, x)
    BY <1>1, <1>2, <2>1, <2>2, <2>3 DEF ReaderShape, ReaderLocks
  <2> QED
    BY <1>3, <2>1, <2>3, <2>4
<1>8. CASE LockGuard(r)
  <2> DEFINE o == Least(ReadSet[r] \ old.guard)
             guard == old.guard \cup {o}
             last == ReadSet[r] = guard
             seen == IF last THEN generation ELSE old.seen
             pc == IF ~last THEN old.pc ELSE IF Kind[r] = "output" THEN "writing" ELSE "gates"
             x == [old EXCEPT !.guard = guard, !.seen = seen, !.pc = pc]
  <2>1. /\ rd' = [rd EXCEPT ![r] = x] /\ old.pc = "guard" /\ SharedGranted(o) /\ o \in open
        /\ UNCHANGED <<generation, open, erasing, mgr, bar, pending, faults>>
    BY <1>2, <1>8 DEF LockGuard
  <2>2. o \in ReadSet[r]
    BY <1>1, <1>2, <2>1, LeastIsMember DEF ReaderShape
  <2> HIDE DEF o
  <2>3. /\ guard \subseteq ReadSet[r] /\ guard \subseteq open \ bar.held
        /\ pc \in {"guard", "writing", "gates"}
        /\ (pc = "guard" <=> guard # ReadSet[r]) /\ (pc = "writing" => Kind[r] = "output")
        /\ (pc = "gates" => Kind[r] # "output")
        /\ seen \in 0..MaxGeneration /\ (guard = ReadSet[r] => seen = generation)
    BY <1>1, <1>2, <2>1, <2>2 DEF ReaderShape, ReaderLocks, SharedGranted, Reader
  <2> HIDE DEF guard, last, seen, pc
  <2>4. /\ x \in Reader /\ x.pc = pc /\ x.wgs = old.wgs /\ x.seen = seen
        /\ x.proc = old.proc /\ x.guard = guard /\ x.gates = old.gates
    BY <1>1, <1>2, <2>3 DEF Reader, ReaderPC
  <2> HIDE DEF x
  <2>5. ReaderShape(r, x) /\ ReaderLocks(r, x)
    BY <1>1, <1>2, <2>1, <2>3, <2>4 DEF ReaderShape, ReaderLocks, Kinds
  <2> QED
    BY <1>3, <2>1, <2>4, <2>5
<1>9. CASE FinishWrite(r)
  <2> DEFINE x == [old EXCEPT !.pc = "gates", !.gates = {}, !.guard = {}, !.wgs = {}]
  <2>1. /\ old.pc = "writing"
        /\ UNCHANGED <<generation, open, erasing, mgr, bar, pending, faults>>
        /\ \/ rd' = [rd EXCEPT ![r] = Idle]
           \/ Kind[r] = "output" /\ rd' = [rd EXCEPT ![r] = x]
    BY <1>2, <1>9 DEF FinishWrite
  <2>2. /\ x \in Reader /\ x.pc = "gates" /\ x.wgs = {} /\ x.proc = old.proc
        /\ x.guard = {} /\ x.gates = {}
    BY <1>2 DEF Reader, ReaderPC
  <2> HIDE DEF x
  <2>3. Kind[r] = "output" => ReaderShape(r, x) /\ ReaderLocks(r, x)
    BY <1>1, <1>2, <2>1, <2>2 DEF ReaderShape, ReaderLocks
  <2> QED
    BY <1>3, <2>1, <2>2, <2>3, ReaderEnds
<1>10. CASE Refused(r) \/ GuardDeadline(r)
  BY <1>10, ReaderEnds DEF Refused, GuardDeadline, Fail
<1>11. CASE ClientCancel(r)
  <2> DEFINE x == [old EXCEPT !.cancelled = TRUE]
  <2>1. /\ rd' = [rd EXCEPT ![r] = x] /\ old.pc # "idle"
        /\ UNCHANGED <<generation, open, erasing, mgr, bar, pending>>
    BY <1>2, <1>11 DEF ClientCancel
  <2>2. faults' \in 0..MaxFaults
    BY <1>1, <1>2, <1>11 DEF ClientCancel, Fault
  <2>3. /\ x \in Reader /\ x.pc = old.pc /\ x.wgs = old.wgs /\ x.seen = old.seen
        /\ x.proc = old.proc /\ x.guard = old.guard /\ x.gates = old.gates
    BY <1>2 DEF Reader
  <2> HIDE DEF x
  <2>4. ReaderShape(r, x) /\ ReaderLocks(r, x)
    BY <1>1, <1>2, <2>1, <2>3 DEF ReaderShape, ReaderLocks
  <2> QED
    BY <1>2, <2>1, <2>2, <2>3, <2>4, ReaderMoves
<1> QED
  BY <1>4, <1>5, <1>6, <1>7, <1>8, <1>9, <1>10, <1>11 DEF ReaderStep

-----------------------------------------------------------------------------
(* The barrier.                                                            *)

\* A step of the barrier that releases no request and takes no owner.
LEMMA BarrierMoves ==
    ASSUME Inv, NEW b \in Barrier, bar' = b, b.held \subseteq bar.held,
           UNCHANGED <<generation, open, erasing, mgr, rd, pending>>, faults' \in 0..MaxFaults,
           BarrierOK'
    PROVE  Inv'
<1>1. TypeOK'
  BY TypeParts DEF Inv, TypeOK, Barrier
<1>2. ReadersOK'
  BY DEF Inv, ReadersOK, ReaderShape, ReaderLocks
<1> QED
  BY <1>1, <1>2 DEF Inv, PendingOK

LEMMA NoBarrierType ==
    NoBarrier \in Barrier /\ NoBarrier.pc = "idle" /\ NoBarrier.held = {}
BY ConstantsAssumption DEF ConstantsAssumption, NoBarrier, Barrier

LEMMA OwnersNonEmpty ==
    Owners # {} /\ MaxGeneration \in Nat /\ MaxFaults \in Nat
<1>1. 1 \in Owners
  BY ConstantsAssumption DEF ConstantsAssumption, Owners
<1> QED
  BY <1>1, ConstantsAssumption DEF ConstantsAssumption

LEMMA BarrierBeginInv ==
    ASSUME Inv, NEW p \in Processes, BarrierBegin(p)
    PROVE  Inv'
<1> DEFINE target == IF erasing \/ open # Owners THEN 0 ELSE generation + 1
           b == [NoBarrier EXCEPT !.pc = "lock", !.proc = p, !.target = target]
<1>1. /\ bar' = b /\ UNCHANGED <<generation, open, erasing, mgr, rd, pending, faults>>
      /\ generation < MaxGeneration /\ generation \in 1..MaxGeneration
      /\ faults' \in 0..MaxFaults
  BY DEF BarrierBegin, Inv, TypeOK
<1>2. target \in 0..MaxGeneration /\ target \in {0, generation + 1}
  BY <1>1, OwnersNonEmpty
<1> HIDE DEF target
<1>3. /\ b \in Barrier /\ b.pc = "lock" /\ b.proc = p /\ b.target = target
      /\ b.held = {} /\ b.wgs = {}
  BY <1>2 DEF NoBarrier, Barrier
<1> HIDE DEF b
<1>4. BarrierOK'
  BY <1>1, <1>2, <1>3, OwnersNonEmpty DEF BarrierOK
<1> QED
  BY <1>1, <1>3, <1>4, BarrierMoves

LEMMA BarrierLockInv ==
    ASSUME Inv, BarrierLock
    PROVE  Inv'
<1> DEFINE o == Least(Owners \ bar.held)
           held == bar.held \cup {o}
           pc == IF Owners = held THEN "wgates" ELSE bar.pc
           b == [bar EXCEPT !.held = held, !.pc = pc]
<1>1. /\ bar.pc = "lock" /\ ExclusiveGranted(o)
      /\ bar' = IF Owners = held /\ bar.target = 0 THEN NoBarrier ELSE b
      /\ UNCHANGED <<generation, open, erasing, mgr, rd, pending, faults>>
  BY DEF BarrierLock
<1>2. /\ bar \in Barrier /\ BarrierOK /\ faults' \in 0..MaxFaults /\ generation \in Nat
  BY <1>1, TypeParts, OwnersNonEmpty DEF Inv
<1>3. o \in Owners
  <2>1. Owners \ bar.held # {} /\ Owners \ bar.held \subseteq Owners
    BY <1>1, <1>2 DEF BarrierOK, Barrier
  <2> QED
    BY <2>1, LeastIsMember
<1> HIDE DEF o
<1>4. CASE Owners = held /\ bar.target = 0
  <2>1. bar' = NoBarrier
    BY <1>1, <1>4
  <2>2. BarrierOK'
    BY <2>1, NoBarrierType DEF BarrierOK
  <2> QED
    BY <1>1, <1>2, <2>1, <2>2, NoBarrierType, BarrierMoves
<1>5. CASE ~(Owners = held /\ bar.target = 0)
  <2>1. bar' = b
    BY <1>1, <1>5
  <2>2. /\ held \in SUBSET Owners /\ pc \in {"lock", "wgates"}
        /\ (pc = "wgates" <=> held = Owners)
    BY <1>1, <1>2, <1>3 DEF Barrier
  <2>3. pc = "wgates" => bar.target = generation + 1
    BY <1>1, <1>2, <1>5 DEF BarrierOK
  <2>4. \A r \in Readers : rd[r].gates \cup rd[r].guard \subseteq open \ held
    BY <1>1 DEF Inv, ReadersOK, ReaderLocks, ExclusiveGranted
  <2> HIDE DEF held, pc
  <2>5. /\ b \in Barrier /\ b.pc = pc /\ b.proc = bar.proc /\ b.held = held
        /\ b.wgs = bar.wgs /\ b.target = bar.target
    BY <1>2, <2>2 DEF Barrier
  <2> HIDE DEF b
  <2>6. BarrierOK'
    BY <1>1, <1>2, <2>1, <2>2, <2>3, <2>5, OwnersNonEmpty DEF BarrierOK
  <2>7. TypeOK'
    BY <1>1, <2>1, <2>5, TypeParts DEF Inv, TypeOK, Barrier
  <2>8. ReadersOK'
    BY <1>1, <2>1, <2>4, <2>5 DEF Inv, ReadersOK, ReaderShape, ReaderLocks
  <2> QED
    BY <1>1, <2>6, <2>7, <2>8 DEF Inv, PendingOK
<1> QED
  BY <1>4, <1>5

LEMMA BarrierCloseInv ==
    ASSUME Inv, BarrierClose
    PROVE  Inv'
<1> DEFINE o == Least(Owners \ bar.wgs)
           wgs == bar.wgs \cup {o}
           p == bar.proc
           m == [closed |-> Owners, gen |-> [w \in Owners |-> bar.target]]
<1>1. /\ bar.pc = "wgates" /\ bar \in Barrier /\ BarrierOK /\ p \in Processes
      /\ generation \in 1..MaxGeneration /\ faults \in 0..MaxFaults
      /\ mgr \in [Processes -> Manager] /\ rd \in [Readers -> Reader]
  BY TypeParts DEF Inv, BarrierClose, BarrierOK
<1>2. UNCHANGED <<generation, open, erasing, pending, faults>>
  BY DEF BarrierClose
<1>3. o \in Owners
  <2>1. Owners \ bar.wgs # {} /\ Owners \ bar.wgs \subseteq Owners
    BY <1>1 DEF BarrierOK, Barrier
  <2> QED
    BY <2>1, LeastIsMember
<1>4. CASE Owners # wgs
  <2> DEFINE b == [bar EXCEPT !.wgs = wgs]
  <2>1. bar' = b /\ UNCHANGED <<mgr, rd>>
    BY <1>4 DEF BarrierClose
  <2>2. wgs \in SUBSET Owners
    BY <1>1, <1>3 DEF Barrier
  <2> HIDE DEF wgs
  <2>3. /\ b \in Barrier /\ b.pc = "wgates" /\ b.proc = bar.proc /\ b.held = bar.held
        /\ b.wgs = wgs /\ b.target = bar.target
    BY <1>1, <2>2 DEF Barrier
  <2> HIDE DEF b
  <2>4. BarrierOK'
    BY <1>1, <1>2, <1>4, <2>1, <2>3 DEF BarrierOK
  <2> QED
    BY <1>1, <1>2, <2>1, <2>3, <2>4, BarrierMoves
<1>5. CASE Owners = wgs
  <2> DEFINE b == [bar EXCEPT !.wgs = {}, !.pc = "drain"]
             c(r) == [rd[r] EXCEPT !.cancelled = TRUE]
  <2>1. /\ bar' = b /\ mgr' = [mgr EXCEPT ![p] = m]
        /\ rd' = [r \in Readers |-> IF r \in Active(p) THEN c(r) ELSE rd[r]]
    BY <1>5 DEF BarrierClose
  <2>2. /\ b \in Barrier /\ b.pc = "drain" /\ b.proc = p /\ b.held = bar.held
        /\ b.wgs = {} /\ b.target = bar.target
    BY <1>1 DEF Barrier
  <2>3. /\ m \in Manager /\ m.closed = Owners /\ \A w \in Owners : m.gen[w] = bar.target
    <3>1. bar.target \in 1..MaxGeneration
      BY <1>1 DEF BarrierOK, Barrier
    <3> QED
      BY <3>1 DEF Manager
  <2>4. ASSUME NEW r \in Readers
        PROVE  /\ c(r) \in Reader /\ c(r).pc = rd[r].pc /\ c(r).proc = rd[r].proc
               /\ c(r).seen = rd[r].seen /\ c(r).guard = rd[r].guard
               /\ c(r).gates = rd[r].gates /\ c(r).wgs = rd[r].wgs
    BY <1>1 DEF Reader
  <2> HIDE DEF b, c, m
  <2>5. /\ rd' \in [Readers -> Reader] /\ mgr' \in [Processes -> Manager] /\ mgr'[p] = m
    BY <1>1, <2>1, <2>3, <2>4
  <2>6. \A r \in Readers :
          /\ rd'[r].pc = rd[r].pc /\ rd'[r].proc = rd[r].proc
          /\ rd'[r].seen = rd[r].seen /\ rd'[r].guard = rd[r].guard
          /\ rd'[r].gates = rd[r].gates /\ rd'[r].wgs = rd[r].wgs
          /\ rd[r].pc = "idle" => rd'[r] = rd[r]
    BY <2>1, <2>4 DEF Active
  <2>7. BarrierOK'
    BY <1>1, <1>2, <2>1, <2>2, <2>3, <2>5 DEF BarrierOK
  <2>8. TypeOK'
    BY <1>2, <2>1, <2>2, <2>5, TypeParts DEF Inv, TypeOK, Barrier, Reader, Manager
  <2>9. ReadersOK'
    BY <1>2, <2>1, <2>2, <2>6 DEF Inv, ReadersOK, ReaderShape, ReaderLocks
  <2> QED
    BY <1>2, <2>7, <2>8, <2>9 DEF Inv, PendingOK
<1> QED
  BY <1>4, <1>5

LEMMA BarrierDrainedInv ==
    ASSUME Inv, BarrierDrained
    PROVE  Inv'
<1> DEFINE b == [bar EXCEPT !.pc = "commit"]
<1>1. /\ bar' = b /\ bar.pc = "drain" /\ Active(bar.proc) = {}
      /\ UNCHANGED <<generation, open, erasing, mgr, rd, pending, faults>>
      /\ bar \in Barrier /\ BarrierOK /\ faults' \in 0..MaxFaults
  BY TypeParts DEF BarrierDrained, Inv
<1>2. /\ b \in Barrier /\ b.pc = "commit" /\ b.proc = bar.proc /\ b.held = bar.held
      /\ b.wgs = bar.wgs /\ b.target = bar.target
  BY <1>1 DEF Barrier
<1> HIDE DEF b
<1>3. BarrierOK'
  BY <1>1, <1>2 DEF BarrierOK, Active
<1> QED
  BY <1>1, <1>2, <1>3, BarrierMoves

\* While the barrier holds every owner no request holds any.
LEMMA NobodyHolds ==
    ASSUME Inv, bar.held = Owners, NEW r \in Readers
    PROVE  rd[r].gates = {} /\ rd[r].guard = {}
BY TypeParts DEF Inv, ReadersOK, ReaderLocks, Reader

LEMMA BarrierCommitInv ==
    ASSUME Inv, NEW lost \in BOOLEAN, BarrierCommit(lost)
    PROVE  Inv'
<1> DEFINE b == [bar EXCEPT !.pc = "abort", !.held = {}]
<1>1. /\ bar.pc = "commit" /\ bar \in Barrier /\ BarrierOK /\ generation' = bar.target
      /\ open' = {} /\ erasing' = TRUE /\ bar' = (IF lost THEN b ELSE NoBarrier)
      /\ UNCHANGED <<mgr, rd, pending>>
      /\ generation \in 1..MaxGeneration /\ faults \in 0..MaxFaults
  BY TypeParts DEF Inv, BarrierCommit
<1>2. faults' \in 0..MaxFaults
  BY <1>1, OwnersNonEmpty DEF BarrierCommit, Fault
<1>3. bar.target = generation + 1 /\ bar.target \in 1..MaxGeneration /\ bar.held = Owners
      /\ bar.wgs = {} /\ bar.proc \in Processes
  BY <1>1 DEF BarrierOK, Barrier
<1>4. /\ b \in Barrier /\ b.pc = "abort" /\ b.proc = bar.proc /\ b.held = {}
      /\ b.wgs = bar.wgs /\ b.target = bar.target
  BY <1>1 DEF Barrier
<1> HIDE DEF b
<1>5. bar' \in Barrier /\ bar'.held = {}
  BY <1>1, <1>4, NoBarrierType
<1>6. BarrierOK'
  <2>1. CASE lost
    BY <1>1, <1>3, <1>4, <2>1, OwnersNonEmpty DEF BarrierOK
  <2>2. CASE ~lost
    BY <1>1, <2>2, NoBarrierType DEF BarrierOK
  <2> QED
    BY <2>1, <2>2
<1>7. TypeOK'
  BY <1>1, <1>2, <1>3, <1>5, TypeParts DEF Inv, TypeOK, Barrier
<1>8. ReadersOK'
  <2>1. \A r \in Readers : rd[r].gates = {} /\ rd[r].guard = {} /\ ReadSet[r] # {}
    BY <1>3, NobodyHolds, ConstantsAssumption DEF ConstantsAssumption
  <2> QED
    BY <1>1, <2>1 DEF Inv, ReadersOK, ReaderShape, ReaderLocks
<1>9. PendingOK'
  <2>1. \A c \in pending : c.gen \in Nat /\ c.gen <= generation
    BY TypeParts DEF Inv, PendingOK
  <2> QED
    BY <1>1, <1>3, <2>1 DEF PendingOK
<1> QED
  BY <1>6, <1>7, <1>8, <1>9 DEF Inv

LEMMA BarrierFailInv ==
    ASSUME Inv, BarrierFail
    PROVE  Inv'
<1> DEFINE b == [bar EXCEPT !.pc = "abort", !.held = {}, !.wgs = {}]
<1>1. /\ bar \in Barrier /\ BarrierOK /\ bar.pc \in {"lock", "wgates", "drain", "commit"}
      /\ bar' = IF bar.pc = "lock" THEN NoBarrier ELSE b
      /\ UNCHANGED <<generation, open, erasing, mgr, rd, pending>>
      /\ generation \in 1..MaxGeneration /\ faults \in 0..MaxFaults
  BY TypeParts DEF Inv, BarrierFail
<1>2. faults' \in 0..MaxFaults
  BY <1>1, OwnersNonEmpty DEF BarrierFail, Fault
<1>3. /\ b \in Barrier /\ b.pc = "abort" /\ b.proc = bar.proc /\ b.held = {}
      /\ b.wgs = {} /\ b.target = bar.target
  BY <1>1 DEF Barrier
<1> HIDE DEF b
<1>4. CASE bar.pc = "lock"
  <2>1. BarrierOK'
    BY <1>1, <1>4, NoBarrierType DEF BarrierOK
  <2> QED
    BY <1>1, <1>2, <1>4, <2>1, NoBarrierType, BarrierMoves
<1>5. CASE bar.pc # "lock"
  <2>1. bar.target = generation + 1 /\ bar.proc \in Processes
    BY <1>1, <1>5 DEF BarrierOK
  <2>2. BarrierOK'
    BY <1>1, <1>3, <1>5, <2>1, OwnersNonEmpty DEF BarrierOK
  <2> QED
    BY <1>1, <1>2, <1>3, <1>5, <2>2, BarrierMoves
<1> QED
  BY <1>4, <1>5

\* Changes of managers concern only the barrier that has closed one.
LEMMA ManagerMoves ==
    ASSUME Inv, mgr' \in [Processes -> Manager], bar' \in Barrier, bar'.held \subseteq bar.held,
           pending' \subseteq pending, UNCHANGED <<generation, open, erasing, rd, faults>>,
           BarrierOK'
    PROVE  Inv'
<1>1. TypeOK'
  BY TypeParts DEF Inv, TypeOK, Barrier, Manager
<1>2. ReadersOK'
  BY DEF Inv, ReadersOK, ReaderShape, ReaderLocks
<1> QED
  BY <1>1, <1>2 DEF Inv, PendingOK

LEMMA AbortCloseInv ==
    ASSUME Inv, AbortClose
    PROVE  Inv'
<1> DEFINE o == Least(Owners \ bar.wgs)
           wgs == bar.wgs \cup {o}
           p == bar.proc
           old == mgr[p]
           mine == {w \in old.closed : old.gen[w] = bar.target}
           m == [closed |-> old.closed \ mine,
                 gen |-> [w \in Owners |-> IF w \in mine THEN bar.target - 1 ELSE old.gen[w]]]
<1>1. /\ bar.pc = "abort" /\ bar \in Barrier /\ BarrierOK /\ p \in Processes
      /\ generation \in 1..MaxGeneration /\ mgr \in [Processes -> Manager]
      /\ UNCHANGED <<generation, open, erasing, rd, pending, faults>>
  BY TypeParts DEF Inv, AbortClose, BarrierOK
<1>2. o \in Owners
  <2>1. Owners \ bar.wgs # {} /\ Owners \ bar.wgs \subseteq Owners
    BY <1>1 DEF BarrierOK, Barrier
  <2> QED
    BY <2>1, LeastIsMember
<1>3. CASE Owners # wgs
  <2> DEFINE b == [bar EXCEPT !.wgs = wgs]
  <2>1. bar' = b /\ mgr' = mgr
    BY <1>3 DEF AbortClose
  <2>2. wgs \in SUBSET Owners
    BY <1>1, <1>2 DEF Barrier
  <2> HIDE DEF wgs
  <2>3. /\ b \in Barrier /\ b.pc = "abort" /\ b.proc = bar.proc /\ b.held = bar.held
        /\ b.wgs = wgs /\ b.target = bar.target
    BY <1>1, <2>2 DEF Barrier
  <2> HIDE DEF b
  <2>4. BarrierOK'
    BY <1>1, <1>3, <2>1, <2>3 DEF BarrierOK
  <2> QED
    BY <1>1, <2>1, <2>3, <2>4, ManagerMoves
<1>4. CASE Owners = wgs
  <2>1. bar' = NoBarrier /\ mgr' = [mgr EXCEPT ![p] = m]
    BY <1>4 DEF AbortClose
  <2>2. m \in Manager
    <3>1. old \in Manager /\ bar.target - 1 \in 1..MaxGeneration
      BY <1>1, OwnersNonEmpty DEF BarrierOK, Barrier
    <3> HIDE DEF old
    <3>2. old.closed \in SUBSET Owners /\ old.gen \in [Owners -> 1..MaxGeneration]
      BY <3>1 DEF Manager
    <3>3. [w \in Owners |-> IF w \in mine THEN bar.target - 1 ELSE old.gen[w]]
            \in [Owners -> 1..MaxGeneration]
      <4> HIDE DEF mine
      <4> QED
        BY <3>1, <3>2
    <3> QED
      BY <3>2, <3>3 DEF Manager
  <2> HIDE DEF m
  <2>3. mgr' \in [Processes -> Manager]
    BY <1>1, <2>1, <2>2
  <2>4. BarrierOK'
    BY <2>1, NoBarrierType DEF BarrierOK
  <2> QED
    BY <1>1, <2>1, <2>3, <2>4, NoBarrierType, ManagerMoves
<1> QED
  BY <1>3, <1>4

-----------------------------------------------------------------------------
(* The erasure and crashes.                                                *)

\* Opening an owner or ending the erasure touches no request and no barrier.
LEMMA GatesOpen ==
    ASSUME Inv, open \subseteq open', open' \subseteq Owners, erasing' \in BOOLEAN,
           pending' \subseteq [proc : Processes, owner : Owners, gen : 1..MaxGeneration],
           \A c \in pending' : c.gen <= generation, faults' \in 0..MaxFaults,
           UNCHANGED <<generation, mgr, rd, bar>>
    PROVE  Inv'
<1>1. TypeOK'
  BY DEF Inv, TypeOK
<1>2. ReadersOK'
  BY DEF Inv, ReadersOK, ReaderShape, ReaderLocks
<1>3. BarrierOK'
  BY DEF Inv, BarrierOK
<1> QED
  BY <1>1, <1>2, <1>3 DEF Inv, PendingOK

LEMMA ReopenInv ==
    ASSUME Inv, NEW p \in Processes, NEW o \in Owners, NEW lost \in BOOLEAN, Reopen(p, o, lost)
    PROVE  Inv'
<1> DEFINE c == [proc |-> p, owner |-> o, gen |-> generation]
<1>1. /\ open' = open \cup {o} /\ UNCHANGED <<generation, erasing, mgr, rd, bar>>
      /\ pending' \subseteq pending \cup {c}
      /\ TypeOK /\ PendingOK /\ generation \in 1..MaxGeneration
  BY DEF Reopen, Inv, TypeOK
<1>2. c \in [proc : Processes, owner : Owners, gen : 1..MaxGeneration] /\ c.gen <= generation
  BY <1>1, OwnersNonEmpty
<1> HIDE DEF c
<1>3. faults' \in 0..MaxFaults
  BY <1>1, OwnersNonEmpty DEF TypeOK, Reopen, Fault
<1>4. pending' \subseteq [proc : Processes, owner : Owners, gen : 1..MaxGeneration]
      /\ \A d \in pending' : d.gen <= generation
  BY <1>1, <1>2 DEF TypeOK, PendingOK
<1>5. open \subseteq open' /\ open' \subseteq Owners /\ erasing' \in BOOLEAN
  BY <1>1 DEF TypeOK
<1> QED
  BY <1>1, <1>3, <1>4, <1>5, GatesOpen

LEMMA VerifiedInv ==
    ASSUME Inv, Verified
    PROVE  Inv'
<1>1. /\ open' = open /\ erasing' = FALSE /\ UNCHANGED <<generation, mgr, rd, bar, pending, faults>>
  BY DEF Verified
<1> QED
  BY <1>1, GatesOpen DEF Inv, TypeOK, PendingOK

\* ReadPermitManager.Open: a call of an earlier erasure finds a later generation at a
\* manager that a barrier has closed, and leaves it closed.
LEMMA OpenPermitsInv ==
    ASSUME Inv, NEW c \in pending, OpenPermits(c)
    PROVE  Inv'
<1> DEFINE p == c.proc
           o == c.owner
           old == mgr[p]
           gen == [old.gen EXCEPT ![o] = c.gen]
           m == [closed |-> old.closed \ {o}, gen |-> gen]
<1>1. /\ p \in Processes /\ o \in Owners /\ c.gen \in 1..MaxGeneration /\ c.gen <= generation
      /\ mgr \in [Processes -> Manager] /\ old \in Manager /\ bar \in Barrier /\ BarrierOK
      /\ generation \in 1..MaxGeneration
      /\ UNCHANGED <<generation, open, erasing, rd, bar, faults>> /\ pending' \subseteq pending
  BY TypeParts DEF Inv, OpenPermits, PendingOK
<1>2. CASE ~(c.gen >= mgr[c.proc].gen[c.owner])
  <2>1. mgr' = mgr
    BY <1>2 DEF OpenPermits
  <2>2. BarrierOK'
    BY <1>1, <2>1 DEF BarrierOK
  <2> QED
    BY <1>1, <2>1, <2>2, ManagerMoves
<1>3. CASE c.gen >= mgr[c.proc].gen[c.owner]
  <2>1. mgr' = [mgr EXCEPT ![p] = m]
    <3>1. mgr' = [mgr EXCEPT ![p].gen[o] = c.gen, ![p].closed = @ \ {o}]
      BY <1>3 DEF OpenPermits
    <3>2. [[old EXCEPT !.gen[o] = c.gen] EXCEPT !.closed = old.closed \ {o}] = m
      <4>1. [old EXCEPT !.gen[o] = c.gen] = [old EXCEPT !.gen = gen]
        BY <1>1 DEF Manager
      <4> HIDE DEF gen
      <4>2. [old EXCEPT !.gen = gen] = [closed |-> old.closed, gen |-> gen]
        BY <1>1 DEF Manager
      <4> DEFINE e == [old EXCEPT !.gen[o] = c.gen]
                 closed == old.closed \ {o}
      <4>3. e = [closed |-> old.closed, gen |-> gen]
        BY <4>1, <4>2
      <4> HIDE DEF e, closed
      <4>4. [e EXCEPT !.closed = closed] = [closed |-> closed, gen |-> gen]
        BY <4>3
      <4> QED
        BY <4>4 DEF e, closed
    <3> QED
      BY <1>1, <3>1, <3>2 DEF Manager
  <2>2. m \in Manager
    BY <1>1 DEF Manager
  <2> HIDE DEF m
  <2>3. mgr' \in [Processes -> Manager] /\ \A q \in Processes : q # p => mgr'[q] = mgr[q]
    BY <1>1, <2>1, <2>2
  <2>4. bar.pc \in {"drain", "commit"} => p # bar.proc
    <3> SUFFICES ASSUME bar.pc \in {"drain", "commit"}, p = bar.proc
                 PROVE  FALSE
      OBVIOUS
    <3>1. old.gen[o] = generation + 1
      BY <1>1 DEF BarrierOK
    <3> QED
      BY <1>1, <1>3, <3>1
  <2>5. BarrierOK'
    BY <1>1, <2>3, <2>4 DEF BarrierOK
  <2> QED
    BY <1>1, <2>3, <2>5, ManagerMoves
<1> QED
  BY <1>2, <1>3

LEMMA FreshManagerType ==
    FreshManager \in Manager
<1>1. 1 \in 1..MaxGeneration
  BY ConstantsAssumption DEF ConstantsAssumption
<1> QED
  BY <1>1 DEF FreshManager, Manager

LEMMA CrashInv ==
    ASSUME Inv, NEW p \in Processes, Crash(p)
    PROVE  Inv'
<1>1. /\ mgr' = [mgr EXCEPT ![p] = FreshManager]
      /\ rd' = [r \in Readers |-> IF r \in Active(p) THEN Idle ELSE rd[r]]
      /\ bar' = IF bar.proc = p THEN NoBarrier ELSE bar
      /\ pending' \subseteq pending /\ UNCHANGED <<generation, open, erasing>>
      /\ mgr \in [Processes -> Manager] /\ rd \in [Readers -> Reader] /\ bar \in Barrier
      /\ BarrierOK /\ generation \in 1..MaxGeneration
  BY TypeParts DEF Inv, Crash
<1>2. faults' \in 0..MaxFaults
  BY OwnersNonEmpty DEF Inv, TypeOK, Crash, Fault
<1>3. /\ mgr' \in [Processes -> Manager] /\ rd' \in [Readers -> Reader] /\ bar' \in Barrier
      /\ bar'.held \subseteq bar.held
      /\ \A q \in Processes : q # p => mgr'[q] = mgr[q]
      /\ \A r \in Readers : rd'[r] \in {Idle, rd[r]}
  BY <1>1, FreshManagerType, IdleOK, NoBarrierType
<1>4. TypeOK'
  BY <1>1, <1>2, <1>3, TypeParts DEF Inv, TypeOK, Barrier, Reader, Manager
<1>5. ReadersOK'
  <2>1. \A r \in Readers : ReaderShape(r, rd'[r])
    BY <1>3, IdleOK DEF Inv, ReadersOK
  <2>2. \A r \in Readers : ReaderLocks(r, rd[r])'
    BY <1>1, <1>3, IdleOK DEF Inv, ReadersOK, ReaderLocks
  <2> QED
    BY <2>1, <2>2 DEF ReadersOK
<1>6. BarrierOK'
  <2>1. CASE bar.proc = p
    BY <1>1, <2>1, NoBarrierType DEF BarrierOK
  <2>2. CASE bar.proc # p
    BY <1>1, <1>3, <2>2, IdleOK DEF BarrierOK
  <2> QED
    BY <2>1, <2>2
<1> QED
  BY <1>1, <1>4, <1>5, <1>6 DEF Inv, PendingOK

-----------------------------------------------------------------------------
(* The specification.                                                      *)

LEMMA InitInv ==
    Init => Inv
<1> SUFFICES ASSUME Init
             PROVE  Inv
  OBVIOUS
<1>1. 1 \in 1..MaxGeneration /\ 0 \in 0..MaxFaults
  BY ConstantsAssumption DEF ConstantsAssumption
<1>2. TypeOK
  BY <1>1, IdleOK, FreshManagerType, NoBarrierType, TypeParts DEF Init
<1>3. ReadersOK
  BY IdleOK DEF Init, ReadersOK
<1>4. BarrierOK
  BY NoBarrierType DEF Init, BarrierOK
<1> QED
  BY <1>2, <1>3, <1>4 DEF Inv, Init, PendingOK

LEMMA InvStep ==
    Inv /\ [Next]_vars => Inv'
<1> SUFFICES ASSUME Inv, [Next]_vars
             PROVE  Inv'
  OBVIOUS
<1>1. CASE UNCHANGED vars
  <2>1. UNCHANGED <<generation, open, erasing, mgr, rd, bar, pending, faults>>
    BY <1>1 DEF vars
  <2> QED
    BY <2>1, GatesOpen DEF Inv, TypeOK, PendingOK
<1>2. CASE Next
  <2>1. CASE \E r \in Readers, p \in Processes : Acquire(r, p)
    BY <2>1, AcquireInv
  <2>2. CASE \E r \in Readers : ReaderStep(r) \/ ClientCancel(r)
    BY <2>2, ReaderInv
  <2>3. CASE \E p \in Processes : BarrierBegin(p) \/ Crash(p)
    BY <2>3, BarrierBeginInv, CrashInv
  <2>4. ASSUME NEW lost \in BOOLEAN, BarrierCommit(lost)
        PROVE  Inv'
    BY <2>4, BarrierCommitInv
  <2>5. CASE BarrierStep \/ BarrierCommit(TRUE) \/ BarrierFail
    BY <2>4, <2>5, BarrierLockInv, BarrierCloseInv, BarrierDrainedInv, AbortCloseInv,
       BarrierFailInv DEF BarrierStep
  <2>6. CASE \E p \in Processes, o \in Owners, lost \in BOOLEAN : Reopen(p, o, lost)
    BY <2>6, ReopenInv
  <2>7. CASE \E c \in pending : OpenPermits(c)
    BY <2>7, OpenPermitsInv
  <2>8. CASE Verified
    BY <2>8, VerifiedInv
  <2> QED
    BY <1>2, <2>1, <2>2, <2>3, <2>5, <2>6, <2>7, <2>8 DEF Next
<1> QED
  BY <1>1, <1>2

LEMMA InvHolds ==
    Spec => []Inv
BY InitInv, InvStep, PTL DEF Spec

\* Permits, requests, the barrier and the late calls of Open keep their types.
THEOREM TypeCorrect ==
    Spec => []TypeOK
<1>1. Inv => TypeOK
  BY DEF Inv
<1> QED
  BY <1>1, InvHolds, PTL

\* The generation moves only with the commit of a barrier.
LEMMA OnlyCommitMoves ==
    ASSUME Next, generation' # generation
    PROVE  bar.pc = "commit" /\ rd' = rd /\ generation' = bar.target
BY DEF Next, Acquire, ReaderStep, ReadContent, LockReadGate, LockWriteGate, Revalidate,
       LockGuard, FinishWrite, Refused, GuardDeadline, Fail, ClientCancel, BarrierBegin, Crash,
       BarrierStep, BarrierLock, BarrierClose, BarrierDrained, BarrierCommit, AbortClose,
       BarrierFail, Reopen, OpenPermits, Verified

\* When a barrier commits no permit of its process is active, whatever late reopening,
\* aborted close or crash came between: the manager of the process stays closed at the
\* barrier's target from the drain to the commit.
THEOREM DrainedAtCommitHolds ==
    Spec => DrainedAtCommit
<1>1. Inv /\ [Next]_vars => [generation' # generation => Active(bar.proc) = {}]_vars
  <2> SUFFICES ASSUME Inv, Next, generation' # generation
               PROVE  Active(bar.proc) = {}
    BY DEF vars
  <2> QED
    BY OnlyCommitMoves DEF Inv, BarrierOK, Active
<1> QED
  BY <1>1, InvHolds, PTL DEF Spec, DrainedAtCommit

\* With any number of processes: what is being written belongs to owners that are open,
\* and the output of the gateway, whose guard holds the owners and compares the
\* generation, is of the current generation.
WriterHoldsItsGates ==
    \A r \in Readers : rd[r].pc = "writing" =>
        /\ ReadSet[r] \subseteq open
        /\ Kind[r] # "buffered" => rd[r].seen = generation

\* Writers hold the gates of their owners (WithReadGates, Service.guard) and a barrier
\* needs all of them.
THEOREM WriterHoldsItsGatesHolds ==
    Spec => []WriterHoldsItsGates
<1>1. Inv => WriterHoldsItsGates
  <2> SUFFICES ASSUME Inv, NEW r \in Readers, rd[r].pc = "writing"
               PROVE  /\ ReadSet[r] \subseteq open
                      /\ Kind[r] # "buffered" => rd[r].seen = generation
    BY DEF WriterHoldsItsGates
  <2>1. ReaderShape(r, rd[r]) /\ ReaderLocks(r, rd[r]) /\ Kind[r] \in Kinds
    BY ConstantsAssumption DEF Inv, ReadersOK, ConstantsAssumption
  <2> QED
    BY <2>1 DEF ReaderShape, ReaderLocks, Kinds
<1> QED
  BY <1>1, InvHolds, PTL

-----------------------------------------------------------------------------
(* Buffered responses: only the drain protects them, so they need their    *)
(* process to be the barrier's (the service runs as one process:           *)
(* docs/comet/specs/platform-foundation/spec.md).                          *)

SingleProcess == \A p, q \in Processes : p = q

AfterRead == {"gates", "writegates", "check", "writing"}

\* A buffered response past its read has seen the current generation.
BufferedCurrent ==
    \A r \in Readers : Kind[r] = "buffered" /\ rd[r].pc \in AfterRead
                         => rd[r].seen = generation

\* No step but the read itself brings a buffered response past its read.
LEMMA BufferedStep ==
    ASSUME Inv, Next, NEW r \in Readers, Kind[r] = "buffered", rd'[r].pc \in AfterRead
    PROVE  \/ rd[r].pc \in AfterRead /\ rd'[r].seen = rd[r].seen
           \/ rd'[r].seen = generation
<1>1. rd \in [Readers -> Reader] /\ ReaderShape(r, rd[r])
  BY TypeParts DEF Inv, ReadersOK
<1>2. rd[r].pc # "guard"
  BY <1>1 DEF ReaderShape
<1>3. CASE rd' = rd
  BY <1>3
<1>4. CASE \E q \in Readers, p \in Processes : Acquire(q, p)
  BY <1>1, <1>4 DEF Acquire, AfterRead, Idle
<1>5. ASSUME NEW q \in Readers, ReaderStep(q) \/ ClientCancel(q)
      PROVE  \/ rd[r].pc \in AfterRead /\ rd'[r].seen = rd[r].seen
             \/ rd'[r].seen = generation
  <2>1. CASE q # r
    <3>1. rd'[r] = rd[r]
      BY <1>1, <1>5, <2>1
      DEF ReaderStep, ReadContent, LockReadGate, LockWriteGate, Revalidate, LockGuard,
          FinishWrite, Refused, GuardDeadline, Fail, ClientCancel
    <3> QED
      BY <3>1
  <2>2. CASE q = r
    <3>1. CASE ReadContent(r)
      BY <1>1, <3>1 DEF ReadContent, Reader
    <3>2. CASE LockReadGate(r)
      BY <1>1, <3>2 DEF LockReadGate, Reader, AfterRead
    <3>3. CASE LockWriteGate(r)
      BY <1>1, <3>3 DEF LockWriteGate, Reader, AfterRead
    <3>4. CASE Revalidate(r)
      BY <1>1, <3>4 DEF Revalidate, Reader, AfterRead
    <3>5. CASE LockGuard(r)
      BY <1>2, <3>5 DEF LockGuard
    <3>6. CASE FinishWrite(r)
      BY <1>1, <3>6 DEF FinishWrite, Idle, AfterRead
    <3>7. CASE Refused(r) \/ GuardDeadline(r)
      BY <1>1, <3>7 DEF Refused, GuardDeadline, Fail, Idle, AfterRead
    <3>8. CASE ClientCancel(r)
      BY <1>1, <3>8 DEF ClientCancel, Reader
    <3> QED
      BY <1>5, <2>2, <3>1, <3>2, <3>3, <3>4, <3>5, <3>6, <3>7, <3>8 DEF ReaderStep
  <2> QED
    BY <2>1, <2>2
<1>6. CASE BarrierClose
  <2>1. rd'[r] \in {rd[r], [rd[r] EXCEPT !.cancelled = TRUE]}
    BY <1>6 DEF BarrierClose
  <2> QED
    BY <1>1, <2>1 DEF Reader
<1>7. CASE \E p \in Processes : Crash(p)
  <2>1. rd'[r] \in {rd[r], Idle}
    BY <1>7 DEF Crash
  <2> QED
    BY <2>1 DEF Idle, AfterRead
<1> QED
  BY <1>3, <1>4, <1>5, <1>6, <1>7
  DEF Next, BarrierBegin, BarrierStep, BarrierLock, BarrierDrained, BarrierCommit, AbortClose,
      BarrierFail, Reopen, OpenPermits, Verified

LEMMA BufferedCurrentStep ==
    ASSUME SingleProcess, Inv, BufferedCurrent, [Next]_vars
    PROVE  BufferedCurrent'
<1>1. CASE UNCHANGED vars
  BY <1>1 DEF vars, BufferedCurrent
<1>2. CASE Next /\ generation' = generation
  BY <1>2, BufferedStep DEF BufferedCurrent
<1>3. CASE Next /\ generation' # generation
  <2>1. bar.pc = "commit" /\ rd' = rd
    BY <1>3, OnlyCommitMoves
  <2>2. \A r \in Readers : rd[r].pc = "idle"
    BY <2>1 DEF Inv, BarrierOK, ReadersOK, ReaderShape, SingleProcess
  <2> QED
    BY <2>1, <2>2 DEF BufferedCurrent, AfterRead
<1> QED
  BY <1>1, <1>2, <1>3

\* In a single process no byte of content read before a barrier is written after it
\* committed: gateway output is checked under its guard, and the drain of the process
\* ends every buffered response that read before.
THEOREM NoRedactedOutputHolds ==
    ASSUME SingleProcess
    PROVE  Spec => []NoRedactedOutput
<1>1. Init => BufferedCurrent
  BY DEF Init, BufferedCurrent, Idle, AfterRead
<1>2. Inv /\ BufferedCurrent /\ [Next]_vars => BufferedCurrent'
  BY BufferedCurrentStep
<1>3. Inv /\ BufferedCurrent => NoRedactedOutput
  <2> SUFFICES ASSUME Inv, BufferedCurrent, NEW r \in Readers, rd[r].pc = "writing"
               PROVE  rd[r].seen = generation /\ ReadSet[r] \subseteq open
    BY DEF NoRedactedOutput
  <2>1. ReaderShape(r, rd[r]) /\ ReaderLocks(r, rd[r]) /\ Kind[r] \in Kinds
    BY ConstantsAssumption DEF Inv, ReadersOK, ConstantsAssumption
  <2> QED
    BY <2>1 DEF ReaderShape, ReaderLocks, Kinds, BufferedCurrent, AfterRead
<1> QED
  BY <1>1, <1>2, <1>3, InvHolds, PTL DEF Spec
=============================================================================
