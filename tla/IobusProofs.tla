----------------------------- MODULE IobusProofs ----------------------------
(***************************************************************************)
(* That the I/O bus adapter takes an access once, carries it out as        *)
(* IoCycles says, shows every byte it writes to a device that detects      *)
(* edges and sets the speed register at once, for every set of ports,      *)
(* every combination of byte enables and all data.                         *)
(***************************************************************************)
EXTENDS IobusAdapter, FiniteSetTheorems, TLAPS

-----------------------------------------------------------------------------
(* The guard against a held access.                                        *)

\* From the clock of ready until the CPU lets go, was_active is set and the adapter
\* idle.
GuardInv ==
  /\ cpu_io_ready \/ cpu.answered => was_active
  /\ was_active => state = Idle
  /\ cpu.answered => Asserted

LEMMA GuardInit == Init => GuardInv
BY DEF Init, GuardInv

LEMMA GuardStep == GuardInv /\ [Next]_vars => GuardInv'
<1> SUFFICES ASSUME GuardInv, [Next]_vars
             PROVE  GuardInv'
  OBVIOUS
<1>1. CASE UNCHANGED vars
  BY <1>1 DEF vars, adapter, GuardInv, Asserted
<1>2. CASE Next
  <2>1. Adapter /\ cpu' \in CpuSteps
    BY <1>2 DEF Next, Tick
  <2>2. was_active' = NextGuard /\ cpu_io_ready' = Finishing /\ state' = NextState
    BY <2>1 DEF Adapter
  <2>3. cpu'.answered => (cpu_io_ready \/ cpu.answered) /\ Asserted /\ cpu'.access = cpu.access
    <3>1. CASE cpu.access = NoAccess
      BY <2>1, <3>1 DEF CpuSteps, GuardInv, Asserted
    <3>2. CASE cpu.access # NoAccess /\ ~cpu_io_ready /\ ~cpu.answered
      BY <2>1, <3>2 DEF CpuSteps
    <3>3. CASE cpu.access # NoAccess /\ (cpu_io_ready \/ cpu.answered)
      BY <2>1, <3>3 DEF CpuSteps, Asserted
    <3> QED BY <3>1, <3>2, <3>3
  <2>4. (cpu_io_ready \/ cpu.answered)' => was_active'
    BY <2>2, <2>3 DEF NextGuard, GuardInv
  <2>5. was_active' => state' = Idle
    <3>1. CASE Finishing
      BY <2>2, <3>1 DEF NextState, Finishing
    <3>2. CASE ~Finishing /\ was_active
      BY <2>2, <3>2 DEF NextState, Accepts, GuardInv, Idle, At
    <3> QED BY <2>2, <3>1, <3>2 DEF NextGuard
  <2>6. cpu'.answered => Asserted'
    BY <2>3 DEF Asserted
  <2> QED BY <2>4, <2>5, <2>6 DEF GuardInv
<1> QED BY <1>1, <1>2

\* An access that the CPU still holds after ready is never taken a second time,
\* however long it holds it (iobus_adapter.sv, was_active).
THEOREM OncePerAccess == Spec => TakenOnce
<1> DEFINE Once == captured # captured' /\ captured' # NoAccess
                   => ~cpu.answered /\ ~cpu_io_ready
<1>1. GuardInv /\ [Next]_vars => [Once]_vars
  <2> SUFFICES ASSUME GuardInv, Next, captured # captured', captured' # NoAccess
               PROVE  ~cpu.answered /\ ~cpu_io_ready
    BY DEF vars, adapter
  <2>1. Accepts
    BY DEF Next, Tick, Adapter
  <2> QED BY <2>1 DEF Accepts, GuardInv
<1> QED BY GuardInit, GuardStep, <1>1, PTL DEF Spec, TakenOnce

-----------------------------------------------------------------------------
(* Edges and levels.                                                       *)

Phases == {"idle", "issue", "wait", "cap", "done", "ide32", "ide32w"}

\* A strobe is on the bus in a wait state only, and a write strobe of the clock before
\* in a state that has none: there is a gap between two writes.
GapInv ==
  /\ strobe # Silent => state.phase \in {"wait", "ide32"} /\ strobe.read = captured.read
  /\ writing => state.phase \in {"issue", "done", "ide32w"} /\ ~captured.read

\* So the two histories of an access agree.
EdgeInv ==
  /\ GapInv
  /\ state.phase \in Phases
  /\ edges = IF captured.read THEN <<>> ELSE seen
  /\ state.phase = "idle" => seen = <<>>

LEMMA EdgeInit == Init => EdgeInv
BY DEF Init, EdgeInv, GapInv, Phases, Idle, At

LEMMA GapStep ==
  ASSUME GapInv, Tick
  PROVE  GapInv'
<1>1. state' = NextState /\ strobe' = NextStrobe
  BY DEF Tick, Adapter
<1>2. writing' = (strobe # Silent /\ ~strobe.read)
  BY DEF Tick, Devices
<1>3. captured' = IF Accepts THEN cpu.access ELSE IF Finishing THEN NoAccess ELSE captured
  BY DEF Tick, Adapter
<1>4. ASSUME strobe' # Silent
      PROVE  state'.phase \in {"wait", "ide32"} /\ strobe'.read = captured'.read
  <2>1. CASE Accepts
    BY <1>1, <1>3, <1>4, <2>1
       DEF NextStrobe, NextState, Accepts, Idle, At, IdeWord
  <2>2. CASE ~Accepts
    BY <1>1, <1>3, <1>4, <2>2
       DEF NextStrobe, NextState, Finishing, At, Byte
  <2> QED BY <2>1, <2>2
<1>5. ASSUME writing'
      PROVE  state'.phase \in {"issue", "done", "ide32w"} /\ ~captured'.read
  <2>1. state.phase \in {"wait", "ide32"} /\ ~captured.read
    BY <1>2, <1>5 DEF GapInv
  <2>2. captured' = captured
    BY <1>3, <2>1 DEF Accepts, Finishing, Idle, At
  <2> QED BY <1>1, <2>1, <2>2 DEF NextState, Issue, At, Done
<1> QED BY <1>4, <1>5 DEF GapInv

LEMMA EdgeStep == EdgeInv /\ [Next]_vars => EdgeInv'
<1> SUFFICES ASSUME EdgeInv, [Next]_vars
             PROVE  EdgeInv'
  OBVIOUS
<1>1. CASE UNCHANGED vars
  BY <1>1 DEF vars, adapter, EdgeInv, GapInv
<1>2. CASE Next
  <2>1. Tick /\ GapInv
    BY <1>2 DEF Next, EdgeInv
  <2>2. GapInv' /\ state'.phase \in Phases
    <3>1. state'.phase \in Phases
      BY <2>1 DEF Tick, Adapter, NextState, EdgeInv, Phases, Issue, At, Idle, Done
    <3> QED BY <2>1, <3>1, GapStep
  <2>3. CASE Finishing
    BY <2>1, <2>2, <2>3 DEF Tick, Devices, EdgeInv
  <2>4. CASE ~Finishing /\ Accepts
    <3>1. strobe = Silent /\ ~writing /\ seen = <<>>
      BY <2>1, <2>4 DEF Accepts, GapInv, EdgeInv, Idle, At
    <3>2. seen' = seen /\ edges' = edges /\ edges = <<>>
      BY <2>1, <2>4, <3>1 DEF Tick, Devices, EdgeInv
    <3> QED BY <2>2, <3>1, <3>2 DEF EdgeInv
  <2>5. CASE ~Finishing /\ ~Accepts
    <3>1. captured' = captured
      BY <2>1, <2>5 DEF Tick, Adapter
    <3>2. strobe # Silent => strobe.read = captured.read /\ ~writing
      BY <2>1 DEF GapInv
    <3>3. edges' = IF captured'.read THEN <<>> ELSE seen'
      BY <2>1, <2>5, <3>1, <3>2 DEF Tick, Devices, EdgeInv
    <3>4. state'.phase = "idle" => seen' = <<>>
      <4>1. state'.phase = "idle" => state.phase = "idle"
        BY <2>1, <2>5
           DEF Tick, Adapter, NextState, EdgeInv, Phases, Finishing, Issue, At, Done
      <4> QED BY <2>1, <2>5, <4>1 DEF Tick, Devices, EdgeInv, GapInv
    <3> QED BY <2>2, <3>3, <3>4 DEF EdgeInv
  <2> QED BY <2>3, <2>4, <2>5
<1> QED BY <1>1, <1>2

\* When an access ends, a device that detects the rising edge of the write strobe has
\* seen exactly the writes that one sampling its level has (iobus_adapter.sv, the
\* low-strobe gap after every written byte).
THEOREM NoMergedWrites == Spec => []EdgeDevicesAgree
<1>1. EdgeInv => EdgeDevicesAgree
  BY DEF EdgeInv, EdgeDevicesAgree
<1> QED BY EdgeInit, EdgeStep, <1>1, PTL DEF Spec

-----------------------------------------------------------------------------
(* The transactions of an access, lane by lane.                            *)

Count(a, i) == Cardinality(Below(a, i))

LEMMA CountFinite ==
  ASSUME NEW a, a.be \subseteq Lanes, NEW i \in 0..4
  PROVE  /\ IsFiniteSet(Below(a, i)) /\ Count(a, i) \in Nat
         /\ IsFiniteSet(a.be) /\ Cardinality(a.be) \in Nat
<1>1. IsFiniteSet(Lanes)
  <2>1. 0 \in Int /\ 3 \in Int
    OBVIOUS
  <2>2. QED
    BY <2>1, FS_Interval, Zenon DEF Lanes
<1>2. IsFiniteSet(a.be) /\ IsFiniteSet(Below(a, i))
  BY <1>1, FS_Subset DEF Below
<1>3. QED
  BY <1>2, FS_CardinalityType DEF Count

LEMMA CountSteps ==
  ASSUME NEW a, a.be \subseteq Lanes, NEW i \in Lanes
  PROVE  /\ i \in a.be => Count(a, i + 1) = Count(a, i) + 1
         /\ i \notin a.be => Count(a, i + 1) = Count(a, i)
<1>1. Below(a, i + 1) = IF i \in a.be THEN Below(a, i) \cup {i} ELSE Below(a, i)
  BY DEF Below, Lanes
<1>2. i \notin Below(a, i)
  BY DEF Below, Lanes
<1>3. IsFiniteSet(Below(a, i))
  <2>1. i \in 0..4
    BY DEF Lanes
  <2>2. QED
    BY <2>1, CountFinite
<1>4. QED
  BY <1>1, <1>2, <1>3, FS_AddElement DEF Count

LEMMA CountEnds ==
  ASSUME NEW a, a.be \subseteq Lanes
  PROVE  Count(a, 0) = 0 /\ Count(a, 4) = Cardinality(a.be)
<1>1. Below(a, 0) = {} /\ Below(a, 4) = a.be
  BY DEF Below, Lanes
<1>2. QED
  BY <1>1, FS_EmptySet DEF Count

\* An enabled lane is told from the others by the number of those below it.
LEMMA CountOrders ==
  ASSUME NEW a, a.be \subseteq Lanes, NEW i \in a.be, NEW j \in 0..4, i < j
  PROVE  Count(a, i) < Count(a, j)
<1>1. Below(a, i) \subseteq Below(a, j) /\ i \in Below(a, j) /\ i \notin Below(a, i)
  BY DEF Below, Lanes
<1>2. IsFiniteSet(Below(a, j)) /\ Count(a, i) \in Nat /\ Count(a, j) \in Nat
  BY CountFinite DEF Lanes
<1>3. Count(a, i) <= Count(a, j) /\ Count(a, i) # Count(a, j)
  BY <1>1, <1>2, FS_Subset DEF Count
<1>4. QED
  BY <1>2, <1>3

LEMMA ByteOfLane ==
  ASSUME NEW a, a.be \subseteq Lanes, ~IsIde(a), NEW i \in a.be
  PROVE  /\ Count(a, i) + 1 \in 1..Len(Transactions(a))
         /\ Transactions(a)[Count(a, i) + 1] = Byte(a, i)
<1>1. Transactions(a) = [n \in 1..Cardinality(a.be) |->
                           Byte(a, CHOOSE k \in a.be : Count(a, k) = n - 1)]
  BY DEF Transactions, Count
<1>2. Cardinality(a.be) \in Nat /\ Count(a, i) \in Nat
  BY CountFinite DEF Lanes
<1>3. Count(a, i) < Cardinality(a.be)
  BY CountOrders, CountEnds DEF Lanes
<1>4. Len(Transactions(a)) = Cardinality(a.be)
  BY <1>1, <1>2
<1>5. \A k \in a.be : Count(a, k) = Count(a, i) <=> k = i
  <2> SUFFICES ASSUME NEW k \in a.be, k # i PROVE Count(a, k) # Count(a, i)
    OBVIOUS
  <2>1. k < i \/ i < k
    BY DEF Lanes
  <2>2. Count(a, k) < Count(a, i) \/ Count(a, i) < Count(a, k)
    BY <2>1, CountOrders DEF Lanes
  <2>3. Count(a, k) \in Nat /\ Count(a, i) \in Nat
    BY CountFinite DEF Lanes
  <2>4. QED
    BY <2>2, <2>3
<1>6. (CHOOSE k \in a.be : Count(a, k) = Count(a, i)) = i
  BY <1>5
<1>7. Transactions(a)[Count(a, i) + 1] = Byte(a, CHOOSE k \in a.be : Count(a, k) = Count(a, i))
  <2>1. (Count(a, i) + 1) - 1 = Count(a, i) /\ Count(a, i) + 1 \in 1..Cardinality(a.be)
    BY <1>2, <1>3
  <2>2. QED
    BY <1>1, <2>1
<1>8. Transactions(a)[Count(a, i) + 1] = Byte(a, i)
  BY <1>6, <1>7
<1>9. Count(a, i) + 1 \in 1..Len(Transactions(a))
  <2> DEFINE n == Count(a, i)  m == Cardinality(a.be)
  <2>1. n \in Nat /\ m \in Nat /\ n < m /\ Len(Transactions(a)) = m
    BY <1>2, <1>3, <1>4
  <2> HIDE DEF n, m
  <2>2. n + 1 \in 1..m
    BY <2>1
  <2>3. QED
    BY <2>1, <2>2 DEF n, m
<1>10. QED
  BY <1>8, <1>9

LEMMA ManyTransactions ==
  ASSUME NEW a, a.be \subseteq Lanes, ~IsIde(a)
  PROVE  Len(Transactions(a)) = Count(a, 4) /\ DOMAIN Transactions(a) = 1..Count(a, 4)
<1>1. Cardinality(a.be) \in Nat /\ Count(a, 4) = Cardinality(a.be)
  BY CountFinite, CountEnds
<1>2. QED
  BY <1>1 DEF Transactions

\* The first n transactions of an access, and one more.
Prefix(a, n) == [k \in 1..n |-> Transactions(a)[k]]

LEMMA PrefixGrows ==
  ASSUME NEW a, NEW n \in Nat
  PROVE  /\ Len(Prefix(a, n)) = n
         /\ Append(Prefix(a, n), Transactions(a)[n + 1]) = Prefix(a, n + 1)
<1> DEFINE f == Transactions(a)
<1> HIDE DEF f
<1>1. Len([k \in 1..n |-> f[k]]) = n
  OBVIOUS
<1>2. Append([k \in 1..n |-> f[k]], f[n + 1]) = [k \in 1..(n + 1) |-> f[k]]
  OBVIOUS
<1>3. QED
  BY <1>1, <1>2 DEF Prefix, f

LEMMA PrefixIsAll ==
  ASSUME NEW a, a.be \subseteq Lanes, ~IsIde(a)
  PROVE  Prefix(a, Count(a, 4)) = Transactions(a)
<1>1. Transactions(a) = [n \in 1..Count(a, 4) |->
                           Byte(a, CHOOSE k \in a.be : Count(a, k) = n - 1)]
  BY CountEnds DEF Transactions, Count
<1>2. QED
  BY <1>1 DEF Prefix
\* What a read has collected when the lanes below i are done.
Answered(a, i) ==
  [j \in Lanes |-> IF a.read /\ j \in a.be /\ j < i THEN Answer(a.base, j, Count(a, j) + 1)
                   ELSE Ones]

LEMMA AnsweredSteps ==
  ASSUME NEW a, a.be \subseteq Lanes, NEW i \in Lanes
  PROVE  /\ ~a.read \/ i \notin a.be => Answered(a, i + 1) = Answered(a, i)
         /\ a.read /\ i \in a.be =>
              [Answered(a, i) EXCEPT ![i] = Answer(a.base, i, Count(a, i) + 1)]
                = Answered(a, i + 1)
<1>1. \A j \in Lanes : j < i + 1 <=> j < i \/ j = i
  BY DEF Lanes
<1>2. ~ (i < i)
  BY DEF Lanes
<1>3. QED
  BY <1>1, <1>2 DEF Answered

LEMMA AnsweredEnds ==
  ASSUME NEW a, a.be \subseteq Lanes, ~IsIde(a)
  PROVE  /\ Answered(a, 0) = NoData
         /\ Answered(a, 4) = IF a.read THEN Result(a) ELSE NoData
<1>1. \A j \in Lanes : ~ (j < 0) /\ j < 4
  BY DEF Lanes
<1>2. QED
  BY <1>1 DEF Answered, NoData, Result, Count

-----------------------------------------------------------------------------
(* How far an access has come.                                             *)

Types ==
  /\ cpu.access \in Access \cup {NoAccess}
  /\ state = At(state.phase, state.byte) /\ state.phase \in Phases /\ state.byte \in Lanes
  /\ readdata = [b \in Bases |-> readdata[b]]

\* The lanes below i are done.
DoneBelow(i) ==
  /\ captured.be \subseteq Lanes /\ ~IsIde(captured)
  /\ seen = Prefix(captured, Count(captured, i)) /\ read_accum = Answered(captured, i)

\* The bus still carries the address of a transaction, whose answer the device has.
Addressed(lane) == io_address = <<captured.base, lane>>
HasAnswer(lane, n) ==
  captured.base \notin Deaf => readdata[captured.base] = Answer(captured.base, lane, n)

Resting ==
  state = Idle /\ captured = NoAccess /\ strobe = Silent /\ seen = <<>> /\ read_accum = NoData
Issuing == state.phase = "issue" /\ strobe = Silent /\ DoneBelow(state.byte)
Waiting ==
  /\ state.phase = "wait" /\ state.byte \in captured.be /\ DoneBelow(state.byte)
  /\ strobe = Byte(captured, state.byte) /\ Addressed(state.byte)
Capturing ==
  LET i == state.byte IN
  /\ state.phase = "cap" /\ i \in captured.be /\ captured.read /\ strobe = Silent
  /\ Addressed(i) /\ HasAnswer(i, Count(captured, i) + 1)
  /\ captured.be \subseteq Lanes /\ ~IsIde(captured)
  /\ seen = Prefix(captured, Count(captured, i + 1)) /\ read_accum = Answered(captured, i)
Ending == state = Done /\ strobe = Silent /\ DoneBelow(4)
IdeStrobe ==
  /\ state = At("ide32", 0) /\ IsIde(captured) /\ strobe = IdeWord(captured) /\ Addressed(0)
  /\ seen = <<>> /\ read_accum = NoData
IdeCapture ==
  /\ state = At("ide32w", 0) /\ IsIde(captured) /\ strobe = Silent /\ Addressed(0)
  /\ seen = Transactions(captured) /\ read_accum = NoData
  /\ captured.read => HasAnswer(0, 1)

CyclesInv ==
  /\ Types
  /\ ~was_active => cpu_dout = NoData
  /\ \/ Resting
     \/ /\ captured \in Access /\ ~was_active
        /\ Issuing \/ Waiting \/ Capturing \/ Ending \/ IdeStrobe \/ IdeCapture

LEMMA AccessFacts ==
  ASSUME NEW a \in Access
  PROVE  /\ a # NoAccess /\ a.base \in Bases /\ a.be \subseteq Lanes /\ a.read \in BOOLEAN
<1>1. a.base \in Bases /\ a.be \in Enables /\ a.read \in BOOLEAN
  BY DEF Access
<1>2. a # NoAccess
  BY <1>1, BasesAssumption DEF NoAccess
<1>3. a.be \subseteq Lanes
  BY <1>1, EnablesAssumption DEF Lanes
<1>4. QED
  BY <1>1, <1>2, <1>3

LEMMA CyclesInit == Init => CyclesInv
<1> SUFFICES ASSUME Init PROVE CyclesInv
  OBVIOUS
<1>1. readdata = [b \in Bases |-> readdata[b]]
  BY DEF Init
<1>2. Types
  BY <1>1 DEF Init, Types, Idle, At, Phases, Lanes
<1>3. QED
  BY <1>2 DEF Init, CyclesInv, Resting

LEMMA TypesStep ==
  ASSUME Types, Tick
  PROVE  Types'
<1>1. cpu'.access \in Access \cup {NoAccess}
  <2>1. cpu' \in CpuSteps
    BY DEF Tick
  <2>2. CASE cpu.access = NoAccess
    BY <2>1, <2>2 DEF CpuSteps, Types
  <2>3. CASE cpu.access # NoAccess
    BY <2>1, <2>3 DEF CpuSteps, Types
  <2>4. QED
    BY <2>2, <2>3
<1>2. state' = At(state'.phase, state'.byte) /\ state'.phase \in Phases /\ state'.byte \in Lanes
  <2>1. state' = NextState /\ state.byte \in 0..3
    BY DEF Tick, Adapter, Types, Lanes
  <2>2. \A i \in 0..3 : i + 1 = 4 \/ i + 1 \in 0..3
    OBVIOUS
  <2>3. QED
    BY <2>1, <2>2 DEF NextState, Types, Phases, Issue, At, Idle, Done, Lanes
<1>3. readdata' = [b \in Bases |-> readdata'[b]]
  BY DEF Tick, Devices, NextReaddata, Types
<1>4. QED
  BY <1>1, <1>2, <1>3 DEF Types
-----------------------------------------------------------------------------
(* A clock edge at each point, and what it is in terms of IoCycles.         *)

\* The abstract module's accesses are these.
LEMMA SameAccesses ==
  /\ Cycles!NoAccess = NoAccess /\ Cycles!NoData = NoData /\ Cycles!Access = Access
  /\ \A a : Cycles!Transactions(a) = Transactions(a) /\ Cycles!Result(a) = Result(a)
<1>1. Cycles!NoAccess = NoAccess /\ Cycles!NoData = NoData /\ Cycles!Access = Access
  BY DEF Cycles!NoAccess, NoAccess, Cycles!NoData, NoData, Cycles!Access, Access, Cycles!Lanes,
         Lanes, Cycles!Ones, Ones
<1>2. ASSUME NEW a
      PROVE  Cycles!Transactions(a) = Transactions(a)
  BY DEF Cycles!Transactions, Transactions, Cycles!IsIde, IsIde, Cycles!Byte, Byte,
         Cycles!IdeWord, IdeWord, Cycles!Below, Below, Cycles!Lanes, Lanes,
         Cycles!Cardinality, Cardinality
<1>3. ASSUME NEW a
      PROVE  Cycles!Result(a) = Result(a)
  BY DEF Cycles!Result, Result, Cycles!IsIde, IsIde, Cycles!Below, Below, Cycles!Answer, Answer,
         Cycles!Lanes, Lanes, Cycles!Ones, Ones, Cycles!Cardinality, Cardinality
<1>4. QED
  BY <1>1, <1>2, <1>3

Stutters == UNCHANGED <<captured, seen, cpu_dout>>

\* The parts of an edge that do not depend on the phase.
LEMMA TickFacts ==
  ASSUME Tick
  PROVE  /\ state' = NextState /\ strobe' = NextStrobe /\ io_address' = NextAddress
         /\ cpu_dout' = NextResult /\ was_active' = NextGuard
         /\ captured' = IF Accepts THEN cpu.access ELSE IF Finishing THEN NoAccess ELSE captured
         /\ readdata' = NextReaddata
         /\ ~Finishing => seen' = IF strobe = Silent THEN seen ELSE Append(seen, strobe)
         /\ Finishing => seen' = <<>>
  BY DEF Tick, Adapter, Devices

\* Between accesses: nothing, or the next one is taken.
LEMMA RestingStep ==
  ASSUME CyclesInv, Tick, Resting
  PROVE  CyclesInv' /\ (Cycles!Begin \/ Cycles!Rest)
<1>1. Types' /\ Types /\ state.phase = "idle" /\ ~Finishing
  BY TypesStep DEF CyclesInv, Resting, Idle, At, Finishing
<1>2. /\ seen' = <<>> /\ read_accum' = NoData /\ cpu_dout' = NoData
      /\ was_active' => was_active
  BY <1>1, TickFacts DEF Resting, Tick, Adapter, NextResult, NextGuard
<1>3. CASE ~Accepts
  <2>1. captured' = NoAccess /\ state' = state /\ strobe' = Silent
    BY <1>1, <1>3, TickFacts DEF Resting, NextState, NextStrobe, Idle, At
  <2>2. Resting'
    BY <1>2, <2>1 DEF Resting
  <2>3. QED
    BY <1>1, <1>2, <2>1, <2>2, SameAccesses DEF CyclesInv, Cycles!Rest, Resting
<1>4. CASE Accepts
  <2> DEFINE a == cpu.access
  <2>1. a \in Access /\ ~was_active /\ captured' = a
    BY <1>1, <1>4, TickFacts DEF Types, Accepts, Asserted
  <2>2. ~was_active' /\ cpu_dout = NoData
    BY <1>2, <2>1 DEF CyclesInv
  <2>3. Cycles!Begin
    BY <1>2, <2>1, <2>2, SameAccesses DEF Cycles!Begin, Resting
  <2>4. CASE IsIde(a)
    <3>1. state' = At("ide32", 0) /\ strobe' = IdeWord(a) /\ io_address' = <<a.base, 0>>
      BY <1>1, <1>4, <2>4, TickFacts DEF NextState, NextStrobe, NextAddress
    <3>2. IdeStrobe'
      BY <1>2, <2>1, <2>4, <3>1 DEF IdeStrobe, Addressed
    <3>3. QED
      BY <1>1, <1>2, <2>1, <2>2, <2>3, <3>2 DEF CyclesInv
  <2>5. CASE ~IsIde(a)
    <3>1. state' = At("issue", 0) /\ strobe' = Silent
      BY <1>1, <1>4, <2>5, TickFacts DEF NextState, NextStrobe, Issue
    <3>2. DoneBelow(0)'
      <4>1. a.be \subseteq Lanes /\ Count(a, 0) = 0 /\ Answered(a, 0) = NoData
        BY <2>1, <2>5, AccessFacts, CountEnds, AnsweredEnds
      <4>2. Prefix(a, 0) = <<>>
        BY DEF Prefix
      <4>3. QED
        BY <1>2, <2>1, <2>5, <4>1, <4>2 DEF DoneBelow
    <3>3. Issuing'
      BY <3>1, <3>2 DEF Issuing, At
    <3>4. QED
      BY <1>1, <1>2, <2>1, <2>2, <2>3, <3>3 DEF CyclesInv
  <2>6. QED
    BY <2>4, <2>5
<1>5. QED
  BY <1>3, <1>4

\* In the middle of an access nothing is taken and nothing returned.
Busy == captured \in Access /\ ~was_active /\ state.phase \in {"issue", "wait", "cap", "ide32"}

LEMMA BusyTick ==
  ASSUME CyclesInv, Tick, Busy
  PROVE  /\ Types /\ Types' /\ ~Accepts /\ ~Finishing
         /\ captured' = captured /\ ~was_active' /\ cpu_dout = NoData /\ cpu_dout' = NoData
         /\ state.phase # "cap" => read_accum' = read_accum
         /\ state.phase # "issue" => strobe' = Silent /\ io_address' = io_address
<1>1. Types /\ Types' /\ cpu_dout = NoData
  BY TypesStep DEF CyclesInv, Busy
<1>2. ~Accepts /\ ~Finishing /\ state # Idle
  BY DEF Busy, Accepts, Idle, At, Finishing
<1>3. ~was_active' /\ captured' = captured
  BY <1>2, TickFacts DEF NextGuard, Busy
<1>4. cpu_dout' = NoData
  BY TickFacts DEF NextResult, Busy
<1>5. state.phase # "cap" => read_accum' = read_accum
  BY <1>2 DEF Tick, Adapter
<1>6. state.phase # "issue" => strobe' = Silent /\ io_address' = io_address
  BY <1>2, TickFacts DEF NextStrobe, NextAddress
<1>7. QED
  BY <1>1, <1>2, <1>3, <1>4, <1>5, <1>6

\* From a lane that is done to the next.
LEMMA NextLane ==
  ASSUME NEW i \in Lanes, state' = Issue(i + 1), strobe' = Silent, DoneBelow(i + 1)'
  PROVE  Issuing' \/ Ending'
<1>1. CASE i + 1 = 4
  BY <1>1 DEF Ending, Issue
<1>2. CASE i + 1 # 4
  <2>1. state' = At("issue", i + 1)
    BY <1>2 DEF Issue
  <2>2. QED
    BY <2>1 DEF Issuing, At
<1>3. QED
  BY <1>1, <1>2

LEMMA IssuingStep ==
  ASSUME CyclesInv, Tick, Busy, Issuing
  PROVE  CyclesInv' /\ Stutters
<1>1. PICK i \in Lanes : i = state.byte
  BY DEF CyclesInv, Types
<1>2. /\ seen' = seen /\ read_accum' = read_accum /\ captured' = captured
      /\ state.phase = "issue" /\ DoneBelow(i) /\ ~Accepts
  BY <1>1, BusyTick, TickFacts DEF Issuing
<1>3. CASE i \in captured.be
  <2>1. state' = At("wait", i) /\ strobe' = Byte(captured, i) /\ io_address' = <<captured.base, i>>
    BY <1>1, <1>2, <1>3, TickFacts DEF NextState, NextStrobe, NextAddress
  <2>2. DoneBelow(i)'
    BY <1>2 DEF DoneBelow
  <2>3. Waiting'
    BY <1>2, <1>3, <2>1, <2>2 DEF Waiting, Addressed, At
  <2>4. QED
    BY <1>2, <2>3, BusyTick DEF CyclesInv, Busy, Stutters
<1>4. CASE i \notin captured.be
  <2>1. state' = Issue(i + 1) /\ strobe' = Silent
    BY <1>1, <1>2, <1>4, TickFacts DEF NextState, NextStrobe
  <2>2. DoneBelow(i + 1)'
    BY <1>2, <1>4, CountSteps, AnsweredSteps DEF DoneBelow
  <2>3. Issuing' \/ Ending'
    BY <2>1, <2>2, NextLane
  <2>4. QED
    BY <1>2, <2>3, BusyTick DEF CyclesInv, Busy, Stutters
<1>5. QED
  BY <1>3, <1>4

LEMMA WaitingStep ==
  ASSUME CyclesInv, Tick, Busy, Waiting
  PROVE  CyclesInv' /\ Cycles!Transact
<1>1. PICK i \in Lanes : i = state.byte
  BY DEF CyclesInv, Types
<1> DEFINE a == captured
           n == Count(captured, i)
<1>2. /\ captured' = captured /\ read_accum' = read_accum /\ io_address' = io_address
      /\ strobe' = Silent /\ state.phase = "wait" /\ DoneBelow(i) /\ i \in a.be
      /\ strobe = Byte(a, i) /\ Addressed(i) /\ a \in Access /\ ~Finishing
  BY <1>1, BusyTick DEF Waiting, Busy
<1>3. /\ a.be \subseteq Lanes /\ ~IsIde(a) /\ a.base \in Bases /\ a.base # "none" /\ a # NoAccess
      /\ n \in Nat
  BY <1>2, AccessFacts, BasesAssumption, CountFinite DEF DoneBelow, Lanes
<1>4. strobe # Silent /\ strobe.base = a.base /\ strobe.lane = i /\ strobe.read = a.read
  BY <1>2, <1>3 DEF Byte, Silent
<1>5. seen = Prefix(a, n) /\ Len(seen) = n /\ n + 1 \in 1..Len(Transactions(a))
      /\ Transactions(a)[n + 1] = strobe
  BY <1>2, <1>3, ByteOfLane, PrefixGrows DEF DoneBelow
<1>6. seen' = Append(seen, strobe)
  BY <1>2, <1>4, TickFacts
<1>7. seen' = Prefix(a, Count(a, i + 1))
  BY <1>2, <1>3, <1>5, <1>6, PrefixGrows, CountSteps
<1>8. Cycles!Transact
  <2>1. Len(seen) < Len(Transactions(a))
    BY <1>3, <1>5
  <2>2. QED
    BY <1>2, <1>3, <1>5, <1>6, <2>1, BusyTick, SameAccesses DEF Cycles!Transact
<1>9. CASE ~a.read
  <2>1. state' = Issue(i + 1)
    BY <1>1, <1>2, <1>9, TickFacts DEF NextState
  <2>2. DoneBelow(i + 1)'
    BY <1>2, <1>3, <1>7, <1>9, AnsweredSteps DEF DoneBelow
  <2>3. Issuing' \/ Ending'
    BY <1>2, <2>1, <2>2, NextLane
  <2>4. QED
    BY <1>2, <1>8, <2>3, BusyTick DEF CyclesInv
<1>10. CASE a.read
  <2>1. state' = At("cap", i)
    BY <1>1, <1>2, <1>10, TickFacts DEF NextState
  <2>2. readdata' = [readdata EXCEPT ![a.base] = Answer(a.base, i, n + 1)]
    BY <1>4, <1>5, <1>10, TickFacts DEF NextReaddata
  <2>3. readdata'[a.base] = Answer(a.base, i, n + 1)
    BY <1>3, <2>2, BusyTick DEF Types
  <2>4. read_accum' = Answered(a, i)
    BY <1>2 DEF DoneBelow
  <2>5. Capturing'
    BY <1>2, <1>3, <1>7, <1>10, <2>1, <2>3, <2>4 DEF Capturing, At, Addressed, HasAnswer
  <2>6. QED
    BY <1>2, <1>8, <2>5, BusyTick DEF CyclesInv
<1>11. QED
  BY <1>9, <1>10, <1>3, <1>2, AccessFacts

\* A device that answers is seen through the multiplexer at the address of its transaction.
LEMMA AnswerIsSeen ==
  ASSUME NEW a \in Access, a = captured, NEW lane, NEW n, Addressed(lane), HasAnswer(lane, n)
  PROVE  io_readdata = Answer(a.base, lane, n)
<1>1. a.base \in Bases /\ io_address[1] = a.base
  BY AccessFacts DEF Addressed
<1>2. QED
  BY <1>1 DEF io_readdata, HasAnswer, Answer

LEMMA CapturingStep ==
  ASSUME CyclesInv, Tick, Busy, Capturing
  PROVE  CyclesInv' /\ Stutters
<1>1. PICK i \in Lanes : i = state.byte
  BY DEF CyclesInv, Types
<1> DEFINE a == captured
<1>2. /\ captured' = captured /\ strobe' = Silent /\ state.phase = "cap" /\ i \in a.be
      /\ strobe = Silent /\ a \in Access /\ ~Finishing /\ a.read /\ a.be \subseteq Lanes
      /\ ~IsIde(a) /\ Addressed(i) /\ HasAnswer(i, Count(a, i) + 1)
      /\ seen = Prefix(a, Count(a, i + 1)) /\ read_accum = Answered(a, i)
  BY <1>1, BusyTick DEF Capturing, Busy
<1>3. seen' = seen /\ state' = Issue(i + 1)
  BY <1>1, <1>2, TickFacts DEF NextState
<1>4. io_readdata = Answer(a.base, i, Count(a, i) + 1)
  BY <1>2, AnswerIsSeen
<1>5. read_accum' = [read_accum EXCEPT ![i] = io_readdata]
  BY <1>1, <1>2 DEF Tick, Adapter
<1>6. read_accum' = Answered(a, i + 1)
  BY <1>2, <1>4, <1>5, AnsweredSteps
<1>7. DoneBelow(i + 1)'
  BY <1>2, <1>3, <1>6 DEF DoneBelow
<1>8. QED
  BY <1>2, <1>3, <1>7, NextLane, BusyTick DEF CyclesInv, Busy, Stutters

LEMMA IdeStrobeStep ==
  ASSUME CyclesInv, Tick, Busy, IdeStrobe
  PROVE  CyclesInv' /\ Cycles!Transact
<1> DEFINE a == captured
<1>1. /\ captured' = captured /\ read_accum' = NoData /\ io_address' = io_address
      /\ strobe' = Silent /\ state.phase = "ide32" /\ strobe = IdeWord(a) /\ Addressed(0)
      /\ a \in Access /\ ~Finishing /\ IsIde(a) /\ seen = <<>>
  BY BusyTick DEF IdeStrobe, Busy, At
<1>2. a.base \in Bases /\ a.base # "none" /\ a # NoAccess /\ a.base \notin Deaf
  BY <1>1, AccessFacts, BasesAssumption DEF IsIde
<1>3. strobe # Silent /\ strobe.base = a.base /\ strobe.lane = 0 /\ strobe.read = a.read
  BY <1>1, <1>2 DEF IdeWord, Silent
<1>4. Transactions(a) = <<strobe>>
  BY <1>1 DEF Transactions
<1>5. seen' = <<strobe>> /\ Len(seen) = 0 /\ seen' = Append(seen, strobe)
  BY <1>1, <1>3, TickFacts
<1>6. Cycles!Transact
  <2>1. Len(Transactions(a)) = 1 /\ Transactions(a)[Len(seen) + 1] = strobe
    BY <1>4, <1>5
  <2>2. QED
    BY <1>1, <1>2, <1>5, <2>1, BusyTick, SameAccesses DEF Cycles!Transact
<1>7. state' = At("ide32w", 0)
  BY <1>1, TickFacts DEF NextState
<1>8. a.read => readdata'[a.base] = Answer(a.base, 0, 1)
  <2>1. a.read => readdata' = [readdata EXCEPT ![a.base] = Answer(a.base, 0, 1)]
    BY <1>3, <1>5, TickFacts DEF NextReaddata
  <2>2. QED
    BY <1>2, <2>1, BusyTick DEF Types
<1>9. IdeCapture'
  BY <1>1, <1>4, <1>5, <1>7, <1>8 DEF IdeCapture, Addressed, HasAnswer
<1>10. QED
  BY <1>1, <1>6, <1>9, BusyTick DEF CyclesInv

\* The clock before ready.
LEMMA FinishingStep ==
  ASSUME CyclesInv, Tick, captured \in Access, ~was_active, Ending \/ IdeCapture
  PROVE  CyclesInv' /\ Cycles!End
<1> DEFINE a == captured
<1>1. Finishing /\ ~Accepts /\ Types' /\ strobe = Silent
  BY TypesStep DEF CyclesInv, Ending, IdeCapture, Done, Idle, At, Finishing, Accepts
<1>2. captured' = NoAccess /\ seen' = <<>> /\ was_active' /\ read_accum' = NoData
  BY <1>1, TickFacts DEF NextGuard, Tick, Adapter, Finishing
<1>3. state' = Idle /\ strobe' = Silent
  BY <1>1, TickFacts DEF NextState, NextStrobe, Finishing
<1>4. CyclesInv'
  BY <1>1, <1>2, <1>3 DEF CyclesInv, Resting
<1>5. a # NoAccess /\ a.base \in Bases /\ a.read \in BOOLEAN
  BY AccessFacts
<1>6. CASE Ending
  <2>1. a.be \subseteq Lanes /\ ~IsIde(a) /\ state.phase = "done"
    BY <1>6 DEF Ending, DoneBelow, Done, At
  <2>2. seen = Transactions(a)
    BY <1>6, <2>1, PrefixIsAll DEF Ending, DoneBelow
  <2>3. cpu_dout' = IF a.read THEN Result(a) ELSE NoData
    BY <1>6, <2>1, AnsweredEnds, TickFacts DEF NextResult, Ending, DoneBelow
  <2>4. QED
    BY <1>2, <1>4, <1>5, <2>2, <2>3, SameAccesses DEF Cycles!End
<1>7. CASE IdeCapture
  <2>1. IsIde(a) /\ state.phase = "ide32w" /\ seen = Transactions(a)
    BY <1>7 DEF IdeCapture, At
  <2>2. io_readdata = Answer(a.base, 0, 1) \/ ~a.read
    BY <1>7, AnswerIsSeen DEF IdeCapture
  <2>3. cpu_dout' = IF a.read THEN Result(a) ELSE NoData
    BY <2>1, <2>2, TickFacts DEF NextResult, Result
  <2>4. QED
    BY <1>2, <1>4, <1>5, <2>1, <2>3, SameAccesses DEF Cycles!End
<1>8. QED
  BY <1>6, <1>7

LEMMA CyclesStep ==
  ASSUME CyclesInv, [Next]_vars
  PROVE  CyclesInv' /\ [Cycles!Next]_(Cycles!vars)
<1>1. CASE UNCHANGED vars
  <2>1. CyclesInv'
    BY <1>1 DEF vars, adapter, CyclesInv, Types, Resting, Issuing, Waiting, Capturing, Ending,
                IdeStrobe, IdeCapture, DoneBelow, Addressed, HasAnswer
  <2>2. UNCHANGED Cycles!vars
    BY <1>1 DEF vars, adapter, Cycles!vars
  <2>3. QED
    BY <2>1, <2>2
<1>2. CASE Tick
  <2>1. CASE Resting
    BY <1>2, <2>1, RestingStep DEF Cycles!Next
  <2>2. CASE captured \in Access /\ ~was_active /\ Issuing
    BY <1>2, <2>2, IssuingStep DEF Busy, Issuing, Stutters, Cycles!vars
  <2>3. CASE captured \in Access /\ ~was_active /\ Waiting
    BY <1>2, <2>3, WaitingStep DEF Busy, Waiting, Cycles!Next
  <2>4. CASE captured \in Access /\ ~was_active /\ Capturing
    BY <1>2, <2>4, CapturingStep DEF Busy, Capturing, Stutters, Cycles!vars
  <2>5. CASE captured \in Access /\ ~was_active /\ IdeStrobe
    BY <1>2, <2>5, IdeStrobeStep DEF Busy, IdeStrobe, At, Cycles!Next
  <2>6. CASE captured \in Access /\ ~was_active /\ (Ending \/ IdeCapture)
    BY <1>2, <2>6, FinishingStep DEF Cycles!Next
  <2>7. QED
    BY <2>1, <2>2, <2>3, <2>4, <2>5, <2>6 DEF CyclesInv
<1>3. QED
  BY <1>1, <1>2 DEF Next

LEMMA CyclesBegin == Init => Cycles!Init
  BY SameAccesses DEF Init, Cycles!Init

\* The adapter implements IoCycles: an access is its transactions in port order, once each, and a
\* read returns their answers in their lanes, for any ports, byte enables and data.
THEOREM Implements == Spec => ImplementsIoCycles
<1>1. Init => CyclesInv
  BY CyclesInit
<1>2. CyclesInv /\ [Next]_vars => CyclesInv' /\ [Cycles!Next]_(Cycles!vars)
  BY CyclesStep
<1>3. QED
  BY <1>1, <1>2, CyclesBegin, PTL DEF Spec, ImplementsIoCycles, Cycles!Spec

-----------------------------------------------------------------------------
(* The speed register.                                                     *)

\* The lane that is next, and what the access under way will still make of the register.
Lane == IF state.phase \in {"issue", "wait", "cap"} THEN state.byte ELSE 4
Becomes(i) ==
  IF captured.base # SpeedBase \/ captured.read THEN speed
  ELSE LET low == IF 0 \in captured.be /\ i = 0 THEN captured.data[0] ELSE speed.low
       IN  [low |-> low,
            ctlport |-> IF 1 \in captured.be /\ i \in {0, 1} /\ captured.data[1] = Key THEN low
                        ELSE speed.ctlport]

SpeedInv ==
  /\ speed = [low |-> speed.low, ctlport |-> speed.ctlport]
  /\ intended = Becomes(Lane)

LEMMA NotTheSpeedPort ==
  /\ Silent.base # SpeedBase /\ NoAccess.base # SpeedBase
  /\ \A a : IsIde(a) => a.base # SpeedBase /\ IdeWord(a).base # SpeedBase
  BY SpeedAssumption, BasesAssumption DEF Silent, NoAccess, IsIde, IdeWord

\* No other transaction touches it.
LEMMA SpeedRests ==
  ASSUME Tick, strobe = Silent \/ (IsIde(captured) /\ strobe = IdeWord(captured))
  PROVE  speed' = speed
  BY NotTheSpeedPort DEF Tick, Devices, NextSpeed

LEMMA AfterIssue ==
  ASSUME NEW i \in Lanes, state' = Issue(i + 1)
  PROVE  Lane' = i + 1
<1>1. CASE i + 1 = 4
  BY <1>1 DEF Issue, Done, At, Lane
<1>2. CASE i + 1 # 4
  BY <1>2 DEF Issue, At, Lane
<1>3. QED
  BY <1>1, <1>2

LEMMA SpeedTaken ==
  ASSUME CyclesInv, SpeedInv, Tick, Resting
  PROVE  SpeedInv'
<1>1. speed' = speed /\ state.phase = "idle" /\ ~Finishing /\ Types
  BY SpeedRests DEF Resting, Idle, At, Finishing, CyclesInv
<1>2. CASE ~Accepts
  <2>1. intended' = intended /\ captured' = NoAccess /\ captured = NoAccess
    BY <1>1, <1>2, TickFacts DEF Resting, Tick, Devices
  <2>2. QED
    BY <1>1, <2>1, NotTheSpeedPort DEF SpeedInv, Becomes
<1>3. CASE Accepts
  <2> DEFINE a == cpu.access
  <2>1. intended' = SpeedAfter(speed, a) /\ captured' = a
    BY <1>3, TickFacts DEF Tick, Devices
  <2>2. CASE IsIde(a)
    BY <1>1, <2>1, <2>2, NotTheSpeedPort DEF SpeedInv, Becomes, SpeedAfter
  <2>3. CASE ~IsIde(a)
    <3>1. state' = At("issue", 0)
      BY <1>1, <1>3, <2>3, TickFacts DEF NextState, Issue
    <3>2. Lane' = 0
      BY <3>1 DEF Lane, At
    <3>3. QED
      BY <1>1, <2>1, <3>2 DEF SpeedInv, Becomes, SpeedAfter
  <2>4. QED
    BY <2>2, <2>3
<1>4. QED
  BY <1>2, <1>3

LEMMA SpeedWritten ==
  ASSUME CyclesInv, SpeedInv, Tick, Busy, Waiting
  PROVE  SpeedInv'
<1>1. PICK i \in Lanes : i = state.byte
  BY DEF CyclesInv, Types
<1> DEFINE a == captured
<1>2. /\ captured' = a /\ state.phase = "wait" /\ strobe = Byte(a, i) /\ i \in a.be /\ ~Accepts
      /\ intended' = intended /\ intended = Becomes(i) /\ a.read \in BOOLEAN
  <2>1. captured' = a /\ state.phase = "wait" /\ strobe = Byte(a, i) /\ i \in a.be /\ ~Accepts
    BY <1>1, BusyTick DEF Waiting
  <2>2. QED
    BY <1>1, <2>1, AccessFacts DEF Tick, Devices, SpeedInv, Lane, Busy
<1>3. strobe.base = a.base /\ strobe.lane = i /\ strobe.read = a.read
      /\ (~a.read => strobe.data[1] = a.data[i])
  BY <1>2 DEF Byte
<1>4. CASE a.base # SpeedBase \/ a.read
  <2>1. speed' = speed
    BY <1>3, <1>4 DEF Tick, Devices, NextSpeed
  <2>2. QED
    BY <1>2, <1>4, <2>1 DEF SpeedInv, Becomes
<1>5. CASE a.base = SpeedBase /\ ~a.read
  <2>1. state' = Issue(i + 1)
    BY <1>1, <1>2, <1>5, TickFacts DEF NextState
  <2>2. Lane' = i + 1
    BY <2>1, AfterIssue
  <2>3. speed' = WriteSpeed(speed, i, a.data[i])
    BY <1>3, <1>5 DEF Tick, Devices, NextSpeed
  <2>4. i \in 0..3
    BY DEF Lanes
  <2>5. CASE i = 0
    BY <1>2, <1>5, <2>2, <2>3, <2>5 DEF SpeedInv, Becomes, WriteSpeed
  <2>6. CASE i = 1
    BY <1>2, <1>5, <2>2, <2>3, <2>6 DEF SpeedInv, Becomes, WriteSpeed
  <2>7. CASE i \in {2, 3}
    BY <1>2, <1>5, <2>2, <2>3, <2>7 DEF SpeedInv, Becomes, WriteSpeed
  <2>8. QED
    BY <2>4, <2>5, <2>6, <2>7
<1>6. QED
  BY <1>2, <1>4, <1>5

LEMMA SpeedElsewhere ==
  ASSUME CyclesInv, SpeedInv, Tick, captured \in Access, ~was_active,
         Issuing \/ Capturing \/ Ending \/ IdeStrobe \/ IdeCapture
  PROVE  SpeedInv'
<1>1. speed' = speed
  BY SpeedRests DEF Issuing, Capturing, Ending, IdeStrobe, IdeCapture
<1>2. intended' = intended /\ ~Accepts
  BY DEF Issuing, Capturing, Ending, IdeStrobe, IdeCapture, Accepts, Idle, Done, At, Tick, Devices
<1>3. CASE Issuing
  <2>1. PICK i \in Lanes : i = state.byte
    BY DEF CyclesInv, Types
  <2>2. captured' = captured /\ state.phase = "issue" /\ intended = Becomes(i)
    BY <1>3, <2>1, BusyTick DEF Busy, Issuing, SpeedInv, Lane
  <2>3. CASE i \in captured.be
    <3>1. state' = At("wait", i)
      BY <2>1, <2>2, <2>3, TickFacts DEF NextState
    <3>2. Lane' = i
      BY <3>1 DEF Lane, At
    <3>3. QED
      BY <1>1, <1>2, <2>2, <3>2 DEF SpeedInv, Becomes
  <2>4. CASE i \notin captured.be
    <3>1. state' = Issue(i + 1)
      BY <2>1, <2>2, <2>4, TickFacts DEF NextState
    <3>2. Lane' = i + 1 /\ i \in 0..3
      BY <3>1, AfterIssue DEF Lanes
    <3>3. QED
      BY <1>1, <1>2, <2>2, <2>4, <3>2 DEF SpeedInv, Becomes
  <2>5. QED
    BY <2>3, <2>4
<1>4. CASE Capturing
  <2>1. captured' = captured /\ captured.read
    BY <1>4, BusyTick DEF Busy, Capturing
  <2>2. QED
    BY <1>1, <1>2, <2>1 DEF SpeedInv, Becomes
<1>5. CASE IdeStrobe
  <2>1. captured' = captured /\ captured.base # SpeedBase
    BY <1>5, BusyTick, NotTheSpeedPort DEF Busy, IdeStrobe, At
  <2>2. QED
    BY <1>1, <1>2, <2>1 DEF SpeedInv, Becomes
<1>6. CASE Ending \/ IdeCapture
  <2>1. Finishing /\ Lane = 4
    BY <1>6 DEF Finishing, Lane, Ending, IdeCapture, Done, At
  <2>2. captured' = NoAccess
    BY <1>2, <2>1, TickFacts
  <2>3. intended = speed
    BY <2>1 DEF SpeedInv, Becomes
  <2>4. QED
    BY <1>1, <1>2, <2>2, <2>3, NotTheSpeedPort DEF SpeedInv, Becomes
<1>7. QED
  BY <1>3, <1>4, <1>5, <1>6

LEMMA SpeedStep ==
  ASSUME CyclesInv, SpeedInv, [Next]_vars
  PROVE  SpeedInv'
<1>1. CASE UNCHANGED vars
  BY <1>1 DEF vars, adapter, SpeedInv, Becomes, Lane
<1>2. CASE Tick
  BY <1>2, SpeedTaken, SpeedWritten, SpeedElsewhere DEF CyclesInv, Busy, Waiting
<1>3. QED
  BY <1>1, <1>2 DEF Next

\* When an access to the speed register ends, the register is what the access as a whole says,
\* whichever bytes it had and whatever came before (system.sv, speedctl).
THEOREM SpeedSet == Spec => []SpeedIsSetAtOnce
<1>1. Init => CyclesInv /\ SpeedInv
  <2>1. Init => CyclesInv
    BY CyclesInit
  <2>2. Init => SpeedInv
    BY NotTheSpeedPort DEF Init, SpeedInv, Becomes
  <2>3. QED
    BY <2>1, <2>2
<1>2. CyclesInv /\ SpeedInv /\ [Next]_vars => CyclesInv' /\ SpeedInv'
  BY CyclesStep, SpeedStep
<1>3. GuardInv /\ CyclesInv /\ SpeedInv => SpeedIsSetAtOnce
  <2> SUFFICES ASSUME GuardInv, CyclesInv, SpeedInv, cpu_io_ready PROVE speed = intended
    BY DEF SpeedIsSetAtOnce
  <2>1. Resting
    BY DEF GuardInv, CyclesInv
  <2>2. QED
    BY <2>1, NotTheSpeedPort DEF Resting, SpeedInv, Becomes
<1>4. QED
  BY <1>1, <1>2, <1>3, GuardInit, GuardStep, PTL DEF Spec

=============================================================================
