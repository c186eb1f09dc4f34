----------------------------- MODULE DmaProofs -----------------------------
(***************************************************************************)
(* What holds of the DMA channels for every set of channels, every width   *)
(* and every program of the CPU: that they never drive the shared request  *)
(* bus together and that the registers keep their widths, careful or not;  *)
(* and, with a careful CPU, that memory sees each transfer once as its     *)
(* channel decided on it, that no channel moves a unit too many, and that  *)
(* address and count move together.                                        *)
(***************************************************************************)
EXTENDS Dma, SequenceTheorems, TLAPS

-----------------------------------------------------------------------------
(* Exclusion.                                                              *)

\* A channel that still drives a request, in its transfer or in the clock after it,
\* is alone: no other channel is busy or drives one.
DriverIsAlone ==
  \A c, d \in Channels : chan[c].request # NoRequest /\ c # d =>
    ~Busy(d) /\ chan[d].request = NoRequest

BusyIsAlone == \A c, d \in Channels : Busy(c) /\ Busy(d) => c = d

\* The channels are records, which is all of the type that the exclusion needs.
ExclusionInv == BusyIsAlone /\ DriverIsAlone

\* A channel is granted only while no channel is busy, and then one only: the lowest
\* that asks.
LEMMA GrantIsAlone ==
  ASSUME NEW c \in Channels, NEW d \in Channels, Grant(c)
  PROVE  /\ ~Busy(d)
         /\ Grant(d) => c = d
<1>1. ~Busy(d)
  BY DEF Grant, AnyBusy
<1>2. ASSUME Grant(d)
      PROVE  c = d
  <2>1. c \in Int /\ d \in Int
    BY ChannelsAssumption
  <2>2. Asks(c) /\ Asks(d) /\ ~(d < c) /\ ~(c < d)
    BY <1>2 DEF Grant
  <2> QED BY <2>1, <2>2
<1> QED BY <1>1, <1>2

\* A channel that is busy was so before, or has just been granted.
LEMMA BusyStep ==
  ASSUME NEW acc, NEW c \in Channels, Tick(acc), Busy(c)'
  PROVE  Busy(c) \/ Grant(c)
<1>1. chan'[c].state = NextState(c, acc)
  BY DEF Tick, NextChan
<1>2. NextState(c, acc) # "idle"
  BY <1>1 DEF Busy
<1> QED BY <1>2 DEF NextState, Busy

\* A channel that drives a request was busy.
LEMMA DriverStep ==
  ASSUME NEW acc, NEW c \in Channels, Tick(acc), chan'[c].request # NoRequest
  PROVE  Busy(c)
<1>1. chan'[c].request = NextRequest(c)
  BY DEF Tick, NextChan
<1> QED BY <1>1 DEF NextRequest, Busy

LEMMA ExclusionInit == Init => ExclusionInv
BY DEF Init, ExclusionInv, BusyIsAlone, DriverIsAlone, Busy

LEMMA ExclusionStep == ExclusionInv /\ [Next]_vars => ExclusionInv'
<1> SUFFICES ASSUME ExclusionInv, [Next]_vars
             PROVE  ExclusionInv'
  OBVIOUS
<1>1. CASE UNCHANGED vars
  BY <1>1 DEF vars, ExclusionInv, BusyIsAlone, DriverIsAlone, Busy
<1>2. CASE Next
  <2>1. PICK acc : Tick(acc)
    BY <1>2 DEF Next, CpuAccess, CpuQuiet
  <2>2. BusyIsAlone'
    <3> SUFFICES ASSUME NEW c \in Channels, NEW d \in Channels, Busy(c)', Busy(d)'
                 PROVE  c = d
      BY DEF BusyIsAlone
    <3>1. (Busy(c) \/ Grant(c)) /\ (Busy(d) \/ Grant(d))
      BY <2>1, BusyStep
    <3>2. CASE Grant(c)
      BY <3>1, <3>2, GrantIsAlone
    <3>3. CASE Grant(d)
      BY <3>1, <3>3, GrantIsAlone
    <3>4. CASE Busy(c) /\ Busy(d)
      BY <3>4 DEF ExclusionInv, BusyIsAlone
    <3> QED BY <3>1, <3>2, <3>3, <3>4
  <2>3. DriverIsAlone'
    <3> SUFFICES ASSUME NEW c \in Channels, NEW d \in Channels, c # d,
                        chan'[c].request # NoRequest
                 PROVE  ~Busy(d)' /\ chan'[d].request = NoRequest
      BY DEF DriverIsAlone, NoRequest
    <3>1. Busy(c)
      BY <2>1, DriverStep
    <3>2. ~Busy(d)
      BY <3>1 DEF ExclusionInv, BusyIsAlone
    <3>3. ~Grant(d)
      BY <3>1, GrantIsAlone
    <3> QED BY <2>1, <3>2, <3>3, BusyStep, DriverStep
  <2> QED BY <2>2, <2>3 DEF ExclusionInv
<1> QED BY <1>1, <1>2

\* At most one channel of the two chips is in a transfer, and at most one of a chip
\* puts a request on the outputs that the chip ORs together (dma.v, ch_req against
\* sla_busy and mas_busy), whatever the CPU writes to the controllers and when.
THEOREM Exclusion == Spec => []OneChannelAtATime
<1>1. ExclusionInv => OneChannelAtATime
  BY DEF ExclusionInv, BusyIsAlone, DriverIsAlone, OneChannelAtATime, Drivers, On
<1> QED BY ExclusionInit, ExclusionStep, <1>1, PTL DEF Spec

-----------------------------------------------------------------------------
(* Types.                                                                  *)

LEMMA SpanType == Span \in Nat \ {0}
BY RadixAssumption DEF Span

\* Writing one byte of a 16-bit register gives a 16-bit register.
LEMMA ByteWrittenType ==
  ASSUME NEW old \in 0..(Span - 1), NEW b \in 0..(Radix - 1), NEW k
  PROVE  ByteWritten(old, k, b) \in 0..(Span - 1)
<1> DEFINE low == old % Radix
           high == old \div Radix
<1>1. Radix \in Nat /\ Radix > 0 /\ Span \in Nat /\ old \in Nat /\ old < Span
  BY RadixAssumption, SpanType
<1>2. low \in 0..(Radix - 1) /\ high \in Nat /\ old = high * Radix + low
  BY <1>1
<1>3. high < Radix
  <2> SUFFICES ASSUME high >= Radix
               PROVE  FALSE
    BY <1>1, <1>2
  <2> HIDE DEF low, high
  <2>1. high * Radix >= Radix * Radix
    BY <1>1, <1>2
  <2> QED BY <2>1, <1>1, <1>2 DEF Span
<1>4. \A h, l \in 0..(Radix - 1) : h * Radix + l \in 0..(Span - 1)
  <2> SUFFICES ASSUME NEW h \in 0..(Radix - 1), NEW l \in 0..(Radix - 1)
               PROVE  h * Radix + l \in 0..(Span - 1)
    OBVIOUS
  <2>1. h * Radix >= 0 /\ h * Radix <= (Radix - 1) * Radix /\ h * Radix \in Int
    BY <1>1
  <2>2. (Radix - 1) * Radix = Span - Radix
    BY <1>1 DEF Span
  <2> QED BY <2>1, <2>2, <1>1
<1>5. high \in 0..(Radix - 1)
  BY <1>1, <1>2, <1>3
<1> HIDE DEF low, high
<1>6. b * Radix + low \in 0..(Span - 1)
  BY <1>2, <1>4
<1>7. high * Radix + b \in 0..(Span - 1)
  BY <1>5, <1>4
<1> QED BY <1>6, <1>7 DEF ByteWritten, low, high

LEMMA ByteAddressType ==
  ASSUME NEW c \in Channels, NEW a \in Nat, page[c] \in Nat
  PROVE  ByteAddress(c, a) \in Nat
<1>1. Span \in Nat
  BY SpanType
<1>2. page[c] * Span \in Nat /\ (page[c] \div 2) * 2 \in Nat
  BY <1>1
<1>3. (page[c] \div 2) * 2 * Span \in Nat
  BY <1>1, <1>2
<1> QED BY <1>2, <1>3 DEF ByteAddress

\* What the CPU does has the fields that the controllers look at.
LEMMA AccessFields ==
  ASSUME NEW acc \in Accesses \cup {NoAccess}
  PROVE  /\ acc.op \in {"address", "count"} => acc.byte \in 0..(Radix - 1)
         /\ acc.op = "mode" => /\ acc.transfer \in 0..3
                               /\ acc.auto \in BOOLEAN /\ acc.dec \in BOOLEAN
         /\ acc.op \in {"mask", "request"} => acc.ch \in Channels
         /\ acc.op = "page" => acc.ch \in Channels /\ acc.page \in Pages
         /\ acc.op = "disable" => acc.value \in BOOLEAN
         /\ acc.op = "mask_all" => acc.masked \in SUBSET (Channels \cup {4})
BY DEF Accesses, NoAccess, None

LEMMA ChannelStep ==
  ASSUME TypeOK, NEW acc \in Accesses \cup {NoAccess}, NEW c \in Channels
  PROVE  NextChan(c, acc) \in ChannelType
<1>1. chan[c] \in ChannelType
  BY DEF TypeOK
<1>2. dev[c].data \in Data \cup {None} /\ port.addr \in Nat /\ held.addr \in Nat
  BY DEF TypeOK
<1>3. Span \in Nat \ {0}
  BY SpanType
<1>4. NextState(c, acc) \in States
  BY <1>1 DEF NextState, States, ChannelType
<1>5. NextRequest(c) \in RequestType
  <2>1. NoRequest \in RequestType
    BY <1>3 DEF NoRequest, RequestType
  <2>2. chan[c].request \in RequestType /\ chan[c].address \in 0..(Span - 1)
    BY <1>1 DEF ChannelType
  <2> QED BY <2>1, <2>2, <1>2 DEF NextRequest, RequestType
<1>6. readdata \in [dword : Nat, lane : 0..3]
  BY <1>2 DEF readdata
<1>7. NextAddress(c, acc) \in 0..(Span - 1)
  <2>1. Addressed(c, acc, "address") => acc.byte \in 0..(Radix - 1)
    BY AccessFields DEF Addressed
  <2> QED BY <1>1, <1>3, <2>1, ByteWrittenType DEF NextAddress, ChannelType
<1>8. NextCount(c, acc) \in 0..(Span - 1)
  <2>1. Addressed(c, acc, "count") => acc.byte \in 0..(Radix - 1)
    BY AccessFields DEF Addressed
  <2> QED BY <1>1, <1>3, <2>1, ByteWrittenType DEF NextCount, ChannelType
<1>9. /\ Addressed(c, acc, "address") =>
           ByteWritten(chan[c].base_address, ChipOf(c), acc.byte) \in 0..(Span - 1)
      /\ Addressed(c, acc, "count") =>
           ByteWritten(chan[c].base_count, ChipOf(c), acc.byte) \in 0..(Span - 1)
  BY <1>1, AccessFields, ByteWrittenType DEF Addressed, ChannelType
<1>10. Addressed(c, acc, "mode") =>
         acc.transfer \in 0..3 /\ acc.auto \in BOOLEAN /\ acc.dec \in BOOLEAN
  BY AccessFields DEF Addressed
<1> QED BY <1>1, <1>4, <1>5, <1>6, <1>7, <1>8, <1>9, <1>10 DEF NextChan, ChannelType

LEMMA ControllerStep ==
  ASSUME TypeOK, NEW acc \in Accesses \cup {NoAccess}, NEW k \in Chips
  PROVE  NextCtl(k, acc) \in ControllerType
<1>1. ctl[k] \in ControllerType
  BY DEF TypeOK
<1>2. On(k) \subseteq Channels /\ AllOf(k) \subseteq Channels \cup {4}
  BY DEF On, AllOf
<1>3. NextMask(k, acc) \subseteq Channels \cup {4}
  <2>1. Selected(k, acc, {"mask_all"}) => acc.masked \subseteq Channels \cup {4}
    BY AccessFields DEF Selected
  <2>2. Selected(k, acc, {"mask"}) => acc.ch \in Channels
    BY AccessFields DEF Selected
  <2> QED BY <1>1, <1>2, <2>1, <2>2 DEF NextMask, SetOrClear, ControllerType
<1>4. NextPending(k, acc) \subseteq Channels
  <2>1. Selected(k, acc, {"request"}) => acc.ch \in Channels
    BY AccessFields DEF Selected
  <2> QED BY <1>1, <1>2, <2>1 DEF NextPending, SetOrClear, ControllerType
<1>5. Selected(k, acc, {"disable"}) => acc.value \in BOOLEAN
  BY AccessFields DEF Selected
<1> QED BY <1>1, <1>2, <1>3, <1>4, <1>5 DEF NextCtl, ControllerType

LEMMA BusStep ==
  ASSUME TypeOK
  PROVE  NextBus \in [addr : Nat, wide : BOOLEAN, write : BOOLEAN, read : BOOLEAN,
                      data : Data \cup {None}]
<1> DEFINE BusType == [addr : Nat, wide : BOOLEAN, write : BOOLEAN, read : BOOLEAN,
                       data : Data \cup {None}]
<1>1. NoBus \in BusType
  BY DEF NoBus
<1>2. ASSUME AnyBusy, Driven(BusyChip).read \/ Driven(BusyChip).write
      PROVE  NextBus \in BusType
  <2> DEFINE k == BusyChip
             q == Driven(k)
  <2>1. BusyOn(k) \in Channels
    BY <1>2 DEF BusyOn, BusyChip, AnyBusy, On, ChipOf
  <2>2. q \in RequestType
    BY <1>2, SpanType DEF Driven, Drivers, On, NoRequest, TypeOK, ChannelType, RequestType
  <2>3. ByteAddress(BusyOn(k), q.addr) \in Nat
    <3>1. page[BusyOn(k)] \in Nat
      BY <2>1, PagesAssumption DEF TypeOK
    <3>2. q.addr \in Nat
      BY <2>2, SpanType DEF RequestType
    <3> QED BY <2>1, <3>1, <3>2, ByteAddressType
  <2>4. NextBus = [addr |-> ByteAddress(BusyOn(k), q.addr), wide |-> k = 1,
                   write |-> q.write, read |-> q.read, data |-> q.data]
    BY <1>2 DEF NextBus
  <2>5. q.write \in BOOLEAN /\ q.read \in BOOLEAN /\ q.data \in Data \cup {None}
    BY <2>2 DEF RequestType
  <2> HIDE DEF k, q
  <2> QED BY <2>3, <2>4, <2>5
<1>3. ASSUME ~(AnyBusy /\ (Driven(BusyChip).read \/ Driven(BusyChip).write))
      PROVE  NextBus \in BusType
  BY <1>1, <1>3 DEF NextBus
<1> QED BY <1>2, <1>3

\* The registers, with what the CPU still has to do.
TypeInv == TypeOK /\ program \in Seq(Accesses) /\ driver.data \subseteq Data

LEMMA TypeInit == Init => TypeInv
<1> SUFFICES ASSUME Init
             PROVE  TypeInv
  OBVIOUS
<1>1. Span \in Nat \ {0}
  BY SpanType
<1>2. chan \in [Channels -> ChannelType]
  <2>1. NoRequest \in RequestType
    BY <1>1 DEF NoRequest, RequestType
  <2> QED BY <1>1, <2>1 DEF Init, ChannelType, States
<1>3. ctl \in [Chips -> ControllerType]
  BY DEF Init, ControllerType, AllOf, On
<1>4. program \in Seq(Accesses) /\ driver.data \subseteq Data
  BY ScenariosAssumption DEF Init
<1> QED BY <1>1, <1>2, <1>3, <1>4, PagesAssumption DEF Init, TypeInv, TypeOK, NoBus

LEMMA TypeStep == TypeInv /\ [Next]_vars => TypeInv'
<1> SUFFICES ASSUME TypeInv, [Next]_vars
             PROVE  TypeInv'
  OBVIOUS
<1>1. CASE UNCHANGED vars
  BY <1>1 DEF vars, TypeInv, TypeOK
<1>2. CASE Next
  <2>1. PICK acc \in Accesses \cup {NoAccess} : Tick(acc) /\ program' \in Seq(Accesses)
    <3>1. CASE CpuAccess
      BY <3>1 DEF CpuAccess, TypeInv
    <3>2. CASE CpuQuiet
      BY <3>2 DEF CpuQuiet, TypeInv
    <3> QED BY <1>2, <3>1, <3>2 DEF Next
  <2> TypeOK
    BY DEF TypeInv
  <2>2. chan' \in [Channels -> ChannelType]
    BY <2>1, ChannelStep DEF Tick
  <2>3. ctl' \in [Chips -> ControllerType]
    BY <2>1, ControllerStep DEF Tick
  <2>4. page' \in [Channels -> Pages]
    BY <2>1, AccessFields DEF Tick, TypeOK
  <2>5. bus' \in [addr : Nat, wide : BOOLEAN, write : BOOLEAN, read : BOOLEAN,
                  data : Data \cup {None}]
    BY <2>1, BusStep DEF Tick
  <2>6. /\ held' \in [valid : BOOLEAN, wr : BOOLEAN, addr : Nat, wide : BOOLEAN,
                      data : Data \cup {None}]
        /\ mem_wr' \in BOOLEAN
    BY <2>1 DEF Tick, NextHeld, Capture, TypeOK
  <2>7. port' \in [phase : {"idle", "granted", "reading", "answer"}, addr : Nat]
    BY <2>1 DEF Tick, PortStep, TypeOK
  <2>8. dev' \in [Channels -> [req : BOOLEAN, data : Data \cup {None}]]
    <3> DEFINE free == {c \in driver.devices : ~Waiting(c)}
    <3>1. \E asking \in SUBSET free : \E data \in [asking -> driver.data] :
            dev' = [c \in Channels |-> IF c \in asking THEN [req |-> TRUE, data |-> data[c]]
                                       ELSE IF c \in free THEN [req |-> FALSE, data |-> None]
                                       ELSE dev[c]]
      BY <2>1 DEF Tick, DevicesMove
    <3>2. driver.data \subseteq Data
      BY DEF TypeInv
    <3> HIDE DEF free
    <3> QED BY <3>1, <3>2 DEF TypeOK
  <2>9. driver' = driver
    BY <2>1 DEF Tick
  <2> QED BY <2>1, <2>2, <2>3, <2>4, <2>5, <2>6, <2>7, <2>8, <2>9 DEF TypeInv, TypeOK
<1> QED BY <1>1, <1>2

\* The address and count registers stay 16 bits wide through byte writes, counting,
\* wrapping and reloading, and every register keeps its type.
THEOREM TypeCorrect == Spec => []TypeOK
<1>1. TypeInv => TypeOK
  BY DEF TypeInv
<1> QED BY TypeInit, TypeStep, <1>1, PTL DEF Spec

-----------------------------------------------------------------------------
(* The path of a request: the channel, the request bus, the hold register. *)

\* The step of a careful driver: what the CPU writes meets no transfer under way.
CarefulStep(acc) == Tick(acc) /\ Careful(acc)

\* A channel that presents a request, and the request.
Presents(c) == chan[c].state \in {"read", "write"}
RequestOf(c) ==
  [wr |-> chan[c].request.write, addr |-> ByteAddress(c, chan[c].request.addr),
   wide |-> ChipOf(c) = 1, data |-> chan[c].request.data]
BusOf(c) ==
  [addr |-> ByteAddress(c, chan[c].request.addr), wide |-> ChipOf(c) = 1,
   write |-> chan[c].request.write, read |-> chan[c].request.read,
   data |-> chan[c].request.data]
BusTaken == bus.read \/ bus.write
BusRequest == [wr |-> bus.write, addr |-> bus.addr, wide |-> bus.wide, data |-> bus.data]

\* The direction of a transfer is its channel's, and the outputs follow the state.
ChannelFollowsMode ==
  \A c \in Channels :
    LET s == chan[c].state
        q == chan[c].request
    IN  /\ q.read <=> s = "read"
        /\ q.write <=> s = "write"
        /\ s \in {"read", "reading"} => chan[c].transfer = 2
        /\ s = "write" => chan[c].transfer = 1
        /\ s = "verify" => chan[c].transfer \notin {1, 2}
        /\ s = "start" => q = NoRequest
        /\ chan[c].ack => s = "update"

\* The bus repeats a request while it is presented and for one clock more. It is
\* presented for more than a clock only while the hold register is full, so that the
\* last repetition finds it empty.
BusFollowsChannel ==
  /\ \A c \in Channels : Presents(c) =>
       IF held.valid THEN bus \in {NoBus, BusOf(c)} ELSE bus = NoBus
  /\ (\A c \in Channels : ~Presents(c)) /\ BusTaken =>
       /\ ~held.valid /\ ~(bus.read /\ bus.write)
       /\ \E c \in Channels :
            /\ chan[c].state = IF bus.read THEN "reading" ELSE "update"
            /\ bus.addr = ByteAddress(c, chan[c].request.addr)
            /\ bus.wide = (ChipOf(c) = 1)
  /\ ~BusTaken => bus = NoBus

\* What is promised is in the hold register, at a channel or on the bus.
Pending ==
  IF \E c \in Channels : Presents(c)
  THEN <<RequestOf(CHOOSE c \in Channels : Presents(c))>>
  ELSE IF BusTaken THEN <<BusRequest>> ELSE <<>>
PromisedIsPending ==
  promised = (IF held.valid THEN <<Acceptance>> ELSE <<>>) \o Pending

\* A read is on the bus, in the hold register or at the SDRAM, one of the three.
ReadUnderWay ==
  /\ port.phase = "granted" => held.valid
  /\ \A c \in Channels : chan[c].state = "reading" =>
       LET a == ByteAddress(c, chan[c].request.addr)
       IN  \/ bus.read /\ ~held.valid /\ port.phase = "idle"
           \/ /\ ~bus.read /\ held.valid /\ ~held.wr /\ held.addr = a
              /\ port.phase \in {"idle", "granted"}
           \/ /\ ~bus.read /\ ~held.valid /\ ~mem_wr /\ held.addr = a
              /\ port.addr = a /\ port.phase \in {"reading", "answer"}
  /\ port.phase \in {"reading", "answer"} =>
       \E c \in Channels : chan[c].state = "reading"
  /\ held.valid /\ ~held.wr => \E c \in Channels : chan[c].state = "reading"

\* What a channel passes to its device is what memory holds at its address.
AnswerIsRight ==
  \A c \in Channels : chan[c].ack /\ chan[c].transfer = 2 =>
    LET a == ByteAddress(c, chan[c].request.addr)
    IN  chan[c].ack_data = [dword |-> a \div 4, lane |-> a % 4]

PathInv ==
  driver.careful => /\ ChannelFollowsMode
                    /\ BusFollowsChannel
                    /\ PromisedIsPending
                    /\ ReadUnderWay
                    /\ AnswerIsRight

-----------------------------------------------------------------------------
(* What a careful step leaves alone.                                       *)

\* A channel in a transfer is neither reset nor programmed.
LEMMA BusyUndisturbed ==
  ASSUME TypeOK, NEW acc \in Accesses \cup {NoAccess}, CarefulStep(acc),
         NEW c \in Channels, Busy(c)
  PROVE  /\ ~(acc.op = "master_clear" /\ acc.chip = ChipOf(c))
         /\ ~Addressed(c, acc, "mode")
         /\ chan'[c].transfer = chan[c].transfer /\ chan'[c].auto = chan[c].auto
         /\ page'[c] = page[c]
<1>1. ~(acc.op = "master_clear" /\ acc.chip = ChipOf(c))
  BY DEF CarefulStep, Careful, On
<1>2. acc.op \in {"page", "mode"} => acc.ch # c
  BY DEF CarefulStep, Careful
<1>3. chan'[c].transfer = chan[c].transfer /\ chan'[c].auto = chan[c].auto
  BY <1>2 DEF CarefulStep, Tick, NextChan, Addressed
<1>4. page'[c] = page[c]
  BY <1>2 DEF CarefulStep, Tick, TypeOK
<1> QED BY <1>1, <1>2, <1>3, <1>4 DEF Addressed

\* The next values of a channel's state and outputs.
LEMMA ChannelMoves ==
  ASSUME NEW acc, Tick(acc), NEW c \in Channels
  PROVE  /\ chan'[c].state = NextState(c, acc)
         /\ chan'[c].request = NextRequest(c)
         /\ chan'[c].ack <=> \/ chan[c].state = "reading" /\ readdatavalid
                             \/ chan[c].state = "write" /\ ~wait
                             \/ chan[c].state = "verify"
         /\ chan'[c].ack_data = IF chan[c].state = "reading" /\ readdatavalid
                                THEN readdata ELSE chan[c].ack_data
<1>1. chan'[c] = NextChan(c, acc)
  BY DEF Tick
<1> QED BY <1>1 DEF NextChan

\* The state of a channel in a transfer moves as its sequence says.
LEMMA StateMoves ==
  ASSUME TypeOK, NEW acc \in Accesses \cup {NoAccess}, CarefulStep(acc), NEW c \in Channels
  PROVE  LET s == chan[c].state
             t == chan'[c].state
         IN  /\ s = "idle" => t = "idle" \/ (t = "start" /\ Grant(c))
             /\ s = "start" => t = IF chan[c].transfer = 2 THEN "read"
                                   ELSE IF chan[c].transfer = 1 THEN "write" ELSE "verify"
             /\ s = "read" => t = IF wait THEN "read" ELSE "reading"
             /\ s = "reading" => t = IF readdatavalid THEN "update" ELSE "reading"
             /\ s = "write" => t = IF wait THEN "write" ELSE "update"
             /\ s = "verify" => t = "update"
             /\ s = "update" => t = "finish"
             /\ s = "finish" => t = "idle"
<1>1. chan'[c].state = NextState(c, acc)
  BY ChannelMoves DEF CarefulStep
<1>2. chan[c].state # "idle" => ~(acc.op = "master_clear" /\ acc.chip = ChipOf(c))
  BY BusyUndisturbed DEF Busy
<1> QED BY <1>1, <1>2 DEF NextState

LEMMA StatesKnown == ASSUME TypeOK, NEW c \in Channels PROVE chan[c].state \in States
BY DEF TypeOK, ChannelType

\* The bus takes what the channel presents.
LEMMA BusOfPresenter ==
  ASSUME ExclusionInv, ChannelFollowsMode, NEW c \in Channels, Presents(c)
  PROVE  NextBus = BusOf(c)
<1>1. Busy(c) /\ AnyBusy
  BY DEF Presents, Busy, AnyBusy
<1>2. ChipOf(c) \in {0, 1} /\ c \in On(ChipOf(c))
  BY DEF ChipOf, On
<1>3. \A d \in Channels : Busy(d) => d = c
  BY <1>1 DEF ExclusionInv, BusyIsAlone
<1>4. BusyChip = ChipOf(c)
  BY <1>1, <1>2, <1>3 DEF BusyChip, On
<1>5. BusyOn(ChipOf(c)) = c
  BY <1>1, <1>2, <1>3 DEF BusyOn, On
<1>6. chan[c].request.read \/ chan[c].request.write
  BY DEF ChannelFollowsMode, Presents
<1>7. chan[c].request # NoRequest
  BY <1>6 DEF NoRequest
<1>8. \A d \in Channels : chan[d].request # NoRequest => d = c
  BY <1>1, <1>7 DEF ExclusionInv, DriverIsAlone
<1>9. Drivers(ChipOf(c)) = {c}
  BY <1>2, <1>7, <1>8 DEF Drivers, On
<1>10. Driven(ChipOf(c)) = chan[c].request
  BY <1>9 DEF Driven
<1> QED BY <1>1, <1>4, <1>5, <1>6, <1>10 DEF NextBus, BusOf

LEMMA BusWithoutPresenter ==
  ASSUME ChannelFollowsMode, \A c \in Channels : ~Presents(c)
  PROVE  NextBus = NoBus
<1>1. \A c \in Channels : ~chan[c].request.read /\ ~chan[c].request.write
  BY DEF ChannelFollowsMode, Presents
<1>2. ASSUME NEW k PROVE ~Driven(k).read /\ ~Driven(k).write
  <2>1. CASE Drivers(k) = {}
    BY <2>1 DEF Driven, NoRequest
  <2>2. CASE Drivers(k) # {}
    <3>1. PICK d \in Channels : Driven(k) = chan[d].request
      BY <2>2 DEF Driven, Drivers, On
    <3> QED BY <3>1, <1>1
  <2> QED BY <2>1, <2>2
<1> QED BY <1>2 DEF NextBus

LEMMA FollowsStep ==
  ASSUME TypeOK, ChannelFollowsMode,
         NEW acc \in Accesses \cup {NoAccess}, CarefulStep(acc)
  PROVE  ChannelFollowsMode'
<1> SUFFICES ASSUME NEW c \in Channels
             PROVE  /\ chan'[c].request.read <=> chan'[c].state = "read"
                    /\ chan'[c].request.write <=> chan'[c].state = "write"
                    /\ chan'[c].state \in {"read", "reading"} => chan'[c].transfer = 2
                    /\ chan'[c].state = "write" => chan'[c].transfer = 1
                    /\ chan'[c].state = "verify" => chan'[c].transfer \notin {1, 2}
                    /\ chan'[c].state = "start" => chan'[c].request = NoRequest
                    /\ chan'[c].ack => chan'[c].state = "update"
  BY DEF ChannelFollowsMode, NoRequest
<1>1. /\ chan'[c].request = NextRequest(c)
      /\ chan'[c].ack <=> \/ chan[c].state = "reading" /\ readdatavalid
                          \/ chan[c].state = "write" /\ ~wait
                          \/ chan[c].state = "verify"
  BY ChannelMoves DEF CarefulStep
<1>2. chan[c].state # "idle" => chan'[c].transfer = chan[c].transfer
  BY BusyUndisturbed DEF Busy
<1>3. chan[c] \in ChannelType
  BY DEF TypeOK
<1>4. /\ chan[c].request.read <=> chan[c].state = "read"
      /\ chan[c].request.write <=> chan[c].state = "write"
      /\ chan[c].state \in {"read", "reading"} => chan[c].transfer = 2
      /\ chan[c].state = "write" => chan[c].transfer = 1
      /\ chan[c].state = "verify" => chan[c].transfer \notin {1, 2}
  BY DEF ChannelFollowsMode
<1>5. CASE chan[c].state = "idle"
  <2>1. chan'[c].state \in {"idle", "start"}
    BY <1>5, StateMoves
  <2>2. chan'[c].request = NoRequest
    BY <1>1, <1>5 DEF NextRequest
  <2> QED BY <1>1, <1>5, <2>1, <2>2 DEF NoRequest
<1>6. CASE chan[c].state = "start"
  <2>1. chan'[c].state = IF chan[c].transfer = 2 THEN "read"
                         ELSE IF chan[c].transfer = 1 THEN "write" ELSE "verify"
    BY <1>6, StateMoves
  <2>2. /\ chan'[c].request.read <=> chan[c].transfer = 2
        /\ chan'[c].request.write <=> chan[c].transfer = 1
    <3> DEFINE r == chan[c].transfer = 2
               w == chan[c].transfer = 1
               d == IF w THEN dev[c].data ELSE None
    <3>1. chan'[c].request = [addr |-> chan[c].address, read |-> r, write |-> w, data |-> d]
      BY <1>1, <1>6 DEF NextRequest
    <3> HIDE DEF r, w, d
    <3>2. chan'[c].request.read = r /\ chan'[c].request.write = w
      BY <3>1
    <3> QED BY <3>2, Zenon DEF r, w
  <2>3. chan'[c].transfer = chan[c].transfer
    BY <1>2, <1>6
  <2>4. ~chan'[c].ack
    BY <1>1, <1>6
  <2> QED BY <2>1, <2>2, <2>3, <2>4
<1>7. CASE chan[c].state \in {"read", "reading"}
  <2>1. chan'[c].state = IF chan[c].state = "read"
                         THEN IF wait THEN "read" ELSE "reading"
                         ELSE IF readdatavalid THEN "update" ELSE "reading"
    BY <1>7, StateMoves
  <2>2. chan'[c].request = IF chan[c].state = "read" /\ ~wait
                           THEN [chan[c].request EXCEPT !.read = FALSE] ELSE chan[c].request
    BY <1>1, <1>7 DEF NextRequest
  <2>3. /\ chan'[c].request.read <=> chan[c].state = "read" /\ wait
        /\ ~chan'[c].request.write
    BY <1>3, <1>4, <1>7, <2>2 DEF ChannelType, RequestType
  <2> QED BY <1>1, <1>2, <1>4, <1>7, <2>1, <2>3
<1>8. CASE chan[c].state \in {"write", "verify"}
  <2>1. chan'[c].state = IF chan[c].state = "write" /\ wait THEN "write" ELSE "update"
    BY <1>8, StateMoves
  <2>2. chan'[c].request = IF chan[c].state = "write" /\ ~wait
                           THEN [chan[c].request EXCEPT !.write = FALSE] ELSE chan[c].request
    BY <1>1, <1>8 DEF NextRequest
  <2>3. /\ chan'[c].request.write <=> chan[c].state = "write" /\ wait
        /\ ~chan'[c].request.read
    BY <1>3, <1>4, <1>8, <2>2 DEF ChannelType, RequestType
  <2> QED BY <1>1, <1>2, <1>4, <1>8, <2>1, <2>3
<1>9. CASE chan[c].state \in {"update", "finish"}
  <2>1. chan'[c].state = IF chan[c].state = "update" THEN "finish" ELSE "idle"
    BY <1>9, StateMoves
  <2>2. chan'[c].request = chan[c].request
    BY <1>1, <1>9 DEF NextRequest
  <2> QED BY <1>1, <1>4, <1>9, <2>1, <2>2
<1> QED BY <1>5, <1>6, <1>7, <1>8, <1>9, StatesKnown DEF States

\* The request of a channel stays while the transfer is under way, and so does the
\* page of its address.
LEMMA RequestStays ==
  ASSUME TypeOK, NEW acc \in Accesses \cup {NoAccess}, CarefulStep(acc),
         NEW c \in Channels, chan[c].state \notin {"idle", "start"}
  PROVE  /\ ByteAddress(c, chan[c].request.addr)' = ByteAddress(c, chan[c].request.addr)
         /\ chan'[c].request.data = chan[c].request.data
<1>1. chan'[c].request = NextRequest(c)
  BY ChannelMoves DEF CarefulStep
<1>2. chan[c].request \in RequestType
  BY DEF TypeOK, ChannelType
<1>3. page'[c] = page[c]
  BY BusyUndisturbed DEF Busy
<1>4. chan'[c].request \in {chan[c].request, [chan[c].request EXCEPT !.read = FALSE],
                            [chan[c].request EXCEPT !.write = FALSE]}
  BY <1>1 DEF NextRequest
<1>5. chan'[c].request.addr = chan[c].request.addr
  BY <1>2, <1>4 DEF RequestType
<1>6. chan'[c].request.data = chan[c].request.data
  BY <1>2, <1>4 DEF RequestType
<1> QED BY <1>3, <1>5, <1>6 DEF ByteAddress

\* The hold register empties when the SDRAM accepts, and fills from the bus when empty.
LEMMA HeldMoves ==
  ASSUME TypeOK, NEW acc, Tick(acc)
  PROVE  /\ held.valid /\ ready => /\ ~held'.valid /\ held'.addr = held.addr
                                   /\ held'.wr = held.wr
         /\ held.valid /\ ~ready => held' = held
         /\ ~held.valid /\ ~BusTaken => held' = held
         /\ ~held.valid /\ BusTaken => /\ held'.valid
                                       /\ held'.wr = bus.write /\ held'.addr = bus.addr
                                       /\ held'.wide = bus.wide /\ held'.data = bus.data
<1>1. held' = NextHeld
  BY DEF Tick
<1> QED BY <1>1 DEF NextHeld, Capture, BusTaken, TypeOK

\* What a channel presents: the bus takes it, the channel stays until the hold register
\* is free or being freed, and then goes on.
LEMMA PresenterStays ==
  ASSUME TypeOK, ChannelFollowsMode, ExclusionInv, ExclusionInv',
         NEW acc \in Accesses \cup {NoAccess}, CarefulStep(acc),
         NEW c \in Channels, Presents(c), wait
  PROVE  /\ Presents(c)' /\ chan'[c].request = chan[c].request
         /\ bus' = BusOf(c)' /\ BusTaken'
         /\ held' = held
         /\ \A d \in Channels : Presents(d)' => d = c
<1>1. chan'[c].state = chan[c].state
  BY StateMoves DEF Presents
<1>2. chan'[c].request = chan[c].request
  BY ChannelMoves DEF CarefulStep, NextRequest, Presents
<1>3. bus' = BusOf(c)
  BY BusOfPresenter DEF CarefulStep, Tick
<1>4. BusOf(c)' = BusOf(c)
  <2>1. ByteAddress(c, chan[c].request.addr)' = ByteAddress(c, chan[c].request.addr)
    BY RequestStays DEF Presents
  <2> QED BY <1>2, <2>1 DEF BusOf
<1>5. chan[c].request.read \/ chan[c].request.write
  BY DEF ChannelFollowsMode, Presents
<1>6. bus'.read = chan[c].request.read /\ bus'.write = chan[c].request.write
  BY <1>3 DEF BusOf
<1>7. BusTaken'
  BY <1>5, <1>6 DEF BusTaken
<1>8. held' = held
  BY HeldMoves DEF CarefulStep, wait
<1>9. ASSUME NEW d \in Channels, Presents(d)'
      PROVE  d = c
  BY <1>1, <1>9 DEF ExclusionInv, BusyIsAlone, Presents, Busy
<1> QED BY <1>1, <1>2, <1>3, <1>4, <1>7, <1>8, <1>9 DEF Presents

LEMMA PresenterLeaves ==
  ASSUME TypeOK, ChannelFollowsMode, BusFollowsChannel, ExclusionInv, ExclusionInv',
         NEW acc \in Accesses \cup {NoAccess}, CarefulStep(acc),
         NEW c \in Channels, Presents(c), ~wait
  PROVE  /\ chan'[c].state = IF chan[c].state = "read" THEN "reading" ELSE "update"
         /\ bus' = BusOf(c) /\ BusTaken'
         /\ bus'.read <=> chan[c].state = "read"
         /\ bus'.write <=> chan[c].state = "write"
         /\ ~held'.valid
         /\ ByteAddress(c, chan[c].request.addr)' = ByteAddress(c, chan[c].request.addr)
         /\ \A d \in Channels : ~Presents(d)'
<1>1. chan'[c].state = IF chan[c].state = "read" THEN "reading" ELSE "update"
  BY StateMoves DEF Presents
<1>2. bus' = BusOf(c)
  BY BusOfPresenter DEF CarefulStep, Tick
<1>3. /\ chan[c].request.read <=> chan[c].state = "read"
      /\ chan[c].request.write <=> chan[c].state = "write"
  BY DEF ChannelFollowsMode
<1>4. bus'.read = chan[c].request.read /\ bus'.write = chan[c].request.write
  BY <1>2 DEF BusOf
<1>5. BusTaken'
  BY <1>3, <1>4 DEF BusTaken, Presents
<1>6. ~held'.valid
  <2>1. CASE held.valid
    BY <2>1, HeldMoves DEF CarefulStep, wait
  <2>2. CASE ~held.valid
    <3>1. bus = NoBus
      BY <2>2 DEF BusFollowsChannel
    <3>2. ~BusTaken
      BY <3>1 DEF BusTaken, NoBus
    <3> QED BY <2>2, <3>2, HeldMoves DEF CarefulStep
  <2> QED BY <2>1, <2>2
<1>7. ASSUME NEW d \in Channels, Presents(d)'
      PROVE  FALSE
  <2>1. d = c
    BY <1>1, <1>7 DEF ExclusionInv, BusyIsAlone, Presents, Busy
  <2> QED BY <1>1, <1>7, <2>1 DEF Presents
<1>8. ByteAddress(c, chan[c].request.addr)' = ByteAddress(c, chan[c].request.addr)
  BY RequestStays DEF Presents
<1> QED BY <1>1, <1>2, <1>3, <1>4, <1>5, <1>6, <1>7, <1>8

\* When no channel presents a request, the bus is free in the next clock.
LEMMA BusFrees ==
  ASSUME ChannelFollowsMode, NEW acc, CarefulStep(acc), \A c \in Channels : ~Presents(c)
  PROVE  bus' = NoBus /\ ~BusTaken'
<1>1. bus' = NoBus
  BY BusWithoutPresenter DEF CarefulStep, Tick
<1> QED BY <1>1 DEF BusTaken, NoBus

LEMMA BusFollowsStep ==
  ASSUME TypeOK, ChannelFollowsMode, BusFollowsChannel, ExclusionInv, ExclusionInv',
         NEW acc \in Accesses \cup {NoAccess}, CarefulStep(acc)
  PROVE  BusFollowsChannel'
<1>1. ASSUME NEW c \in Channels, Presents(c), wait
      PROVE  BusFollowsChannel'
  <2>1. /\ Presents(c)' /\ bus' = BusOf(c)' /\ BusTaken' /\ held' = held
        /\ \A d \in Channels : Presents(d)' => d = c
    BY <1>1, PresenterStays
  <2>2. held.valid
    BY <1>1 DEF wait
  <2> QED BY <2>1, <2>2 DEF BusFollowsChannel
<1>2. ASSUME NEW c \in Channels, Presents(c), ~wait
      PROVE  BusFollowsChannel'
  <2>1. /\ chan'[c].state = IF chan[c].state = "read" THEN "reading" ELSE "update"
        /\ bus' = BusOf(c) /\ BusTaken'
        /\ bus'.read <=> chan[c].state = "read"
        /\ bus'.write <=> chan[c].state = "write"
        /\ ~held'.valid
        /\ ByteAddress(c, chan[c].request.addr)' = ByteAddress(c, chan[c].request.addr)
        /\ \A d \in Channels : ~Presents(d)'
    BY <1>2, PresenterLeaves
  <2>2. chan'[c].state = IF bus'.read THEN "reading" ELSE "update"
    BY <2>1
  <2>3. bus'.addr = ByteAddress(c, chan[c].request.addr)' /\ bus'.wide = (ChipOf(c) = 1)
    BY <2>1 DEF BusOf
  <2>4. ~(bus'.read /\ bus'.write)
    BY <2>1
  <2> QED BY <2>1, <2>2, <2>3, <2>4 DEF BusFollowsChannel
<1>3. ASSUME \A c \in Channels : ~Presents(c)
      PROVE  BusFollowsChannel'
  BY <1>3, BusFrees DEF BusFollowsChannel
<1> QED BY <1>1, <1>2, <1>3

\* The requests promised. A channel promises its request in the clock in which it leaves
\* start for it.
Decides(c) == chan[c].state = "start" /\ chan[c].transfer \in {1, 2}

LEMMA NonePromised ==
  ASSUME \A c \in Channels : ~Decides(c)
  PROVE  Promised = <<>>
BY DEF Decides, Promised, Promises

LEMMA OnePromised ==
  ASSUME TypeOK, ExclusionInv, NEW acc \in Accesses \cup {NoAccess}, CarefulStep(acc),
         NEW c \in Channels, Decides(c)
  PROVE  Promised = <<RequestOf(c)'>>
<1>1. Promises(c) # <<>>
  BY DEF Promises, Decides
<1>2. \A d \in Channels : Promises(d) # <<>> => d = c
  BY DEF Promises, Decides, ExclusionInv, BusyIsAlone, Busy
<1>3. Promised = Promises(c)
  BY <1>1, <1>2 DEF Promised
<1>4. chan'[c].request = NextRequest(c) /\ page'[c] = page[c]
  BY ChannelMoves, BusyUndisturbed DEF CarefulStep, Busy, Decides
<1> DEFINE r == chan[c].transfer = 2
           w == chan[c].transfer = 1
           d == IF w THEN dev[c].data ELSE None
           a == chan[c].address
<1>5. chan'[c].request = [addr |-> a, read |-> r, write |-> w, data |-> d]
  BY <1>4 DEF NextRequest, Decides
<1>6. Promises(c) = <<[wr |-> w, addr |-> ByteAddress(c, a), wide |-> ChipOf(c) = 1, data |-> d]>>
  BY DEF Promises, Decides
<1> HIDE DEF r, w, d, a
<1>7. /\ chan'[c].request.addr = a /\ chan'[c].request.write = w
      /\ chan'[c].request.data = d
  BY <1>5
<1>8. ByteAddress(c, chan[c].request.addr)' = ByteAddress(c, a)
  BY <1>4, <1>7 DEF ByteAddress
<1>9. RequestOf(c)' = [wr |-> w, addr |-> ByteAddress(c, a), wide |-> ChipOf(c) = 1, data |-> d]
  BY <1>7, <1>8 DEF RequestOf
<1> QED BY <1>3, <1>6, <1>9

LEMMA PendingOf ==
  ASSUME ExclusionInv, NEW c \in Channels, Presents(c)
  PROVE  Pending = <<RequestOf(c)>>
<1>1. \A d \in Channels : Presents(d) => d = c
  BY DEF ExclusionInv, BusyIsAlone, Presents, Busy
<1> QED BY <1>1 DEF Pending

LEMMA Joined == ASSUME NEW a, NEW b PROVE <<a>> \o <<b>> = <<a, b>>
<1> DEFINE s == <<a>> \o <<b>>
<1>1. <<a>> \in Seq({a, b}) /\ <<b>> \in Seq({a, b}) /\ <<a, b>> \in Seq({a, b})
  OBVIOUS
<1>2. s \in Seq({a, b}) /\ Len(s) = 2 /\ s[1] = a /\ s[2] = b
  BY <1>1, ConcatProperties
<1> HIDE DEF s
<1>3. \A i \in 1..2 : s[i] = <<a, b>>[i]
  BY <1>2
<1>4. s = <<a, b>>
  BY <1>1, <1>2, <1>3, SeqEqual
<1> QED BY <1>4 DEF s

LEMMA PromisedStep ==
  ASSUME TypeOK, ChannelFollowsMode, BusFollowsChannel, ExclusionInv, ExclusionInv',
         PromisedIsPending, port.phase = "granted" => held.valid,
         NEW acc \in Accesses \cup {NoAccess}, CarefulStep(acc)
  PROVE  PromisedIsPending'
<1> DEFINE H == IF held.valid THEN <<Acceptance>> ELSE <<>>
<1>1. promised' = (IF ready /\ promised # <<>> THEN Tail(promised) ELSE promised) \o Promised
  BY DEF CarefulStep, Tick
<1>2. promised = H \o Pending
  BY DEF PromisedIsPending
<1>3. ready => held.valid
  BY DEF ready
<1>4. ASSUME NEW c \in Channels, Busy(c), chan[c].state # "start"
      PROVE  Promised = <<>>
  <2>1. \A d \in Channels : ~Decides(d)
    BY <1>4 DEF Decides, Busy, ExclusionInv, BusyIsAlone
  <2> QED BY <2>1, NonePromised
<1>5. ASSUME NEW c \in Channels, Presents(c), wait
      PROVE  PromisedIsPending'
  <2>1. /\ Presents(c)' /\ chan'[c].request = chan[c].request /\ held' = held
    BY <1>5, PresenterStays
  <2>2. RequestOf(c)' = RequestOf(c)
    <3>1. ByteAddress(c, chan[c].request.addr)' = ByteAddress(c, chan[c].request.addr)
      BY <1>5, RequestStays DEF Presents
    <3> QED BY <2>1, <3>1 DEF RequestOf
  <2>3. Pending = <<RequestOf(c)>>
    BY <1>5, PendingOf
  <2>4. Pending' = <<RequestOf(c)'>>
    <3>1. \A d \in Channels : Presents(d)' => d = c
      BY <1>5, PresenterStays
    <3> QED BY <2>1, <3>1 DEF Pending
  <2>5. Acceptance' = Acceptance
    BY <2>1 DEF Acceptance
  <2>6. Promised = <<>> /\ ~ready /\ held.valid
    BY <1>4, <1>5 DEF Presents, Busy, wait
  <2>7. promised = <<Acceptance, RequestOf(c)>>
    BY <1>2, <2>3, <2>6, Joined
  <2>8. promised' = <<Acceptance, RequestOf(c)>>
    BY <1>1, <2>6, <2>7
  <2> QED BY <2>1, <2>2, <2>4, <2>5, <2>6, <2>8 DEF PromisedIsPending
<1>6. ASSUME NEW c \in Channels, Presents(c), ~wait
      PROVE  PromisedIsPending'
  <2>1. /\ bus' = BusOf(c) /\ BusTaken' /\ ~held'.valid
        /\ \A d \in Channels : ~Presents(d)'
    BY <1>6, PresenterLeaves
  <2>2. Pending = <<RequestOf(c)>>
    BY <1>6, PendingOf
  <2>3. BusRequest' = RequestOf(c)
    BY <2>1 DEF BusRequest, BusOf, RequestOf
  <2>4. Pending' = <<RequestOf(c)>>
    BY <2>1, <2>3 DEF Pending
  <2>5. Promised = <<>>
    BY <1>4, <1>6 DEF Presents, Busy
  <2>6. promised' = <<RequestOf(c)>>
    <3>1. CASE held.valid
      <4>1. ready /\ promised = <<Acceptance, RequestOf(c)>>
        BY <1>2, <1>6, <2>2, <3>1, Joined DEF wait
      <4> QED BY <1>1, <2>5, <4>1
    <3>2. CASE ~held.valid
      <4>1. ~ready /\ promised = <<RequestOf(c)>>
        BY <1>2, <1>3, <2>2, <3>2
      <4> QED BY <1>1, <2>5, <4>1
    <3> QED BY <3>1, <3>2
  <2> QED BY <2>1, <2>4, <2>6 DEF PromisedIsPending
<1>7. ASSUME \A c \in Channels : ~Presents(c), BusTaken
      PROVE  PromisedIsPending'
  <2>1. PICK c \in Channels : chan[c].state \in {"reading", "update"}
    BY <1>7 DEF BusFollowsChannel
  <2>2. ~held.valid /\ ~ready
    BY <1>3, <1>7 DEF BusFollowsChannel
  <2>3. promised = <<BusRequest>>
    BY <1>2, <1>7, <2>2 DEF Pending
  <2>4. Promised = <<>>
    BY <1>4, <2>1 DEF Busy
  <2>5. promised' = <<BusRequest>>
    BY <1>1, <2>2, <2>3, <2>4
  <2>6. /\ held'.valid /\ held'.wr = bus.write /\ held'.addr = bus.addr
        /\ held'.wide = bus.wide /\ held'.data = bus.data
    BY <1>7, <2>2, HeldMoves DEF CarefulStep
  <2>7. Acceptance' = BusRequest
    BY <2>6 DEF Acceptance, BusRequest
  <2>8. \A d \in Channels : ~Presents(d)'
    <3> SUFFICES ASSUME NEW d \in Channels, Presents(d)'
                 PROVE  FALSE
      OBVIOUS
    <3>1. d # c => chan[d].state = "idle"
      BY <2>1 DEF ExclusionInv, BusyIsAlone, Busy
    <3>2. chan[d].state \in {"idle", "reading", "update"}
      BY <2>1, <3>1
    <3> QED BY <3>2, StateMoves DEF Presents
  <2>9. Pending' = <<>>
    BY <1>7, <2>8, BusFrees DEF Pending
  <2> QED BY <2>5, <2>6, <2>7, <2>9 DEF PromisedIsPending
<1>8. ASSUME \A c \in Channels : ~Presents(c), ~BusTaken
      PROVE  PromisedIsPending'
  <2>1. promised = H
    BY <1>2, <1>8 DEF Pending
  <2>2. IF ready THEN ~held'.valid ELSE held' = held
    BY <1>3, <1>8, HeldMoves DEF CarefulStep
  <2>3. promised' = (IF held'.valid THEN <<Acceptance'>> ELSE <<>>) \o Promised
    <3>1. CASE ready
      <4>1. promised = <<Acceptance>> /\ Tail(promised) = <<>>
        BY <1>3, <2>1, <3>1
      <4> QED BY <1>1, <2>2, <3>1, <4>1
    <3>2. CASE ~ready
      <4>1. held' = held /\ Acceptance' = Acceptance
        BY <2>2, <3>2 DEF Acceptance
      <4> QED BY <1>1, <2>1, <3>2, <4>1
    <3> QED BY <3>1, <3>2
  <2>4. ~BusTaken'
    BY <1>8, BusFrees
  <2>5. CASE \E c \in Channels : Decides(c)
    <3>1. PICK c \in Channels : Decides(c)
      BY <2>5
    <3>2. Promised = <<RequestOf(c)'>>
      BY <3>1, OnePromised
    <3>3. Presents(c)'
      BY <3>1, StateMoves DEF Decides, Presents
    <3>4. \A d \in Channels : Presents(d)' => d = c
      BY <3>3 DEF ExclusionInv, BusyIsAlone, Presents, Busy
    <3>5. Pending' = <<RequestOf(c)'>>
      BY <3>3, <3>4 DEF Pending
    <3> QED BY <2>3, <3>2, <3>5 DEF PromisedIsPending
  <2>6. CASE ~ \E c \in Channels : Decides(c)
    <3>1. Promised = <<>>
      BY <2>6, NonePromised
    <3>2. \A d \in Channels : ~Presents(d)'
      BY <1>8, <2>6, StateMoves, StatesKnown DEF Presents, Decides, States
    <3>3. Pending' = <<>>
      BY <2>4, <3>2 DEF Pending
    <3> QED BY <2>3, <3>1, <3>3 DEF PromisedIsPending
  <2> QED BY <2>5, <2>6
<1> QED BY <1>5, <1>6, <1>7, <1>8

\* A read goes from the bus to the hold register and from there to the SDRAM.
LEMMA PortMoves ==
  ASSUME NEW acc, Tick(acc)
  PROVE  /\ port.phase = "idle" => \/ port' = port
                                   \/ held.valid /\ port'.phase = "granted"
         /\ port.phase = "granted" =>
              IF held.wr THEN port'.phase = "idle"
              ELSE port'.phase = "reading" /\ port'.addr = held.addr
         /\ port.phase = "reading" => port'.phase \in {"reading", "answer"} /\ port'.addr = port.addr
         /\ port.phase = "answer" => port'.phase = "idle"
BY DEF Tick, PortStep

\* The read of a channel that has presented it and waits for the answer.
ReadOf(c) ==
  LET a == ByteAddress(c, chan[c].request.addr)
  IN  \/ bus.read /\ ~held.valid /\ port.phase = "idle"
      \/ /\ ~bus.read /\ held.valid /\ ~held.wr /\ held.addr = a
         /\ port.phase \in {"idle", "granted"}
      \/ /\ ~bus.read /\ ~held.valid /\ ~mem_wr /\ held.addr = a
         /\ port.addr = a /\ port.phase \in {"reading", "answer"}

LEMMA ReadMoves ==
  ASSUME TypeOK, ChannelFollowsMode, BusFollowsChannel, ExclusionInv, ReadUnderWay,
         NEW acc \in Accesses \cup {NoAccess}, CarefulStep(acc),
         NEW c \in Channels, chan[c].state = "reading", ~readdatavalid
  PROVE  /\ chan'[c].state = "reading" /\ ReadOf(c)'
         /\ port'.phase = "granted" => held'.valid
<1> DEFINE a == ByteAddress(c, chan[c].request.addr)
<1>1. chan'[c].state = "reading"
  BY StateMoves
<1>2. ByteAddress(c, chan[c].request.addr)' = a
  BY RequestStays
<1>3. \A d \in Channels : ~Presents(d)
  BY DEF Presents, ExclusionInv, BusyIsAlone, Busy
<1>4. bus' = NoBus /\ ~BusTaken'
  BY <1>3, BusFrees
<1>5. \A d \in Channels : chan[d].state # "update"
  BY DEF ExclusionInv, BusyIsAlone, Busy
<1>6. BusTaken => bus.read /\ ~bus.write /\ ~held.valid /\ bus.addr = a
  <2> SUFFICES ASSUME BusTaken
               PROVE  bus.read /\ ~bus.write /\ ~held.valid /\ bus.addr = a
    OBVIOUS
  <2>1. PICK d \in Channels : /\ chan[d].state = IF bus.read THEN "reading" ELSE "update"
                              /\ bus.addr = ByteAddress(d, chan[d].request.addr)
    BY <1>3 DEF BusFollowsChannel
  <2>2. bus.read
    BY <1>5, <2>1
  <2>3. d = c
    BY <2>1, <2>2 DEF ExclusionInv, BusyIsAlone, Busy
  <2> QED BY <1>3, <2>1, <2>2, <2>3 DEF BusFollowsChannel
<1>7. mem_wr' = IF ready THEN held.wr ELSE mem_wr
  BY DEF CarefulStep, Tick
<1>8. Tick(acc)
  BY DEF CarefulStep
<1>9. ReadOf(c)
  BY DEF ReadUnderWay, ReadOf
<1> HIDE DEF a
<1>10. CASE bus.read /\ ~held.valid /\ port.phase = "idle"
  <2>1. BusTaken /\ ~bus.write /\ bus.addr = a
    BY <1>6, <1>10 DEF BusTaken
  <2>2. held'.valid /\ held'.wr = bus.write /\ held'.addr = a
    BY <1>8, <1>10, <2>1, HeldMoves
  <2>3. port'.phase = "idle"
    BY <1>8, <1>10, PortMoves
  <2> QED BY <1>1, <1>2, <1>4, <2>1, <2>2, <2>3 DEF ReadOf, BusTaken
<1>11. CASE ~bus.read /\ held.valid /\ ~held.wr /\ held.addr = a /\ port.phase = "idle"
  <2>1. held' = held
    BY <1>8, <1>11, HeldMoves DEF ready
  <2>2. port'.phase \in {"idle", "granted"}
    BY <1>8, <1>11, PortMoves
  <2> QED BY <1>1, <1>2, <1>4, <1>11, <2>1, <2>2 DEF ReadOf, BusTaken
<1>12. CASE ~bus.read /\ held.valid /\ ~held.wr /\ held.addr = a /\ port.phase = "granted"
  <2>1. ~held'.valid /\ held'.addr = a
    BY <1>8, <1>12, HeldMoves DEF ready
  <2>2. port'.phase = "reading" /\ port'.addr = a
    BY <1>8, <1>12, PortMoves
  <2>3. ~mem_wr'
    BY <1>7, <1>12 DEF ready
  <2> QED BY <1>1, <1>2, <1>4, <2>1, <2>2, <2>3 DEF ReadOf, BusTaken
<1>13. CASE /\ ~bus.read /\ ~held.valid /\ ~mem_wr /\ held.addr = a
            /\ port.addr = a /\ port.phase \in {"reading", "answer"}
  <2>1. port.phase = "reading"
    BY <1>13 DEF readdatavalid
  <2>2. ~BusTaken
    BY <1>6, <1>13
  <2>3. held' = held
    BY <1>8, <1>13, <2>2, HeldMoves
  <2>4. port'.phase \in {"reading", "answer"} /\ port'.addr = a
    BY <1>8, <1>13, <2>1, PortMoves
  <2>5. ~mem_wr'
    BY <1>7, <1>13, <2>1 DEF ready
  <2> QED BY <1>1, <1>2, <1>4, <1>13, <2>3, <2>4, <2>5 DEF ReadOf, BusTaken
<1> QED BY <1>9, <1>10, <1>11, <1>12, <1>13 DEF ReadOf, a

LEMMA ReadStep ==
  ASSUME TypeOK, ChannelFollowsMode, BusFollowsChannel, ExclusionInv, ExclusionInv',
         ReadUnderWay, NEW acc \in Accesses \cup {NoAccess}, CarefulStep(acc)
  PROVE  ReadUnderWay'
<1> DEFINE Reading(c) == chan[c].state = "reading"
<1>1. Tick(acc)
  BY DEF CarefulStep
<1>2. CASE \E c \in Channels : Reading(c)
  <2>1. PICK c \in Channels : Reading(c)
    BY <1>2
  <2>2. CASE ~readdatavalid
    <3>1. chan'[c].state = "reading" /\ ReadOf(c)' /\ (port'.phase = "granted" => held'.valid)
      BY <2>1, <2>2, ReadMoves
    <3>2. \A d \in Channels : chan'[d].state = "reading" => d = c
      BY <3>1 DEF ExclusionInv, BusyIsAlone, Busy
    <3> QED BY <3>1, <3>2 DEF ReadUnderWay, ReadOf
  <2>3. CASE readdatavalid
    <3>1. port.phase = "answer" /\ ~held.valid /\ ~bus.read
      BY <2>1, <2>3 DEF ReadUnderWay, readdatavalid
    <3>2. port'.phase = "idle"
      BY <1>1, <3>1, PortMoves
    <3>3. \A d \in Channels : chan'[d].state # "reading"
      <4> SUFFICES ASSUME NEW d \in Channels
                   PROVE  chan'[d].state # "reading"
        OBVIOUS
      <4>1. d # c => chan[d].state = "idle"
        BY <2>1 DEF ExclusionInv, BusyIsAlone, Busy
      <4> QED BY <2>1, <2>3, <4>1, StateMoves
    <3>4. \A d \in Channels : ~Presents(d) /\ chan[d].state # "update"
      BY <2>1 DEF ExclusionInv, BusyIsAlone, Busy, Presents
    <3>5. ~BusTaken
      <4> SUFFICES ASSUME BusTaken
                   PROVE  FALSE
        OBVIOUS
      <4>1. \E d \in Channels : chan[d].state = IF bus.read THEN "reading" ELSE "update"
        BY <3>4 DEF BusFollowsChannel
      <4> QED BY <3>1, <3>4, <4>1
    <3>6. held' = held
      BY <1>1, <3>1, <3>5, HeldMoves
    <3> QED BY <3>1, <3>2, <3>3, <3>6 DEF ReadUnderWay
  <2> QED BY <2>2, <2>3
<1>3. CASE ~ \E c \in Channels : Reading(c)
  <2>1. port.phase \in {"idle", "granted"}
    BY <1>3 DEF ReadUnderWay, TypeOK
  <2>2. held.valid => held.wr
    BY <1>3 DEF ReadUnderWay
  <2>3. port.phase = "granted" => held.valid
    BY DEF ReadUnderWay
  <2>4. \/ port.phase = "idle" /\ port' = port
        \/ port.phase = "idle" /\ held.valid /\ port'.phase = "granted"
        \/ port.phase = "granted" /\ port'.phase = "idle"
    BY <1>1, <2>1, <2>2, <2>3, PortMoves
  <2>5. port'.phase \in {"idle", "granted"} /\ (port'.phase = "granted" => held'.valid)
    <3>1. port.phase = "idle" /\ held.valid => held' = held
      BY <1>1, HeldMoves DEF ready
    <3> QED BY <2>4, <3>1
  <2>6. CASE \E c \in Channels : chan'[c].state = "reading"
    <3>1. PICK c \in Channels : chan'[c].state = "reading"
      BY <2>6
    <3>2. chan[c].state = "read" /\ ~wait
      BY <1>3, <3>1, StateMoves, StatesKnown DEF States
    <3>3. Presents(c)
      BY <3>2 DEF Presents
    <3>4. bus'.read /\ ~held'.valid
      BY <3>2, <3>3, PresenterLeaves
    <3>5. port'.phase = "idle"
      BY <2>5, <3>4
    <3>6. \A d \in Channels : chan'[d].state = "reading" => d = c
      BY <3>1 DEF ExclusionInv, BusyIsAlone, Busy
    <3> QED BY <3>4, <3>5, <3>6 DEF ReadUnderWay
  <2>7. CASE ~ \E c \in Channels : chan'[c].state = "reading"
    <3>1. held'.valid => held'.wr
      <4> SUFFICES ASSUME held'.valid
                   PROVE  held'.wr
        OBVIOUS
      <4>1. CASE held.valid
        BY <1>1, <2>2, <4>1, HeldMoves
      <4>2. CASE ~held.valid /\ ~BusTaken
        BY <1>1, <4>2, HeldMoves
      <4>3. CASE ~held.valid /\ BusTaken
        <5>1. \A d \in Channels : ~Presents(d)
          <6>1. bus # NoBus
            BY <4>3 DEF BusTaken, NoBus
          <6> QED BY <4>3, <6>1 DEF BusFollowsChannel
        <5>2. ~bus.read
          BY <1>3, <4>3, <5>1 DEF BusFollowsChannel
        <5>3. bus.write
          BY <4>3, <5>2 DEF BusTaken
        <5> QED BY <1>1, <4>3, <5>3, HeldMoves
      <4> QED BY <4>1, <4>2, <4>3
    <3> QED BY <2>5, <2>7, <3>1 DEF ReadUnderWay
  <2> QED BY <2>6, <2>7
<1> QED BY <1>2, <1>3

LEMMA AnswerStep ==
  ASSUME TypeOK, ChannelFollowsMode, ReadUnderWay,
         NEW acc \in Accesses \cup {NoAccess}, CarefulStep(acc)
  PROVE  AnswerIsRight'
<1> SUFFICES ASSUME NEW c \in Channels, chan'[c].ack, chan'[c].transfer = 2
             PROVE  LET a == ByteAddress(c, chan[c].request.addr)'
                    IN  chan'[c].ack_data = [dword |-> a \div 4, lane |-> a % 4]
  BY DEF AnswerIsRight
<1>1. /\ \/ chan[c].state = "reading" /\ readdatavalid
         \/ chan[c].state = "write" /\ ~wait
         \/ chan[c].state = "verify"
      /\ chan'[c].ack_data = IF chan[c].state = "reading" /\ readdatavalid
                             THEN readdata ELSE chan[c].ack_data
  BY ChannelMoves DEF CarefulStep
<1>2. chan[c].transfer = 2
  BY <1>1, BusyUndisturbed DEF Busy
<1>3. chan[c].state = "reading" /\ readdatavalid
  BY <1>1, <1>2 DEF ChannelFollowsMode
<1>4. ByteAddress(c, chan[c].request.addr)' = ByteAddress(c, chan[c].request.addr)
  BY <1>3, RequestStays
<1>5. /\ held.addr = ByteAddress(c, chan[c].request.addr)
      /\ port.addr = ByteAddress(c, chan[c].request.addr)
  BY <1>3 DEF ReadUnderWay, readdatavalid
<1> QED BY <1>1, <1>3, <1>4, <1>5 DEF readdata

LEMMA PathInit == Init => PathInv
<1> SUFFICES ASSUME Init
             PROVE  PathInv
  OBVIOUS
<1>1. ChannelFollowsMode /\ AnswerIsRight
  BY DEF Init, ChannelFollowsMode, AnswerIsRight, NoRequest
<1>2. BusFollowsChannel /\ ReadUnderWay
  BY DEF Init, BusFollowsChannel, ReadUnderWay, Presents, BusTaken, NoBus
<1>3. Pending = <<>> /\ ~held.valid /\ promised = <<>>
  BY DEF Init, Pending, Presents, BusTaken, NoBus
<1> QED BY <1>1, <1>2, <1>3 DEF PathInv, PromisedIsPending

\* A step of Next, with what a careful driver adds.
LEMMA NextIsTick ==
  ASSUME TypeInv, Next
  PROVE  \E acc \in Accesses \cup {NoAccess} :
           Tick(acc) /\ (driver.careful => CarefulStep(acc))
<1>1. CASE CpuAccess
  BY <1>1 DEF CpuAccess, TypeInv, CarefulStep
<1>2. CASE CpuQuiet
  <2>1. Careful(NoAccess)
    BY DEF Careful, NoAccess, None
  <2> QED BY <1>2, <2>1 DEF CpuQuiet, CarefulStep
<1> QED BY <1>1, <1>2 DEF Next

LEMMA PathStep ==
  TypeInv /\ ExclusionInv /\ ExclusionInv' /\ PathInv /\ [Next]_vars => PathInv'
<1> SUFFICES ASSUME TypeInv, ExclusionInv, ExclusionInv', PathInv, [Next]_vars,
                    driver'.careful
             PROVE  /\ ChannelFollowsMode' /\ BusFollowsChannel' /\ PromisedIsPending'
                    /\ ReadUnderWay' /\ AnswerIsRight'
  BY DEF PathInv
<1>1. CASE UNCHANGED vars
  <2>1. driver.careful
    BY <1>1 DEF vars
  <2>2. ChannelFollowsMode' /\ AnswerIsRight'
    BY <1>1, <2>1 DEF vars, PathInv, ChannelFollowsMode, AnswerIsRight, ByteAddress
  <2>3. BusFollowsChannel' /\ ReadUnderWay'
    BY <1>1, <2>1 DEF vars, PathInv, BusFollowsChannel, ReadUnderWay, ByteAddress, Presents,
      BusTaken, BusOf
  <2>4. PromisedIsPending'
    <3>1. Pending' = Pending
      BY <1>1 DEF vars, Pending, Presents, RequestOf, BusTaken, BusRequest, ByteAddress
    <3>2. Acceptance' = Acceptance /\ held' = held /\ promised' = promised
      BY <1>1 DEF vars, Acceptance
    <3> QED BY <2>1, <3>1, <3>2 DEF PathInv, PromisedIsPending
  <2> QED BY <2>2, <2>3, <2>4
<1>2. CASE Next
  <2>1. PICK acc \in Accesses \cup {NoAccess} :
          Tick(acc) /\ (driver.careful => CarefulStep(acc))
    BY <1>2, NextIsTick
  <2>2. driver.careful /\ CarefulStep(acc)
    BY <2>1 DEF Tick
  <2>3. TypeOK
    BY DEF TypeInv
  <2>4. /\ ChannelFollowsMode /\ BusFollowsChannel /\ PromisedIsPending
        /\ ReadUnderWay /\ (port.phase = "granted" => held.valid)
    BY <2>2 DEF PathInv, ReadUnderWay
  <2>5. ChannelFollowsMode'
    BY <2>2, <2>3, <2>4, FollowsStep
  <2>6. BusFollowsChannel'
    BY <2>2, <2>3, <2>4, BusFollowsStep
  <2>7. PromisedIsPending'
    BY <2>2, <2>3, <2>4, PromisedStep
  <2>8. ReadUnderWay'
    BY <2>2, <2>3, <2>4, ReadStep
  <2>9. AnswerIsRight'
    BY <2>2, <2>3, <2>4, AnswerStep
  <2> QED BY <2>5, <2>6, <2>7, <2>8, <2>9
<1> QED BY <1>1, <1>2

LEMMA PathPromised == PathInv => TransfersAsPromised
<1> SUFFICES ASSUME PathInv, driver.careful
             PROVE  /\ ready => promised # <<>> /\ Head(promised) = Acceptance
                    /\ ~AnyBusy /\ ~bus.read /\ ~bus.write /\ ~held.valid => promised = <<>>
                    /\ AnswerIsRight
  BY DEF TransfersAsPromised, AnswerIsRight
<1>1. PromisedIsPending
  BY DEF PathInv
<1>2. ready => promised # <<>> /\ Head(promised) = Acceptance
  <2> SUFFICES ASSUME ready
               PROVE  promised # <<>> /\ Head(promised) = Acceptance
    OBVIOUS
  <2>1. held.valid
    BY DEF PathInv, ReadUnderWay, ready
  <2>2. Pending = <<>> \/ \E r : Pending = <<r>>
    BY DEF Pending
  <2>3. promised = <<Acceptance>> \/ \E r : promised = <<Acceptance, r>>
    <3>1. promised = <<Acceptance>> \o Pending
      BY <1>1, <2>1 DEF PromisedIsPending
    <3>2. CASE Pending = <<>>
      BY <3>1, <3>2
    <3>3. CASE \E r : Pending = <<r>>
      BY <3>1, <3>3, Joined
    <3> QED BY <2>2, <3>2, <3>3
  <2> QED BY <2>3
<1>3. ~AnyBusy /\ ~bus.read /\ ~bus.write /\ ~held.valid => promised = <<>>
  BY <1>1 DEF PromisedIsPending, Pending, Presents, AnyBusy, Busy, BusTaken
<1> QED BY <1>2, <1>3 DEF PathInv

\* With a careful CPU the SDRAM accepts what the channels decided on, each request once,
\* in order and with the address and data the channel had then, however long it takes to
\* accept one, and a device that is read to gets the unit at its channel's address
\* (system.sv, hold register and lane selection).
THEOREM AsPromised == Spec => []TransfersAsPromised
<1> USE DEF Spec
<1>1. Spec => [](TypeInv /\ ExclusionInv)
  BY TypeInit, TypeStep, ExclusionInit, ExclusionStep, PTL
<1>2. Spec => []PathInv
  BY <1>1, PathInit, PathStep, PTL
<1> QED BY <1>2, PathPromised, PTL

-----------------------------------------------------------------------------
(* Which requests are served.                                              *)

\* A device asks throughout its transfer, and a request line that is looked at has a
\* device behind it.
DeviceAsks ==
  \A c \in Channels :
    /\ chan[c].ack => chan[c].state = "update"
    /\ chan[c].state \notin {"idle", "finish"} => dev[c].req
    /\ c \in ctl[ChipOf(c)].pending /\ chan[c].state # "finish" => dev[c].req

\* A channel at its end is masked.
EndedIsMasked ==
  ended \subseteq Channels /\ \A c \in ended : c \in ctl[ChipOf(c)].mask /\ chan[c].state \in {"idle", "finish"}

\* A software request asks for a unit that the device did not ask for.
NoSoftwareRequest(accesses) ==
  \A i \in DOMAIN accesses : accesses[i].op = "request" => ~accesses[i].set
NoSoftwareRequests == \A s \in Scenarios : s.careful => NoSoftwareRequest(s.program)

MovesInv == driver.careful => DeviceAsks /\ EndedIsMasked /\ NoSoftwareRequest(program)

\* The controllers an access is for.
LEMMA SelectedIs ==
  ASSUME NEW acc \in Accesses \cup {NoAccess}, NEW k
  PROVE  /\ \A op \in {"master_clear", "clear_mask", "mask_all"} :
              Selected(k, acc, {op}) => acc.op = op /\ acc.chip = k
         /\ \A op \in {"mask", "request"} :
              Selected(k, acc, {op}) => acc.op = op /\ ChipOf(acc.ch) = k
<1>1. /\ acc.op \in {"master_clear", "clear_mask", "mask_all"} => "ch" \notin DOMAIN acc
      /\ acc.op \in {"mask", "request"} => "ch" \in DOMAIN acc
  BY DEF Accesses, NoAccess, None
<1> QED BY <1>1 DEF Selected

\* A device that waits for its transfer keeps asking.
LEMMA DeviceKeepsAsking ==
  ASSUME DevicesMove, NEW c \in Channels, dev[c].req, ~chan[c].ack
  PROVE  dev'[c].req
<1> DEFINE free == {d \in driver.devices : ~Waiting(d)}
<1>1. c \notin free
  BY DEF Waiting
<1>2. PICK asking \in SUBSET free : \E data \in [asking -> driver.data] :
        dev' = [d \in Channels |-> IF d \in asking THEN [req |-> TRUE, data |-> data[d]]
                                   ELSE IF d \in free THEN [req |-> FALSE, data |-> None]
                                   ELSE dev[d]]
  BY DEF DevicesMove
<1> HIDE DEF free
<1>3. dev'[c] = dev[c]
  BY <1>1, <1>2
<1> QED BY <1>3

LEMMA DeviceAsksStep ==
  ASSUME TypeOK, DeviceAsks, NEW acc \in Accesses \cup {NoAccess}, CarefulStep(acc),
         acc.op = "request" => ~acc.set
  PROVE  DeviceAsks'
<1> SUFFICES ASSUME NEW c \in Channels
             PROVE  /\ chan'[c].ack => chan'[c].state = "update"
                    /\ chan'[c].state \notin {"idle", "finish"} => dev'[c].req
                    /\ c \in ctl'[ChipOf(c)].pending /\ chan'[c].state # "finish" => dev'[c].req
  BY DEF DeviceAsks
<1> DEFINE k == ChipOf(c)
<1>1. k \in Chips /\ c \in On(k)
  BY DEF ChipOf, Chips, On
<1>2. chan'[c].ack => chan'[c].state = "update"
  <2>1. chan'[c].ack => \/ chan[c].state = "reading" /\ readdatavalid
                        \/ chan[c].state = "write" /\ ~wait
                        \/ chan[c].state = "verify"
    BY ChannelMoves DEF CarefulStep
  <2> QED BY <2>1, StateMoves
<1>3. chan[c].state # "update" /\ dev[c].req => dev'[c].req
  BY DeviceKeepsAsking DEF CarefulStep, Tick, DeviceAsks
<1>4. chan'[c].state \notin {"idle", "finish"} => dev'[c].req
  <2> SUFFICES ASSUME chan'[c].state \notin {"idle", "finish"}
               PROVE  dev'[c].req
    OBVIOUS
  <2>1. CASE chan[c].state = "idle"
    <3>1. Asks(c)
      BY <2>1, StateMoves DEF Grant
    <3>2. c \in ctl[k].pending
      BY <3>1 DEF Asks
    <3> QED BY <1>3, <2>1, <3>2 DEF DeviceAsks
  <2>2. CASE chan[c].state # "idle"
    <3>1. chan[c].state \notin {"update", "finish"}
      BY StateMoves
    <3> QED BY <1>3, <2>2, <3>1 DEF DeviceAsks
  <2> QED BY <2>1, <2>2
<1>5. c \in ctl'[k].pending /\ chan'[c].state # "finish" => dev'[c].req
  <2> SUFFICES ASSUME c \in ctl'[k].pending, chan'[c].state # "finish"
               PROVE  dev'[c].req
    OBVIOUS
  <2>1. chan[c].state # "update"
    BY StateMoves
  <2>2. ctl'[k] = NextCtl(k, acc)
    BY <1>1 DEF CarefulStep, Tick
  <2>3. c \in NextPending(k, acc)
    BY <2>2 DEF NextCtl
  <2>4. CASE Selected(k, acc, {"request"})
    <3>1. acc.op = "request" /\ ChipOf(acc.ch) = k
      BY <2>4, SelectedIs
    <3>2. chan[c].state # "finish"
      BY <1>1, <3>1 DEF CarefulStep, Careful
    <3>3. c \in ctl[k].pending
      BY <2>3, <2>4, <3>1 DEF NextPending, SetOrClear
    <3> QED BY <1>3, <2>1, <3>2, <3>3 DEF DeviceAsks
  <2>5. CASE ~Selected(k, acc, {"request"})
    <3>1. dev[c].req
      BY <2>3, <2>5 DEF NextPending
    <3> QED BY <1>3, <2>1, <3>1
  <2> QED BY <2>4, <2>5
<1> QED BY <1>2, <1>4, <1>5

LEMMA EndedStep ==
  ASSUME TypeOK, EndedIsMasked, NEW acc \in Accesses \cup {NoAccess}, CarefulStep(acc)
  PROVE  EndedIsMasked'
<1>1. ended' = (ended \ Enables(acc)) \cup {c \in Channels : TC(c) /\ ~chan[c].auto}
  BY DEF CarefulStep, Tick
<1>2. ended' \subseteq Channels
  BY <1>1 DEF EndedIsMasked
<1>3. ASSUME NEW c \in ended'
      PROVE  c \in ctl'[ChipOf(c)].mask /\ chan'[c].state \in {"idle", "finish"}
  <2> DEFINE k == ChipOf(c)
  <2>1. c \in Channels /\ k \in Chips /\ c \in On(k) /\ c \in AllOf(k)
    BY <1>2, <1>3 DEF ChipOf, Chips, On, AllOf
  <2>2. ctl'[k].mask = IF Selected(k, acc, {"master_clear"}) THEN AllOf(k) ELSE NextMask(k, acc)
    <3>1. ctl'[k] = NextCtl(k, acc)
      BY <2>1 DEF CarefulStep, Tick
    <3> QED BY <3>1 DEF NextCtl
  <2>3. /\ \A op \in {"clear_mask", "mask_all"} :
             Selected(k, acc, {op}) => acc.op = op /\ acc.chip = k
        /\ Selected(k, acc, {"mask"}) => acc.op = "mask" /\ ChipOf(acc.ch) = k
    BY SelectedIs
  <2> HIDE DEF k
  <2>4. CASE TC(c) /\ ~chan[c].auto
    <3>1. chan[c].state = "update"
      BY <2>4 DEF TC, Updates
    <3>2. chan'[c].state = "finish"
      BY <2>1, <3>1, StateMoves
    <3>3. /\ acc.op \in {"clear_mask", "mask_all"} => acc.chip # k
          /\ acc.op = "mask" => ChipOf(acc.ch) # k
      BY <2>1, <3>1 DEF CarefulStep, Careful
    <3>4. c \in NextMask(k, acc)
      BY <2>1, <2>3, <2>4, <3>3 DEF NextMask
    <3> QED BY <2>1, <2>2, <3>2, <3>4 DEF k
  <2>5. CASE c \in ended /\ c \notin Enables(acc)
    <3>1. c \in ctl[k].mask /\ chan[c].state \in {"idle", "finish"}
      BY <2>5 DEF EndedIsMasked, k
    <3>2. chan'[c].state = "idle"
      <4>1. ~Grant(c)
        BY <3>1 DEF Grant, Asks, k
      <4> QED BY <2>1, <3>1, <4>1, StateMoves
    <3>3. c \in NextMask(k, acc)
      BY <2>1, <2>3, <2>5, <3>1 DEF NextMask, Enables, SetOrClear
    <3> QED BY <2>1, <2>2, <3>2, <3>3 DEF k
  <2> QED BY <1>1, <1>3, <2>4, <2>5
<1> QED BY <1>2, <1>3 DEF EndedIsMasked

LEMMA MovesInit == NoSoftwareRequests /\ Init => MovesInv
<1> SUFFICES ASSUME NoSoftwareRequests, Init, driver.careful
             PROVE  DeviceAsks /\ EndedIsMasked /\ NoSoftwareRequest(program)
  BY DEF MovesInv
<1>1. NoSoftwareRequest(program)
  BY DEF Init, NoSoftwareRequests
<1>2. \A c \in Channels : ctl[ChipOf(c)].pending = {}
  BY DEF Init, ChipOf, Chips
<1>3. DeviceAsks /\ EndedIsMasked
  BY <1>2 DEF Init, DeviceAsks, EndedIsMasked
<1> QED BY <1>1, <1>3

LEMMA MovesStep == TypeInv /\ MovesInv /\ [Next]_vars => MovesInv'
<1> SUFFICES ASSUME TypeInv, MovesInv, [Next]_vars, driver'.careful
             PROVE  DeviceAsks' /\ EndedIsMasked' /\ NoSoftwareRequest(program)'
  BY DEF MovesInv
<1>1. CASE UNCHANGED vars
  BY <1>1 DEF vars, MovesInv, DeviceAsks, EndedIsMasked, NoSoftwareRequest
<1>2. CASE Next
  <2>1. PICK acc \in Accesses \cup {NoAccess} :
          /\ Tick(acc) /\ (driver.careful => CarefulStep(acc))
          /\ \/ acc = NoAccess /\ program' = program
             \/ program # <<>> /\ acc = Head(program) /\ program' = Tail(program)
    <3>1. CASE CpuAccess
      BY <3>1 DEF CpuAccess, TypeInv, CarefulStep
    <3>2. CASE CpuQuiet
      <4>1. Careful(NoAccess)
        BY DEF Careful, NoAccess, None
      <4> QED BY <3>2, <4>1 DEF CpuQuiet, CarefulStep
    <3> QED BY <1>2, <3>1, <3>2 DEF Next
  <2>2. driver.careful /\ CarefulStep(acc)
    BY <2>1 DEF Tick
  <2>3. DeviceAsks /\ EndedIsMasked /\ NoSoftwareRequest(program) /\ TypeOK
    BY <2>2 DEF MovesInv, TypeInv
  <2>4. program \in Seq(Accesses)
    BY DEF TypeInv
  <2>5. acc.op = "request" => ~acc.set
    <3>1. NoAccess.op # "request"
      BY DEF NoAccess, None
    <3>2. program # <<>> => Head(program) = program[1] /\ 1 \in DOMAIN program
      BY <2>4
    <3> QED BY <2>1, <2>3, <3>1, <3>2 DEF NoSoftwareRequest
  <2>6. NoSoftwareRequest(program)'
    <3>1. CASE program # <<>> /\ program' = Tail(program)
      <4>1. \A i \in DOMAIN program' : i + 1 \in DOMAIN program /\ program'[i] = program[i + 1]
        BY <2>4, <3>1
      <4> QED BY <2>3, <4>1 DEF NoSoftwareRequest
    <3>2. CASE program' = program
      BY <2>3, <3>2 DEF NoSoftwareRequest
    <3> QED BY <2>1, <3>1, <3>2
  <2>7. DeviceAsks'
    BY <2>2, <2>3, <2>5, DeviceAsksStep
  <2>8. EndedIsMasked'
    BY <2>2, <2>3, EndedStep
  <2> QED BY <2>6, <2>7, <2>8
<1> QED BY <1>1, <1>2

\* A device is acknowledged only while it asks (dma.v, pending), unless the CPU makes
\* software requests, and a channel without auto-reload stops at its terminal count until
\* the CPU enables it again (mask <= mask | (tc & ~auto)).
THEOREM NoUnitMore ==
  ASSUME NoSoftwareRequests
  PROVE  Spec => []MovesNoMore
<1>1. MovesInv => MovesNoMore
  BY DEF MovesInv, MovesNoMore, DeviceAsks, EndedIsMasked
<1> QED BY TypeInit, TypeStep, MovesInit, MovesStep, <1>1, PTL DEF Spec

-----------------------------------------------------------------------------
(* Address and count.                                                      *)

\* A channel is as far from its base address as from its base count.
Moved(c) == IF chan[c].dec THEN chan[c].base_address - chan[c].address
            ELSE chan[c].address - chan[c].base_address
InStep(c) == Moved(c) % Span = (chan[c].base_count - chan[c].count) % Span
Enabled(c) == c \notin ctl[ChipOf(c)].mask

\* The accesses that enable a channel or write a register of it.
Touches(acc, c) ==
  \/ \E op \in {"address", "count", "mode"} : Addressed(c, acc, op)
  \/ c \in Enables(acc)

\* A careful CPU writes whole registers: what it does to a channel leaves the channel
\* masked or its address and count in step. A byte of a register without the other, and
\* an address without a count, are written to masked channels only.
SetsUpWhole ==
  [][program' # program /\ driver.careful =>
       \A c \in Channels : Touches(Head(program), c) /\ Enabled(c)' => InStep(c)']_vars

BlockInv == driver.careful => \A c \in Channels : Enabled(c) => InStep(c)

\* The remainder of a difference of two 16-bit registers, and of a register counted on.
LEMMA Remainder ==
  ASSUME NEW x \in Int, -Span <= x, x <= Span
  PROVE  x % Span = IF x = Span THEN 0 ELSE IF x >= 0 THEN x ELSE x + Span
<1>1. Span \in Nat \ {0}
  BY SpanType
<1> DEFINE n == Span
           q == x \div n
           r == x % n
<1> HIDE DEF n
<1>2. n \in Nat /\ n > 0 /\ -n <= x /\ x <= n
  BY <1>1 DEF n
<1>3. q \in Int /\ r \in Int /\ 0 <= r /\ r < n /\ x = n * q + r
  BY <1>2
<1> HIDE DEF q, r
<1>4. q >= 2 => n * q >= 2 * n
  BY <1>2, <1>3
<1>5. q <= -2 => n * q <= -2 * n
  BY <1>2, <1>3
<1>6. q \in {-1, 0, 1}
  BY <1>2, <1>3, <1>4, <1>5
<1>7. n * q \in {-n, 0, n} /\ (q = 0 => n * q = 0) /\ (q = 1 => n * q = n) /\ (q = -1 => n * q = -n)
  BY <1>2, <1>3, <1>6
<1>8. r = IF x = n THEN 0 ELSE IF x >= 0 THEN x ELSE x + n
  BY <1>2, <1>3, <1>6, <1>7
<1> QED BY <1>8 DEF r, n

\* One unit more in each direction moves address and count alike.
LEMMA StepsTogether ==
  ASSUME NEW a \in 0..(Span - 1), NEW base \in 0..(Span - 1),
         NEW n \in 0..(Span - 1), NEW top \in 0..(Span - 1)
  PROVE  /\ (a - base) % Span = (top - n) % Span =>
              (((a + 1) % Span) - base) % Span = (top - ((n - 1) % Span)) % Span
         /\ (base - a) % Span = (top - n) % Span =>
              (base - ((a - 1) % Span)) % Span = (top - ((n - 1) % Span)) % Span
<1> DEFINE s == Span
           rem(x) == IF x = s THEN 0 ELSE IF x >= 0 THEN x ELSE x + s
<1>1. s \in Nat /\ s > 0 /\ a \in 0..(s - 1) /\ base \in 0..(s - 1) /\ n \in 0..(s - 1) /\ top \in 0..(s - 1)
  BY SpanType
<1>2. \A x \in Int : -s <= x /\ x <= s => x % Span = rem(x)
  BY Remainder
<1> HIDE DEF s
<1>3. /\ (a - base) % Span = rem(a - base)
      /\ (base - a) % Span = rem(base - a)
      /\ (top - n) % Span = rem(top - n)
      /\ (a + 1) % Span = rem(a + 1)
      /\ (a - 1) % Span = rem(a - 1)
      /\ (n - 1) % Span = rem(n - 1)
  BY <1>1, <1>2
<1>4. rem(a + 1) \in 0..(s - 1) /\ rem(a - 1) \in 0..(s - 1) /\ rem(n - 1) \in 0..(s - 1)
  BY <1>1
<1>5. /\ (rem(a + 1) - base) % Span = rem(rem(a + 1) - base)
      /\ (base - rem(a - 1)) % Span = rem(base - rem(a - 1))
      /\ (top - rem(n - 1)) % Span = rem(top - rem(n - 1))
  <2> HIDE DEF rem
  <2> QED BY <1>1, <1>2, <1>4
<1>6. rem(a - base) = rem(top - n) => rem(rem(a + 1) - base) = rem(top - rem(n - 1))
  BY <1>1
<1>7. rem(base - a) = rem(top - n) => rem(base - rem(a - 1)) = rem(top - rem(n - 1))
  BY <1>1
<1> HIDE DEF rem
<1>8. /\ (((a + 1) % Span) - base) % Span = rem(rem(a + 1) - base)
      /\ (base - ((a - 1) % Span)) % Span = rem(base - rem(a - 1))
      /\ (top - ((n - 1) % Span)) % Span = rem(top - rem(n - 1))
  BY <1>3, <1>5, Zenon
<1>9. (a - base) % Span = (top - n) % Span =>
        (((a + 1) % Span) - base) % Span = (top - ((n - 1) % Span)) % Span
  BY <1>3, <1>6, <1>8, Zenon
<1>10. (base - a) % Span = (top - n) % Span =>
         (base - ((a - 1) % Span)) % Span = (top - ((n - 1) % Span)) % Span
  BY <1>3, <1>7, <1>8, Zenon
<1> QED BY <1>9, <1>10, Zenon

\* An access that does not touch a channel enables none and writes none of its registers.
LEMMA UntouchedStep ==
  ASSUME TypeOK, NEW acc \in Accesses \cup {NoAccess}, NEW c \in Channels, Tick(acc),
         ~Touches(acc, c), Enabled(c)'
  PROVE  /\ Enabled(c)
         /\ chan'[c].base_address = chan[c].base_address
         /\ chan'[c].base_count = chan[c].base_count
         /\ chan'[c].dec = chan[c].dec
         /\ \/ /\ chan'[c].address = chan[c].base_address
               /\ chan'[c].count = chan[c].base_count
            \/ /\ chan'[c].address = IF chan[c].dec THEN (chan[c].address - 1) % Span
                                      ELSE (chan[c].address + 1) % Span
               /\ chan'[c].count = (chan[c].count - 1) % Span
            \/ chan'[c].address = chan[c].address /\ chan'[c].count = chan[c].count
<1>1. ~Addressed(c, acc, "address") /\ ~Addressed(c, acc, "count") /\ ~Addressed(c, acc, "mode")
  BY DEF Touches
<1>2. c \notin Enables(acc)
  BY DEF Touches
<1>3. chan'[c] = NextChan(c, acc)
  BY DEF Tick
<1>4. Enabled(c)
  <2> DEFINE k == ChipOf(c)
  <2>1. k \in Chips /\ c \in On(k) /\ c \in AllOf(k)
    BY DEF ChipOf, Chips, On, AllOf
  <2>2. ctl'[k].mask = IF Selected(k, acc, {"master_clear"}) THEN AllOf(k) ELSE NextMask(k, acc)
    <3>1. ctl'[k] = NextCtl(k, acc)
      BY <2>1 DEF Tick
    <3> QED BY <3>1 DEF NextCtl
  <2>3. /\ \A op \in {"clear_mask", "mask_all"} :
             Selected(k, acc, {op}) => acc.op = op /\ acc.chip = k
        /\ Selected(k, acc, {"mask"}) => acc.op = "mask" /\ ChipOf(acc.ch) = k
    BY SelectedIs
  <2> HIDE DEF k
  <2>4. c \notin NextMask(k, acc)
    BY <2>1, <2>2 DEF Enabled, k
  <2>5. ~Selected(k, acc, {"clear_mask"})
    BY <1>2, <2>1, <2>3 DEF Enables
  <2>6. Selected(k, acc, {"mask_all"}) => c \in acc.masked
    BY <1>2, <2>1, <2>3 DEF Enables
  <2>7. Selected(k, acc, {"mask"}) /\ ~acc.set => acc.ch # c
    BY <1>2, <2>3 DEF Enables
  <2>8. c \notin ctl[k].mask
    BY <2>1, <2>4, <2>5, <2>6, <2>7 DEF NextMask, SetOrClear
  <2> QED BY <2>8 DEF Enabled, k
<1>5. /\ chan'[c].base_address = chan[c].base_address
      /\ chan'[c].base_count = chan[c].base_count
      /\ chan'[c].dec = chan[c].dec
      /\ chan'[c].address = NextAddress(c, acc)
      /\ chan'[c].count = NextCount(c, acc)
  BY <1>1, <1>3 DEF NextChan
<1>6. CASE TC(c) /\ chan[c].auto
  BY <1>1, <1>4, <1>5, <1>6 DEF NextAddress, NextCount
<1>7. CASE ~(TC(c) /\ chan[c].auto) /\ Updates(c)
  BY <1>1, <1>4, <1>5, <1>7 DEF NextAddress, NextCount
<1>8. CASE ~(TC(c) /\ chan[c].auto) /\ ~Updates(c)
  BY <1>1, <1>4, <1>5, <1>8 DEF NextAddress, NextCount
<1> QED BY <1>6, <1>7, <1>8

LEMMA BlockStep ==
  /\ TypeInv /\ BlockInv /\ [Next]_vars
  /\ [program' # program /\ driver.careful =>
        \A c \in Channels : Touches(Head(program), c) /\ Enabled(c)' => InStep(c)']_vars
  => BlockInv'
<1> SUFFICES ASSUME TypeInv, BlockInv, [Next]_vars,
                    [program' # program /\ driver.careful =>
                       \A c \in Channels : Touches(Head(program), c) /\ Enabled(c)' => InStep(c)']_vars,
                    driver'.careful, NEW c \in Channels, Enabled(c)'
             PROVE  InStep(c)'
  BY DEF BlockInv
<1>1. CASE UNCHANGED vars
  <2>1. Enabled(c) /\ driver.careful
    BY <1>1 DEF vars, Enabled
  <2>2. InStep(c)
    BY <2>1 DEF BlockInv
  <2> QED BY <1>1, <2>2 DEF vars, InStep, Moved
<1>2. CASE Next /\ ~UNCHANGED vars
  <2>1. PICK acc \in Accesses \cup {NoAccess} :
          /\ Tick(acc)
          /\ \/ acc = NoAccess
             \/ program # <<>> /\ acc = Head(program) /\ program' = Tail(program)
    <3>1. CASE CpuAccess
      BY <3>1 DEF CpuAccess, TypeInv
    <3>2. CASE CpuQuiet
      BY <3>2 DEF CpuQuiet
    <3> QED BY <1>2, <3>1, <3>2 DEF Next
  <2>2. driver.careful
    BY <2>1 DEF Tick
  <2>3. CASE Touches(acc, c)
    <3>1. ~Touches(NoAccess, c)
      BY DEF Touches, Addressed, Enables, NoAccess, None
    <3>2. program' # program /\ acc = Head(program)
      <4>1. program \in Seq(Accesses)
        BY DEF TypeInv
      <4>2. program # <<>> => Len(Tail(program)) # Len(program)
        BY <4>1
      <4> QED BY <2>1, <2>3, <3>1, <4>2
    <3> QED BY <1>2, <2>2, <2>3, <3>2
  <2>4. CASE ~Touches(acc, c)
    <3>1. TypeOK
      BY DEF TypeInv
    <3>2. Enabled(c)
      BY <2>1, <2>4, <3>1, UntouchedStep
    <3>3. InStep(c)
      BY <2>2, <3>2 DEF BlockInv
    <3> DEFINE ch == chan[c]
               new == chan'[c]
    <3>4. ch \in ChannelType
      BY <3>1 DEF TypeOK
    <3>5. /\ ch.address \in 0..(Span - 1) /\ ch.base_address \in 0..(Span - 1)
          /\ ch.count \in 0..(Span - 1) /\ ch.base_count \in 0..(Span - 1)
      BY <3>4 DEF ChannelType
    <3>6. /\ new.base_address = ch.base_address /\ new.base_count = ch.base_count
          /\ new.dec = ch.dec
          /\ \/ new.address = ch.base_address /\ new.count = ch.base_count
             \/ /\ new.address = IF ch.dec THEN (ch.address - 1) % Span ELSE (ch.address + 1) % Span
                /\ new.count = (ch.count - 1) % Span
             \/ new.address = ch.address /\ new.count = ch.count
      BY <2>1, <2>4, <3>1, UntouchedStep
    <3>7. (IF ch.dec THEN ch.base_address - ch.address ELSE ch.address - ch.base_address) % Span
            = (ch.base_count - ch.count) % Span
      BY <3>3 DEF InStep, Moved
    <3>8. SUFFICES (IF new.dec THEN new.base_address - new.address
                    ELSE new.address - new.base_address) % Span
                     = (new.base_count - new.count) % Span
      BY DEF InStep, Moved
    <3> HIDE DEF ch, new
    <3>9. CASE new.address = ch.base_address /\ new.count = ch.base_count
      BY <3>5, <3>6, <3>9
    <3>10. CASE new.address = ch.address /\ new.count = ch.count
      BY <3>6, <3>7, <3>10
    <3>11. CASE /\ new.address = IF ch.dec THEN (ch.address - 1) % Span ELSE (ch.address + 1) % Span
                /\ new.count = (ch.count - 1) % Span
      <4>1. CASE ch.dec
        <5>1. (ch.base_address - ch.address) % Span = (ch.base_count - ch.count) % Span
          BY <3>7, <4>1
        <5>2. (ch.base_address - ((ch.address - 1) % Span)) % Span
                = (ch.base_count - ((ch.count - 1) % Span)) % Span
          BY <3>5, <5>1, StepsTogether
        <5>3. /\ new.dec /\ new.base_address = ch.base_address /\ new.base_count = ch.base_count
              /\ new.address = (ch.address - 1) % Span /\ new.count = (ch.count - 1) % Span
          BY <3>6, <3>11, <4>1
        <5> QED BY <5>2, <5>3, Zenon
      <4>2. CASE ~ch.dec
        <5>1. (ch.address - ch.base_address) % Span = (ch.base_count - ch.count) % Span
          BY <3>7, <4>2
        <5>2. (((ch.address + 1) % Span) - ch.base_address) % Span
                = (ch.base_count - ((ch.count - 1) % Span)) % Span
          BY <3>5, <5>1, StepsTogether
        <5>3. /\ ~new.dec /\ new.base_address = ch.base_address /\ new.base_count = ch.base_count
              /\ new.address = (ch.address + 1) % Span /\ new.count = (ch.count - 1) % Span
          BY <3>6, <3>11, <4>2
        <5> QED BY <5>2, <5>3, Zenon
      <4> QED BY <4>1, <4>2
    <3> QED BY <3>6, <3>9, <3>10, <3>11
  <2> QED BY <2>3, <2>4
<1> QED BY <1>1, <1>2

\* A channel that is enabled stays as far from its base address as from its base count,
\* whatever it transfers, in which direction, and however often it reloads (dma.v,
\* current_address and current_counter), when the CPU sets its channels up whole.
THEOREM BlockKept == Spec /\ SetsUpWhole => []BlockAddressing
<1>1. Init => BlockInv
  <2>1. Init => \A c \in Channels : ~Enabled(c)
    BY DEF Init, Enabled, ChipOf, Chips, AllOf, On
  <2> QED BY <2>1 DEF BlockInv
<1>2. BlockInv => BlockAddressing
  BY DEF BlockInv, BlockAddressing, Enabled, InStep, Moved
<1> QED BY <1>1, <1>2, TypeInit, TypeStep, BlockStep, PTL DEF Spec, SetsUpWhole

=============================================================================
