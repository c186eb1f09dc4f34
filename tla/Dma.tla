-------------------------------- MODULE Dma --------------------------------
(***************************************************************************)
(* The DMA subsystem: the two i8237 controllers and their channels         *)
(* (src/src/soc/dma.v) and the register of src/src/system.sv that holds    *)
(* their memory request until the SDRAM takes it.                          *)
(*                                                                         *)
(* One step is one rising edge of clk: every register takes its next value *)
(* at once.  External: the CPU, which performs the register accesses of a  *)
(* program in order, when it likes; the devices, which raise a request and *)
(* keep it until it is acknowledged; and SDRAM port 1, which is what       *)
(* AtomicMemory promises (one request at a time, accepted a clock or more  *)
(* after it is presented, a read answered a clock or more after that).     *)
(*                                                                         *)
(* Abstractions.  A register byte has Radix values.  An access is named by *)
(* what it does, not by its port; all that is modelled of reading an       *)
(* address or count register is the flip-flop.  What memory returns is the *)
(* identity of the location read: the dword the SDRAM was asked for and    *)
(* the lane the hold register selects.  A register the code clears or      *)
(* rewrites before it is read again keeps no value: dma_address beside an  *)
(* idle bus, the held request once accepted.                               *)
(* Name_How is Name with a bug in it.                                      *)
(***************************************************************************)
EXTENDS Integers, Sequences, FiniteSets

CONSTANTS
  Channels,  \* the channels in use: 0..3 on the slave (8 bit), 5..7 on the master
  Radix,     \* the values of a register byte: 256
  Pages,     \* the values of a page register
  Data,      \* what a device may write
  Scenarios  \* what the CPU does to the controllers, a set of records
             \*   program: the register accesses it performs
             \*   careful: it keeps clear of the races of those with the channels
             \*   devices: the channels whose device asks for transfers
             \*   data: what they write, of Data

None == "none"
Chips == {0, 1}                            \* dma_sla, dma_mas
ChipOf(c) == IF c < 4 THEN 0 ELSE 1
On(k) == {c \in Channels : ChipOf(c) = k}
Span == Radix * Radix                      \* the values of a 16-bit register

\* What the CPU may do to chip k or channel c.
Accesses ==
  [op : {"address", "count"}, ch : Channels, byte : 0..(Radix - 1)]
  \cup [op : {"mode"}, ch : Channels, transfer : 0..3, auto : BOOLEAN, dec : BOOLEAN]
  \cup [op : {"mask", "request"}, ch : Channels, set : BOOLEAN]
  \cup [op : {"page"}, ch : Channels, page : Pages]
  \cup [op : {"disable"}, chip : Chips, value : BOOLEAN]
  \cup [op : {"mask_all"}, chip : Chips, masked : SUBSET (Channels \cup {4})]
  \cup [op : {"clear_mask", "clear_flip_flop", "master_clear", "status", "read"}, chip : Chips]
NoAccess == [op |-> None]

ASSUME ChannelsAssumption == Channels \subseteq (0..7) \ {4} /\ Channels # {}
ASSUME RadixAssumption == Radix \in Nat \ {0}
ASSUME PagesAssumption == Pages \subseteq Nat /\ 0 \in Pages
ASSUME ScenariosAssumption ==
  \A s \in Scenarios :
    /\ s.program \in Seq(Accesses) /\ s.careful \in BOOLEAN
    /\ s.devices \subseteq Channels /\ s.data \subseteq Data

VARIABLES
  chan,      \* i8237_chan, one per channel
  ctl,       \* i8237: flip_flop, disabled, pending, mask, terminated
  page,      \* sla_page, mas_page
  bus,       \* mem_address .. mem_writedata, the registered request
  held,      \* dma_held_*
  mem_wr,    \* dma_mem_wr
  port,      \* external: SDRAM port 1, and the address it is busy with
  dev,       \* external: dev[c].req, and the data the device offers
  program,   \* external: what the CPU has yet to do
  driver,    \* external: the rest of the scenario, fixed
  promised,  \* history: the requests the channels have decided on, not yet accepted
  ended      \* history: the channels that reached terminal count since they were enabled

vars == <<chan, ctl, page, bus, held, mem_wr, port, dev, program, driver, promised, ended>>

-----------------------------------------------------------------------------
(* Lanes of a dword (system.sv, dma_mem_be .. dma_readdata).               *)

MemLane(addr) == addr % 4
WordLane(addr) == IF (addr \div 2) % 2 = 1 THEN 2 ELSE 0
ByteEnable(addr, wide) ==
  IF wide THEN {WordLane(addr), WordLane(addr) + 1} ELSE {MemLane(addr)}
\* The bytes of d (0 low, 1 high) put on the lanes they are written to.
WriteLanes(addr, wide, d) ==
  IF wide THEN [i \in 0..3 |-> IF i = WordLane(addr) THEN d[0]
                               ELSE IF i = WordLane(addr) + 1 THEN d[1] ELSE 0]
  ELSE [i \in 0..3 |-> IF i = MemLane(addr) THEN d[0] ELSE 0]
ReadLanes(addr, wide, dword) ==
  IF wide THEN [i \in {0, 1} |-> dword[WordLane(addr) + i]]
  ELSE [i \in {0, 1} |-> IF i = 0 THEN dword[MemLane(addr)] ELSE 0]

-----------------------------------------------------------------------------
(* Wires.                                                                  *)

Busy(c) == chan[c].state # "idle"
AnyBusy == \E c \in Channels : Busy(c)

ready == port.phase = "granted"
wait == held.valid /\ ~ready
readdatavalid == port.phase = "answer" /\ ~mem_wr
readdata == [dword |-> port.addr \div 4, lane |-> held.addr % 4]

\* update and tc of a channel
Updates(c) == chan[c].state = "update"
TC(c) == Updates(c) /\ chan[c].count = 0

\* The chip's request lines, and the one channel granted while none is busy.
Muted(c) == ctl[1].disabled \/ (ChipOf(c) = 0 /\ (ctl[0].disabled \/ 4 \in ctl[1].mask))
Asks(c) == c \in ctl[ChipOf(c)].pending \ ctl[ChipOf(c)].mask /\ ~Muted(c)
Grant_Busy(c) == Asks(c) /\ \A d \in Channels : d < c => ~Asks(d)
Grant_Last(c) == ~AnyBusy /\ Asks(c) /\ \A d \in Channels : d > c => ~Asks(d)
Grant(c) == ~AnyBusy /\ Asks(c) /\ \A d \in Channels : d < c => ~Asks(d)

\* The byte address of a channel's access.
ByteAddress(c, a) ==
  IF ChipOf(c) = 1 THEN (page[c] \div 2) * 2 * Span + 2 * a ELSE page[c] * Span + a

-----------------------------------------------------------------------------
(* One channel.                                                            *)

\* The other byte of a register is kept.
ByteWritten(old, k, b) ==
  IF ctl[k].flip_flop THEN b * Radix + (old % Radix) ELSE (old \div Radix) * Radix + b

Addressed(c, acc, op) == acc.op = op /\ acc.ch = c

NextState(c, acc) ==
  LET s == chan[c].state IN
  IF acc.op = "master_clear" /\ acc.chip = ChipOf(c) THEN "idle"
  ELSE CASE s = "idle"    -> IF Grant(c) THEN "start" ELSE s
         [] s = "start"   -> IF chan[c].transfer = 2 THEN "read"
                             ELSE IF chan[c].transfer = 1 THEN "write" ELSE "verify"
         [] s = "read"    -> IF wait THEN s ELSE "reading"
         [] s = "reading" -> IF readdatavalid THEN "update" ELSE s
         [] s = "write"   -> IF wait THEN s ELSE "update"
         [] s = "verify"  -> "update"
         [] s = "update"  -> "finish"
         [] s = "finish"  -> "idle"

NextAddress_NoReload(c, acc) ==
  LET a == chan[c].address IN
  IF Addressed(c, acc, "address") THEN ByteWritten(a, ChipOf(c), acc.byte)
  ELSE IF ~Updates(c) THEN a
  ELSE IF chan[c].dec THEN (a - 1) % Span ELSE (a + 1) % Span
NextAddress(c, acc) ==
  LET a == chan[c].address IN
  IF Addressed(c, acc, "address") THEN ByteWritten(a, ChipOf(c), acc.byte)
  ELSE IF TC(c) /\ chan[c].auto THEN chan[c].base_address
  ELSE IF ~Updates(c) THEN a
  ELSE IF chan[c].dec THEN (a - 1) % Span ELSE (a + 1) % Span

NextCount(c, acc) ==
  LET n == chan[c].count IN
  IF Addressed(c, acc, "count") THEN ByteWritten(n, ChipOf(c), acc.byte)
  ELSE IF TC(c) /\ chan[c].auto THEN chan[c].base_count
  ELSE IF Updates(c) THEN (n - 1) % Span
  ELSE n

\* dma_address, dma_write, dma_writedata, dma_read: the channel's request.
NoRequest == [addr |-> 0, write |-> FALSE, data |-> None, read |-> FALSE]
NextRequest(c) ==
  LET s == chan[c].state
      q == chan[c].request
  IN  CASE s = "idle" -> NoRequest
        [] s = "start" -> [addr |-> chan[c].address,
                           read |-> chan[c].transfer = 2,
                           write |-> chan[c].transfer = 1,
                           data |-> IF chan[c].transfer = 1 THEN dev[c].data ELSE None]
        [] s = "read" /\ ~wait -> [q EXCEPT !.read = FALSE]
        [] s = "write" /\ ~wait -> [q EXCEPT !.write = FALSE]
        [] OTHER -> q

NextChan(c, acc) ==
  LET s    == chan[c]
      mode == Addressed(c, acc, "mode")
  IN  [state        |-> NextState(c, acc),
       request      |-> NextRequest(c),
       ack          |-> \/ s.state = "reading" /\ readdatavalid
                        \/ s.state = "write" /\ ~wait
                        \/ s.state = "verify",
       ack_data     |-> IF s.state = "reading" /\ readdatavalid THEN readdata ELSE s.ack_data,
       address      |-> NextAddress(c, acc),
       count        |-> NextCount(c, acc),
       base_address |-> IF Addressed(c, acc, "address")
                        THEN ByteWritten(s.base_address, ChipOf(c), acc.byte) ELSE s.base_address,
       base_count   |-> IF Addressed(c, acc, "count")
                        THEN ByteWritten(s.base_count, ChipOf(c), acc.byte) ELSE s.base_count,
       transfer     |-> IF mode THEN acc.transfer ELSE s.transfer,
       auto         |-> IF mode THEN acc.auto ELSE s.auto,
       dec          |-> IF mode THEN acc.dec ELSE s.dec]

-----------------------------------------------------------------------------
(* One controller.                                                         *)

Selected(k, acc, ops) ==
  /\ acc.op \in ops
  /\ IF "ch" \in DOMAIN acc THEN ChipOf(acc.ch) = k ELSE acc.chip = k

SetOrClear(set, acc) == IF acc.set THEN set \cup {acc.ch} ELSE set \ {acc.ch}

\* The cascade channel 4 has a mask bit and no request.
AllOf(k) == IF k = 1 THEN On(1) \cup {4} ELSE On(0)

\* A terminal count masks its channel, unless the CPU writes the mask just then.
NextMask_NoTC(k, acc) ==
  IF Selected(k, acc, {"clear_mask"}) THEN {}
  ELSE IF Selected(k, acc, {"mask_all"}) THEN acc.masked \cap AllOf(k)
  ELSE IF Selected(k, acc, {"mask"}) THEN SetOrClear(ctl[k].mask, acc)
  ELSE ctl[k].mask
NextMask(k, acc) ==
  IF Selected(k, acc, {"clear_mask"}) THEN {}
  ELSE IF Selected(k, acc, {"mask_all"}) THEN acc.masked \cap AllOf(k)
  ELSE IF Selected(k, acc, {"mask"}) THEN SetOrClear(ctl[k].mask, acc)
  ELSE ctl[k].mask \cup {c \in On(k) : TC(c) /\ ~chan[c].auto}

\* The request lines are sampled, unless the CPU writes a software request.
NextPending(k, acc) ==
  IF Selected(k, acc, {"request"}) THEN SetOrClear(ctl[k].pending, acc)
  ELSE {c \in On(k) : dev[c].req}

NextCtl(k, acc) ==
  IF Selected(k, acc, {"master_clear"})
  THEN [flip_flop |-> FALSE, disabled |-> FALSE, pending |-> {}, mask |-> AllOf(k),
        terminated |-> {}]
  ELSE [flip_flop  |-> IF Selected(k, acc, {"clear_flip_flop"}) THEN FALSE
                       ELSE IF Selected(k, acc, {"address", "count", "read"}) THEN ~ctl[k].flip_flop
                       ELSE ctl[k].flip_flop,
        disabled   |-> IF Selected(k, acc, {"disable"}) THEN acc.value ELSE ctl[k].disabled,
        pending    |-> NextPending(k, acc),
        mask       |-> NextMask(k, acc),
        terminated |-> IF Selected(k, acc, {"status"}) THEN {}
                       ELSE ctl[k].terminated \cup {c \in On(k) : TC(c)}]

-----------------------------------------------------------------------------
(* The request bus, the hold register, and what is outside.                *)

\* The chip's outputs are the OR of its channels': one channel at most drives them.
Drivers(k) == {c \in On(k) : chan[c].request # NoRequest}
Driven(k) == IF Drivers(k) = {} THEN NoRequest
             ELSE chan[CHOOSE c \in Drivers(k) : TRUE].request
BusyChip == IF \E c \in On(1) : Busy(c) THEN 1 ELSE 0
BusyOn(k) == CHOOSE c \in On(k) : Busy(c)

NoBus == [addr |-> 0, wide |-> FALSE, write |-> FALSE, read |-> FALSE, data |-> None]
NextBus ==
  IF ~AnyBusy THEN NoBus
  ELSE LET q == Driven(BusyChip)
       IN  IF ~q.read /\ ~q.write THEN NoBus
           ELSE [addr |-> ByteAddress(BusyOn(BusyChip), q.addr), wide |-> BusyChip = 1,
                 write |-> q.write, read |-> q.read, data |-> q.data]

\* The hold register keeps a request until the SDRAM accepts it. Its address and
\* width stay, to select the lanes of the answer; without an answer to come they
\* are not read again.
Capture_Over == bus.read \/ bus.write
Capture == (bus.read \/ bus.write) /\ ~held.valid
NextHeld ==
  IF held.valid /\ ready THEN [held EXCEPT !.valid = FALSE, !.data = None]
  ELSE IF Capture THEN [valid |-> TRUE, wr |-> bus.write, addr |-> bus.addr,
                        wide |-> bus.wide, data |-> bus.data]
  ELSE held

\* SDRAM port 1.
PortStep ==
  \/ port.phase \in {"idle", "reading"} /\ port' = port
  \/ port.phase = "idle" /\ held.valid /\ port' = [phase |-> "granted", addr |-> 0]
  \/ port.phase = "granted" /\ held.wr /\ port' = [phase |-> "idle", addr |-> 0]
  \/ port.phase = "granted" /\ ~held.wr /\ port' = [phase |-> "reading", addr |-> held.addr]
  \/ port.phase = "reading" /\ port' = [phase |-> "answer", addr |-> port.addr]
  \/ port.phase = "answer" /\ port' = [phase |-> "idle", addr |-> 0]

\* A device keeps its request until acknowledged, and may then have another.
Waiting(c) == dev[c].req /\ ~chan[c].ack
DevicesMove ==
  LET free == {c \in driver.devices : ~Waiting(c)}
  IN  \E asking \in SUBSET free : \E data \in [asking -> driver.data] :
        dev' = [c \in Channels |-> IF c \in asking THEN [req |-> TRUE, data |-> data[c]]
                                   ELSE IF c \in free THEN [req |-> FALSE, data |-> None]
                                   ELSE dev[c]]

Acceptance == [wr |-> held.wr, addr |-> held.addr, wide |-> held.wide, data |-> held.data]

\* A channel decides on a memory request in the step that leaves start.
Promises(c) ==
  IF chan[c].state # "start" \/ chan[c].transfer \notin {1, 2} THEN <<>>
  ELSE <<[wr   |-> chan[c].transfer = 1,
          addr |-> ByteAddress(c, chan[c].address),
          wide |-> ChipOf(c) = 1,
          data |-> IF chan[c].transfer = 1 THEN dev[c].data ELSE None]>>
Promised == IF \E c \in Channels : Promises(c) # <<>>
            THEN Promises(CHOOSE c \in Channels : Promises(c) # <<>>) ELSE <<>>

\* The channels an access enables.
Enables(acc) ==
  CASE acc.op = "mask" /\ ~acc.set -> {acc.ch}
    [] acc.op = "clear_mask" -> On(acc.chip)
    [] acc.op = "mask_all" -> On(acc.chip) \ acc.masked
    [] OTHER -> {}

Tick(acc) ==
  /\ chan' = [c \in Channels |-> NextChan(c, acc)]
  /\ ctl' = [k \in Chips |-> NextCtl(k, acc)]
  /\ page' = IF acc.op = "page" THEN [page EXCEPT ![acc.ch] = acc.page] ELSE page
  /\ bus' = NextBus
  /\ held' = NextHeld
  /\ mem_wr' = IF ready THEN held.wr ELSE mem_wr
  /\ PortStep
  /\ DevicesMove
  /\ driver' = driver
  /\ promised' = (IF ready /\ promised # <<>> THEN Tail(promised) ELSE promised) \o Promised
  /\ ended' = (ended \ Enables(acc)) \cup {c \in Channels : TC(c) /\ ~chan[c].auto}

\* The accesses a careful driver keeps away from a transfer that is under way: the
\* controller is quiet when it is reset, a channel is quiet when it is programmed,
\* and no unit is just ending when a mask or software request is written.
Careful(acc) ==
  CASE acc.op = "master_clear" -> \A c \in On(acc.chip) : ~Busy(c)
    [] acc.op \in {"address", "count", "page", "mode"} -> ~Busy(acc.ch)
    [] acc.op \in {"mask", "request"} ->
         \A c \in On(ChipOf(acc.ch)) : chan[c].state \notin {"update", "finish"}
    [] acc.op \in {"clear_mask", "mask_all"} ->
         \A c \in On(acc.chip) : chan[c].state \notin {"update", "finish"}
    [] OTHER -> TRUE

CpuAccess ==
  /\ program # <<>>
  /\ driver.careful => Careful(Head(program))
  /\ Tick(Head(program))
  /\ program' = Tail(program)

CpuQuiet == Tick(NoAccess) /\ UNCHANGED program

Init ==
  /\ chan = [c \in Channels |->
       [state |-> "idle", request |-> NoRequest, ack |-> FALSE,
        ack_data |-> [dword |-> 0, lane |-> 0], address |-> 0, count |-> 0,
        base_address |-> 0, base_count |-> 0, transfer |-> 0, auto |-> FALSE, dec |-> FALSE]]
  /\ ctl = [k \in Chips |-> [flip_flop |-> FALSE, disabled |-> FALSE, pending |-> {},
                             mask |-> AllOf(k), terminated |-> {}]]
  /\ page = [c \in Channels |-> 0]
  /\ bus = NoBus
  /\ held = [valid |-> FALSE, wr |-> FALSE, addr |-> 0, wide |-> FALSE, data |-> None]
  /\ mem_wr = FALSE
  /\ port = [phase |-> "idle", addr |-> 0]
  /\ dev = [c \in Channels |-> [req |-> FALSE, data |-> None]]
  /\ \E s \in Scenarios :
       program = s.program /\ driver = [careful |-> s.careful, devices |-> s.devices, data |-> s.data]
  /\ promised = <<>> /\ ended = {}

Next == CpuAccess \/ CpuQuiet

Spec == Init /\ [][Next]_vars

\* The clock runs.
FairSpec == Spec /\ WF_vars(Next)

-----------------------------------------------------------------------------
States == {"idle", "start", "read", "reading", "write", "verify", "update", "finish"}
RequestType == [addr : 0..(Span - 1), write : BOOLEAN, data : Data \cup {None}, read : BOOLEAN]

ChannelType ==
  [state : States, request : RequestType, ack : BOOLEAN,
   ack_data : [dword : Nat, lane : 0..3],
   address : 0..(Span - 1), count : 0..(Span - 1),
   base_address : 0..(Span - 1), base_count : 0..(Span - 1),
   transfer : 0..3, auto : BOOLEAN, dec : BOOLEAN]
ControllerType ==
  [flip_flop : BOOLEAN, disabled : BOOLEAN, pending : SUBSET Channels,
   mask : SUBSET (Channels \cup {4}), terminated : SUBSET Channels]

TypeOK ==
  /\ chan \in [Channels -> ChannelType]
  /\ ctl \in [Chips -> ControllerType]
  /\ page \in [Channels -> Pages]
  /\ bus \in [addr : Nat, wide : BOOLEAN, write : BOOLEAN, read : BOOLEAN, data : Data \cup {None}]
  /\ held \in [valid : BOOLEAN, wr : BOOLEAN, addr : Nat, wide : BOOLEAN, data : Data \cup {None}]
  /\ mem_wr \in BOOLEAN
  /\ port \in [phase : {"idle", "granted", "reading", "answer"}, addr : Nat]
  /\ dev \in [Channels -> [req : BOOLEAN, data : Data \cup {None}]]

\* What one channel does to another holds whatever the CPU does, the rest when it is careful.

\* One transfer at a time on the two chips together, so that the ORed outputs of a
\* chip are one channel's (dma.v, ch_req against sla_busy and mas_busy).
OneChannelAtATime ==
  /\ \A c, d \in Channels : Busy(c) /\ Busy(d) => c = d
  /\ \A k \in Chips : \A c, d \in Drivers(k) : c = d

\* The SDRAM accepts the requests the channels decided on, each once, in order, and
\* with the address and data the channel had then (system.sv, hold register); and a
\* device that is read to gets the byte or word at the address of its channel.
TransfersAsPromised ==
  driver.careful =>
  /\ ready => promised # <<>> /\ Head(promised) = Acceptance
  /\ ~AnyBusy /\ ~bus.read /\ ~bus.write /\ ~held.valid => promised = <<>>
  /\ \A c \in Channels : chan[c].ack /\ chan[c].transfer = 2 =>
       LET a == ByteAddress(c, chan[c].request.addr)
       IN  chan[c].ack_data = [dword |-> a \div 4, lane |-> a % 4]

\* A channel moves no unit more than it is asked for: a device is acknowledged only
\* while it asks (dma.v, pending is sampled again before the channel is idle), and
\* without auto-reload the channel stops at its terminal count until it is enabled
\* again (mask <= mask | (tc & ~auto)).
MovesNoMore ==
  driver.careful =>
  /\ \A c \in Channels : chan[c].ack => dev[c].req
  /\ \A c \in ended : chan[c].state \in {"idle", "update", "finish"}

\* Address and count move together: an enabled channel is as far from its base
\* address as from its base count, reloads included.
BlockAddressing ==
  driver.careful => \A c \in Channels : c \notin ctl[ChipOf(c)].mask =>
    LET moved == IF chan[c].dec THEN chan[c].base_address - chan[c].address
                 ELSE chan[c].address - chan[c].base_address
    IN  moved % Span = (chan[c].base_count - chan[c].count) % Span

\* External: SDRAM port 1 is done with what it was asked for, again and again.  Its
\* controller promises this only while port 0 leaves it some accesses (sdram.v 287).
PortServes == []<>(port.phase = "idle" /\ ~held.valid)

\* If the port serves, the enabled channel of highest priority is served, whatever the
\* others ask for (dma.v, Grant: the lowest channel that asks wins every time the bus is
\* free, on both chips, and a grant is given up after one unit).
FirstChannelServed ==
  LET c == CHOOSE c \in Channels : \A d \in Channels : c <= d
  IN  PortServes => (dev[c].req ~> chan[c].ack \/ Muted(c) \/ c \in ctl[ChipOf(c)].mask)

=============================================================================
