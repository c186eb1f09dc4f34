# Verification of the z486 MiSTer platform

z486_MiSTer is a PC built around the z486 processor: SystemVerilog for the
machine (`src/src`), a Verilator harness (`src/verilator`), test benches
(`src/tests`) and build tools. The processor is a git submodule; what is here is
everything a processor needs to be a PC, and that is what these modules model.
Paths below are relative to the repository's `src/`.

## 1. The system

The machine runs on one clock, `clk_sys`. Its concurrency is that of state
machines that all move on every edge, and of the agents outside them -
processor, devices, memory chips, the HPS - whose signals change in any clock.
What is hard there is two machines acting on the same edge, a value that is
latched a clock before it is used, a pulse that nobody took, and a rule that is
spread over several machines.

The simulator around it (`verilator/main.cpp`) is a program with one loop: a
cycle drives the machine's ports, makes two evaluations of the Verilog, lets the
software of the disks and the floppy tick, saves a checkpoint when one is due,
and now and then polls the window and the control socket. A second thread serves
that socket. What is hard there is the two threads that share descriptors and a
queue, a process that may end between two file operations, a later run that must
go on as the first would have, and software whose view of the machine is a clock
old.

| component | source | state it keeps | operations | talks to |
|---|---|---|---|---|
| SDRAM controller | `src/memory/sdram.v` | FSM, request registers, burst and merge counters, refresh counter, pins | accept, burst read, write, read-merge-write, refresh, configuration | the chips; port 0 memory interface, port 1 DMA |
| Memory interface | `src/memory/main_memory.sv`, muxes in `src/system.sv` | window machine, byte shift registers, DDR3 command registers | route, VGA bytes, framebuffer read and write, unmapped read, merge of answers | processor, SDRAM, VGA, DDR3 |
| DMA | `src/soc/dma.v`, hold register in `src/system.sv` | two i8237: address, count, mode, mask, pending, channel states | register accesses, grant, transfer, terminal count | processor, devices, SDRAM port 1 |
| Interrupts | `src/soc/pic.v`, `src/pic_inta_bridge.sv` | two i8259: irr, isr, imr, priority, set-up; the bridge | ICW, OCW, acknowledge, end of interrupt, poll | devices, processor |
| I/O adapter, speed port | `src/iobus_adapter.sv`, `src/system.sv` | slot machine, guard, accumulated read; speed register | access, slot, wide IDE access | processor, all I/O devices |
| Boot loader, warm reset | `src/system.sv` 1502-1628 | boot state, phase, address, reset counter | copy the ROM from DDR3, reset the processor | DDR3, memory interface, processor |
| MPU-401 queue | `src/system.sv` 1638-1705 | 256 bytes, pointers, acknowledge | write, command, send | I/O bus, UART |
| Watchdog | `src/system.sv` 1350-1458 | stall counters | report | debug UART |
| Interval timer | `src/soc/pit.v`, `pit_counter.v` | three 8254 counters | write, latch, read, gate, clock | I/O bus, line 0, speaker |
| Real-time clock | `src/soc/rtc.v` | calendar, alarm, flags, CMOS RAM | tick, register accesses, HPS set-up | I/O bus, line 8 |
| PS/2 controller | `src/soc/ps2.v` | output and input buffers, command state, two serial lines | commands, bytes to and from devices | I/O bus, lines 1 and 12, A20, reset |
| Disk controller | `src/soc/ide.v`, `verilator/ide_hps.cpp` | task file, status, buffer counters | commands, data, management accesses | I/O adapter, HPS |
| Floppy controller | `src/soc/floppy.v` | command phases, FIFO | commands, DMA transfers | I/O bus, DMA channel 2 |
| Sound | `src/soc/sound/` | DSP, mixer, OPL3, SAA1099 | commands, DMA, samples | I/O bus, DMA channels 1 and 5 |
| VGA | `src/soc/vga.v` | registers, planes, CRTC | register accesses, plane accesses, scan-out | I/O bus, memory interface |
| FIFOs and crossings | `src/common/` | buffers, synchronizers | write, read | users above |
| Control server | `verilator/control_server.cpp` | descriptors, stop flag, command queue, the thread | start, accept, receive, answer, queue, drain, stop | clients, main loop |
| Checkpoints and replay | `verilator/main.cpp` 1230-1275, 1625-1870 | a directory per cycle, `latest.txt`, scheduled events | save, rotate, restore, send what is due | file system, machine |
| Keyboard and mouse | `verilator/main.cpp` 430-620, 1440-1500, `common/ps2_device.v` | byte queues, pacing, command flags, the device's FIFO | queue a key or a motion, send, handle a command | window, control server, PS/2 controller |
| Simulator shell, floppy software | `verilator/main.cpp` | command line, window, traces; floppy task | | all of the above |
| Tools, framework | `*.py`, `sys/` | | | |

What makes each of them correct:

- *SDRAM controller*: it is a memory - every port sees what one atomic store
  would give, although a partly enabled write is a read, a merge and a write;
  the chips' timing is kept; rows are refreshed; nobody starves.
- *Memory interface*: one access, one path, one answer; a posted write arrives
  once and in full before the next access looks.
- *DMA*: a unit goes to the promised address with its own data, one channel at a
  time, and a channel stops where it was told to.
- *Interrupts*: the in-service bits are the handlers that run, the vector is that
  of a line that asked, priorities nest.
- *I/O adapter*: an access is its byte transactions, in order, each once.
- *Boot loader*: every dword of both ROM copies is written once, then the
  processor starts. *MPU-401*: bytes leave in order, none is made up. *Timer*:
  periods and latched counts are whole. *Clock*: a date follows its predecessor,
  no interrupt flag is lost. *PS/2*: every byte is delivered to its own reader.
  *Disk*: a command is completed or refused, the counters of both sides agree.
- *Control server*: the answer to a line is its own and true, each descriptor is
  closed once by one of the two that could, `stop()` returns whatever the clients
  do, what is queued is run.
- *Checkpoints*: what bears a final name is whole, `latest.txt` leads to one of
  those, and a restored run is indistinguishable from one that never ended.
- *Keyboard and mouse*: a command of the machine is handled once, no byte is
  offered to a port that drops it, packets add up to the motion.

`PROJECT.json` lists every component and, under "hazards", what can go wrong in
each at which line.

## 2. The modules

Conventions. In the modules of the hardware one step is one rising edge of the
clock; every register takes its next value at once, so most modules have an operator `NextX` per register group
that reads only unprimed values, and a `Tick` that joins them. Agents outside
the modelled source are marked external where they are defined. `Name_How` is
`Name` with a bug a programmer could have made; it stands before `Name` and only
serves to show that some property would notice. `Scenarios` in `Dma`, `Pic`,
`MainMemory` and `HpsIde` is a set of surroundings - what software does, which devices
exist - of which a behaviour chooses one in `Init` and keeps it.

| module | what it is |
|---|---|
| `MemoryPorts` | the requests, bytes and valid/ready handshake of the SDRAM ports, shared by the next two |
| `AtomicMemory` | abstract: a dword memory whose requests take effect when accepted, one burst at a time |
| `Sdram` | the controller, register by register, and the chips as its timing parameters describe them |
| `MainMemory` | the memory interface with its four neighbours |
| `Pic` | two i8259, the cascade, the bridge, a processor that nests handlers |
| `Dma` | two i8237, the cascade, the page registers, the hold register, SDRAM port 1 |
| `IoAccesses`, `IoCycles` | abstract: an access is a sequence of transactions |
| `IobusAdapter` | the slot machine, the devices on its bus, the speed port |
| `Ide` | the disk controller's registers and buffer, with their two users' buses |
| `HpsIde` | the software behind it, the image, and a driver on the processor |
| `ControlServer` | the thread of the control socket, `stop()`, the main loop's polling, the clients |
| `Checkpoints` | saving with its file operations, rotation, ends of runs, restoring, scheduled keys |
| `InputPorts` | the program's keyboard and mouse, the keyboard's serial device, the controller's side of a command |
| `MCx` | small instances: requests, programs, modes |
| `DmaProofs`, `IobusProofs`, `MainMemoryProofs`, `ControlProofs`, `DeviceProofs`, `CheckpointProofs`, `PicProofs`, `SdramProofs` | theorems; `DeviceProofs` is about `InputPorts` and `HpsIde`, whose specification bears names of its own (`DiskInit`, `DiskNext`, `DiskSpec`) |

### Sdram

Actions follow the cases of the FSM: `InitDone`, `Config`, `StartRefresh`,
`Refresh`, `Idle`, `AcceptWrite`, `AcceptMerge`, `AcceptRead`, `Read`,
`MergeRead`, `MergeActivate`, `Write`. Each step also moves the refresh counter,
the pins, the DQ capture register, the chips (which sample the command that was
on the pins before the edge, and answer reads after CAS clocks through
`dq_pipe`) and the ports. A location is a record of chip, bank, row and column;
the split of the byte address depends only on the size jumper. Two of the three
ports exist in `system.sv`. `ImplementsAtomicMemory` is a refinement: the write
in progress is already in the abstract store, the read in progress is what is
left of the abstract burst, and the one clock of latency of the output registers
is the abstract module's `shown`.

### MainMemory

`Machine` is the always block of `main_memory.sv`; the combinational outputs are
operators with the names of the wires. The processor holds a request until
`cpu_ready` and has one read unanswered at a time; the modes of the VGA change
while it has no request, and hence while a posted write may still be leaving.
Each written byte carries its value and its lane, so that a byte that lands in
another lane, dword or bank is noticed. `world` is what the accepted writes make
of the three memories, `expected` what the accepted reads are to return.

### Pic

A byte with one bit per line is a set of lines, and the priority encoders are
`FirstRank`, a choice of the least rank. Every OCW and ICW acts through
`NextPic`, in the branch order of the source. The processor's acknowledge takes
its two cycles through the bridge; a handler sends its ends of interrupt as a
BIOS handler does, to the slave first.

### Dma

`NextChan` is `i8237_chan`, `NextCtl` the rest of an `i8237`, `Grant` the
arbitration over both chips, `NextBus` and `NextHeld` the two registers between
a channel and the SDRAM. What memory returns is the identity of the location
that was read. Bytes of registers have `Radix` values, so that wrap-around
happens.

### IobusAdapter

The states are `[phase, byte]`: the source's thirteen byte states are three
phases of four bytes. Every device answers a transaction with a value of its
own, so that an answer in the wrong lane, or an old one, is noticed. The
processor may hold an access after its answer for as long as it likes.

### Ide, HpsIde

`Ide!Port` is one clock edge of every register of `ide.v`; the operators bear the
registers' names. `HpsIde` composes it with the software: one action per case of
`HpsIde::tick`, each with the clock edge that follows the tick, and `Rest` for
the ticks that only clear the bus. The driver is external. It keeps to the ATA
protocol - it gives commands to a drive that is not busy, moves data while the
drive asks for it, resets the drive between blocks or inside one - and it knows
what every word should be, because a word is a tuple that says where it belongs:
sector and index, new or old, identity, sense key. `expected` holds what the last
read should have returned, `intended` what the image should be. The bytes of the
task file have `Radix` values, so that sector numbers carry between registers.
Members of `HpsIde` that the next command writes before it reads them are cleared
when the software becomes idle. What a CD read has left to send
(`packet_remaining_`) is not one of them: the code tests it after the response of
any packet (`ide_hps.cpp` 1167), so it stays, as it does there, after a read that
was refused or that a reset cut short. The packet and response lengths count words.

### ControlServer

One step is what one thread does between two looks of the other: a load, an
exchange, a system call, or what is done under `commands_mutex_`. `at` is the
thread's place in `run()` and `handle_client()`, `main_at` the main program's in
`main` and `stop()`. A descriptor is named by the client it leads to, and
`closes` counts the calls of `close` on it. A line is `<<client, index>>`; only
its kind matters: a command, `quit`, one that is answered at once, an empty one,
one too large for the buffer. `recv` gives any number of the lines that were
sent; `send` blocks when `Window` answers are unread. The kernel's part -
backlog, a call that fails because the socket was shut down or closed - is
external. `start()` may fail, and `main` may return before its loop; the
destructor stops the server once more.

### Checkpoints

`at` is the point in the main loop or in `save_checkpoint()`. A directory holds
two files that matter, the machine (`model.vlt`) and the program's own state
(`harness.bin`); removing one takes two steps, because the first removed file
already spoils it. `Stop` may come at any point, and `Restart` or `Restore`
begins another run over the same files. The machine is deterministic, so its
state is the history of the bytes it got, each with its clock: `ReplaysExactly`
compares that history with `SendTimes`, the times at which the events would have
been sent by a run that never ended.

### InputPorts

A clock of the program has three parts: `Pre` (`keyboard_send_pre`,
`mouse_send_pre`), `Edge` (the device and its serial line), `KeyboardObservePost`.
Keys and motions join the queues between two clocks. The serial line's bits are
abstracted to the start and the end of a byte in either direction, in any clock.
The device's FIFO has no full flag: `Filled` is what its pointers make of one
byte too many. `dev.overrun` remembers that it happened; bytes that are lost so
are outside the promises, and with a gap of 100000 clocks between bytes they need
a machine that does not read its keyboard.

## 3. The runs

| run | question | bounds |
|---|---|---|
| `SdramSafety` | Is it a memory? Are all commands legal? | 2 ports, 2 chips x 2 banks x 2 rows x 2 columns, bytes {0,1}; whole, half, one-, two-, three- and no-byte writes, bursts of 1 and 2; the 85 MHz timing |
| `SdramRefresh` | Does refresh happen under continuous traffic, and is nobody starved? | production period of 664 clocks, one location |
| `DmaTransfers` | Do transfers go where and as far as they were told? Is the first channel served while the memory port serves? | channels 1 and 5 with a careful driver, 1 and 2 with a careless one; registers of 2 bits; every access kind |
| `PicNested` | Do in-service bits, handlers, vectors and priorities agree? | up to 4 lines on both chips, 3 nested handlers, BIOS and rotated set-ups, every command word |
| `PicServed` | Is the first line always handled? | 3 lines, 2 nested handlers |
| `PicLateRequest` | The same as `PicNested` when a line may rise between the two acknowledge cycles | *violated*, see 6 |
| `IobusAccesses` | Is an access its transactions, each once? | IDE, byte and speed ports; six runs of bytes; two dwords |
| `MainMemoryPaths` | One access, one path, one answer; do writes arrive? | 3 or 4 requests over 2 dwords of RAM and window, 2 banks, text, packed and planar modes |
| `IdeCommands` | Do commands move their own data, reach the image, answer and end? | sectors of 2 words, image of 5 sectors, 2 sectors a track, 2 heads, buffer of 8 words; eight drives with 2 to 6 different commands each, in any order |
| `ControlSessions` | Are answers true and sockets closed once, does `stop()` return? | two clients at once: a command, an empty line and `quit`; a status and a line too large. A queue of 1, one unread answer |
| `CheckpointCrashes` | Is what a crash leaves whole, and a restored run the same? | cycles 0 to 4, two runs, two keys that follow each other too fast, a third one given on restoring, `checkpoint_keep` 2 |
| `InputHandshakes` | Are commands handled once, bytes never refused, motions conserved? | two commands of the machine out of four, one key, one motion of up to two packets, gaps of 2 and 1 clocks, a FIFO of 3 |

Why the bounds are enough. The SDRAM controller keeps no state between requests
but the chips' rows, and its counters see only the clocks since the last
activation; two rows, two banks and two chips give every conflict a new request
can have with the one before it, and both ports together every interleaving of a
merge with another port's write. `REFRESH_CYCLES` is 3 in `SdramSafety`, so that
a refresh falls into every gap; the real periods are those of the other two
runs, where only the durations of requests matter. A channel of the DMA shares
with others only the bus and the arbitration, and two channels on two chips, or
on one, exhaust those; with `Radix` 2 an address and a count wrap within a
block. Three nested handlers over four lines reach every relation of a new
request to two handlers. The adapter has no memory but its guard between two
accesses. The window machine has none but its registers, and four requests are
a write, a change of banks or mode, a second write and a read of either.

A command of the disk leaves behind the task file, the buffer with its counter,
the error and size registers, the geometry, the sense key, what a CD read has left
to send, and the image; every ordered pair of the commands of one drive is a case,
and the lists put those together that could disturb each other (a read after a
write that a reset cut off, a CD read after one that was refused or cut short, a
sense request after a refused command or after a read of several responses, a read
after a change of geometry). One pair is left out because the code fails it: a
response after a CD read that was refused or cut short (6). Two words are a sector
that narrow and wide accesses move in one or two steps; the buffer is larger than a
sector, a packet and a response, as in the source.

A queue of one command is full and empty in turn under two clients, which is all
the answers depend on; `Window` 1 makes every second answer block. Two clients
suffice for one that is served and one that waits in the backlog when `stop()`
comes. In `CheckpointCrashes` every cycle may be saved any number of times, so
that three checkpoints exist where two are kept, and the second run finds every
leftover the first can leave; the gap of one cycle makes the second key late, so
that a checkpoint falls between its being due and its being sent. A third run
starts from what a second leaves, which is of the same kind. In
`InputHandshakes` a second command may come in any clock after the first was
answered, and the FIFO of 3 is filled by the longest answer and a key.

`CommandLegal` includes the row cycle time `T_RC`, which holds because of the
production timings, where a one-half write, its recovery and its precharge
together are no shorter. With other parameters nothing in the FSM waits for it;
`RowsRecover` in `SdramProofs` states what is enough (4).

Deadlock is checked in every run but two: the hardware and the keyboard's clock
never stop, but `ControlSessions` ends when the simulator does, and
`CheckpointCrashes` when the last run has ended.

### Fairness

- The clock runs: `WF(Next)` in every module with a liveness property.
- `Dma`: nothing but the clock. That the memory port is done with its requests
  again and again (`PortServes`) is a hypothesis of `FirstChannelServed` itself:
  the port is port 1 of the SDRAM, which is taken only when port 0 does not ask
  (`sdram.v` 287). `NobodyStarves` promises refresh and port 0; whether DMA gets
  the memory depends on how often the processor asks, which is outside the models.
- `Pic`: the processor goes on with its program, its acknowledge cycles and its
  handlers; strong fairness, because a processor between instructions takes an
  interrupt although other things go on in the clocks between.
- `IobusAdapter`: the processor lets go of an access that was answered.
- `MainMemory`: SDRAM and DDR3 accept and answer, and the DDR3 port is not busy
  for ever. `SteadyBusy` says more, that the port is not busy in the clock after
  it was seen idle. Without it TLC finds the read that is never answered: the
  read pulse lasts one clock (`main_memory.sv` 239) and nobody takes it.
- `HpsIde`: the clock runs, a rest ends (after 63 clocks in the source), and the
  driver makes its next access in the end. It need not give another command.
- `ControlServer`: the operating system runs both threads (`WF` of `Thread` and
  of `Stopping`), and the main loop polls as long as it runs (`WF(Poll)`).
  Nothing is asked of the clients: they may be silent or never read.
- `InputPorts`: the loop goes on, and a byte that may move on the serial line
  does in the end, although the clocks between have it wait (`SF(Edge(Serial))`).
  That the controller's input buffer counts as answered with the end of a byte
  (`EndByte`) supposes a machine that reads what it is sent.

## 4. What is proved

TLAPS checks these for every value of the constants under the assumptions named
in the modules.

- `DmaProofs!Exclusion`, `Spec => []OneChannelAtATime`. Inductive as
  `ExclusionInv`: at most one channel is not idle, and a channel whose request
  registers still drive the bus is that channel or in its last clock. The step
  rests on `GrantIsAlone`: `Grant` names one channel, and only while none is busy.
- `DmaProofs!TypeCorrect`, `Spec => []TypeOK`, with the program and the data in
  their types; one lemma for the channels (`ChannelStep`), the chips, the bus.
- `DmaProofs!AsPromised`, `Spec => []TransfersAsPromised`, for every careful driver,
  any data and a memory that takes any time to accept a request. `PathInv` follows a
  unit through the controller: what the channel has registered, what is on the bus,
  what memory has been asked for and has promised, and that the driver leaves alone
  the channel and the hold register meanwhile.
- `DmaProofs!NoUnitMore`, `Spec => []MovesNoMore`, from `MovesInv`: a channel that is
  acknowledged is one whose device asks, and a channel at its end is masked and not
  busy. The hypothesis `NoSoftwareRequests` is the scope of the property: a software
  request asks for a unit that no device asked for.
- `DmaProofs!BlockKept`, `Spec /\ SetsUpWhole => []BlockAddressing`. Inductive in the
  types: an access that does not touch an enabled channel leaves it as it is, reloads
  both registers, or moves both (`UntouchedStep`), and counting modulo 65536 in either
  direction keeps the two differences equal (`StepsTogether`). `SetsUpWhole` is a
  condition on the accesses that do touch it: they leave the channel masked, or in step.
  A program that writes an address and no count to an enabled channel is excluded, and
  for it the property is false; the programs of `DmaTransfers` with a careful CPU satisfy
  the condition.
- `IobusProofs!OncePerAccess`, `Spec => TakenOnce`, from `GuardInv`: while an
  access has been answered and is still held, the guard is set or the adapter is
  not idle.
- `IobusProofs!NoMergedWrites`, `Spec => []EdgeDevicesAgree`, from `EdgeInv`: the
  writes seen by level and by edge are the same sequence up to the strobe in the
  air, and no strobe follows another without a clock between them (`GapInv`).
- `IobusProofs!SpeedSet`, `Spec => []SpeedIsSetAtOnce`, from `SpeedInv`: what the
  access intends is what the bytes still to come make of the register, so nothing
  is left to come when the access is answered. The assumption that the port's
  words are addresses without a device of their own (`SpeedAssumption`) is needed.
- `IobusProofs!Implements`, `Spec => ImplementsIoCycles`: each step is a step of
  `IoCycles` or a stutter. `CyclesInv` says how far an access has come: which
  lanes are done, what they gave to the word, and what is on the bus. The
  abstract bus splits an access by itself; `SameAccesses` shows that both split
  it alike.
- `PicProofs!OneAnswer`, `Spec => []AnswersOnce`, from `BridgeInv`, which places
  the bridge (waiting, answering, holding) at each point of the processor's two
  cycles, for every program, device and length of a cycle.
- `PicProofs!InServiceHandled`, `NestedByPriority` and `RequestedIsTaken`,
  `Spec /\ Waiting /\ SetsUp =>` the three properties of the controllers, for any set-up
  that leaves special mask and automatic end of interrupt off, two bases of vectors and
  the slave on its line (`SetsUp`), edge or level triggering, any rotation, any lines and
  any depth of nesting, and for devices that keep their request until its handler runs and
  do not move it while an interrupt is acknowledged (`Waiting`, a condition on the
  scenario). `PicInv` has four parts. `Silent`: no request while the program runs.
  `Requests`: what waits in a controller is on its inputs or has a handler, so that an
  `irq` stays. `Pipeline`: the slave has seen its lines by the first cycle and decided by
  its answer, the master a clock later each, so that the vector is the same in the clock
  of the second answer and in that of the acknowledge. `Stack`: the bits in service are
  exactly the levels of the handlers that have not ended their interrupt, strictly ranked,
  and at most one is on the slave. So the non-specific end of interrupt, which clears the
  first rank in service, clears that of the handler on top (`Highest`, `Ended`).
  Without `Waiting` the first property is false: `PicLateRequest` and section 6.
- `SdramProofs!CommandsLegal`, `Spec => []CommandLegal`, and `BusShared`,
  `Spec => []BusDiscipline`, for any geometry and requesters, on the hypothesis
  `RowsRecover` about the timing. No state of the FSM waits for `T_RC`, so the row
  cycle is kept only where the access before is long enough; `RowsRecover` is a
  condition under which it is. The timing at 85 MHz satisfies it; of 76 to 133 MHz, all do but 101 to
  111 MHz with the fast grade and 127 to 133 MHz with the slow one; the 65 MHz debug
  profile does not (6). `IInv` says for each state of the FSM how far its schedule is,
  which bank it uses, how old its row is and what is left of its precharge; all other
  banks are closed and rested. TLC checked `IInv` on the instance of `SdramSafety`.
- `SdramProofs!AtomicMemoryImplemented`, `Spec => ImplementsAtomicMemory`, under
  `RowsRecover`: every step of the controller is a step of `AtomicMemory` or a
  stutter. `DataInv` says what the chip holds at each point of a write of one or two
  halves, of a read followed by the write of the merged dword, and of a burst: which
  commands have been given, which words are in the pipe of the CAS latency, and what
  has been answered. So the schedule of `IInv` carries the data as well.
- `SdramProofs!RefreshKept`, `Spec => RefreshNotForgotten`, from `RefreshInv`: the
  counter of the refresh and the clocks the FSM is still busy (`Left`) stay below the
  counter's range together. The hypothesis `RefreshFits` is what the width of the
  counter must leave room for; the timing at 85 MHz satisfies it (a
  period of 664, a range of 1024), the 65 MHz debug profile (507 and 512) does not,
  and 6 says what happens.
- `MainMemoryProofs!AnswersKept` and `WritesKept`, `Spec => []AnswersAsPromised` and
  `Spec => []WritesArrive`, for any banks, any requests and modes, and memories that
  answer when they like. `DataInv`, beside `PathInv`, says where the data is: the
  request and what has been taken of it (`Requested`, `Taken`, `Stores`), what each
  memory holds against the writes so far (`RamHolds`, `FbHolds`, `VgaHolds`), and the
  promise of each read on its way (`VgaReads`, `FbReads`, `RamReads`,
  `UnmappedReads`, `Latches`). With the planes the machine serves the first byte that
  is enabled and drops the others, so the hypothesis `OneByte` is needed: it is the
  other side of the finding of 6 about words.
- `MainMemoryProofs!PathsExclude`, `Spec => []OnePath`, with no assumption about
  the DDR3 port or about what the processor asks. `OnePath` is not inductive:
  whether the window machine may leave IDLE depends on the SDRAM's outstanding
  answers, these on the read that the processor waits for, and that on the
  answers already promised. `PathInv` is the conjunction of those three
  (`SdramInv`, `MachineInv`, `CpuInv`).
- `ControlProofs!ClosedOnce`, `Spec => []SocketsClosedOnce`, for any number of
  clients and any lines. That nothing is closed twice needs to say who owns each
  descriptor at each point (`Owned`, `ListenerOwned`): the thread between
  `accept` and the store and after it has taken the descriptor back,
  `client_fd_` in between, `stop()` once it has exchanged it; that none is left
  open, that every open one has an owner (`NoneForgotten`).
- `ControlProofs!AnswersTold`, `Spec => []AnswersMatchLines`, from `AInv`: a client has
  read as many answers as lines of its own have been handled, and each is the answer
  to the line of its place; what is queued is in the order of taking, through the swap
  of the main loop.
- `DeviceProofs!HandledOnce` and `NoneRefused`, for any commands, queues, gaps and
  a serial line of any speed. The flags of the two sides are related in each part
  of a clock (`Phases`), and nothing moves on the line between the end of a
  command and its being forgotten (`Quiet`), because the controller waits for an
  answer. Both properties follow from the one invariant.
- `DeviceProofs!NoMotionLost`, `Spec => []MotionConserved`, for motions of any size,
  any number of them and any step limit of 1 to 127. The invariant says that what the port
  was given, followed by the packets of what waits, adds up to the motions asked for, for
  each state of the buttons. A motion is split by a function of its two amounts that
  recurs on what is left; that such a function exists, and what it returns, is shown by
  induction over its length (below). The split of `InputPorts` is defined for all integers
  for that reason.
- `DeviceProofs!BufferShared`, `DiskSpec => OneUserOfTheBuffer`, for any
  commands, any image and with or without rests. `BufferInv` says that a drive that
  is asked for something, and software that works on it, leave the data request down,
  and that after it has written a status the software waits.
- `DeviceProofs!ReadsTheImage`, `WritesStored` and `DiskCommandsAnswered`,
  `DiskSpec /\ OfADisk =>` always `ReadsWhatItAskedFor`, `WritesReachTheImage` and
  `AnswersThisCommand`, for sectors of any size that the buffer holds, any geometry, image
  and set of commands, resets in the middle of a block, accesses of one or two words. One
  invariant gives the three. The status divides the states (`DInv`): the drive is free, and
  everything it was told is done (`FreeInv`); or it has or wants a block, and what the
  driver has moved, the controller has counted and the buffer holds agree (`DataInv`); or
  the software works on a reset (`ResetInv`) or a command (`WorkInv`), and for each of its
  states the invariant names the registers it has carried over, the words it has moved and
  the sector it is at. `CounterInv` ties the controller's word counter to the software's,
  across two ticks of a strobe; `GeometryInv` says from when on a new geometry counts. That
  the software reaches the next sector through `put_lba` and `get_lba` is `SectorNumbers`,
  division by any geometry included. `OfADisk` is the scope: a disk, the commands of one,
  sectors whose numbers its registers hold, and no writes where the software rests for more
  than a clock, for which the second property is false (6). TLC checked `DInv` on the disks
  of `IdeCommands`. The proof needs a geometry without zeros to start with, and a counter of
  words that counts beyond the buffer; both are assumptions of the modules now.
- `CheckpointProofs!WholeNames` and `LatestKept`, the action properties of the
  directory, for any events, gaps, rotation and number of runs and wherever they
  end. `IInv` says how far the save under way has come (`Progress`); its typing
  (`Types`) is what makes a written file differ from none, under the assumption
  that `Nothing` is neither a file nor a directory. That as many as are kept come
  after what the rotation takes is `OldestFacts`, from the least element of a
  finite set and its cardinality.
- `CheckpointProofs!Replayed`, `Spec => []ReplaysExactly` under `~ControlSaves` and
  `Distinct(AllEvents)`, for any events, gap, rotation, number of runs and points at which
  they end. The invariant says of every state, and of every directory that could be
  restored, that the machine has got what the events before its clock amount to and that
  queue and event list hold the rest. Of the hypotheses, the first says that checkpoints are
  taken at the end of a cycle, since with those of the control socket the property is false
  (6); the second that no two events have the same cycle, since among such the code goes by
  the command line and the model by any order.

Induction. The library's induction theorems take an operator as a parameter, which the
provers cannot instantiate. Where a proof needs induction, in `CheckpointProofs` and
`DeviceProofs`, the statement is a set of naturals, which is data, and its complement has no
least element (`Induction`). A recursive function is shown to exist in the same way, from a
step function (`Recursion`), and is then used through its equation.

Only model-checked:

- liveness and everything under fairness, which the prover does not reach;
- `InServiceIsHandled`, `NestsByPriority` and `TakesWhatIsRequested` of `Pic` for devices
  that withdraw a request, with one handler at a time (`PicNested`; with two it fails, 6);
- `ReadsWhatItAskedFor`, `WritesReachTheImage` and `AnswersThisCommand` of `HpsIde` for
  a CD, whose packets and responses would double the states that the invariant describes;
- `ReplaysExactly` for events of the same cycle.

## 5. What is not modelled

`PROJECT.json` gives a reason for each component. In the modelled ones: reset in
the middle of an access (the whole machine is reset together); the third SDRAM
port, tied off; DQM wiring (`HasDqm` is a parameter, all profiles have it off);
what register reads of the PIC and DMA return; the DMA page register readback;
FIFO contents behind the VGA; the disk's `hob` registers, `io_wait` and
`no_data`, which nothing uses, its checkpoints, the words of the identity and of most
responses, a second drive on the management bus, and responses of no words; the instruction side of the processor.

In the simulator: the mouse's own serial device, which drops a byte that is
offered while it receives a command (`z486_mister_sim.sv` 191); file streams that
fail without an exception, so that a full disk leaves a short file under a final
name (`main.cpp` 1677); what a checkpoint holds besides the machine and the
keyboard; the text of answers; the window, screenshots, traces and the audio
file.

Not among the hazards of `PROJECT.json`, because their components are not
modelled, but first in line (7): the read of the boot copy that relies on a DDR3
port seen idle a clock before (`system.sv` 1540), a triple fault with an access
under way (1608), counts latched between the two reads of another
(`pit_counter.v` 163), register C of the clock read while a flag is set (`rtc.v`
195), parameters dropped while the last byte is still being sent, and the flag
that says which of two devices a byte came from (`ps2.v` 293, 253), and the two
disk controllers and the floppy on one management bus (`main.cpp` 2011).

The processor is external. It is given the behaviour that `system.sv` relies on:
a request is held unchanged until it is accepted, one read is outstanding, an
I/O access is held at least until its answer, an acknowledge is two cycles.

## 6. Where the code and its comments part

One run ends in a counterexample.

- `PicLateRequest`: a higher line that rises between the clock in which the
  bridge gives the vector to the processor and the clock in which the controller
  is told makes the controller put that line in service, while the processor
  runs the handler of the other. `PROJECT.json` quotes the line it contradicts.
  The passing run keeps the lines still during the acknowledge.

Six more are a change of constants away from a passing run:

- `SdramRefresh` with the 65 MHz debug profile (`REFRESH_CYCLES` 507, `T_RCD`,
  `T_RP` and `T_WR` 1, `T_RC` 4): the refresh counter wraps five clocks after it
  raises the request and withdraws it; an access of more than that makes the
  controller miss a whole period, although "refresh takes priority". In the
  85 MHz profile the counter has 360 clocks to go and the run passes.
- `SdramSafety` with the same timing: after a store of one half the next activation
  of the bank comes three clocks after the last, and `T_RC` is 4. `CommandLegal`
  fails; `CommandsLegal` says which timings are safe (4).
- `PicNested` with two handlers at a time and devices that withdraw their requests: a
  request that goes away while a handler is in service leaves the processor with the
  vector of the first line that waits, since `irq_value` does not look at `isr`, although
  `spurious` is set. The handler of a lower line runs without being in service, and
  `InServiceIsHandled` fails. The run lets devices withdraw only with one handler at a
  time.
- `MainMemoryPaths` with `WordScenarios`: a planar store of two bytes puts the
  first byte in the second byte's group and drops the second. The run stores
  single bytes.
- `IdeCommands` with `JitterScenarios`: `mgmt_cnt` moves on when the read strobe
  ends, and `mgmt_readdata` follows it because the address stays. `WRITE_RECV`
  takes the word two ticks after it asked, just before that; with `--jitter` it
  takes it later and gets the next word, so that written sectors are shifted and
  packets are misread. The comment calls jitter a variation of timing.
  `IdeCommands` has jitter for reads.
- `IdeCommands` with `LeftoverScenarios`: a CD read that is refused because it ends
  beyond the image (`ide_hps.cpp` 456), or that SRST cuts short between two
  responses, leaves `packet_remaining_` as it is. `PACKET_READ_WAIT_REQ` (1167) tests
  it after the response of every packet, so REQUEST SENSE, which a driver sends after
  a refused read, delivers its sense data and then ends with the error of the old
  read (`AnswersThisCommand` fails), and an INQUIRY after the reset is followed by
  sectors of it (`ReadsWhatItAskedFor` fails). The next read sets the count anew, and
  commands without a response do not look at it; these follow such reads in the
  passing run. `verilator/README.md` 30 says the model "implements the ATAPI packet
  commands used by DOS CD drivers".

Found while modelling, and kept out of the passing runs by what a driver may
do: a write of the mask or request register of the DMA in the clock in which a channel
ends moves a unit too many (`dma.v` 482, 491: `MovesNoMore` fails without `Careful`), a
master clear in mid-transfer drops a unit that memory was promised, and a channel
programmed in mid-transfer has its address and count apart in between. Of the disk: a packet response of no words raises a data request that no access ends; the
interrupt-disable bit of the write that releases SRST is lost, because the reset
is still on in that clock; a write with SRST while a command is being worked on is
answered by the status of that command; `ide0`, `ide1` and the floppy tick on one
management bus (`main.cpp` 2011), and one of them may change the address while
another rests.

Of the simulator:

- `CheckpointCrashes` saves at the end of a cycle. The control socket's command
  saves at its beginning (`main.cpp` 1955), but a restore goes on with the next
  cycle (1867), so that the machine is a clock short: with `ControlSaves = TRUE`
  TLC finds `ReplaysExactly` violated.
- The rotation goes by name, and so by cycle (1650). A run that starts anew in a
  directory of later checkpoints saves one, names it in `latest.txt` and removes
  it at once. `LatestIsKept` states the exact condition.
- Events that a checkpoint still holds and that are given again on the command
  line that restores it are sent twice (1843); `LaterEvents` are new ones.
- `verilator/README.md` 106 names checkpoints by `2 * cycle`, the code by `cycle`
  (1662).
- An empty line gets no answer (`control_server.cpp` 161); `simctl.py` waits for
  one after every line it sends, and sends no empty one of its own. Commands that
  are queued after the last poll are answered "OK queued" and not run:
  `QueuedCommandsRun` is about a simulation that goes on.
- A reset command that comes where an argument is due is taken for the argument
  (`main.cpp` 600). The order between keyboard and mouse events is not kept.

## 7. Plan

Done, in this order because everything else goes through it: memory, DMA,
interrupts, I/O adapter, memory interface, disk; then the simulator's server,
checkpoints and ports. What remains:

1. `Boot`: the ROM copy through the memory port. Its write stays up for a clock
   after the acceptance with the address of the phase that is over, so that
   "each dword once" depends on what the SDRAM does in that clock; then the reset
   pulse, and the MPU-401 queue against an abstract queue with loss at the end.
2. `Ps2`: output buffers, interrupts and the commands to the controller itself,
   with the mouse's device, beside `InputPorts`.
3. `Ide` with two drives and the floppy on one management bus; responses of no
   words.
4. `Pit`: a latched count is one value the counter had. `Rtc`: the calendar
   against one reference calendar over bounded dates, the update window and the
   interrupt flags with a processor that reads at any time.
5. `Floppy`, the DSP's DMA, the map-mask path of the VGA behind posted writes, the
   crossing of `cdc_vector_handshake_continuous`.
6. Composition: processor and DMA through `AtomicMemory` with the snoop of
   `system.sv`; a checkpoint in the middle of a disk command.

Theorems worth having: `InServiceIsHandled` for devices that withdraw, with one handler
at a time; the three properties of `HpsIde` for a CD.
