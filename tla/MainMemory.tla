----------------------------- MODULE MainMemory -----------------------------
(***************************************************************************)
(* The memory multiplexer (src/src/memory/main_memory.sv): CPU requests go *)
(* to the SDRAM, to the VGA memory byte by byte, to the framebuffer in the *)
(* DDR3 memory, or to nothing when the guest has no memory there.          *)
(*                                                                         *)
(* One step is one rising edge of clk.  External: the CPU, which holds a   *)
(* request until it is accepted and has one read unanswered at a time; it  *)
(* sets the VGA's mode while it has no request; SDRAM port 0, as           *)
(* AtomicMemory promises; the VGA memory, which registers its answer at    *)
(* the end of a clock with a read strobe; and the DDR3 port, which takes a *)
(* command in a clock in which it is not busy and answers reads in order.  *)
(*                                                                         *)
(* vga_busy is state # IDLE.  The registers that IDLE loads in every clock *)
(* are loaded with the request they serve.  Name_How is Name with a bug.   *)
(***************************************************************************)
EXTENDS Integers, Sequences, FiniteSets

CONSTANTS
  RamDwords,    \* the dwords of the guest's RAM
  Window,       \* the dwords of the VGA window, which is also a bank of the framebuffer
  Banks,        \* the banks vga_wr_seg and vga_rd_seg may select
  Scenarios,    \* what the CPU may do: the requests it may make, the modes it may
                \* set (see ModeType), and how many of either it makes
  SteadyBusy    \* the DDR3 port is not busy right after a clock in which it was not

Lanes == 0..3
Planes == 0..3
Min(S) == CHOOSE i \in S : \A j \in S : i <= j

\* A byte the CPU writes is told from others by what was written and by its lane.
Byte(d, i) == <<d, i>>
Dword(d) == [i \in Lanes |-> Byte(d, i)]
Zero == [i \in Lanes |-> <<0, 0>>]
FF == [i \in Lanes |-> <<255, 0>>]

RequestType ==
  [region : {"ram", "vga", "unmapped"}, loc : Nat, be : (SUBSET Lanes) \ {{}},
   write : BOOLEAN, data : Nat, burst : 0..255]
NoRequest == [region |-> "none", loc |-> 0, be |-> {}, write |-> FALSE, data |-> 0, burst |-> 0]

\* vga_fb_en, vga_chain4, vga_map_mask, vga_read_plane, vga_write_mode, vga_{wr,rd}_seg
ModeType ==
  [fb : BOOLEAN, chain4 : BOOLEAN, mask : SUBSET Planes, plane : Planes, latched : BOOLEAN,
   wr_bank : Banks, rd_bank : Banks]

ASSUME ScenariosAssumption ==
  \A s \in Scenarios :
    /\ s.requests \subseteq RequestType
    /\ s.modes \subseteq ModeType /\ s.modes # {}
    /\ s.count \in Nat
ASSUME SizesAssumption ==
  RamDwords \in Nat \ {0} /\ Window \in Nat /\ Window % 2 = 0 /\ Banks \subseteq Nat

VARIABLES
  state,           \* state
  vga,             \* vga_address, vga_read, vga_write, vga_writedata, vga_be, vga_bcnt
  vga_data,        \* vga_data: the bytes to write, or the four plane latches
  vga_dout, vga_dout_ready, vga_accepted,
  fb,              \* fb_ddram_addr, _be, _din, _rd, and fb_read_high_dword
  mem,             \* external: SDRAM port 0
  ram,             \* external: the contents of the SDRAM
  vga_mem,         \* external: the VGA memory, and the byte it answered
  ddr,             \* external: the DDR3 port and its contents
  mode,            \* external: the VGA's mode
  cpu,             \* external: the request, and how many of them are left
  scenario,        \* external: what the CPU may do, fixed
  world,           \* history: the memories after all accepted writes
  expected         \* history: what the accepted reads are still to return

vars == <<state, vga, vga_data, vga_dout, vga_dout_ready, vga_accepted, fb, mem, ram, vga_mem,
          ddr, mode, cpu, scenario, world, expected>>

-----------------------------------------------------------------------------
(* Wires.                                                                  *)

req == cpu.req
Valid(region) == req.region = region
vga_busy == state # "IDLE"

mem_valid_Busy == Valid("ram")
mem_valid == Valid("ram") /\ ~vga_busy
mem_ready == mem.phase = "granted"
mem_resp_valid == mem.phase = "answer"

cpu_ready_ReadsOnly ==
  mem_ready \/ vga_accepted \/ (Valid("unmapped") /\ state = "IDLE" /\ ~req.write)
cpu_ready == mem_ready \/ vga_accepted \/ (Valid("unmapped") /\ state = "IDLE")
cpu_resp_valid == mem_resp_valid \/ vga_dout_ready
cpu_dout == IF vga_dout_ready THEN vga_dout ELSE mem.dout

BurstCount(n) == IF n = 0 THEN 1 ELSE n

\* The dword of the framebuffer that a request addresses: a packed dword, or with
\* the planes the group of four pixels of its first byte.
FbIndex(bank) ==
  IF mode.chain4 THEN bank * Window + req.loc
  ELSE 4 * (bank * Window + req.loc) + Min(req.be)
FbHalf == IF mode.chain4 THEN req.loc % 2 ELSE IF req.be \cap {1, 3} # {} THEN 1 ELSE 0

\* The requests that IDLE takes into the machine.
TakesVga == state = "IDLE" /\ Valid("vga")
TakesUnmapped == state = "IDLE" /\ Valid("unmapped") /\ ~req.write

-----------------------------------------------------------------------------
(* The machine.                                                            *)

Shift(S) == {i - 1 : i \in S \ {0}}
ShiftIn(d, b) == [i \in Lanes |-> IF i = 3 THEN b ELSE d[i + 1]]

\* The last byte of a VGA access.
LastByte_Early == Cardinality(vga.be) <= 1
LastByte == vga.be = {}

NextState ==
  CASE state = "IDLE" ->
         IF TakesUnmapped THEN "UNMAPPED_READ"
         ELSE IF ~TakesVga THEN state
         ELSE IF mode.fb THEN IF req.write THEN "FB_WRITE" ELSE "FB_READ"
         ELSE IF req.write THEN "VGA_WRITE" ELSE "VGA_READ"
    [] state = "FB_WRITE" -> IF ddr.busy THEN state ELSE "IDLE"
    [] state = "FB_READ" -> IF ddr.busy THEN state ELSE "FB_READ_WAIT"
    [] state = "FB_READ_WAIT" -> IF ddr.phase = "answer" THEN "IDLE" ELSE state
    [] state = "UNMAPPED_READ" -> IF vga.bcnt <= 1 THEN "IDLE" ELSE state
    [] state = "VGA_READ" -> IF ~vga.read /\ vga.bcnt = 0 THEN "IDLE" ELSE state
    [] state = "VGA_WRITE" -> IF ~vga.write /\ LastByte THEN "IDLE" ELSE state

\* The bytes that remain after the first, counted to the end of the dword so that
\* a read shifts each byte into its lane.
Remaining(be) == 3 - Min(be)

NextVga ==
  LET q == req.be IN
  CASE TakesUnmapped -> [vga EXCEPT !.bcnt = BurstCount(req.burst) % 8]
    [] TakesVga /\ ~mode.fb ->
         [loc |-> req.loc, lane |-> Min(q), read |-> ~req.write, write |-> req.write,
          writedata |-> Byte(req.data, Min(q)), be |-> {i - Min(q) - 1 : i \in q \ {Min(q)}},
          bcnt |-> Remaining(q)]
    [] state = "UNMAPPED_READ" -> [vga EXCEPT !.bcnt = IF @ <= 1 THEN 0 ELSE @ - 1]
    [] state = "VGA_READ" /\ ~vga.read ->
         [vga EXCEPT !.read = 0 \in vga.be, !.be = Shift(@), !.bcnt = (@ - 1) % 8,
                     !.lane = (@ + 1) % 4]
    [] state = "VGA_WRITE" /\ ~vga.write ->
         [vga EXCEPT !.write = 0 \in vga.be, !.be = Shift(@), !.lane = (@ + 1) % 4,
                     !.writedata = vga_data[0]]
    [] OTHER -> [vga EXCEPT !.read = FALSE, !.write = FALSE]

\* The half of the word that a framebuffer read returns, as it was when accepted.
ReadHalf_Live == IF req.region = "vga" THEN FbHalf ELSE 0
ReadHalf == fb.high
FbRead == ddr.dout[ReadHalf]

\* Idle outside the framebuffer modes, vga_data follows the CPU's data.
NextVgaData ==
  CASE TakesVga /\ req.write /\ ~mode.fb ->
         [i \in Lanes |-> IF i + Min(req.be) < 3 THEN Byte(req.data, i + Min(req.be) + 1)
                          ELSE Zero[i]]
    [] state = "IDLE" /\ ~mode.fb /\ ~(TakesVga /\ req.write) -> Zero
    [] state = "VGA_WRITE" /\ ~vga.write -> ShiftIn(vga_data, Zero[3])
    [] state = "FB_READ_WAIT" /\ ddr.phase = "answer" /\ ~mode.chain4 -> FbRead
    [] OTHER -> vga_data

NextDout ==
  CASE state = "FB_READ_WAIT" /\ ddr.phase = "answer" ->
         IF mode.chain4 THEN FbRead ELSE [i \in Lanes |-> FbRead[mode.plane]]
    [] state = "UNMAPPED_READ" -> FF
    [] state = "VGA_READ" /\ ~vga.read -> ShiftIn(vga_dout, vga_mem.readdata)
    [] OTHER -> vga_dout
NextDoutReady ==
  \/ state = "FB_READ_WAIT" /\ ddr.phase = "answer"
  \/ state = "UNMAPPED_READ"
  \/ state = "VGA_READ" /\ ~vga.read /\ vga.bcnt = 0

\* What a framebuffer write stores, and where.
PlanarBytes ==
  IF mode.latched THEN vga_data ELSE [i \in Lanes |-> Byte(req.data, Min(req.be))]
NextFb ==
  IF TakesVga /\ mode.fb
  THEN [addr |-> FbIndex(IF req.write THEN mode.wr_bank ELSE mode.rd_bank) \div 2,
        high |-> FbHalf, rd |-> FALSE,
        be   |-> IF ~req.write THEN {} ELSE IF mode.chain4 THEN req.be ELSE mode.mask,
        din  |-> IF ~req.write THEN Zero
                 ELSE IF mode.chain4 THEN Dword(req.data) ELSE PlanarBytes]
  ELSE [fb EXCEPT !.rd = (state = "FB_READ" /\ ~ddr.busy)]

Machine ==
  /\ state' = NextState
  /\ vga' = NextVga
  /\ vga_data' = NextVgaData
  /\ vga_dout' = NextDout
  /\ vga_dout_ready' = NextDoutReady
  /\ vga_accepted' = TakesVga
  /\ fb' = NextFb

-----------------------------------------------------------------------------
(* What is outside.                                                        *)

Merge(old, new, be) == [i \in Lanes |-> IF i \in be THEN new[i] ELSE old[i]]

\* SDRAM port 0: a request is taken, then accepted; a read is answered word by word.
RamLoc(l) == l % RamDwords
Port(phase, loc, left, dout) == [phase |-> phase, loc |-> loc, left |-> left, dout |-> dout]
IdlePort == Port("idle", 0, 0, Zero)
Sdram ==
  /\ \/ mem.phase \in {"idle", "reading"} /\ mem' = mem
     \/ mem.phase = "idle" /\ mem_valid /\ mem' = Port("granted", 0, 0, Zero)
     \/ mem.phase = "granted" /\ req.write /\ mem' = IdlePort
     \/ /\ mem.phase = "granted" /\ ~req.write
        /\ mem' = Port("reading", req.loc, BurstCount(req.burst), Zero)
     \/ /\ mem.phase = "reading"
        /\ mem' = Port("answer", mem.loc, mem.left, ram[RamLoc(mem.loc)])
     \/ mem.phase = "answer" /\ mem.left = 1 /\ mem' = IdlePort
     \/ /\ mem.phase = "answer" /\ mem.left # 1
        /\ mem' = Port("reading", mem.loc + 1, mem.left - 1, Zero)
  /\ ram' = IF mem_ready /\ req.write
            THEN [ram EXCEPT ![RamLoc(req.loc)] = Merge(@, Dword(req.data), req.be)] ELSE ram

VgaMemory ==
  vga_mem' = [store    |-> IF vga.write
                           THEN [vga_mem.store EXCEPT ![vga.loc][vga.lane] = vga.writedata]
                           ELSE vga_mem.store,
              readdata |-> IF vga.read THEN vga_mem.store[vga.loc][vga.lane]
                           ELSE vga_mem.readdata]

\* The DDR3 port. A framebuffer write is presented as long as the machine is in
\* FB_WRITE, a read in the one clock after FB_READ.
Fbs == 0..(4 * Window * Cardinality(Banks) - 1)
TakesWrite == state = "FB_WRITE" /\ ~ddr.busy
TakesRead == fb.rd /\ ~ddr.busy
NoWord == [h \in 0..1 |-> Zero]
Ddr ==
  \E busy \in (IF SteadyBusy /\ state = "FB_READ" /\ ~ddr.busy THEN {FALSE} ELSE BOOLEAN),
     phase \in (IF TakesRead THEN {"reading"}
                ELSE IF ddr.phase = "reading" THEN {"reading", "answer"} ELSE {"idle"}) :
    ddr' = [busy  |-> busy,
            phase |-> phase,
            dout  |-> IF TakesRead THEN [h \in 0..1 |-> ddr.store[2 * fb.addr + h]]
                      ELSE IF phase = "idle" THEN NoWord ELSE ddr.dout,
            store |-> IF TakesWrite
                      THEN [ddr.store EXCEPT ![2 * fb.addr + fb.high] = Merge(@, fb.din, fb.be)]
                      ELSE ddr.store]

\* With the planes, every byte of the window addresses a group of its own.
Group(bank, i) == 4 * (bank * Window + req.loc) + i
Planar == req.region = "vga" /\ mode.fb /\ ~mode.chain4
NoLatch == <<>>

\* What an accepted read is promised: the memories as they are then.
Answers ==
  CASE req.region = "ram" ->
         [n \in 1..BurstCount(req.burst) |-> world.ram[RamLoc(req.loc + n - 1)]]
    [] req.region = "unmapped" -> [n \in 1..BurstCount(req.burst) |-> FF]
    [] req.region = "vga" /\ ~mode.fb -> <<[i \in req.be |-> world.vga[req.loc][i]]>>
    [] Planar -> <<[i \in req.be |-> world.fb[Group(mode.rd_bank, i)][mode.plane]]>>
    [] OTHER -> <<world.fb[FbIndex(mode.rd_bank)]>>

\* What an accepted request makes of the memories.
Written ==
  CASE req.region = "ram" ->
         [world EXCEPT !.ram[RamLoc(req.loc)] = Merge(@, Dword(req.data), req.be)]
    [] req.region = "unmapped" -> world
    [] req.region = "vga" /\ ~mode.fb ->
         [world EXCEPT !.vga[req.loc] = Merge(@, Dword(req.data), req.be)]
    [] Planar ->
         LET groups == {Group(mode.wr_bank, i) : i \in req.be}
             Put(g) == Merge(world.fb[g], IF mode.latched THEN world.latch
                                          ELSE [i \in Lanes |-> Byte(req.data, g % 4)], mode.mask)
         IN  [world EXCEPT !.fb = [g \in Fbs |-> IF g \in groups THEN Put(g) ELSE @[g]]]
    [] OTHER -> [world EXCEPT !.fb[FbIndex(mode.wr_bank)] = Merge(@, Dword(req.data), req.be)]
Latched ==
  IF Planar THEN [world EXCEPT !.latch = world.fb[Group(mode.rd_bank, Min(req.be))]] ELSE world

History ==
  /\ scenario' = scenario
  /\ expected' = (IF cpu_resp_valid /\ expected # <<>> THEN Tail(expected) ELSE expected)
                 \o (IF cpu_ready /\ ~req.write THEN Answers ELSE <<>>)
  /\ world' = CASE cpu_ready /\ req.write -> Written
                [] cpu_ready /\ ~req.write -> Latched
                [] mode' # mode /\ ~mode'.fb -> [world EXCEPT !.latch = NoLatch]
                [] OTHER -> world

\* The plane latches are written to the framebuffer only after a read has loaded them.
Sensible(q) == q.write /\ q.region = "vga" /\ mode.fb /\ ~mode.chain4 /\ mode.latched
               => world.latch # NoLatch

\* A write is over for the CPU when it is accepted, a read when it is answered.
Quiet == (req = NoRequest \/ cpu_ready) /\ Len(expected) <= (IF cpu_resp_valid THEN 1 ELSE 0)
         /\ (cpu_ready => req.write)
Released == [req |-> NoRequest, left |-> cpu.left]
Cpu ==
  \/ cpu' = (IF cpu_ready THEN Released ELSE cpu) /\ mode' = mode
  \/ /\ Quiet /\ cpu.left > 0
     /\ cpu' \in [req : {q \in scenario.requests : Sensible(q)}, left : {cpu.left - 1}]
     /\ mode' = mode
  \/ /\ Quiet /\ cpu.left > 0 /\ req = NoRequest
     /\ cpu' = [req |-> NoRequest, left |-> cpu.left - 1]
     /\ mode' \in scenario.modes \ {mode}

Tick == Machine /\ Sdram /\ VgaMemory /\ Ddr /\ Cpu /\ History

Init ==
  /\ state = "IDLE"
  /\ vga = [loc |-> 0, lane |-> 0, read |-> FALSE, write |-> FALSE, writedata |-> Zero[0],
            be |-> {}, bcnt |-> 0]
  /\ vga_data = Zero /\ vga_dout = Zero /\ vga_dout_ready = FALSE /\ vga_accepted = FALSE
  /\ fb = [addr |-> 0, high |-> 0, rd |-> FALSE, be |-> {}, din |-> Zero]
  /\ mem = IdlePort
  /\ ram = [l \in 0..(RamDwords - 1) |-> Zero]
  /\ vga_mem = [store |-> [l \in 0..(Window - 1) |-> Zero], readdata |-> Zero[0]]
  /\ ddr = [busy |-> FALSE, phase |-> "idle", dout |-> NoWord, store |-> [l \in Fbs |-> Zero]]
  /\ scenario \in Scenarios
  /\ mode \in scenario.modes
  /\ cpu = [req |-> NoRequest, left |-> scenario.count]
  /\ world = [ram |-> ram, vga |-> vga_mem.store, fb |-> ddr.store, latch |-> NoLatch]
  /\ expected = <<>>

Next == Tick

Spec == Init /\ [][Next]_vars

\* The clock runs, the SDRAM accepts and answers, and the DDR3 port answers the reads
\* it takes and is not busy for ever.
FairSpec ==
  /\ Spec
  /\ WF_vars(Tick) /\ WF_vars(Tick /\ mem' # mem)
  /\ WF_vars(Tick /\ ~ddr'.busy) /\ WF_vars(Tick /\ ddr'.phase = "answer")

-----------------------------------------------------------------------------
\* Every answer is one that a read was promised, in order, and holds in the enabled
\* lanes what the memory held when the read was accepted; the SDRAM and the machine
\* never answer in the same clock (main_memory.sv, cpu_resp_valid and cpu_dout).
AnswersAsPromised ==
  cpu_resp_valid =>
    /\ ~(mem_resp_valid /\ vga_dout_ready)
    /\ expected # <<>>
    /\ \A i \in DOMAIN Head(expected) : cpu_dout[i] = Head(expected)[i]

\* When nothing is under way the three memories hold what the accepted writes made of
\* them, and nothing else: a write is posted, and arrives in full.
WritesArrive ==
  state = "IDLE" /\ mem.phase = "idle" /\ req = NoRequest =>
    world.ram = ram /\ world.vga = vga_mem.store /\ world.fb = ddr.store

\* The machine and the SDRAM never serve the CPU together, so that their ready and
\* answer wires, which are ORed, belong to one request (main_memory.sv, vga_busy).
OnePath == vga_busy \/ vga_dout_ready => mem.phase = "idle"

\* Every request is accepted, and every read answered as often as it asked
\* (main_memory.sv, FB_READ_WAIT, "await read data").
EveryReadAnswered == req # NoRequest \/ expected # <<>> ~> req = NoRequest /\ expected = <<>>

=============================================================================
