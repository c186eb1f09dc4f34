------------------------------- MODULE HpsIde -------------------------------
(***************************************************************************)
(* The software side of the disk controller (src/verilator/ide_hps.cpp),   *)
(* composed with the controller and with a driver on the processor.        *)
(*                                                                         *)
(* tick runs once before every clock edge; each of its cases is an action. *)
(* Operations on the management bus take one clock, the next tick only     *)
(* clears them (bus_cooldown_), and with --jitter the software then rests  *)
(* for up to 63 more.                                                      *)
(*                                                                         *)
(* External: the driver.  It obeys the ATA protocol: it writes commands    *)
(* when the drive is neither busy nor wants data, moves data when it does, *)
(* and learns of either by polling or by the interrupt.  It resets the     *)
(* drive when it is not busy.  The I/O adapter keeps its accesses apart.   *)
(*                                                                         *)
(* A word of data is a tuple that says where it belongs.  A packet is its  *)
(* operation, its address and its length; a response counts words, not     *)
(* bytes.  Members that the next command writes before it reads them are   *)
(* cleared when the software becomes IDLE; what a CD read has left to send *)
(* is not one of them.                                                     *)
(***************************************************************************)
EXTENDS Ide

CONSTANTS
  Words,      \* words of a sector (256)
  Radix,      \* values of a byte of the task file (256)
  Capacity,   \* sectors of the image
  Burst,      \* sectors of a CD that one response holds (8)
  Geometry,   \* what set_geometry(63, 16) makes of the image
  Scenarios   \* [cdrom, jitter, commands]: the drive and what the driver may ask of it

PacketWords == 4   \* (6)

\* The command that the driver gave; SRST is the reset by device control.
Command ==
  [op : {"READ", "WRITE", "IDENTIFY", "GEOMETRY", "RECALIBRATE", "VERIFY", "OTHER",
         "IDENTIFY_PACKET", "PACKET", "DEVICE_RESET", "FEATURES", "SRST"},
   drv : 0..1, lba : BOOLEAN, features : 0..1, count : Nat, sector : Nat, cylinder : Nat,
   head : Nat, packet : Seq({"op", "lba", "length", "pad"} \X (Nat \cup STRING) \X {0}),
   irq : BOOLEAN,     \* the driver waits for interrupts
   wide : BOOLEAN]    \* the driver moves two words at a time when it can

ASSUME SizesAssumption ==
  /\ Words \in Nat \ {0} /\ Radix \in Nat \ {0, 1} /\ Capacity \in Nat /\ Burst \in Nat \ {0}
  /\ Words <= BufWords /\ Burst * Words <= BufWords
  /\ Geometry \in [spt : Nat \ {0}, heads : Nat \ {0}]

VARIABLES
  hps,       \* the members of HpsIde
  image,     \* image_
  driver,    \* external: the driver
  scenario,  \* external: the drive and the driver's commands, fixed
  expected,  \* history: the words that the read of the last clock should have returned
  intended   \* history: what the blocks written so far make of the image

disk_vars == <<io, bus, ide_vars, hps, image, driver, scenario, expected, intended>>

Sectors == 0..(Capacity - 1)
Least(S) == CHOOSE n \in S : \A m \in S : n <= m
NoSector == -1

-----------------------------------------------------------------------------
(* Sector numbers.                                                         *)

Span == Radix * Radix    \* values of the cylinder: two bytes

get_lba(regs, geometry) ==
  IF regs.lba THEN regs.sector + Radix * regs.cylinder + Span * Radix * regs.head
  ELSE (regs.cylinder * geometry.heads + regs.head) * geometry.spt + regs.sector - 1

put_lba_NoCarry(regs, geometry, n) ==
  IF regs.lba
  THEN [regs EXCEPT !.sector = n % Radix, !.cylinder = (n \div Radix) % Span,
                    !.head = (n \div (Span * Radix)) % 16]
  ELSE [regs EXCEPT !.cylinder = n \div (geometry.heads * geometry.spt),
                    !.head = n \div geometry.spt, !.sector = (n % geometry.spt) + 1]
put_lba(regs, geometry, n) ==
  IF regs.lba
  THEN [regs EXCEPT !.sector = n % Radix, !.cylinder = (n \div Radix) % Span,
                    !.head = (n \div (Span * Radix)) % 16]
  ELSE [regs EXCEPT !.cylinder = n \div (geometry.heads * geometry.spt),
                    !.head = (n % (geometry.heads * geometry.spt)) \div geometry.spt,
                    !.sector = (n % geometry.spt) + 1]

SectorAt(h) ==
  LET n == get_lba(h.regs, h.geometry) IN IF n \in Sectors THEN n ELSE NoSector
NextSector(h) == put_lba(h.regs, h.geometry, get_lba(h.regs, h.geometry) + 1)

SetGeometry(sectors, heads) ==
  [spt |-> IF sectors = 0 THEN Geometry.spt ELSE sectors,
   heads |-> IF heads = 0 THEN Geometry.heads ELSE heads]

-----------------------------------------------------------------------------
(* Commands.                                                               *)

PowerOnRegs ==
  [size |-> 0, error |-> 0, count |-> 1, sector |-> 1, cylinder |-> 0, head |-> 0, drv |-> 0,
   lba |-> FALSE, psize |-> 0, status |-> {"RDY"}]
Signature == Span - 2    \* 0xEB14
Absent == Span - 1       \* 0xFFFF

Ends(h, regs, bits) ==
  [h EXCEPT !.state = "SET_REGS", !.next = "IDLE", !.regs = [regs EXCEPT !.status = {"RDY"} \cup bits]]
Fails(h, regs) == Ends(h, [regs EXCEPT !.error = 4], {"ERR", "IRQ"})
Identifies(h, regs) ==
  [h EXCEPT !.state = "SEND_ID", !.cnt = 0,
            !.regs = [regs EXCEPT !.status = {"RDY", "DRQ", "IRQ", "END"}]]

finish_packet(h, key) ==
  Ends([h EXCEPT !.sense = key], [h.regs EXCEPT !.count = 3, !.psize = 0, !.error = key],
       {"IRQ"} \cup IF key = 0 THEN {} ELSE {"ERR"})

send_packet_data(h, data) ==
  LET sent == SubSeq(data, 1, Least({Len(data), h.plimit})) IN
  [h EXCEPT !.state = "PACKET_SEND", !.cnt = 0, !.data = sent,
            !.regs = [h.regs EXCEPT !.psize = Len(sent), !.cylinder = Len(sent), !.count = 2,
                                    !.error = 0, !.status = {"RDY", "DRQ", "IRQ"}]]

\* The part of a CD read that one response holds.
prepare_cdrom_read(h) ==
  LET n == Least({h.pleft, Burst} \cup IF h.plimit >= Words THEN {h.plimit \div Words} ELSE {}) IN
  IF h.pleft = 0 THEN finish_packet(h, 0)
  ELSE IF h.plba + n > Capacity THEN finish_packet(h, 5)
  ELSE send_packet_data(
         [h EXCEPT !.plba = @ + n, !.pleft = @ - n],
         [i \in 1..(n * Words) |-> image[h.plba + (i - 1) \div Words][1 + ((i - 1) % Words)]])

Answer(h, name, n) ==
  [i \in 1..Least({2, n}) |-> IF name = "SENSE" THEN <<"sense", h.sense, i>> ELSE <<"inquiry", i, 0>>]

handle_packet(h) ==
  LET p == h.packet
      op == IF p[1][1] = "op" THEN p[1][2] ELSE "OTHER"
  IN CASE op = "READY" -> finish_packet(h, 0)
       [] op = "SENSE" -> [send_packet_data(h, Answer(h, op, p[3][2])) EXCEPT !.sense = 0]
       [] op = "INQUIRY" -> send_packet_data(h, Answer(h, op, p[3][2]))
       [] op = "READ" -> prepare_cdrom_read([h EXCEPT !.plba = p[2][2], !.pleft = p[3][2]])
       [] OTHER -> finish_packet(h, 5)

handle_cdrom_cmd(h) ==
  LET blank == [PowerOnRegs EXCEPT !.drv = h.regs.drv] IN
  CASE h.cmd = "IDENTIFY_PACKET" -> Identifies(h, [blank EXCEPT !.psize = Words])
    [] h.cmd = "PACKET" /\ h.features = 1 -> finish_packet(h, 5)
    [] h.cmd = "PACKET" /\ h.features = 0 ->
         [h EXCEPT !.state = "SET_REGS", !.next = "PACKET_WAIT_REQ",
                   !.plimit = IF h.regs.cylinder = 0 THEN Burst * Words ELSE h.regs.cylinder,
                   !.regs = [h.regs EXCEPT !.psize = PacketWords, !.count = 1, !.error = 0,
                                           !.status = {"RDY", "DRQ"}]]
    [] h.cmd = "DEVICE_RESET" ->
         [h EXCEPT !.state = "SET_REGS", !.next = "IDLE",
                   !.regs = [h.regs EXCEPT !.error = 1, !.count = 1, !.sector = 1, !.head = 0,
                                           !.cylinder = Signature, !.psize = 0, !.status = {}]]
    [] h.cmd = "FEATURES" -> Ends(h, [h.regs EXCEPT !.error = 0], {"IRQ"})
    [] OTHER -> Fails(h, [h.regs EXCEPT !.count = 1, !.sector = 1, !.cylinder = Signature])

handle_ata_cmd(h) ==
  LET regs == IF h.cmd \in {"READ", "WRITE"} /\ h.regs.count = 0
              THEN [h.regs EXCEPT !.count = Radix] ELSE h.regs
  IN CASE h.cmd = "IDENTIFY" -> Identifies(h, [PowerOnRegs EXCEPT !.drv = regs.drv, !.size = 1])
       [] h.cmd \in {"READ", "WRITE"} -> [h EXCEPT !.state = h.cmd, !.regs = regs]
       [] h.cmd = "GEOMETRY" ->
            Ends([h EXCEPT !.geometry = SetGeometry(regs.count, regs.head + 1)], regs, {"IRQ"})
       [] h.cmd = "RECALIBRATE" -> Ends(h, [regs EXCEPT !.cylinder = 0], {"IRQ"})
       [] h.cmd = "VERIFY" -> Ends(h, regs, {"IRQ"})
       [] OTHER -> Fails(h, regs)

handle_cmd(h) ==
  IF h.regs.drv # 0 THEN Fails(h, h.regs)
  ELSE IF scenario.cdrom THEN handle_cdrom_cmd(h)
  ELSE handle_ata_cmd(h)

-----------------------------------------------------------------------------
(* The driver.  Its access is on the io bus for one clock; the adapter     *)
(* then leaves it silent for some (ReadGap, DataGap: iobus_adapter.sv).    *)

ReadGap == 1
DataGap == 2
Srst == [op |-> "SRST", drv |-> 0, lba |-> FALSE, features |-> 0, count |-> 0, sector |-> 0,
         cylinder |-> 0, head |-> 0, packet |-> <<>>, irq |-> FALSE, wide |-> FALSE]

\* Sectors that a count asks for, the first of them, and the data words of a command.
Blocks(c) == IF c.count = 0 THEN Radix ELSE c.count
First(c) == get_lba(c, driver.geometry)
Refused(c) ==
  \/ c.drv # 0 \/ c.op = "OTHER"
  \/ scenario.cdrom /\ c.op = "IDENTIFY"
  \/ c.op = "PACKET" /\ (c.features = 1 \/ c.packet[1][2] = "OTHER")
  \/ c.op = "PACKET" /\ c.packet[1][2] = "READ" /\ c.packet[2][2] + c.packet[3][2] > Capacity
Due(c) ==
  CASE c.op \in {"READ", "WRITE"} -> Blocks(c) * Words
    [] c.op \in {"IDENTIFY", "IDENTIFY_PACKET"} -> Words
    [] c.op = "PACKET" -> CASE c.packet[1][2] = "READ" -> c.packet[3][2] * Words
                            [] c.packet[1][2] = "READY" -> 0
                            [] OTHER -> Least({2, c.packet[3][2]})
    [] OTHER -> 0

\* Whether the driver may rely on an interrupt for what it waits for.
AwaitsIrq ==
  LET c == driver.cmd IN
  /\ c.irq
  /\ CASE c.op \in {"READ", "IDENTIFY", "IDENTIFY_PACKET"} -> Refused(c) \/ driver.moved < Due(c)
       [] c.op = "WRITE" -> driver.moved > 0
       [] c.op = "PACKET" -> driver.sent
       [] OTHER -> TRUE

Params(c) ==
  << <<14, <<"control", FALSE, ~c.irq>> >>, <<1, <<"features", c.features, 0>> >>,
     <<2, <<"count", c.count, 0>> >>, <<3, <<"sector", c.sector, 0>> >>,
     <<4, <<"cylinder", c.cylinder, 0>> >>, <<6, <<"drive", Address(c.lba, c.drv, c.head), 0>> >>,
     <<7, <<"command", c.op, 0>> >> >>

\* The n-th word, from 0, of what a command reads, and what it writes.
SectorWord(s, n) == IF s \in Sectors THEN intended[s][n + 1] ELSE <<"zero", 0, 0>>
ReadWord(n) ==
  LET c == driver.cmd IN
  CASE c.op = "READ" -> SectorWord(First(c) + n \div Words, n % Words)
    [] c.op \in {"IDENTIFY", "IDENTIFY_PACKET"} -> <<"identity", n + 1, 0>>
    [] c.op = "PACKET" -> CASE c.packet[1][2] = "READ" ->
                                 SectorWord(c.packet[2][2] + n \div Words, n % Words)
                            [] c.packet[1][2] = "SENSE" -> <<"sense", driver.sense, n + 1>>
                            [] OTHER -> <<"inquiry", n + 1, 0>>
WrittenWord(n) ==
  LET c == driver.cmd IN
  IF c.op = "WRITE" THEN <<"new", First(c) + n \div Words, (n % Words) + 1>>
  ELSE c.packet[PacketWords - driver.left + 1 + n - driver.moved]

Writes == driver.cmd.op = "WRITE" \/ (driver.cmd.op = "PACKET" /\ ~driver.sent)

Access(op, addr, data, wide) == [op |-> op, addr |-> addr, data |-> data, wide |-> wide]

\* The accesses that the driver may make next.
Accesses ==
  CASE driver.phase = "params" ->
         LET p == Params(driver.cmd)[driver.step] IN {Access("write", p[1], <<p[2]>>, FALSE)}
    [] driver.phase = "wait" ->
         IF AwaitsIrq THEN IF ide.irq THEN {Access("read", 7, <<>>, FALSE)} ELSE {}
         ELSE {Access("read", IF driver.cmd.irq THEN 7 ELSE 14, <<>>, FALSE)}
    [] driver.phase = "count" -> {Access("read", 4, <<>>, FALSE)}
    [] driver.phase = "data" ->
         LET wide == driver.cmd.wide /\ driver.left > 1 IN
         {Access(IF Writes THEN "write" ELSE "read", 0,
                 IF Writes THEN [i \in 1..(IF wide THEN 2 ELSE 1) |-> WrittenWord(driver.moved + i - 1)]
                 ELSE <<>>, wide)}
    [] driver.phase = "reset" -> {Access("write", 14, << <<"control", TRUE, FALSE>> >>, FALSE)}
    [] driver.phase = "release" -> {Access("write", 14, << <<"control", FALSE, FALSE>> >>, FALSE)}
    [] OTHER -> {}

\* What the driver does with the status it reads.
Learns(status) ==
  IF "BSY" \in status THEN driver
  ELSE IF "DRQ" \in status
       THEN IF driver.cmd.op = "PACKET" /\ driver.sent THEN [driver EXCEPT !.phase = "count"]
            ELSE [driver EXCEPT !.phase = "data",
                              !.left = IF driver.cmd.op = "PACKET" THEN PacketWords ELSE Words]
  ELSE LET c == driver.cmd IN
       [driver EXCEPT !.phase = "free",
          !.sense = IF scenario.cdrom /\ c.drv = 0 /\ c.op = "PACKET"
                    THEN IF Refused(c) THEN 5 ELSE 0 ELSE @,
          !.geometry = IF c.op = "GEOMETRY" /\ ~Refused(c)
                       THEN SetGeometry(c.count, c.head + 1) ELSE @]

\* The words of one access, and what they leave of the block.
MovesWords ==
  LET n == IF io.wide THEN 2 ELSE 1
      over == driver.left = n
  IN [driver EXCEPT !.moved = IF driver.cmd.op = "PACKET" /\ ~driver.sent THEN @ ELSE @ + n,
                  !.left = @ - n,
                  !.sent = @ \/ (over /\ driver.cmd.op = "PACKET"),
                  !.phase = IF over THEN "wait" ELSE @]

Served ==
  CASE driver.phase = "params" -> IF driver.step = 7 THEN [driver EXCEPT !.phase = "wait", !.step = 0]
                                ELSE [driver EXCEPT !.step = @ + 1]
    [] driver.phase = "wait" -> Learns(io_readdata'[1][2])
    [] driver.phase = "count" -> [driver EXCEPT !.phase = "data", !.left = io_readdata'[1][2]]
    [] driver.phase = "data" -> MovesWords
    [] driver.phase = "reset" -> [driver EXCEPT !.phase = "release"]
    [] driver.phase = "release" -> [driver EXCEPT !.phase = "wait"]

Gap == IF io.op = "write" /\ io.addr # 0 THEN 0 ELSE IF io.addr = 0 THEN DataGap ELSE ReadGap

\* A block that is complete is meant to be stored.
BlockOf(n) == First(driver.cmd) + n \div Words
Meant ==
  IF driver.cmd.op = "WRITE" /\ io.op = "write" /\ io.addr = 0 /\ driver'.phase = "wait"
     /\ BlockOf(driver.moved) \in Sectors
  THEN [intended EXCEPT ![BlockOf(driver.moved)] =
          [i \in 1..Words |-> <<"new", BlockOf(driver.moved), i>>]]
  ELSE intended

Begins(c) ==
  [driver EXCEPT !.phase = IF c = Srst THEN "reset" ELSE "params", !.cmd = c, !.step = IF c = Srst THEN 0 ELSE 1,
               !.moved = 0, !.left = 0, !.sent = FALSE,
               !.sense = IF driver.phase = "data" /\ driver.sent /\ driver.cmd.packet[1][2] = "SENSE" THEN 0 ELSE @]

HostServed ==
  /\ io.op # "none"
  /\ driver' = [Served EXCEPT !.gap = Gap]
  /\ io' = IoSilent
  /\ expected' = IF io.op = "read" /\ io.addr = 0
                 THEN [i \in 1..(IF io.wide THEN 2 ELSE 1) |-> ReadWord(driver.moved + i - 1)]
                 ELSE <<>>
  /\ intended' = Meant
HostQuiet ==
  /\ io.op = "none"
  /\ driver' = [driver EXCEPT !.gap = IF @ > 0 THEN @ - 1 ELSE 0]
  /\ io' = IoSilent
  /\ expected' = <<>> /\ UNCHANGED intended
HostAccesses ==
  /\ io.op = "none" /\ driver.gap = 0
  /\ io' \in Accesses
  /\ UNCHANGED <<driver, intended>> /\ expected' = <<>>
HostBegins ==
  /\ io.op = "none" /\ driver.gap = 0
  /\ \/ driver.phase = "free" /\ \E c \in scenario.commands : driver' = Begins(c)
     \/ driver.phase = "data" /\ Srst \in scenario.commands /\ driver' = Begins(Srst)
  /\ io' = IoSilent /\ expected' = <<>> /\ UNCHANGED intended

Host == HostServed \/ HostQuiet \/ HostAccesses \/ HostBegins
ClockEdge == Port /\ Host /\ UNCHANGED scenario
-----------------------------------------------------------------------------
(* tick.  A case either uses the bus or leaves it.                         *)

Uses(op, addr, data, h) ==
  bus' = [op |-> op, addr |-> addr, data |-> data] /\ hps' = [h EXCEPT !.rest = TRUE]
pulse_write(addr, data, h) == Uses("write", addr, data, h)
pulse_read(addr, h) == Uses("read", addr, Nothing, h)
clear_bus(h) == bus' = [bus EXCEPT !.op = "none"] /\ hps' = h

In(state) == hps.state = state /\ ~hps.rest

\* bus_cooldown_ and jitter_delay_
Rest ==
  /\ hps.rest
  /\ \E more \in IF scenario.jitter THEN BOOLEAN ELSE {FALSE} : clear_bus([hps EXCEPT !.rest = more])
  /\ UNCHANGED image /\ ClockEdge

INITIAL ==
  /\ In("INITIAL")
  /\ pulse_write(6, <<"present", TRUE, 0>>, [hps EXCEPT !.state = "IDLE"])
  /\ UNCHANGED image /\ ClockEdge

\* What no command reads before it has written it keeps no value: the copies of the
\* task file (GET_CMD), the counter, packet, response and limit (handle_cdrom_cmd to
\* PACKET_SEND), the sector and the pending interrupt (READ_REGS, WRITE).  The sectors
\* that a CD read has left are tested after every response, and stay; where they begin
\* matters only while there are some.
NoArgs == [count |-> 0, sector |-> 0, cylinder |-> 0]
Cleared(h) ==
  [h EXCEPT !.args = NoArgs, !.cmd = "none", !.features = 0, !.cnt = 0, !.packet = <<>>, !.data = <<>>,
            !.lba = NoSector, !.irq_pending = FALSE, !.plimit = 0, !.plba = IF h.pleft = 0 THEN 0 ELSE @,
            !.regs = [PowerOnRegs EXCEPT !.error = h.regs.error, !.size = h.regs.size,
                                         !.psize = h.regs.psize]]

IDLE ==
  /\ In("IDLE")
  /\ CASE ide.request = "command" -> pulse_read(0, [hps EXCEPT !.state = "GET_CMD"])
       [] ide.request = "reset" -> pulse_read(5, [hps EXCEPT !.state = "GET_RESET_DRIVE"])
       [] OTHER -> clear_bus(hps)
  /\ UNCHANGED image /\ ClockEdge

GET_RESET_DRIVE ==
  LET addr == mgmt_readdata[3] IN
  /\ In("GET_RESET_DRIVE")
  /\ clear_bus([hps EXCEPT !.state = "SET_REGS", !.next = "RESET_SET",
       !.regs = [@ EXCEPT !.drv = addr.drv, !.lba = addr.lba, !.head = 0, !.sector = 1, !.count = 1,
                          !.error = IF scenario.cdrom THEN 1 ELSE 0,
                          !.cylinder = IF addr.drv # 0 THEN Absent
                                       ELSE IF scenario.cdrom THEN Signature ELSE 0,
                          !.status = IF scenario.cdrom THEN {} ELSE {"RDY"}]])
  /\ UNCHANGED image /\ ClockEdge

RESET_SET ==
  In("RESET_SET") /\ clear_bus(Cleared([hps EXCEPT !.state = "IDLE"])) /\ UNCHANGED image /\ ClockEdge

\* The address of the last read says which register has arrived.
GET_CMD ==
  LET d == mgmt_readdata IN
  /\ In("GET_CMD")
  /\ CASE bus.addr = 0 -> pulse_read(1, [hps EXCEPT !.features = d[2]])
       [] bus.addr = 1 -> pulse_read(2, [hps EXCEPT !.args.count = d[2], !.args.sector = d[3]])
       [] bus.addr = 2 -> pulse_read(3, [hps EXCEPT !.args.cylinder = d[2]])
       [] bus.addr \in {3, 4} -> pulse_read(bus.addr + 1, hps)
       [] bus.addr = 5 ->
            clear_bus([hps EXCEPT !.state = "DO_CMD", !.cmd = d[2],
              !.regs = [@ EXCEPT !.count = hps.args.count, !.sector = hps.args.sector,
                                 !.cylinder = hps.args.cylinder, !.head = d[3].head,
                                 !.drv = d[3].drv, !.lba = d[3].lba]])
  /\ UNCHANGED image /\ ClockEdge

DO_CMD == In("DO_CMD") /\ clear_bus(handle_cmd(hps)) /\ UNCHANGED image /\ ClockEdge

SEND_ID ==
  /\ In("SEND_ID")
  /\ IF hps.cnt < Words
     THEN pulse_write(15, <<"identity", hps.cnt + 1, 0>>, [hps EXCEPT !.cnt = @ + 1])
     ELSE clear_bus([hps EXCEPT !.state = "SET_REGS", !.next = "IDLE"])
  /\ UNCHANGED image /\ ClockEdge

SET_REGS ==
  /\ In("SET_REGS")
  /\ clear_bus([hps EXCEPT !.state = "SET_REGS_SEND", !.cnt = 0,
       !.regs.status = IF scenario.cdrom \/ "DRQ" \in @ THEN @ ELSE @ \cup {"DSC"}])
  /\ UNCHANGED image /\ ClockEdge

\* buf_: the values that are sent, by address.
RegValue(r, addr) ==
  CASE addr = 0 -> <<"size", IF scenario.cdrom THEN BySize ELSE r.size * Words, r.error>>
    [] addr = 1 -> <<"count", r.count % Radix, r.sector % Radix>>
    [] addr = 2 -> <<"cylinder", r.cylinder % Span, 0>>
    [] addr = 3 -> Nothing
    [] addr = 4 -> <<"packet size", r.psize, 0>>
    [] addr = 5 -> <<"status", Address(r.lba, r.drv, r.head), r.status>>

SET_REGS_SEND ==
  /\ In("SET_REGS_SEND")
  /\ IF hps.cnt < 6
     THEN pulse_write(hps.cnt, RegValue(hps.regs, hps.cnt), [hps EXCEPT !.cnt = @ + 1])
     ELSE LET h == [hps EXCEPT !.cnt = 0, !.state = hps.next]
          IN  clear_bus(IF hps.next = "IDLE" THEN Cleared(h) ELSE h)
  /\ UNCHANGED image /\ ClockEdge

READ == In("READ") /\ clear_bus([hps EXCEPT !.state = "READ_REGS"]) /\ UNCHANGED image /\ ClockEdge

ReadStatus(count) == {"RDY", "DRQ", "IRQ"} \cup IF count = 0 THEN {"END"} ELSE {}
READ_REGS_StatusFirst ==
  LET count == hps.regs.count - 1 IN
  /\ In("READ_REGS")
  /\ clear_bus([hps EXCEPT !.lba = SectorAt(hps), !.cnt = 0, !.state = "SET_REGS", !.next = "READ_SEND",
       !.regs = [NextSector(hps) EXCEPT !.count = count, !.size = 1, !.status = ReadStatus(count)]])
  /\ UNCHANGED image /\ ClockEdge
READ_REGS ==
  LET count == hps.regs.count - 1 IN
  /\ In("READ_REGS")
  /\ clear_bus([hps EXCEPT !.lba = SectorAt(hps), !.cnt = 0, !.state = "READ_SEND",
       !.regs = [NextSector(hps) EXCEPT !.count = count, !.size = 1, !.status = ReadStatus(count)]])
  /\ UNCHANGED image /\ ClockEdge

READ_SEND ==
  /\ In("READ_SEND")
  /\ IF hps.cnt < Words
     THEN pulse_write(15, IF hps.lba = NoSector THEN <<"zero", 0, 0>> ELSE image[hps.lba][hps.cnt + 1],
                      [hps EXCEPT !.cnt = @ + 1])
     ELSE clear_bus([hps EXCEPT !.cnt = 0, !.state = "SET_REGS",
                       !.next = IF hps.regs.count # 0 THEN "READ_WAIT_REQ" ELSE "IDLE"])
  /\ UNCHANGED image /\ ClockEdge

\* The software goes on when the block is over, and gives up when it is asked for
\* something else.
Waits(state, next) ==
  /\ In(state)
  /\ CASE ide.request = "data" -> clear_bus(next)
       [] ide.request = "none" -> clear_bus(hps)
       [] OTHER -> clear_bus(Cleared([hps EXCEPT !.state = "IDLE"]))
  /\ UNCHANGED image /\ ClockEdge

READ_WAIT_REQ == Waits("READ_WAIT_REQ", [hps EXCEPT !.state = "READ_REGS"])

WRITE ==
  /\ In("WRITE") /\ clear_bus([hps EXCEPT !.irq_pending = FALSE, !.state = "WRITE_REGS"])
  /\ UNCHANGED image /\ ClockEdge

WRITE_REGS ==
  /\ In("WRITE_REGS")
  /\ clear_bus([hps EXCEPT !.lba = SectorAt(hps), !.irq_pending = TRUE,
       !.state = "SET_REGS", !.next = "WRITE_WAIT_REQ",
       !.regs = [@ EXCEPT !.size = 1,
                          !.status = {"RDY", "DRQ"} \cup IF hps.irq_pending THEN {"IRQ"} ELSE {}]])
  /\ UNCHANGED image /\ ClockEdge

WRITE_WAIT_REQ == Waits("WRITE_WAIT_REQ", [hps EXCEPT !.cnt = 0, !.state = "WRITE_RECV"])

\* A word is stored by the tick that asks for the next one.
WRITE_RECV ==
  LET regs == [NextSector(hps) EXCEPT !.count = hps.regs.count - 1] IN
  /\ In("WRITE_RECV")
  /\ image' = IF hps.cnt > 0 /\ hps.lba # NoSector
              THEN [image EXCEPT ![hps.lba][hps.cnt] = mgmt_readdata] ELSE image
  /\ IF hps.cnt < Words THEN pulse_read(15, [hps EXCEPT !.cnt = @ + 1])
     ELSE clear_bus(IF regs.count # 0
                    THEN [hps EXCEPT !.cnt = 0, !.regs = regs, !.state = "WRITE_REGS"]
                    ELSE Ends([hps EXCEPT !.cnt = 0], regs, {"IRQ"}))
  /\ ClockEdge

PACKET_WAIT_REQ ==
  Waits("PACKET_WAIT_REQ", [hps EXCEPT !.cnt = 0, !.packet = <<>>, !.state = "PACKET_RECV"])

Received == IF hps.cnt > 0 THEN Append(hps.packet, mgmt_readdata) ELSE hps.packet
PACKET_RECV_NoRewind ==
  /\ In("PACKET_RECV")
  /\ IF hps.cnt < PacketWords
     THEN pulse_read(15, [hps EXCEPT !.cnt = @ + 1, !.packet = Received])
     ELSE clear_bus([hps EXCEPT !.cnt = 0, !.packet = Received, !.state = "PACKET_HANDLE"])
  /\ UNCHANGED image /\ ClockEdge
PACKET_RECV ==
  /\ In("PACKET_RECV")
  /\ IF hps.cnt < PacketWords
     THEN pulse_read(15, [hps EXCEPT !.cnt = @ + 1, !.packet = Received])
     ELSE pulse_write(7, Nothing, [hps EXCEPT !.cnt = 0, !.packet = Received, !.state = "PACKET_HANDLE"])
  /\ UNCHANGED image /\ ClockEdge

PACKET_HANDLE == In("PACKET_HANDLE") /\ clear_bus(handle_packet(hps)) /\ UNCHANGED image /\ ClockEdge

PACKET_SEND ==
  /\ In("PACKET_SEND")
  /\ IF hps.cnt < hps.regs.psize
     THEN pulse_write(15, hps.data[hps.cnt + 1], [hps EXCEPT !.cnt = @ + 1])
     ELSE clear_bus([hps EXCEPT !.cnt = 0, !.state = "SET_REGS", !.next = "PACKET_READ_WAIT_REQ"])
  /\ UNCHANGED image /\ ClockEdge

PACKET_READ_WAIT_REQ_Once == Waits("PACKET_READ_WAIT_REQ", finish_packet(hps, 0))
PACKET_READ_WAIT_REQ ==
  Waits("PACKET_READ_WAIT_REQ", IF hps.pleft > 0 THEN prepare_cdrom_read(hps) ELSE finish_packet(hps, 0))

DiskInit ==
  /\ PortInit
  /\ scenario \in Scenarios
  /\ image = [s \in Sectors |-> [i \in 1..Words |-> <<"old", s, i>>]]
  /\ intended = image
  /\ hps = [state |-> "INITIAL", next |-> "IDLE", rest |-> FALSE, geometry |-> Geometry, sense |-> 0,
            regs |-> PowerOnRegs, args |-> NoArgs, cmd |-> "none", features |-> 0, cnt |-> 0,
            packet |-> <<>>, data |-> <<>>, lba |-> NoSector, irq_pending |-> FALSE,
            plba |-> 0, pleft |-> 0, plimit |-> 0]
  /\ driver = [phase |-> "wait", cmd |-> Srst, step |-> 0, moved |-> 0, left |-> 0, sent |-> FALSE,
             gap |-> 0, sense |-> 0, geometry |-> Geometry]
  /\ expected = <<>>

DiskNext ==
  \/ Rest \/ INITIAL \/ IDLE \/ GET_RESET_DRIVE \/ RESET_SET \/ GET_CMD \/ DO_CMD \/ SEND_ID
  \/ SET_REGS \/ SET_REGS_SEND \/ READ \/ READ_REGS \/ READ_SEND \/ READ_WAIT_REQ
  \/ WRITE \/ WRITE_REGS \/ WRITE_WAIT_REQ \/ WRITE_RECV
  \/ PACKET_WAIT_REQ \/ PACKET_RECV \/ PACKET_HANDLE \/ PACKET_SEND \/ PACKET_READ_WAIT_REQ

DiskSpec == DiskInit /\ [][DiskNext]_disk_vars

\* The clock runs, the rests end (after 63 clocks), and the driver goes on.
FairDiskSpec ==
  /\ DiskSpec
  /\ WF_disk_vars(DiskNext)
  /\ WF_disk_vars(DiskNext /\ ~hps'.rest)
  /\ WF_disk_vars(DiskNext /\ io'.op # "none")

-----------------------------------------------------------------------------
\* What the driver reads is what the command asked for: the words of the image,
\* of the identity or of the response, in order and each once (READ_SEND, SEND_ID,
\* PACKET_SEND through the buffer of ide.v).
ReadsWhatItAskedFor == expected # <<>> => io_readdata = expected

\* When a command has ended, the image is what the complete blocks make of it
\* (WRITE_RECV reads the words back through the buffer).
WritesReachTheImage == driver.phase = "free" => image = intended

\* The software moves words through the buffer only while the driver may not
\* (ide.v: the status is BSY from a command or a complete block to the status write).
OneUserOfTheBuffer == [][bus'.op # "none" /\ bus'.addr = 15 => ~drq]_disk_vars

\* When the drive is ready again, the status is the answer to this command: an error
\* if and only if it was refused, otherwise all of its data has been moved; and a
\* reset leaves the signature of the selected drive (GET_RESET_DRIVE).
AnswersThisCommand ==
  driver.phase = "free" =>
    LET c == driver.cmd IN
    /\ ("ERR" \in ide.status) = Refused(c) /\ (Refused(c) => ide.error # 0)
    /\ ~Refused(c) => driver.moved = Due(c)
    /\ c.op \in {"SRST", "DEVICE_RESET"} =>
         /\ tf.sector_count = 1 /\ tf.sector = 1
         /\ tf.cylinder = IF tf.drv_addr.drv # 0 THEN Absent
                          ELSE IF scenario.cdrom THEN Signature ELSE 0

\* Every command ends, with the status polled or with interrupts.
EveryCommandEnds == driver.phase # "free" ~> driver.phase = "free"

=============================================================================
