-------------------------------- MODULE Ide ---------------------------------
(***************************************************************************)
(* The disk controller (src/src/soc/ide.v): a task file, a status and a    *)
(* block buffer between two users.  The processor has the io port, the     *)
(* software that holds the disk image (HPS) the management port.           *)
(*                                                                         *)
(* One step is one rising edge of clk; Port is every register of it.  A    *)
(* value on either bus is a tuple that starts with what it is, the status  *)
(* is the set of its bits, and the low and high byte of a register that    *)
(* has two addresses go together.                                          *)
(*                                                                         *)
(* Left out: the previous values of the task file (hob), which no software *)
(* here enables; io_wait and no_data, which system.sv leaves open, and     *)
(* fast_read, which only serves no_data.  Name_How is Name with a bug.     *)
(***************************************************************************)
EXTENDS Integers, Sequences, FiniteSets

CONSTANTS
  BufWords,    \* words of the buffer (8192), even
  CountLimit   \* values of a word counter (2^14)

VARIABLES
  io,            \* io_address, io_read, io_write, io_writedata, io_32: the access of this clock
  io_readdata,   \* io_readdata
  bus,           \* mgmt_address, mgmt_write, mgmt_read, mgmt_writedata
  mgmt_readdata, \* mgmt_readdata
  tf,            \* features, sector_count, sector, cylinder, drv_addr, cmd
  ide,           \* the other registers
  buf            \* io_buf0 and io_buf1 by word, and the pair each port shows

ide_vars == <<io_readdata, mgmt_readdata, tf, ide, buf>>

ASSUME BufferAssumption ==
  /\ BufWords \in Nat \ {0} /\ BufWords % 2 = 0
  /\ CountLimit \in Nat /\ CountLimit > BufWords

-----------------------------------------------------------------------------
Nothing == <<"nothing", 0, 0>>
IoSilent == [op |-> "none", addr |-> 0, data |-> <<>>, wide |-> FALSE]

\* The bits of the status, and what is read where no drive is present.
StatusBits == {"BSY", "RDY", "DSC", "DRQ", "ERR"}
Floating == <<"status", StatusBits, 0>>
Address(lba, drv, head) == [lba |-> lba, drv |-> drv, head |-> head]

reset == ide.sw_reset
drq == "DRQ" \in ide.status
io_wr(a) == io.op = "write" /\ io.addr = a /\ ide.present
io_rd(a) == io.op = "read" /\ io.addr = a
mgmt_wr(a) == bus'.op = "write" /\ bus'.addr = a

\* A block is over when io_cnt has reached its size; 0 is no block.
io_done == ide.blk_size > 0 /\ ide.io_cnt >= ide.blk_size
write_data_io == io_wr(0) /\ drq
read_data_io == io_rd(0) /\ drq
io_stb == read_data_io \/ write_data_io

-----------------------------------------------------------------------------
(* The io port reads what the last edge left in the registers.             *)

NextIoReaddata ==
  IF io.op # "read" THEN io_readdata
  ELSE IF ~ide.present THEN <<Floating>>
  ELSE CASE io.addr = 0 /\ ~drq -> <<Nothing>>
         [] io.addr = 0 /\ drq /\ io.wide -> buf.q
         [] io.addr = 0 /\ drq /\ ~io.wide -> <<buf.q[1 + (ide.io_cnt % 2)]>>
         [] io.addr = 4 -> << <<"cylinder", tf.cylinder, 0>> >>
         [] io.addr \in {7, 14} -> << <<"status", ide.status, 0>> >>

NextMgmtReaddata ==
  CASE bus'.addr = 0 -> <<"features", tf.features, 0>>
    [] bus'.addr = 1 -> <<"count", tf.sector_count, tf.sector>>
    [] bus'.addr = 2 -> <<"cylinder", tf.cylinder, 0>>
    [] bus'.addr \in {3, 4} -> Nothing
    [] bus'.addr = 5 -> <<"command", tf.cmd, tf.drv_addr>>
    [] OTHER -> buf.readdata[1 + (ide.mgmt_cnt % 2)]

\* The management port wins a register that both write.
NextTf ==
  [features |-> IF io_wr(1) THEN io.data[1][2] ELSE tf.features,
   sector_count |-> IF mgmt_wr(1) THEN bus'.data[2]
                    ELSE IF io_wr(2) THEN io.data[1][2] ELSE tf.sector_count,
   sector |-> IF mgmt_wr(1) THEN bus'.data[3]
              ELSE IF io_wr(3) THEN io.data[1][2] ELSE tf.sector,
   cylinder |-> IF mgmt_wr(2) THEN bus'.data[2]
                ELSE IF io_wr(4) THEN io.data[1][2] ELSE tf.cylinder,
   drv_addr |-> IF mgmt_wr(5) THEN bus'.data[2]
                ELSE IF io_wr(6) THEN io.data[1][2] ELSE tf.drv_addr,
   cmd |-> IF io_wr(7) THEN io.data[1][2] ELSE tf.cmd]

\* Any size with bit 15 set is beyond what io_cnt can count, and stands for the
\* packet size that follows.
BySize == CountLimit
NextBlkSize ==
  IF mgmt_wr(0) THEN bus'.data[2]
  ELSE IF mgmt_wr(4) /\ ide.blk_size = BySize THEN bus'.data[2]
  ELSE ide.blk_size

BlockEnds == io_done /\ drq

NextStatus ==
  IF reset THEN {"BSY"}
  ELSE IF mgmt_wr(5) THEN bus'.data[3] \cap StatusBits
  ELSE IF io_wr(7) THEN {"BSY"}
  ELSE IF BlockEnds THEN IF ide.last_read THEN {"RDY"} ELSE {"BSY"}
  ELSE ide.status

NextLastRead ==
  IF reset THEN FALSE
  ELSE IF mgmt_wr(5) THEN "END" \in bus'.data[3]
  ELSE ide.last_read /\ ~BlockEnds

NextRequest_OnlyReads ==
  IF reset THEN "reset"
  ELSE IF mgmt_wr(5) THEN "none"
  ELSE IF io_wr(7) THEN "command"
  ELSE IF BlockEnds /\ ide.last_read THEN "data"
  ELSE ide.request
NextRequest ==
  IF reset THEN "reset"
  ELSE IF mgmt_wr(5) THEN "none"
  ELSE IF io_wr(7) THEN "command"
  ELSE IF BlockEnds /\ ~ide.last_read THEN "data"
  ELSE ide.request

NextIrq ==
  IF reset THEN FALSE
  ELSE IF mgmt_wr(5) /\ "IRQ" \in bus'.data[3] /\ ~ide.disable_irq THEN TRUE
  ELSE ide.irq /\ ~(io_rd(7) \/ io_wr(7))

\* Device control: a write while the reset is on sets the reset alone.
NextDisableIrq == IF reset THEN FALSE ELSE IF io_wr(14) THEN io.data[1][3] ELSE ide.disable_irq
NextSwReset == IF io_wr(14) THEN io.data[1][2] ELSE ide.sw_reset

\* The counters move when a strobe ends.
NextIoCnt ==
  IF reset \/ mgmt_wr(5) THEN 0
  ELSE IF ide.old_stb /\ ~io_stb THEN (ide.io_cnt + (IF ide.r_32 THEN 2 ELSE 1)) % CountLimit
  ELSE ide.io_cnt

NextMgmtCnt ==
  IF (ide.old_wr /\ bus'.op # "write") \/ (ide.old_rd /\ bus'.op # "read")
  THEN IF bus'.addr = 15 THEN (ide.mgmt_cnt + 1) % CountLimit ELSE 0
  ELSE ide.mgmt_cnt

NextIde ==
  [status |-> NextStatus, error |-> IF mgmt_wr(0) THEN bus'.data[3] ELSE ide.error, last_read |-> NextLastRead,
   request |-> NextRequest, irq |-> NextIrq, blk_size |-> NextBlkSize, disable_irq |-> NextDisableIrq, sw_reset |-> NextSwReset,
   present |-> IF mgmt_wr(6) THEN bus'.data[2] ELSE ide.present,
   io_cnt |-> NextIoCnt, old_stb |-> io_stb, r_32 |-> IF io_stb THEN io.wide ELSE ide.r_32,
   mgmt_cnt |-> NextMgmtCnt, old_wr |-> bus'.op = "write", old_rd |-> bus'.op = "read"]

-----------------------------------------------------------------------------
(* The buffer: the low half of a pair is in io_buf0, the high half in      *)
(* io_buf1, and each port shows the pair its counter points at one clock   *)
(* later, unless it is writing to it.                                      *)

Pair(cnt) == ((cnt \div 2) * 2) % BufWords
IoWrites(half) == write_data_io /\ (io.wide \/ ide.io_cnt % 2 = half)
MgmtWrites(half) == mgmt_wr(15) /\ ide.mgmt_cnt % 2 = half

Stored(w) ==
  LET half == w % 2 IN
  IF MgmtWrites(half) /\ w - half = Pair(ide.mgmt_cnt) THEN bus'.data
  ELSE IF IoWrites(half) /\ w - half = Pair(ide.io_cnt)
       THEN io.data[IF io.wide THEN 1 + half ELSE 1]
  ELSE buf.word[w]

NextBuf ==
  [word |-> [w \in 0..(BufWords - 1) |-> Stored(w)],
   readdata |-> [i \in 1..2 |-> IF MgmtWrites(i - 1) THEN buf.readdata[i]
                                ELSE buf.word[Pair(ide.mgmt_cnt) + i - 1]],
   q |-> [i \in 1..2 |-> IF IoWrites(i - 1) THEN buf.q[i]
                         ELSE buf.word[Pair(ide.io_cnt) + i - 1]]]

Port ==
  /\ io_readdata' = NextIoReaddata
  /\ mgmt_readdata' = NextMgmtReaddata
  /\ tf' = NextTf
  /\ ide' = NextIde
  /\ buf' = NextBuf

PortInit ==
  /\ io = IoSilent /\ io_readdata = <<Nothing>>
  /\ bus = [op |-> "none", addr |-> 0, data |-> Nothing] /\ mgmt_readdata = Nothing
  /\ tf = [features |-> 0, sector_count |-> 1, sector |-> 1, cylinder |-> 0,
           drv_addr |-> Address(FALSE, 0, 0), cmd |-> "none"]
  /\ ide = [status |-> {"BSY"}, error |-> 0, last_read |-> FALSE,
            request |-> "reset", irq |-> FALSE, blk_size |-> 0, disable_irq |-> FALSE, sw_reset |-> FALSE, present |-> FALSE,
            io_cnt |-> 0, old_stb |-> FALSE, r_32 |-> FALSE,
            mgmt_cnt |-> 0, old_wr |-> FALSE, old_rd |-> FALSE]
  /\ buf = [word |-> [w \in 0..(BufWords - 1) |-> Nothing],
            readdata |-> <<Nothing, Nothing>>, q |-> <<Nothing, Nothing>>]

=============================================================================
