---------------------------- MODULE IobusAdapter ----------------------------
(***************************************************************************)
(* The I/O bus adapter (src/src/iobus_adapter.sv) and what system.sv hangs *)
(* on its bus: the answer multiplexer and the speed control register.      *)
(*                                                                         *)
(* One step is one rising edge of clk_sys.  External: the CPU, which holds *)
(* an access until it sees ready, may hold it longer, and lets go of the   *)
(* bus for a clock before the next; and the devices, which register their  *)
(* answer at the end of every clock in which they see a read strobe, take  *)
(* a write in every clock with a write strobe or at its rising edge, and   *)
(* answer every read with another value.                                   *)
(*                                                                         *)
(* The byte states S_ISSUEi, S_WAITi and S_CAPi are a phase and the byte.  *)
(* captured and read_accum are cleared on the way to S_IDLE and cpu_dout   *)
(* after its clock with ready: the code leaves values there, which nothing *)
(* uses.  The number of a transaction (in seen) tells the answers apart.   *)
(* Name_How is Name with a bug in it.                                      *)
(***************************************************************************)
EXTENDS IoAccesses

CONSTANTS
  SpeedBase,  \* 0x8888, the speed control register
  Key         \* 0xA1, which its high byte must be

VARIABLES
  state,       \* state: the phase and the byte it is at
  captured,    \* byte_addr, active_be, is_read, write_data
  read_accum,  \* read_accum
  was_active,  \* was_active
  cpu_io_ready, cpu_dout,
  strobe,      \* io_* and ide_*: the transaction on the peripheral bus, or nothing
  io_address,  \* io_address, which selects the device whose answer is seen
  readdata,    \* external: the answer registered in every device
  speed,       \* speedctl_low and ctlport
  cpu,         \* external: the CPU's access, and whether it has seen ready
  seen,        \* history: the transactions of this access, for a device that samples levels
  edges,       \* history: its writes, for a device that detects edges
  writing,     \* history: the write strobe of the last clock
  intended     \* history: the speed register as the access intends it

adapter == <<state, captured, read_accum, was_active, cpu_io_ready, cpu_dout, strobe, io_address>>
vars == <<adapter, readdata, speed, cpu, seen, edges, writing, intended>>

Silent == [base |-> "none", lane |-> 0, width |-> 0, read |-> FALSE, data |-> <<>>]

ASSUME SpeedAssumption == SpeedBase \in Bases \cap Deaf

-----------------------------------------------------------------------------
At(phase, i) == [phase |-> phase, byte |-> i]
Idle == At("idle", 0)
Done == At("done", 0)
Issue(i) == IF i = 4 THEN Done ELSE At("issue", i)

\* cpu_io_rd or cpu_io_wr
Asserted == cpu.access # NoAccess
Accepts == state = Idle /\ Asserted /\ ~was_active

\* The transition of the byte states, with the low-strobe gap after a write.
NextState_NoGap ==
  LET i == state.byte IN
  CASE state.phase = "idle" -> IF ~Accepts THEN state
                               ELSE IF IsIde(cpu.access) THEN At("ide32", 0) ELSE Issue(0)
    [] state.phase = "issue" -> IF i \in captured.be /\ captured.read
                                THEN At("wait", i) ELSE Issue(i + 1)
    [] state.phase = "wait" -> At("cap", i)
    [] state.phase = "cap" -> Issue(i + 1)
    [] state.phase = "ide32" -> At("ide32w", 0)
    [] state.phase \in {"done", "ide32w"} -> Idle
NextState ==
  LET i == state.byte IN
  CASE state.phase = "idle" -> IF ~Accepts THEN state
                               ELSE IF IsIde(cpu.access) THEN At("ide32", 0) ELSE Issue(0)
    [] state.phase = "issue" -> IF i \in captured.be THEN At("wait", i) ELSE Issue(i + 1)
    [] state.phase = "wait" -> IF captured.read THEN At("cap", i) ELSE Issue(i + 1)
    [] state.phase = "cap" -> Issue(i + 1)
    [] state.phase = "ide32" -> At("ide32w", 0)
    [] state.phase \in {"done", "ide32w"} -> Idle

\* The strobe that the next clock carries.
NextStrobe ==
  IF Accepts /\ IsIde(cpu.access) THEN IdeWord(cpu.access)
  ELSE IF state.phase = "issue" /\ state.byte \in captured.be
       THEN Byte(captured, state.byte)
  ELSE Silent

\* io_address: the base when an access is taken, then the port of each enabled byte.
NextAddress ==
  IF Accepts THEN <<cpu.access.base, 0>>
  ELSE IF state.phase = "issue" /\ state.byte \in captured.be
       THEN <<captured.base, state.byte>>
  ELSE io_address

\* iobus_readdata8, ide_readdata: the answer of the device at the address on the bus.
io_readdata == IF io_address[1] \in Bases \ Deaf THEN readdata[io_address[1]] ELSE Ones

Finishing == state.phase \in {"done", "ide32w"}

NextResult_Early ==
  CASE state.phase = "done" -> read_accum
    [] state.phase = "ide32" /\ captured.read -> [i \in Lanes |-> io_readdata]
    [] state.phase = "ide32w" -> cpu_dout
    [] OTHER -> NoData
NextResult ==
  CASE state.phase = "done" -> read_accum
    [] state.phase = "ide32w" /\ captured.read -> [i \in Lanes |-> io_readdata]
    [] OTHER -> NoData

\* The guard that keeps one held access from being taken twice.
NextGuard_Held == Finishing \/ was_active
NextGuard_None == FALSE
NextGuard == Finishing \/ (was_active /\ (state # Idle \/ Asserted))

Adapter ==
  /\ state' = NextState
  /\ captured' = IF Accepts THEN cpu.access ELSE IF Finishing THEN NoAccess ELSE captured
  /\ read_accum' = IF state.phase = "cap" THEN [read_accum EXCEPT ![state.byte] = io_readdata]
                   ELSE IF Finishing THEN NoData ELSE read_accum
  /\ was_active' = NextGuard
  /\ cpu_io_ready' = Finishing
  /\ cpu_dout' = NextResult
  /\ strobe' = NextStrobe
  /\ io_address' = NextAddress

-----------------------------------------------------------------------------
\* A device answers the read it sees, as the n-th transaction of this access.
NextReaddata ==
  IF strobe # Silent /\ strobe.read
  THEN [readdata EXCEPT ![strobe.base] = Answer(strobe.base, strobe.lane, Len(seen) + 1)]
  ELSE readdata

\* speedctl: the low byte waits for the key in the high one.
WriteSpeed_LowLast(s, lane, b) ==
  IF lane = 0 THEN [low |-> b, ctlport |-> IF s.low = Key THEN b ELSE s.ctlport]
  ELSE IF lane = 1 THEN [s EXCEPT !.low = b]
  ELSE s
WriteSpeed(s, lane, b) ==
  IF lane = 0 THEN [s EXCEPT !.low = b]
  ELSE IF lane = 1 /\ b = Key THEN [s EXCEPT !.ctlport = s.low]
  ELSE s
NextSpeed ==
  IF strobe.base = SpeedBase /\ ~strobe.read
  THEN WriteSpeed(speed, strobe.lane, strobe.data[1]) ELSE speed

\* What an access means for the register: a word with the key sets it at once.
SpeedAfter(s, a) ==
  IF a.base # SpeedBase \/ a.read THEN s
  ELSE LET low == IF 0 \in a.be THEN a.data[0] ELSE s.low
       IN  [low |-> low,
            ctlport |-> IF 1 \in a.be /\ a.data[1] = Key THEN low ELSE s.ctlport]

Devices ==
  /\ readdata' = NextReaddata
  /\ speed' = NextSpeed
  /\ writing' = (strobe # Silent /\ ~strobe.read)
  /\ IF Finishing
     THEN seen' = <<>> /\ edges' = <<>>
     ELSE /\ seen' = IF strobe = Silent THEN seen ELSE Append(seen, strobe)
          /\ edges' = IF writing' /\ ~writing THEN Append(edges, strobe) ELSE edges
  /\ intended' = IF Accepts THEN SpeedAfter(speed, cpu.access) ELSE intended

CpuSteps ==
  IF cpu.access = NoAccess
  THEN {cpu} \cup [access : Access, answered : {FALSE}]
  ELSE IF ~cpu_io_ready /\ ~cpu.answered THEN {cpu}
  ELSE {[access |-> NoAccess, answered |-> FALSE], [access |-> cpu.access, answered |-> TRUE]}

Tick == Adapter /\ Devices /\ cpu' \in CpuSteps

Init ==
  /\ state = Idle /\ captured = NoAccess /\ read_accum = NoData
  /\ was_active = FALSE /\ cpu_io_ready = FALSE /\ cpu_dout = NoData
  /\ strobe = Silent /\ io_address = <<"none", 0>>
  /\ readdata = [b \in Bases |-> Ones]
  /\ speed = [low |-> 0, ctlport |-> 0]
  /\ cpu = [access |-> NoAccess, answered |-> FALSE]
  /\ seen = <<>> /\ edges = <<>> /\ writing = FALSE
  /\ intended = speed

Next == Tick

Spec == Init /\ [][Next]_vars

\* The clock runs, and the CPU lets go of an access that was answered.
FairSpec == Spec /\ WF_vars(Tick) /\ WF_vars(Tick /\ cpu'.access = NoAccess)

-----------------------------------------------------------------------------
\* An access is its transactions in port order, once each, and a read returns their
\* answers in their lanes (the sequence ISSUE, WAIT, CAPTURE of the source's header).
Cycles == INSTANCE IoCycles WITH access <- captured, done <- seen, result <- cpu_dout
ImplementsIoCycles == Cycles!Spec

\* A device that detects the rising edge of io_write sees every byte that one
\* sampling its level sees (iobus_adapter.sv, "the gap keeps adjacent bytes as
\* distinct peripheral transactions").
EdgeDevicesAgree ==
  Finishing => edges = IF captured.read THEN <<>> ELSE seen

\* An access that the CPU goes on holding after its ready is not taken again
\* (iobus_adapter.sv, was_active).
TakenOnce == [][captured # captured' /\ captured' # NoAccess => ~cpu.answered /\ ~cpu_io_ready]_vars

\* A word with the key sets the speed, whatever the register held, and no other
\* access does: the low byte reaches it before the key (system.sv, speedctl).
SpeedIsSetAtOnce == cpu_io_ready => speed = intended

\* Every access is answered, and the adapter is ready for the next.
EveryAccessAnswered == Asserted ~> cpu_io_ready

=============================================================================
