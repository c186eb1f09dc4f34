------------------------------- MODULE Sdram -------------------------------
(***************************************************************************)
(* The SDRAM controller (src/src/memory/sdram.v) and the chips it drives.  *)
(*                                                                         *)
(* One step is one rising edge of clk: the controller registers its next   *)
(* command, the chips sample the command that was on the pins before the   *)
(* edge, and every requester port moves by the valid/ready handshake.  The *)
(* controller is translated register by register.  The chips and the       *)
(* requesters are external: a chip here is what the controller's timing    *)
(* parameters say it is, a requester holds its request until ready.        *)
(*                                                                         *)
(* Abstractions.  A location is a record [chip, bank, row, col] of the     *)
(* dword it names (the split of the byte address is not this module's).    *)
(* A dword is a sequence of 4 bytes, be a set of lanes 1..4 (be[0]..be[3]),*)
(* and a 16-bit half is 1 (low) or 2 (high).  <<>> is the undriven bus.    *)
(* Registers that the code overwrites before it reads them again keep no   *)
(* value: the request and cycle in IDLE, rd_lo16 and rmw_old_data once used,*)
(* dout_word without its pulse, a, SDRAM_BA and SDRAM_nCS beside a NOP.    *)
(* nce is 0 and refresh_allowed is 1, as system.sv ties them.              *)
(*                                                                         *)
(* A definition Name_How is Name with a bug in it: it stands before Name   *)
(* and nothing uses it but the run that shows some property would notice.  *)
(***************************************************************************)
EXTENDS MemoryPorts

CONSTANTS
  HasDqm,          \* HAS_DQM: the DQM pins really mask bytes
  T_RCD, T_RP, T_WR, T_RC, T_MRD, CAS,
  REFRESH_CYCLES   \* clocks between two refreshes

HalfWords == [Halves -> Bytes]

ASSUME DqmAssumption == HasDqm \in BOOLEAN
ASSUME TimingAssumption ==
  /\ {T_RCD, T_RP, T_WR, T_RC, T_MRD, CAS} \subseteq (1..15)
  /\ T_RP + 2 * T_RC + T_MRD < 31
  /\ T_RCD + T_WR + T_RP < 31 /\ T_RCD + CAS + 2 < 31
  /\ REFRESH_CYCLES \in 1..(2^16)

T_DAL == T_WR + T_RP

\* The period of refresh_cnt: its width is $clog2(REFRESH_CYCLES + 1).
RefreshWrap == CHOOSE n \in {2^k : k \in 1..17} :
                 /\ n > REFRESH_CYCLES
                 /\ n = 2 \/ n \div 2 <= REFRESH_CYCLES

VARIABLES
  state,        \* state of the main FSM
  cycle,        \* the small scheduler counter, 0..31
  init_chip,    \* the chip CONFIG is working on
  buf,          \* addr_buf, din_buf, be_buf, req_id_buf
  wr_halfs,     \* the halves WRITE writes
  rd,           \* rd_total_halfs, rd_issued, rd_received, rd_lo16
  rmw,          \* rmw_read_halfs, rmw_issued, rmw_received, rmw_old_data
  out,          \* ready_pulse, data_resp_pulse, burst_done_pulse, dout_word
  refresh_cnt,
  need_refresh,
  pins,         \* the registered command, address and data outputs
  dq_r,         \* the registered DQ capture
  chip,         \* chips: row state and timers
  mem,          \* chips: contents
  dq_pipe       \* chips: read data under way, CAS clocks deep

ctl_vars == <<state, cycle, init_chip, buf, wr_halfs, rd, rmw, out,
              refresh_cnt, need_refresh, pins, dq_r>>
chip_vars == <<chip, mem, dq_pipe>>
vars == <<ctl_vars, chip_vars, port>>

-----------------------------------------------------------------------------
(* The pins.                                                               *)

Nop == [cmd |-> "NOP"]
AutoRefresh(c) == [cmd |-> "REF", cs |-> c]
PreChargeAll(c) == [cmd |-> "PRE", cs |-> c]
SetModeReg(c) == [cmd |-> "MRS", cs |-> c]
BankActivate(l) == [cmd |-> "ACT", cs |-> l.chip, ba |-> l.bank, row |-> l.row]
ReadHalf(l, h, ap) ==
  [cmd |-> "RD", cs |-> l.chip, ba |-> l.bank, col |-> l.col, half |-> h, ap |-> ap]
WriteHalf(h, ap) ==
  [cmd |-> "WR", cs |-> buf.loc.chip, ba |-> buf.loc.bank,
   col |-> buf.loc.col, half |-> h, ap |-> ap,
   \* without DQM wiring nothing masks the bytes of the half
   mask |-> IF HasDqm THEN LanesOf(h) \ buf.be ELSE {},
   dq |-> [i \in Halves |-> buf.din[2 * h - 2 + i]]]

\* What the controller drives on DQ: data exactly beside a write command.
DqOut == IF pins.cmd = "WR" THEN pins.dq ELSE <<>>

-----------------------------------------------------------------------------
(* The chips, external.  since: clocks since the row was last activated    *)
(* (saturating at T_RC); pre: clocks until an auto-precharge has ended;    *)
(* wait: clocks until a precharge-all, refresh or mode set has ended;      *)
(* refs: refreshes since power-up (2 suffice); mode: mode register set.    *)

Closed == -1
Dec(n) == IF n = 0 THEN 0 ELSE n - 1

AgedBank(b) == [b EXCEPT !.since = IF @ >= T_RC THEN @ ELSE @ + 1,
                         !.pre = Dec(@)]
AgedChip(c) == [c EXCEPT !.bank = [b \in Banks |-> AgedBank(@[b])],
                         !.wait = Dec(@)]

\* A bank after a read (auto-precharge starts a clock after the command) or
\* a write (it starts T_WR clocks after the data).
AfterAccess(b) ==
  IF ~pins.ap THEN AgedBank(b)
  ELSE [AgedBank(b) EXCEPT !.row = Closed,
                           !.pre = (IF pins.cmd = "RD" THEN 1 + T_RP ELSE T_DAL) - 1]

Sampled(c) ==
  CASE pins.cmd = "ACT" ->
         [AgedChip(c) EXCEPT !.bank[pins.ba] = [row |-> pins.row, since |-> 1, pre |-> 0]]
    [] pins.cmd \in {"RD", "WR"} ->
         [AgedChip(c) EXCEPT !.bank[pins.ba] = AfterAccess(c.bank[pins.ba])]
    [] pins.cmd = "PRE" ->
         [AgedChip(c) EXCEPT !.wait = T_RP - 1,
                             !.bank = [b \in Banks |-> [@[b] EXCEPT !.row = Closed]]]
    [] pins.cmd = "REF" ->
         [AgedChip(c) EXCEPT !.wait = T_RC - 1, !.refs = IF @ = 2 THEN 2 ELSE @ + 1]
    [] pins.cmd = "MRS" ->
         [AgedChip(c) EXCEPT !.wait = T_MRD - 1, !.mode = TRUE]
    [] OTHER -> AgedChip(c)

\* The location a column command reaches: the row is the one the bank has open.
Accessed == [chip |-> pins.cs, bank |-> pins.ba,
             row |-> chip[pins.cs].bank[pins.ba].row, col |-> pins.col]

HalfOf(w, h) == [i \in Halves |-> w[2 * h - 2 + i]]
WithHalf(w, h, d, lanes) == [i \in Lanes |-> IF i \in lanes THEN d[i - (2 * h - 2)] ELSE w[i]]

ChipsSample ==
  /\ chip' = [c \in Chips |-> IF pins.cmd # "NOP" /\ pins.cs = c
                              THEN Sampled(chip[c]) ELSE AgedChip(chip[c])]
  /\ mem' = IF pins.cmd # "WR" THEN mem
            ELSE [mem EXCEPT ![Accessed] =
                    WithHalf(@, pins.half, pins.dq, LanesOf(pins.half) \ pins.mask)]
  /\ dq_pipe' = Append(Tail(dq_pipe),
                  IF pins.cmd = "RD" THEN HalfOf(mem[Accessed], pins.half) ELSE <<>>)

-----------------------------------------------------------------------------
(* The controller.                                                         *)

Quiet == [ready |-> {}, resp |-> FALSE, done |-> FALSE, word |-> ZeroDword]

\* The request registers in IDLE: only req_id_buf is still read, to route pulses.
Released(id) == [id |-> id, loc |-> FirstLoc, din |-> ZeroDword, be |-> {}]

\* refresh_cnt runs freely unless the step clears it; need_refresh follows its
\* value before the edge.
RefreshTimer_Pulse(clear) ==
  /\ refresh_cnt' = IF clear THEN 0 ELSE (refresh_cnt + 1) % RefreshWrap
  /\ need_refresh' = (refresh_cnt = REFRESH_CYCLES)

RefreshTimer(clear) ==
  /\ refresh_cnt' = IF clear THEN 0 ELSE (refresh_cnt + 1) % RefreshWrap
  /\ need_refresh' = IF refresh_cnt = 0 THEN FALSE
                     ELSE IF refresh_cnt = REFRESH_CYCLES THEN TRUE
                     ELSE need_refresh

\* What every edge does whatever the state of the FSM.
Edge(clear_refresh) ==
  /\ RefreshTimer(clear_refresh)
  /\ dq_r' = IF DqOut # <<>> THEN DqOut ELSE Head(dq_pipe)
  /\ ChipsSample
  /\ PortsMove(out.ready)

NextCycle == IF cycle = 31 THEN 31 ELSE cycle + 1

\* cfg_now: the 200 us after reset are one step, nothing else moves in INIT.
InitDone ==
  /\ state = "INIT"
  /\ state' = "CONFIG" /\ cycle' = 0
  /\ pins' = Nop /\ out' = Quiet
  /\ Edge(FALSE)
  /\ UNCHANGED <<init_chip, buf, wr_halfs, rd, rmw>>

ConfigLength == T_RP + T_RC + T_RC + T_MRD

\* PRECHARGE ALL, two AUTO REFRESH and MODE REGISTER SET, a chip at a time.
Config ==
  /\ state = "CONFIG"
  /\ pins' = CASE cycle = 0 -> PreChargeAll(init_chip)
               [] cycle \in {T_RP, T_RP + T_RC} -> AutoRefresh(init_chip)
               [] cycle = T_RP + T_RC + T_RC -> SetModeReg(init_chip)
               [] OTHER -> Nop
  /\ \/ /\ cycle # ConfigLength
        /\ cycle' = NextCycle
        /\ UNCHANGED <<state, init_chip>>
        /\ Edge(FALSE)
     \/ /\ cycle = ConfigLength /\ SdramSize = 3 /\ init_chip = 0
        /\ init_chip' = 1 /\ cycle' = 0
        /\ UNCHANGED state
        /\ Edge(FALSE)
     \/ /\ cycle = ConfigLength /\ ~(SdramSize = 3 /\ init_chip = 0)
        /\ init_chip' = 0 /\ cycle' = 0 /\ state' = "IDLE"
        /\ Edge(TRUE)
  /\ out' = Quiet
  /\ UNCHANGED <<buf, wr_halfs, rd, rmw>>

\* need_refresh goes before every request.
StartRefresh ==
  /\ state = "IDLE" /\ need_refresh
  /\ pins' = AutoRefresh(0)
  /\ state' = "REFRESH" /\ cycle' = 1
  /\ out' = Quiet
  /\ Edge(TRUE)
  /\ UNCHANGED <<init_chip, buf, wr_halfs, rd, rmw>>

RefreshLength == T_RC

Refresh ==
  /\ state = "REFRESH"
  /\ pins' = IF cycle = 1 /\ SdramSize = 3 THEN AutoRefresh(1) ELSE Nop
  /\ IF cycle = RefreshLength THEN state' = "IDLE" /\ cycle' = 0
                     ELSE state' = state /\ cycle' = NextCycle
  /\ out' = Quiet
  /\ Edge(FALSE)
  /\ UNCHANGED <<init_chip, buf, wr_halfs, rd, rmw>>

\* The arbiter: the lowest valid port.
Granted(p) == p \in Requesting /\ \A q \in Requesting : p <= q

Touched(be) == {h \in Halves : be \cap LanesOf(h) # {}}
\* Without DQM a write that would spoil a byte of a half first reads it.
NeedsMerge_Never(be) == FALSE
NeedsMerge(be) == ~HasDqm /\ be \notin {LanesOf(1), LanesOf(2), Lanes}
WriteHalves(be) ==
  IF HasDqm \/ Cardinality(Touched(be)) # 1 THEN Halves ELSE Touched(be)

MayAccept_BeforeRefresh(p) == state = "IDLE" /\ Granted(p)
MayAccept(p) == state = "IDLE" /\ ~need_refresh /\ Granted(p)

Accept(p) ==
  /\ MayAccept(p)
  /\ pins' = BankActivate(Req(p).loc)
  /\ cycle' = 1
  /\ buf' = [id |-> p, loc |-> Req(p).loc,
             din |-> Req(p).din, be |-> Req(p).be]
  /\ out' = [Quiet EXCEPT !.ready = {p}]
  /\ Edge(FALSE)
  /\ UNCHANGED init_chip

AcceptWrite(p) ==
  /\ Accept(p) /\ Req(p).wr /\ ~NeedsMerge(Req(p).be)
  /\ state' = "WRITE"
  /\ wr_halfs' = WriteHalves(Req(p).be)
  /\ UNCHANGED <<rd, rmw>>

AcceptMerge(p) ==
  /\ Accept(p) /\ Req(p).wr /\ NeedsMerge(Req(p).be)
  /\ state' = "RMW_READ"
  /\ wr_halfs' = WriteHalves(Req(p).be)
  /\ rmw' = [halfs |-> WriteHalves(Req(p).be), issued |-> 0, received |-> 0,
             old |-> [i \in Lanes |-> 0]]
  /\ UNCHANGED rd

AcceptRead(p) ==
  /\ Accept(p) /\ ~Req(p).wr
  /\ state' = "READ"
  /\ rd' = [rd EXCEPT !.total = 2 * BurstLength(Req(p)),
                      !.issued = 0, !.received = 0]
  /\ UNCHANGED <<wr_halfs, rmw>>

\* The FSM stays in IDLE.
Idle ==
  /\ state = "IDLE" /\ ~need_refresh /\ Requesting = {}
  /\ pins' = Nop /\ out' = Quiet
  /\ Edge(FALSE)
  /\ UNCHANGED <<state, cycle, init_chip, buf, wr_halfs, rd, rmw>>

\* When dq_r first holds what the first column command fetched.
CaptureFrom_Early == T_RCD + CAS + 1
CaptureFrom == T_RCD + CAS + 2

\* READ: one column command a clock from T_RCD on, the last with auto-precharge;
\* the halves come back CAS clocks later through dq_r, two to a dword.
Read ==
  /\ state = "READ"
  /\ LET issue   == cycle >= T_RCD /\ rd.issued < rd.total
         capture == cycle >= CaptureFrom /\ rd.received < rd.issued
         high    == rd.received % 2 = 1
         last    == capture /\ rd.received + 1 = rd.total
     IN  /\ pins' = IF ~issue THEN Nop
                    ELSE ReadHalf(BurstLoc(buf.loc, rd.issued \div 2),
                                  1 + (rd.issued % 2), rd.issued = rd.total - 1)
         /\ rd' = [rd EXCEPT !.issued = IF issue THEN @ + 1 ELSE @,
                             !.received = IF capture THEN @ + 1 ELSE @,
                             !.lo16 = IF ~capture THEN @ ELSE IF high THEN <<0, 0>> ELSE dq_r]
         /\ out' = IF capture /\ high
                   THEN [ready |-> {}, resp |-> TRUE, done |-> last, word |-> rd.lo16 \o dq_r]
                   ELSE Quiet
         /\ IF last THEN state' = "IDLE" /\ cycle' = 0 /\ buf' = Released(buf.id)
                    ELSE state' = state /\ cycle' = NextCycle /\ buf' = buf
  /\ Edge(FALSE)
  /\ UNCHANGED <<init_chip, wr_halfs, rmw>>

\* The half the nth RMW access (counting from 0) reads.
MergeHalf(n) == IF rmw.halfs = Halves THEN n + 1 ELSE CHOOSE h \in rmw.halfs : TRUE

\* RMW_READ: fetch the halves a masked write would spoil, merge, write later.
MergeRead ==
  /\ state = "RMW_READ"
  /\ LET total   == Cardinality(rmw.halfs)
         issue   == cycle >= T_RCD /\ rmw.issued < total
         capture == cycle >= CaptureFrom /\ rmw.received < rmw.issued
         half    == MergeHalf(rmw.received)
         old     == IF capture THEN WithHalf(rmw.old, half, dq_r, LanesOf(half)) ELSE rmw.old
         last    == capture /\ rmw.received + 1 = total
     IN  /\ pins' = IF ~issue THEN Nop
                    ELSE ReadHalf(buf.loc, MergeHalf(rmw.issued),
                                  rmw.issued = total - 1)
         /\ rmw' = [rmw EXCEPT !.issued = IF issue THEN @ + 1 ELSE @,
                               !.received = IF capture THEN @ + 1 ELSE @,
                               !.old = IF last THEN ZeroDword ELSE old]
         /\ buf' = IF last THEN [buf EXCEPT !.din = Merge(old, @, buf.be),
                                            !.be = UNION {LanesOf(h) : h \in wr_halfs}]
                           ELSE buf
         /\ IF last THEN state' = "RMW_ACT" /\ cycle' = 0
                    ELSE state' = state /\ cycle' = NextCycle
  /\ out' = Quiet
  /\ Edge(FALSE)
  /\ UNCHANGED <<init_chip, wr_halfs, rd>>

\* RMW_ACT: open the row again after the auto-precharged read.
MergeActivate ==
  /\ state = "RMW_ACT"
  /\ pins' = BankActivate(buf.loc)
  /\ cycle' = 1 /\ state' = "WRITE"
  /\ out' = Quiet
  /\ Edge(FALSE)
  /\ UNCHANGED <<init_chip, buf, wr_halfs, rd, rmw>>

\* When WRITE may leave: tDAL after its last half.
WriteLength_NoRecovery == T_RCD + T_RP - (IF wr_halfs = Halves THEN 0 ELSE 1)
WriteLength == T_RCD + T_DAL - (IF wr_halfs = Halves THEN 0 ELSE 1)

\* WRITE: the low half at T_RCD, the high half next (or at T_RCD when alone), the
\* last one with auto-precharge, and IDLE when tDAL has passed.
Write ==
  /\ state = "WRITE"
  /\ LET both == wr_halfs = Halves
         high == \/ cycle = T_RCD /\ wr_halfs = {2}
                 \/ cycle = T_RCD + 1 /\ both
         last == cycle = WriteLength
     IN  /\ pins' = IF cycle = T_RCD /\ 1 \in wr_halfs THEN WriteHalf(1, ~both)
                    ELSE IF high THEN WriteHalf(2, TRUE)
                    ELSE Nop
         /\ IF last THEN state' = "IDLE" /\ cycle' = 0 /\ buf' = Released(buf.id)
                    ELSE state' = state /\ cycle' = NextCycle /\ buf' = buf
  /\ out' = Quiet
  /\ Edge(FALSE)
  /\ UNCHANGED <<init_chip, wr_halfs, rd, rmw>>

-----------------------------------------------------------------------------
PoweredUp == [bank |-> [b \in Banks |-> [row |-> Closed, since |-> T_RC, pre |-> 0]],
              wait |-> 0, refs |-> 0, mode |-> FALSE]

\* Just after reset; the contents of the chips are taken as all zero.
Init ==
  /\ state = "INIT" /\ cycle = 0 /\ init_chip = 0
  /\ buf = Released(0)
  /\ wr_halfs = Halves
  /\ rd = [total |-> 0, issued |-> 0, received |-> 0, lo16 |-> <<0, 0>>]
  /\ rmw = [halfs |-> Halves, issued |-> 0, received |-> 0, old |-> ZeroDword]
  /\ out = [ready |-> {}, resp |-> FALSE, done |-> FALSE, word |-> ZeroDword]
  /\ refresh_cnt = 0 /\ need_refresh = FALSE
  /\ pins = Nop /\ dq_r = <<>>
  /\ chip = [c \in Chips |-> PoweredUp]
  /\ mem = [l \in Locs |-> ZeroDword]
  /\ dq_pipe = [i \in 1..CAS |-> <<>>]
  /\ PortsIdle

Next ==
  \/ InitDone \/ Config
  \/ StartRefresh \/ Refresh
  \/ Idle
  \/ \E p \in Ports : AcceptWrite(p) \/ AcceptMerge(p) \/ AcceptRead(p)
  \/ Read \/ MergeRead \/ MergeActivate \/ Write

Spec == Init /\ [][Next]_vars

\* The clock never stops.
FairSpec == Spec /\ WF_vars(Next)

-----------------------------------------------------------------------------
\* Every command the chips sample is one they can take: an ACT finds its bank
\* precharged and T_RC after the last one, whatever the accesses between them (a
\* one-half write leaves WRITE a clock early), a column command its row open for T_RCD, a refresh every bank
\* precharged, and nothing but PRE and REF reaches a chip before its mode is set
\* (src/memory/sdram.v: the T_RCD, T_RP, tDAL, T_RC and T_MRD schedules of the FSM).
CommandLegal ==
  pins.cmd # "NOP" =>
    LET c        == chip[pins.cs]
        Free(b)  == c.bank[b].row = Closed /\ c.bank[b].pre = 0
    IN  /\ c.wait = 0
        /\ CASE pins.cmd = "ACT" -> c.mode /\ Free(pins.ba) /\ c.bank[pins.ba].since >= T_RC
             [] pins.cmd \in {"RD", "WR"} ->
                  /\ c.mode
                  /\ c.bank[pins.ba].row = buf.loc.row
                  /\ c.bank[pins.ba].since >= T_RCD
             [] pins.cmd = "REF" -> \A b \in Banks : Free(b)
             [] pins.cmd = "MRS" -> c.refs = 2 /\ \A b \in Banks : Free(b)
             [] pins.cmd = "PRE" -> TRUE

\* The controller drives DQ in no clock in which a chip does, and takes no
\* undriven DQ for data (the capture threshold of READ and RMW_READ).
BusDiscipline ==
  /\ pins.cmd = "WR" => Head(dq_pipe) = <<>>
  /\ state = "READ" /\ cycle >= CaptureFrom /\ rd.received < rd.issued
       => dq_r # <<>>
  /\ state = "RMW_READ" /\ cycle >= CaptureFrom /\ rmw.received < rmw.issued
       => dq_r # <<>>

\* Refinement: requests take effect when they are accepted. The write in progress
\* is already in the abstract store, the read in progress is its remaining dwords.
Writing == state \in {"WRITE", "RMW_READ", "RMW_ACT"}
StoreBar == IF ~Writing THEN mem
            ELSE [mem EXCEPT ![buf.loc] = Merge(@, buf.din, buf.be)]
BurstBar ==
  IF state # "READ" THEN [id |-> 0, words |-> <<>>]
  ELSE [id |-> buf.id,
        words |-> LET given == rd.received \div 2
                  IN  [i \in 1..((rd.total \div 2) - given) |->
                         mem[BurstLoc(buf.loc, given + i - 1)]]]
ShownBar == [ready |-> out.ready,
             resp |-> IF out.resp THEN {buf.id} ELSE {},
             word |-> IF out.resp THEN out.word ELSE <<>>,
             done |-> out.done]

Atomic == INSTANCE AtomicMemory WITH store <- StoreBar, burst <- BurstBar, shown <- ShownBar

\* The controller, its chips and its timing implement an atomic memory.
ImplementsAtomicMemory == Atomic!Spec

\* A refresh that has become due is withdrawn only by performing it: the counter
\* may not come round to 0 while the FSM is busy.
RefreshNotForgotten ==
  [][need_refresh /\ ~need_refresh' => state = "REFRESH"]_vars

\* However busy the requesters keep the FSM, rows are refreshed again and again
\* ("Refresh takes priority over new requests to prevent starvation"), and port 0
\* (the CPU) is always served, refreshes and the other port included.
NobodyStarves == []<>(state = "REFRESH") /\ (port[0] # <<>> ~> 0 \in out.ready)

=============================================================================
