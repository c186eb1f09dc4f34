---------------------------- MODULE SdramProofs ----------------------------
(* The commands of the controller, for every geometry, every requester and    *)
(* every timing that satisfies RowsRecover; that it implements AtomicMemory;  *)
(* and, under RefreshFits, that a refresh which is due is not forgotten.      *)
EXTENDS Sdram, SequenceTheorems, FiniteSetTheorems, TLAPS

\* What the schedules of the FSM rest on: nothing in it waits for T_RC, and the
\* precharge after a read has to end within the CAS latency of its last half.
RowsRecover ==
  /\ T_RC >= 2 /\ T_RC >= T_RCD
  /\ T_RC <= T_RCD + T_DAL /\ T_RC <= T_RCD + CAS + 3
  /\ T_RP <= CAS + 2

-----------------------------------------------------------------------------
BankType == [row : Rows \cup {Closed}, since : 0..T_RC, pre : Nat]
ChipType == [bank : [Banks -> BankType], wait : Nat, refs : 0..2, mode : BOOLEAN]

\* A requester shows nothing or one of its requests.
PortType ==
  port = [p \in Ports |-> port[p]] /\
  \A p \in Ports : port[p] = <<>> \/ \E r \in Requests[p] : port[p] = <<r>>

Types ==
  /\ cycle \in 0..31
  /\ init_chip \in Chips
  /\ chip \in [Chips -> ChipType]
  /\ dq_pipe = [i \in 1..CAS |-> dq_pipe[i]]
  /\ buf = [id |-> buf.id, loc |-> buf.loc, din |-> buf.din, be |-> buf.be] /\ buf.loc \in Locs
  /\ wr_halfs \in {Halves, {1}, {2}}
  /\ rd = [total |-> rd.total, issued |-> rd.issued, received |-> rd.received, lo16 |-> rd.lo16]
  /\ rmw = [halfs |-> rmw.halfs, issued |-> rmw.issued, received |-> rmw.received, old |-> rmw.old]
  /\ PortType

-----------------------------------------------------------------------------
(* The chips between two accesses.                                          *)

Rested(b) == b.row = Closed /\ b.pre = 0 /\ b.since >= T_RC
\* One clock before that.
Resting(b) == b.row = Closed /\ b.pre <= 1 /\ b.since + 1 >= T_RC

PipeEmpty == \A i \in 1..CAS : dq_pipe[i] = <<>>
ModesSet == \A c \in Chips : chip[c].mode
AllRested == \A c \in Chips : \A b \in Banks : Rested(chip[c].bank[b])

Settling ==
  /\ pins = Nop
  /\ ModesSet /\ PipeEmpty
  /\ \A c \in Chips : chip[c].wait <= 1 /\ \A b \in Banks : Resting(chip[c].bank[b])

PoweringUp ==
  /\ pins = Nop /\ cycle = 0 /\ init_chip = 0
  /\ AllRested
  /\ \A c \in Chips : chip[c].wait = 0 /\ chip[c].refs = 0

\* The chip that is being configured: the pins and its timer at every cycle.
Command(c, n) ==
  CASE n = 1 -> PreChargeAll(c)
    [] n \in {T_RP + 1, T_RP + T_RC + 1} -> AutoRefresh(c)
    [] n = T_RP + T_RC + T_RC + 1 -> SetModeReg(c)
    [] OTHER -> Nop

Configuring ==
  /\ cycle <= ConfigLength
  /\ AllRested
  /\ pins = Command(init_chip, cycle)
  /\ \A c \in Chips : c < init_chip => chip[c].mode
  /\ \A c \in Chips : c # init_chip => chip[c].wait = 0
  /\ \A c \in Chips : c > init_chip => chip[c].refs = 0
  /\ LET k == chip[init_chip]
     IN  /\ cycle <= 1 => k.wait = 0
         /\ cycle <= T_RP + 1 => k.refs = 0
         /\ 1 < cycle /\ cycle <= T_RP + 1 => k.wait = T_RP + 1 - cycle
         /\ T_RP + 1 < cycle /\ cycle <= T_RP + T_RC + 1 =>
              k.wait = T_RP + T_RC + 1 - cycle /\ k.refs = 1
         /\ T_RP + T_RC + 1 < cycle /\ cycle <= T_RP + T_RC + T_RC + 1 =>
              k.wait = T_RP + T_RC + T_RC + 1 - cycle
         /\ T_RP + T_RC + 1 < cycle => k.refs = 2
         /\ T_RP + T_RC + T_RC + 1 < cycle => k.wait = ConfigLength + 1 - cycle /\ k.mode

Refreshing ==
  /\ cycle \in 1..T_RC
  /\ ModesSet /\ AllRested
  /\ pins = (IF cycle = 1 THEN AutoRefresh(0)
             ELSE IF cycle = 2 /\ SdramSize = 3 THEN AutoRefresh(1) ELSE Nop)
  /\ cycle = 1 => chip[0].wait = 0
  /\ cycle > 1 => chip[0].wait = T_RC + 1 - cycle
  /\ SdramSize = 3 /\ cycle <= 2 => chip[1].wait = 0
  /\ SdramSize = 3 /\ cycle > 2 => chip[1].wait = T_RC + 2 - cycle

-----------------------------------------------------------------------------
(* The chips during an access: one bank is in use, the others rest.         *)

InUse == chip[buf.loc.chip].bank[buf.loc.bank]
Aimed(cmd) ==
  /\ pins.cmd = cmd /\ pins.cs = buf.loc.chip /\ pins.ba = buf.loc.bank
  /\ pins.ap \in BOOLEAN

Accessing ==
  /\ cycle >= 1
  /\ ModesSet
  /\ \A c \in Chips : chip[c].wait = 0
  /\ \A c \in Chips : \A b \in Banks :
       c # buf.loc.chip \/ b # buf.loc.bank => Rested(chip[c].bank[b])
  /\ cycle = 1 => pins = BankActivate(buf.loc) /\ Rested(InUse)
  /\ cycle > 1 => InUse.since >= T_RC \/ InUse.since >= cycle - 1

\* The cycle of WRITE that issues the last half.
LastWrite == IF wr_halfs = Halves THEN T_RCD + 1 ELSE T_RCD

WritingInv ==
  /\ Accessing /\ PipeEmpty
  /\ cycle <= WriteLength
  /\ 1 < cycle /\ cycle <= T_RCD => pins = Nop
  /\ 1 < cycle /\ cycle <= LastWrite + 1 => InUse.row = buf.loc.row
  /\ T_RCD < cycle /\ cycle <= LastWrite + 1 => Aimed("WR") /\ (pins.ap <=> cycle = LastWrite + 1)
  /\ cycle > LastWrite + 1 =>
       pins = Nop /\ InUse.row = Closed /\ InUse.pre <= LastWrite + 1 + T_DAL - cycle

\* READ and RMW_READ run the same schedule over their own counters.
Total == IF state = "READ" THEN rd.total ELSE Cardinality(rmw.halfs)
Issued == IF state = "READ" THEN rd.issued ELSE rmw.issued
Received == IF state = "READ" THEN rd.received ELSE rmw.received
Issues == cycle >= T_RCD /\ Issued < Total
Captures == cycle >= CaptureFrom /\ Received < Issued

\* The clocks until the last half is issued, and until it is received.
IssueIn == (IF cycle < T_RCD THEN T_RCD - cycle ELSE 0) + Total - Issued
ReceiveIn == (IF cycle < CaptureFrom THEN CaptureFrom - cycle ELSE 0) + Total - Received

Counting ==
  /\ Total \in Nat \ {0} /\ Issued \in 0..Total /\ Received \in 0..Total
  /\ cycle <= T_RCD => Issued = 0
  /\ cycle <= CaptureFrom => Received = 0
  /\ ReceiveIn >= 1
  /\ IssueIn > 0 => ReceiveIn = IssueIn + CAS + 2
  /\ IssueIn = 0 => ReceiveIn <= CAS + 2

\* What is on its way from the chips.
Coming ==
  /\ \A i \in 1..CAS : (dq_pipe[i] # <<>>) <=> (ReceiveIn - Total <= i /\ i < ReceiveIn)
  /\ ReceiveIn <= Total => dq_r # <<>>

ReadingInv ==
  /\ Accessing /\ Counting /\ Coming
  /\ cycle > 1 /\ ReceiveIn >= CAS + 2 => InUse.row = buf.loc.row
  /\ cycle > 1 /\ Issued = 0 => pins = Nop
  /\ Issued > 0 /\ ReceiveIn >= CAS + 2 => Aimed("RD") /\ (pins.ap <=> ReceiveIn = CAS + 2)
  /\ ReceiveIn < CAS + 2 =>
       /\ pins = Nop /\ InUse.row = Closed
       /\ InUse.pre = 0 \/ InUse.pre <= T_RP + ReceiveIn - CAS - 1

States == {"INIT", "CONFIG", "IDLE", "REFRESH", "RMW_ACT", "WRITE", "READ", "RMW_READ"}

IInv ==
  /\ Types /\ state \in States
  /\ state \in {"INIT", "CONFIG", "REFRESH"} => PipeEmpty
  /\ state = "INIT" => PoweringUp
  /\ state = "CONFIG" => Configuring
  /\ state \in {"IDLE", "RMW_ACT"} => Settling
  /\ state = "REFRESH" => Refreshing
  /\ state = "WRITE" => WritingInv
  /\ state \in {"READ", "RMW_READ"} => ReadingInv


-----------------------------------------------------------------------------
(* What a clock does to the chips.                                          *)

LEMMA Numbers ==
  /\ T_RCD \in 1..15 /\ T_RP \in 1..15 /\ T_WR \in 1..15 /\ T_RC \in 1..15
  /\ T_MRD \in 1..15 /\ CAS \in 1..15
  /\ T_RP + 2 * T_RC + T_MRD < 31
  /\ T_RCD + T_WR + T_RP < 31 /\ T_RCD + CAS + 2 < 31
  BY TimingAssumption

LEMMA Places ==
  /\ Banks # {} /\ Rows # {} /\ 0 \in Chips /\ Chips \subseteq {0, 1}
  /\ 1 \in Chips <=> SdramSize = 3
  /\ Locs # {} /\ FirstLoc \in Locs
  /\ \A l \in Locs : l.chip \in Chips /\ l.bank \in Banks /\ l.row \in Rows
<1>1. Banks # {} /\ Rows # {} /\ 0 \in Chips /\ Chips \subseteq {0, 1} /\ 0 \in 0..(Cols - 1)
  BY GeometryAssumption DEF Chips
<1>2. PICK b \in Banks, r \in Rows : TRUE
  BY <1>1
<1>3. [chip |-> 0, bank |-> b, row |-> r, col |-> 0] \in Locs
  BY <1>1 DEF Locs
<1>4. FirstLoc \in Locs
  BY <1>3 DEF FirstLoc
<1>5. QED
  BY <1>1, <1>3, <1>4 DEF Locs, Chips

\* Timers count down, and the age of a row up to T_RC.
LEMMA Ageing ==
  ASSUME NEW b \in BankType
  PROVE  /\ AgedBank(b) \in BankType /\ AgedBank(b).row = b.row
         /\ AgedBank(b).since = (IF b.since >= T_RC THEN b.since ELSE b.since + 1)
         /\ AgedBank(b).pre = (IF b.pre = 0 THEN 0 ELSE b.pre - 1)
         /\ Resting(b) => Rested(AgedBank(b))
         /\ Rested(b) => Rested(AgedBank(b))
<1>1. b.row \in Rows \cup {Closed} /\ b.since \in 0..T_RC /\ b.pre \in Nat
  BY DEF BankType
<1>2. AgedBank(b).row = b.row
      /\ AgedBank(b).since = (IF b.since >= T_RC THEN b.since ELSE b.since + 1)
      /\ AgedBank(b).pre = (IF b.pre = 0 THEN 0 ELSE b.pre - 1)
  BY DEF AgedBank, BankType, Dec
<1>3. AgedBank(b) \in BankType
  <2>1. (IF b.since >= T_RC THEN b.since ELSE b.since + 1) \in 0..T_RC
    BY <1>1, Numbers
  <2>2. Dec(b.pre) \in Nat
    BY <1>1 DEF Dec
  <2>3. QED
    BY <2>1, <2>2 DEF AgedBank, BankType
<1>4. QED
  BY <1>1, <1>2, <1>3, Numbers DEF Resting, Rested

LEMMA AgeingChip ==
  ASSUME NEW k \in ChipType
  PROVE  /\ AgedChip(k) \in ChipType
         /\ \A b \in Banks : AgedChip(k).bank[b] = AgedBank(k.bank[b])
         /\ AgedChip(k).wait = (IF k.wait = 0 THEN 0 ELSE k.wait - 1)
         /\ AgedChip(k).refs = k.refs /\ AgedChip(k).mode = k.mode
<1> DEFINE aged == [b \in Banks |-> AgedBank(k.bank[b])]
<1>1. aged \in [Banks -> BankType]
  BY Ageing DEF ChipType
<1>2. k.wait \in Nat /\ Dec(k.wait) = (IF k.wait = 0 THEN 0 ELSE k.wait - 1)
  BY DEF ChipType, Dec
<1>3. Dec(k.wait) \in Nat
  BY <1>2
<1>4. AgedChip(k) = [k EXCEPT !.bank = aged, !.wait = Dec(k.wait)]
  BY DEF AgedChip
<1> HIDE DEF aged
<1>5. AgedChip(k).bank = aged /\ AgedChip(k).wait = Dec(k.wait)
      /\ AgedChip(k).refs = k.refs /\ AgedChip(k).mode = k.mode
  BY <1>4 DEF ChipType
<1>6. AgedChip(k) \in ChipType
  BY <1>1, <1>3, <1>4 DEF ChipType
<1>7. QED
  BY <1>2, <1>5, <1>6 DEF aged

\* What no command changes.
Older(c) ==
  /\ chip'[c].wait = (IF chip[c].wait = 0 THEN 0 ELSE chip[c].wait - 1)
  /\ chip'[c].refs = chip[c].refs /\ chip'[c].mode = chip[c].mode
OlderBank(c, b) == chip'[c].bank[b] = AgedBank(chip[c].bank[b])

\* A chip that no command addresses only grows older.
LEMMA Unaddressed ==
  ASSUME chip \in [Chips -> ChipType], ChipsSample,
         NEW c \in Chips, pins.cmd = "NOP" \/ pins.cs # c
  PROVE  chip'[c] \in ChipType /\ Older(c) /\ \A b \in Banks : OlderBank(c, b)
<1>1. chip'[c] = AgedChip(chip[c]) /\ chip[c] \in ChipType
  BY DEF ChipsSample
<1>2. QED
  BY <1>1, AgeingChip DEF Older, OlderBank

LEMMA QuietClock ==
  ASSUME chip \in [Chips -> ChipType], ChipsSample, pins = Nop
  PROVE  /\ chip' \in [Chips -> ChipType]
         /\ \A c \in Chips : Older(c) /\ \A b \in Banks : OlderBank(c, b)
<1>1. pins.cmd = "NOP"
  BY DEF Nop
<1>2. \A c \in Chips : chip'[c] \in ChipType /\ Older(c) /\ \A b \in Banks : OlderBank(c, b)
  BY <1>1, Unaddressed
<1>3. QED
  BY <1>2 DEF ChipsSample

LEMMA ActivateClock ==
  ASSUME chip \in [Chips -> ChipType], ChipsSample, NEW l \in Locs, pins = BankActivate(l)
  PROVE  /\ chip' \in [Chips -> ChipType]
         /\ \A c \in Chips : Older(c)
         /\ \A c \in Chips : \A b \in Banks : c # l.chip \/ b # l.bank => OlderBank(c, b)
         /\ chip'[l.chip].bank[l.bank].row = l.row
         /\ chip'[l.chip].bank[l.bank].since = 1 /\ chip'[l.chip].bank[l.bank].pre = 0
<1> DEFINE k == AgedChip(chip[l.chip])
           open == [row |-> l.row, since |-> 1, pre |-> 0]
<1>1. l.chip \in Chips /\ l.bank \in Banks /\ l.row \in Rows
  BY Places
<1>2. pins.cmd = "ACT" /\ pins.cs = l.chip /\ pins.ba = l.bank /\ pins.row = l.row
  BY DEF BankActivate
<1>3. chip'[l.chip] = [k EXCEPT !.bank[l.bank] = open]
  BY <1>1, <1>2 DEF ChipsSample, Sampled
<1>4. open \in BankType
  BY <1>1, Numbers DEF BankType
<1>5. /\ k \in ChipType
      /\ \A b \in Banks : k.bank[b] = AgedBank(chip[l.chip].bank[b])
      /\ k.wait = (IF chip[l.chip].wait = 0 THEN 0 ELSE chip[l.chip].wait - 1)
      /\ k.refs = chip[l.chip].refs /\ k.mode = chip[l.chip].mode
  BY <1>1, AgeingChip
<1> HIDE DEF k, open
<1>6. chip'[l.chip] \in ChipType
  <2>1. [k.bank EXCEPT ![l.bank] = open] \in [Banks -> BankType]
    BY <1>1, <1>4, <1>5 DEF ChipType
  <2>2. chip'[l.chip] = [k EXCEPT !.bank = [k.bank EXCEPT ![l.bank] = open]]
    BY <1>3
  <2>3. QED
    BY <1>5, <2>1, <2>2 DEF ChipType
<1>7. /\ chip'[l.chip].bank[l.bank] = open
      /\ \A b \in Banks : b # l.bank => chip'[l.chip].bank[b] = k.bank[b]
      /\ chip'[l.chip].wait = k.wait /\ chip'[l.chip].refs = k.refs /\ chip'[l.chip].mode = k.mode
  BY <1>1, <1>3, <1>5 DEF ChipType
<1>8. \A c \in Chips : c # l.chip =>
        chip'[c] \in ChipType /\ Older(c) /\ \A b \in Banks : OlderBank(c, b)
  BY <1>2, Unaddressed
<1>9. chip' \in [Chips -> ChipType]
  BY <1>6, <1>8 DEF ChipsSample
<1>10. Older(l.chip) /\ \A b \in Banks : b # l.bank => OlderBank(l.chip, b)
  BY <1>5, <1>7 DEF Older, OlderBank
<1>11. QED
  BY <1>7, <1>8, <1>9, <1>10 DEF open

\* What a column command leaves of its bank.
LEMMA ColumnClock ==
  ASSUME chip \in [Chips -> ChipType], ChipsSample, NEW l \in Locs,
         pins.cmd \in {"RD", "WR"}, pins.cs = l.chip, pins.ba = l.bank, pins.ap \in BOOLEAN
  PROVE  /\ chip' \in [Chips -> ChipType]
         /\ \A c \in Chips : Older(c)
         /\ \A c \in Chips : \A b \in Banks : c # l.chip \/ b # l.bank => OlderBank(c, b)
         /\ LET old == chip[l.chip].bank[l.bank]
                new == chip'[l.chip].bank[l.bank]
            IN  /\ new.since = (IF old.since >= T_RC THEN old.since ELSE old.since + 1)
                /\ ~pins.ap => new.row = old.row
                /\ pins.ap => new.row = Closed
                /\ pins.ap /\ pins.cmd = "RD" => new.pre = T_RP
                /\ pins.ap /\ pins.cmd = "WR" => new.pre = T_DAL - 1
<1> DEFINE k == AgedChip(chip[l.chip])
           old == chip[l.chip].bank[l.bank]
           after == AfterAccess(old)
<1>1. l.chip \in Chips /\ l.bank \in Banks /\ chip[l.chip] \in ChipType
  BY Places
<1>2. chip'[l.chip] = [k EXCEPT !.bank[l.bank] = after]
  BY <1>1 DEF ChipsSample, Sampled
<1>3. old \in BankType
  BY <1>1 DEF ChipType
<1>4. /\ after \in BankType
      /\ after.since = (IF old.since >= T_RC THEN old.since ELSE old.since + 1)
      /\ ~pins.ap => after.row = old.row
      /\ pins.ap => after.row = Closed
      /\ pins.ap /\ pins.cmd = "RD" => after.pre = T_RP
      /\ pins.ap /\ pins.cmd = "WR" => after.pre = T_DAL - 1
  <2>1. AgedBank(old) \in BankType /\ AgedBank(old).row = old.row
        /\ AgedBank(old).since = (IF old.since >= T_RC THEN old.since ELSE old.since + 1)
    BY <1>3, Ageing
  <2>2. CASE ~pins.ap
    BY <2>1, <2>2 DEF AfterAccess
  <2>3. CASE pins.ap
    <3> DEFINE n == (IF pins.cmd = "RD" THEN 1 + T_RP ELSE T_DAL) - 1
    <3>1. n \in Nat /\ (pins.cmd = "RD" => n = T_RP) /\ (pins.cmd = "WR" => n = T_DAL - 1)
      BY Numbers DEF T_DAL
    <3>2. after = [AgedBank(old) EXCEPT !.row = Closed, !.pre = n]
      BY <2>3 DEF AfterAccess
    <3> HIDE DEF n, after, old
    <3>3. after \in BankType /\ after.since = AgedBank(old).since
          /\ after.row = Closed /\ after.pre = n
      BY <2>1, <3>1, <3>2 DEF BankType
    <3>4. QED
      BY <2>1, <2>3, <3>1, <3>3
  <2>4. QED
    BY <2>2, <2>3
<1>5. /\ k \in ChipType
      /\ \A b \in Banks : k.bank[b] = AgedBank(chip[l.chip].bank[b])
      /\ k.wait = (IF chip[l.chip].wait = 0 THEN 0 ELSE chip[l.chip].wait - 1)
      /\ k.refs = chip[l.chip].refs /\ k.mode = chip[l.chip].mode
  BY <1>1, AgeingChip
<1> HIDE DEF k, after
<1>6. chip'[l.chip] \in ChipType
  BY <1>1, <1>2, <1>4, <1>5 DEF ChipType
<1>7. /\ chip'[l.chip].bank[l.bank] = after
      /\ \A b \in Banks : b # l.bank => chip'[l.chip].bank[b] = k.bank[b]
      /\ chip'[l.chip].wait = k.wait /\ chip'[l.chip].refs = k.refs /\ chip'[l.chip].mode = k.mode
  BY <1>1, <1>2, <1>5 DEF ChipType
<1>8. \A c \in Chips : c # l.chip =>
        chip'[c] \in ChipType /\ Older(c) /\ \A b \in Banks : OlderBank(c, b)
  BY Unaddressed
<1>9. chip' \in [Chips -> ChipType]
  BY <1>6, <1>8 DEF ChipsSample
<1>10. Older(l.chip) /\ \A b \in Banks : b # l.bank => OlderBank(l.chip, b)
  BY <1>5, <1>7 DEF Older, OlderBank
<1>11. QED
  BY <1>4, <1>7, <1>8, <1>9, <1>10

LEMMA RefreshClock ==
  ASSUME chip \in [Chips -> ChipType], ChipsSample, NEW x \in Chips, pins = AutoRefresh(x)
  PROVE  /\ chip' \in [Chips -> ChipType]
         /\ \A c \in Chips : c # x => Older(c)
         /\ \A c \in Chips : \A b \in Banks : OlderBank(c, b)
         /\ chip'[x].wait = T_RC - 1 /\ chip'[x].mode = chip[x].mode
         /\ chip'[x].refs = (IF chip[x].refs = 2 THEN 2 ELSE chip[x].refs + 1)
<1> DEFINE k == AgedChip(chip[x])
           refs == IF k.refs = 2 THEN 2 ELSE k.refs + 1
<1>1. pins.cmd = "REF" /\ pins.cs = x
  BY DEF AutoRefresh
<1>2. chip'[x] = [k EXCEPT !.wait = T_RC - 1, !.refs = refs]
  BY <1>1 DEF ChipsSample, Sampled
<1>3. /\ k \in ChipType
      /\ \A b \in Banks : k.bank[b] = AgedBank(chip[x].bank[b])
      /\ k.refs = chip[x].refs /\ k.mode = chip[x].mode
  BY AgeingChip
<1>4. T_RC - 1 \in Nat /\ refs \in 0..2
  BY <1>3, Numbers DEF ChipType
<1> HIDE DEF k, refs
<1>5. /\ chip'[x] \in ChipType /\ chip'[x].bank = k.bank /\ chip'[x].mode = k.mode
      /\ chip'[x].wait = T_RC - 1 /\ chip'[x].refs = refs
  BY <1>2, <1>3, <1>4 DEF ChipType
<1>6. \A c \in Chips : c # x =>
        chip'[c] \in ChipType /\ Older(c) /\ \A b \in Banks : OlderBank(c, b)
  BY <1>1, Unaddressed
<1>7. chip' \in [Chips -> ChipType]
  BY <1>5, <1>6 DEF ChipsSample
<1>8. QED
  BY <1>3, <1>5, <1>6, <1>7 DEF OlderBank, refs

LEMMA PrechargeClock ==
  ASSUME chip \in [Chips -> ChipType], ChipsSample, NEW x \in Chips, pins = PreChargeAll(x)
  PROVE  /\ chip' \in [Chips -> ChipType]
         /\ \A c \in Chips : c # x => Older(c) /\ \A b \in Banks : OlderBank(c, b)
         /\ chip'[x].wait = T_RP - 1 /\ chip'[x].mode = chip[x].mode /\ chip'[x].refs = chip[x].refs
         /\ \A b \in Banks : Rested(chip[x].bank[b]) => Rested(chip'[x].bank[b])
<1> DEFINE k == AgedChip(chip[x])
           banks == [b \in Banks |-> [k.bank[b] EXCEPT !.row = Closed]]
<1>1. pins.cmd = "PRE" /\ pins.cs = x
  BY DEF PreChargeAll
<1>2. chip'[x] = [k EXCEPT !.wait = T_RP - 1, !.bank = banks]
  BY <1>1 DEF ChipsSample, Sampled
<1>3. /\ k \in ChipType
      /\ \A b \in Banks : k.bank[b] = AgedBank(chip[x].bank[b])
      /\ k.refs = chip[x].refs /\ k.mode = chip[x].mode
  BY AgeingChip
<1>4. \A b \in Banks : k.bank[b] \in BankType /\ chip[x].bank[b] \in BankType
  BY <1>3 DEF ChipType
<1>5. ASSUME NEW b \in Banks
      PROVE  banks[b] \in BankType /\ (Rested(chip[x].bank[b]) => Rested(banks[b]))
  <2>1. banks[b] = [k.bank[b] EXCEPT !.row = Closed]
    OBVIOUS
  <2>2. banks[b] \in BankType /\ banks[b].row = Closed
        /\ banks[b].since = k.bank[b].since /\ banks[b].pre = k.bank[b].pre
    BY <1>4, <2>1 DEF BankType
  <2>3. QED
    BY <1>3, <1>4, <2>2, Ageing DEF Rested
<1>6. banks \in [Banks -> BankType] /\ T_RP - 1 \in Nat
  BY <1>5, Numbers
<1> HIDE DEF k, banks
<1>7. /\ chip'[x] \in ChipType /\ chip'[x].bank = banks /\ chip'[x].mode = k.mode
      /\ chip'[x].wait = T_RP - 1 /\ chip'[x].refs = k.refs
  BY <1>2, <1>3, <1>6 DEF ChipType
<1>8. \A c \in Chips : c # x =>
        chip'[c] \in ChipType /\ Older(c) /\ \A b \in Banks : OlderBank(c, b)
  BY <1>1, Unaddressed
<1>9. chip' \in [Chips -> ChipType]
  BY <1>7, <1>8 DEF ChipsSample
<1>10. QED
  BY <1>3, <1>5, <1>7, <1>8, <1>9

LEMMA ModeClock ==
  ASSUME chip \in [Chips -> ChipType], ChipsSample, NEW x \in Chips, pins = SetModeReg(x)
  PROVE  /\ chip' \in [Chips -> ChipType]
         /\ \A c \in Chips : c # x => Older(c)
         /\ \A c \in Chips : \A b \in Banks : OlderBank(c, b)
         /\ chip'[x].wait = T_MRD - 1 /\ chip'[x].mode /\ chip'[x].refs = chip[x].refs
<1> DEFINE k == AgedChip(chip[x])
<1>1. pins.cmd = "MRS" /\ pins.cs = x
  BY DEF SetModeReg
<1>2. chip'[x] = [k EXCEPT !.wait = T_MRD - 1, !.mode = TRUE]
  BY <1>1 DEF ChipsSample, Sampled
<1>3. /\ k \in ChipType
      /\ \A b \in Banks : k.bank[b] = AgedBank(chip[x].bank[b])
      /\ k.refs = chip[x].refs
  BY AgeingChip
<1>4. T_MRD - 1 \in Nat
  BY Numbers
<1> HIDE DEF k
<1>5. /\ chip'[x] \in ChipType /\ chip'[x].bank = k.bank /\ chip'[x].mode
      /\ chip'[x].wait = T_MRD - 1 /\ chip'[x].refs = k.refs
  BY <1>2, <1>3, <1>4 DEF ChipType
<1>6. \A c \in Chips : c # x =>
        chip'[c] \in ChipType /\ Older(c) /\ \A b \in Banks : OlderBank(c, b)
  BY <1>1, Unaddressed
<1>7. chip' \in [Chips -> ChipType]
  BY <1>5, <1>6 DEF ChipsSample
<1>8. QED
  BY <1>3, <1>5, <1>6, <1>7 DEF OlderBank

\* Rest is not disturbed by time, and comes a clock after Resting.
LEMMA RestLasts ==
  ASSUME chip \in [Chips -> ChipType], NEW c \in Chips, NEW b \in Banks, OlderBank(c, b),
         Resting(chip[c].bank[b]) \/ Rested(chip[c].bank[b])
  PROVE  Rested(chip'[c].bank[b])
<1>1. chip[c].bank[b] \in BankType
  BY DEF ChipType
<1>2. QED
  BY <1>1, Ageing DEF OlderBank

LEMMA Pushed ==
  ASSUME NEW S, NEW q \in Seq(S), NEW x \in S, NEW n \in Nat, Len(q) = n - 1
  PROVE  /\ Append(q, x) \in Seq(S) /\ Len(Append(q, x)) = n
         /\ Append(q, x)[n] = x
         /\ \A i \in 1..(n - 1) : Append(q, x)[i] = q[i]
<1>1. Append(q, x)[Len(q) + 1] = x /\ \A i \in 1..Len(q) : Append(q, x)[i] = q[i]
  BY AppendProperties
<1>2. QED
  BY <1>1, AppendProperties

LEMMA PipeHead ==
  ASSUME dq_pipe = [i \in 1..CAS |-> dq_pipe[i]]
  PROVE  /\ dq_pipe \in Seq({dq_pipe[i] : i \in 1..CAS}) /\ Len(dq_pipe) = CAS
         /\ Head(dq_pipe) = dq_pipe[1]
<1> DEFINE S == {dq_pipe[i] : i \in 1..CAS}
<1>1. dq_pipe \in [1..CAS -> S] /\ CAS \in Nat \ {0}
  BY Numbers
<1>2. dq_pipe \in Seq(S)
  BY <1>1, SeqDef
<1>3. Len(dq_pipe) = CAS
  BY <1>1, <1>2, LenProperties
<1>4. Head(dq_pipe) = dq_pipe[1]
  BY <1>1, <1>2, <1>3
<1>5. QED
  BY <1>2, <1>3, <1>4

\* The pipe of a chip moves by one place.
LEMMA PipeMoves ==
  ASSUME dq_pipe = [i \in 1..CAS |-> dq_pipe[i]], ChipsSample
  PROVE  /\ dq_pipe' = [i \in 1..CAS |-> dq_pipe'[i]]
         /\ \A i \in 1..CAS : i < CAS => dq_pipe'[i] = dq_pipe[i + 1]
         /\ dq_pipe'[CAS] # <<>> <=> pins.cmd = "RD"
         /\ pins.cmd = "RD" => dq_pipe'[CAS] = HalfOf(mem[Accessed], pins.half)
         /\ Head(dq_pipe) = dq_pipe[1]
<1> DEFINE x == IF pins.cmd = "RD" THEN HalfOf(mem[Accessed], pins.half) ELSE <<>>
           S == {dq_pipe[i] : i \in 1..CAS} \cup {x}
<1>1. dq_pipe \in Seq(S) /\ Len(dq_pipe) = CAS /\ x \in S
  <2>1. dq_pipe \in [1..CAS -> S]
    OBVIOUS
  <2>2. CAS \in Nat
    BY Numbers
  <2>3. dq_pipe \in Seq(S)
    BY <2>1, <2>2, SeqDef
  <2>4. Len(dq_pipe) = CAS
    BY <2>1, <2>2, <2>3, LenProperties
  <2>5. QED
    BY <2>3, <2>4
<1>2. dq_pipe' = Append(Tail(dq_pipe), x)
  BY DEF ChipsSample
<1> HIDE DEF S
<1>3. HalfOf(mem[Accessed], pins.half) # <<>>
  <2>1. DOMAIN HalfOf(mem[Accessed], pins.half) = Halves /\ 1 \in Halves
    BY DEF HalfOf, Halves
  <2>2. DOMAIN <<>> = {}
    OBVIOUS
  <2>3. QED
    BY <2>1, <2>2
<1> HIDE DEF x
<1>4. Tail(dq_pipe) \in Seq(S) /\ Len(Tail(dq_pipe)) = CAS - 1
      /\ \A i \in 1..(CAS - 1) : Tail(dq_pipe)[i] = dq_pipe[i + 1]
  <2>1. dq_pipe \in Seq(S) /\ Len(dq_pipe) = CAS /\ CAS \in Nat \ {0}
    BY <1>1, Numbers
  <2>2. dq_pipe # <<>>
    BY <2>1
  <2>3. QED
    BY <2>1, <2>2, HeadTailProperties
<1>5. dq_pipe' \in Seq(S) /\ Len(dq_pipe') = CAS /\ dq_pipe'[CAS] = x
      /\ \A i \in 1..(CAS - 1) : dq_pipe'[i] = Tail(dq_pipe)[i]
  <2>1. CAS \in Nat /\ Tail(dq_pipe) \in Seq(S) /\ Len(Tail(dq_pipe)) = CAS - 1 /\ x \in S
    BY <1>1, <1>4, Numbers
  <2>2. /\ Append(Tail(dq_pipe), x) \in Seq(S) /\ Len(Append(Tail(dq_pipe), x)) = CAS
        /\ Append(Tail(dq_pipe), x)[CAS] = x
        /\ \A i \in 1..(CAS - 1) : Append(Tail(dq_pipe), x)[i] = Tail(dq_pipe)[i]
    BY <2>1, Pushed
  <2>3. QED
    BY <1>2, <2>2
<1>6. dq_pipe' = [i \in 1..CAS |-> dq_pipe'[i]]
  BY <1>5, LenProperties
<1>7. /\ x # <<>> <=> pins.cmd = "RD"
      /\ pins.cmd = "RD" => x = HalfOf(mem[Accessed], pins.half)
  BY <1>3 DEF x
<1>8. QED
  <2>1. Head(dq_pipe) = dq_pipe[1]
    BY <1>1, Numbers
  <2>2. \A i \in 1..CAS : i < CAS => i \in 1..(CAS - 1)
    BY Numbers
  <2>3. \A i \in 1..CAS : i < CAS => dq_pipe'[i] = dq_pipe[i + 1]
    BY <1>4, <1>5, <2>2
  <2>4. QED
    BY <1>5, <1>6, <1>7, <2>1, <2>3

-----------------------------------------------------------------------------
(* Reading.                                                                 *)

\* The counters: a half comes CAS + 2 clocks after it is issued, one a clock.
LEMMA CaptureOnTime ==
  ASSUME Types, Counting
  PROVE  /\ Captures <=> cycle >= CaptureFrom
         /\ Captures /\ Received + 1 = Total <=> ReceiveIn = 1
         /\ Issues => IssueIn = Total - Issued /\ IssueIn > 0
         /\ ~Issues /\ Issued > 0 => IssueIn = 0
         /\ IssueIn \in Nat /\ ReceiveIn \in Nat
<1>1. cycle \in 0..31 /\ Total \in Nat \ {0} /\ Issued \in 0..Total /\ Received \in 0..Total
      /\ CaptureFrom = T_RCD + CAS + 2
  BY DEF Types, Counting, CaptureFrom
<1>2. IssueIn = (IF cycle < T_RCD THEN T_RCD - cycle ELSE 0) + Total - Issued
      /\ ReceiveIn = (IF cycle < CaptureFrom THEN CaptureFrom - cycle ELSE 0) + Total - Received
  BY DEF IssueIn, ReceiveIn
<1>3. IssueIn \in Nat /\ ReceiveIn \in Nat
  BY <1>1, <1>2, Numbers
<1>4. cycle >= CaptureFrom => Received < Issued
  BY <1>1, <1>2, <1>3, Numbers DEF Counting
<1>5. Captures <=> cycle >= CaptureFrom
  BY <1>4 DEF Captures
<1>6. Captures /\ Received + 1 = Total <=> ReceiveIn = 1
  BY <1>1, <1>2, <1>5, Numbers DEF Counting
<1>7. Issues => IssueIn = Total - Issued /\ IssueIn > 0
  BY <1>1, <1>2, Numbers DEF Issues
<1>8. ~Issues /\ Issued > 0 => IssueIn = 0
  BY <1>1, <1>2, Numbers DEF Issues, Counting
<1>9. QED
  BY <1>3, <1>5, <1>6, <1>7, <1>8

Counts ==
  /\ cycle' = NextCycle /\ Total' = Total
  /\ Issued' = Issued + (IF Issues THEN 1 ELSE 0)
  /\ Received' = Received + (IF Captures THEN 1 ELSE 0)

LEMMA CountingStep ==
  ASSUME Types, Counting, Counts, ReceiveIn > 1
  PROVE  Counting' /\ ReceiveIn' = ReceiveIn - 1 /\ Issued' >= Issued /\ cycle' >= cycle
         /\ cycle' \in 0..31
<1>1. /\ cycle \in 0..31 /\ CaptureFrom = T_RCD + CAS + 2
      /\ cycle' = IF cycle = 31 THEN 31 ELSE cycle + 1
  BY DEF Types, CaptureFrom, Counts, NextCycle
<1>2. Captures <=> cycle >= CaptureFrom
  BY CaptureOnTime
<1>3. ReceiveIn' = ReceiveIn - 1
  BY <1>1, <1>2, Numbers DEF Counts, Counting, ReceiveIn, CaptureFrom
<1>4. IssueIn' = IF IssueIn = 0 THEN 0 ELSE IssueIn - 1
  BY <1>1, Numbers DEF Counts, Counting, IssueIn, Issues
<1>5. Issued' \in 0..Total' /\ Received' \in 0..Total' /\ Issued' >= Issued
  BY DEF Counts, Counting, Issues, Captures
<1>6. cycle' <= T_RCD => Issued' = 0
  BY <1>1, Numbers DEF Counts, Counting, Issues
<1>7. cycle' <= CaptureFrom => Received' = 0
  BY <1>1, Numbers DEF Counts, Counting, Captures
<1>8. IssueIn \in Nat /\ ReceiveIn \in Nat
  BY CaptureOnTime
<1>9. Total' \in Nat \ {0}
  BY DEF Counts, Counting
<1>10. IssueIn' > 0 => ReceiveIn' = IssueIn' + CAS + 2
  BY <1>3, <1>4, <1>8, Numbers DEF Counting
<1>11. IssueIn' = 0 => ReceiveIn' <= CAS + 2
  BY <1>3, <1>4, <1>8, Numbers DEF Counting
<1>12. QED
  BY <1>1, <1>3, <1>5, <1>6, <1>7, <1>8, <1>9, <1>10, <1>11 DEF Counting, CaptureFrom

\* The command of a clock of the schedule.
IssuesNext ==
  /\ ~Issues => pins' = Nop
  /\ Issues => /\ pins'.cmd = "RD" /\ pins'.cs = buf.loc.chip /\ pins'.ba = buf.loc.bank
               /\ pins'.ap = (Issued = Total - 1)

\* Which command the pins hold.
LEMMA ReadPins ==
  ASSUME Types, ReadingInv
  PROVE  \/ cycle = 1 /\ pins = BankActivate(buf.loc) /\ Issued = 0 /\ ReceiveIn > CAS + 2
         \/ cycle > 1 /\ pins = Nop /\ Issued = 0 /\ ReceiveIn > CAS + 2
         \/ cycle > 1 /\ Issued > 0 /\ ReceiveIn > CAS + 2 /\ Aimed("RD") /\ ~pins.ap
         \/ cycle > 1 /\ Issued > 0 /\ ReceiveIn = CAS + 2 /\ Aimed("RD") /\ pins.ap
         \/ cycle > 1 /\ Issued > 0 /\ ReceiveIn < CAS + 2 /\ pins = Nop
<1>1. cycle \in 0..31 /\ cycle >= 1 /\ ReceiveIn \in Nat /\ IssueIn \in Nat /\ Counting
  BY CaptureOnTime DEF Types, ReadingInv, Accessing
<1>2. cycle = 1 => Issued = 0
  BY <1>1, Numbers DEF Counting
<1>3. Issued = 0 => IssueIn > 0
  BY <1>1, Numbers DEF Counting, IssueIn
<1>4. Issued = 0 => ReceiveIn > CAS + 2
  BY <1>1, <1>3, Numbers DEF Counting
<1>5. Issued \in Nat
  BY <1>1 DEF Counting
<1>6. CASE Issued = 0
  BY <1>1, <1>4, <1>6 DEF ReadingInv, Accessing
<1>7. CASE Issued > 0
  <2>1. cycle > 1
    BY <1>1, <1>2, <1>7
  <2>2. ReceiveIn >= CAS + 2 => Aimed("RD") /\ (pins.ap <=> ReceiveIn = CAS + 2)
    BY <1>7 DEF ReadingInv
  <2>3. ReceiveIn < CAS + 2 => pins = Nop
    BY DEF ReadingInv
  <2>4. ReceiveIn > CAS + 2 \/ ReceiveIn = CAS + 2 \/ ReceiveIn < CAS + 2
    BY <1>1, Numbers
  <2>5. ReceiveIn > CAS + 2 => ReceiveIn >= CAS + 2 /\ ReceiveIn # CAS + 2
    BY <1>1, Numbers
  <2>6. ReceiveIn = CAS + 2 => ReceiveIn >= CAS + 2
    BY <1>1, Numbers
  <2>7. QED
    BY <1>7, <2>1, <2>2, <2>3, <2>4, <2>5, <2>6, Zenon
<1>8. Issued = 0 \/ Issued > 0
  BY <1>5
<1>9. QED
  BY <1>6, <1>7, <1>8

\* Whatever the pins of an access hold, the chips follow it: nothing but the bank
\* in use changes otherwise than with time.
LEMMA AccessClock ==
  ASSUME Types, Accessing, ChipsSample,
         pins = BankActivate(buf.loc) \/ pins = Nop \/ Aimed("RD") \/ Aimed("WR")
  PROVE  /\ chip' \in [Chips -> ChipType] /\ ModesSet'
         /\ \A c \in Chips : chip'[c].wait = 0
         /\ \A c \in Chips : \A b \in Banks :
              c # buf.loc.chip \/ b # buf.loc.bank => Rested(chip'[c].bank[b])
<1>1. chip' \in [Chips -> ChipType] /\ (\A c \in Chips : Older(c))
      /\ \A c \in Chips : \A b \in Banks :
           c # buf.loc.chip \/ b # buf.loc.bank => OlderBank(c, b)
  <2>1. chip \in [Chips -> ChipType] /\ buf.loc \in Locs
    BY DEF Types
  <2>2. CASE pins = BankActivate(buf.loc)
    BY <2>1, <2>2, ActivateClock
  <2>3. CASE pins = Nop
    BY <2>1, <2>3, QuietClock
  <2>4. CASE Aimed("RD") \/ Aimed("WR")
    BY <2>1, <2>4, ColumnClock DEF Aimed
  <2>5. QED
    BY <2>2, <2>3, <2>4
<1>2. ModesSet'
  BY <1>1 DEF ModesSet, Accessing, Older
<1>3. \A c \in Chips : chip'[c].wait = 0
  BY <1>1 DEF Older, Accessing
<1>4. \A c \in Chips : \A b \in Banks :
        c # buf.loc.chip \/ b # buf.loc.bank => Rested(chip'[c].bank[b])
  BY <1>1, RestLasts DEF Accessing, Types
<1>5. QED
  BY <1>1, <1>2, <1>3, <1>4

\* The bank in use: opened by the activate, and its age.
LEMMA OpeningClock ==
  ASSUME Types, Accessing, ChipsSample, pins = BankActivate(buf.loc)
  PROVE  LET new == chip'[buf.loc.chip].bank[buf.loc.bank]
         IN  new.row = buf.loc.row /\ new.since = 1
  BY ActivateClock DEF Types

\* ... as it was while nothing is done to it,
LEMMA StandingClock ==
  ASSUME Types, Accessing, ChipsSample, pins = Nop
  PROVE  LET new == chip'[buf.loc.chip].bank[buf.loc.bank]
         IN  /\ new.row = InUse.row
             /\ new.since = (IF InUse.since >= T_RC THEN InUse.since ELSE InUse.since + 1)
             /\ new.pre = (IF InUse.pre = 0 THEN 0 ELSE InUse.pre - 1)
<1>1. buf.loc.chip \in Chips /\ buf.loc.bank \in Banks
  BY Places DEF Types
<1>2. InUse \in BankType
  BY <1>1 DEF Types, ChipType, InUse
<1>3. chip'[buf.loc.chip].bank[buf.loc.bank] = AgedBank(InUse)
  BY <1>1, QuietClock DEF Types, OlderBank, InUse
<1>4. QED
  BY <1>2, <1>3, Ageing

\* ... and closed by the last column command.
LEMMA ColumnBank ==
  ASSUME Types, Accessing, ChipsSample, Aimed("RD") \/ Aimed("WR")
  PROVE  LET new == chip'[buf.loc.chip].bank[buf.loc.bank]
         IN  /\ new.since = (IF InUse.since >= T_RC THEN InUse.since ELSE InUse.since + 1)
             /\ ~pins.ap => new.row = InUse.row
             /\ pins.ap => new.row = Closed
             /\ pins.ap /\ Aimed("RD") => new.pre = T_RP
             /\ pins.ap /\ Aimed("WR") => new.pre = T_DAL - 1
  BY ColumnClock DEF Types, Aimed, InUse

\* The age of the row keeps up with cycle.
LEMMA AgeKept ==
  ASSUME Types, Accessing, ChipsSample,
         \/ cycle = 1 /\ pins = BankActivate(buf.loc)
         \/ cycle > 1 /\ (pins = Nop \/ Aimed("RD") \/ Aimed("WR"))
  PROVE  LET new == chip'[buf.loc.chip].bank[buf.loc.bank]
         IN  new.since \in Nat /\ (new.since >= T_RC \/ new.since >= cycle)
<1>1. cycle \in 1..31
  BY DEF Types, Accessing
<1> DEFINE new == chip'[buf.loc.chip].bank[buf.loc.bank]
<1>2. InUse.since \in 0..T_RC
  <2>1. buf.loc.chip \in Chips /\ buf.loc.bank \in Banks
    BY Places DEF Types
  <2>2. InUse \in BankType
    BY <2>1 DEF Types, ChipType, InUse
  <2>3. QED
    BY <2>2 DEF BankType
<1>3. \/ cycle = 1 /\ new.since = 1
      \/ cycle > 1 /\ new.since = (IF InUse.since >= T_RC THEN InUse.since ELSE InUse.since + 1)
  BY OpeningClock, StandingClock, ColumnBank
<1>4. cycle > 1 => InUse.since >= T_RC \/ InUse.since >= cycle - 1
  BY DEF Accessing
<1> HIDE DEF new
<1>5. QED
  <2>1. new.since \in Nat
    BY <1>2, <1>3, Numbers
  <2>2. new.since >= T_RC \/ new.since >= cycle
    BY <1>1, <1>2, <1>3, <1>4, Numbers
  <2>3. QED
    BY <2>1, <2>2 DEF new

LEMMA AgeStep ==
  ASSUME Types, Accessing, ChipsSample, cycle' = NextCycle, buf'.loc = buf.loc,
         \/ cycle = 1 /\ pins = BankActivate(buf.loc)
         \/ cycle > 1 /\ (pins = Nop \/ Aimed("RD") \/ Aimed("WR"))
  PROVE  cycle' > 1 /\ Accessing'
<1>1. cycle \in 1..31 /\ cycle' = (IF cycle = 31 THEN 31 ELSE cycle + 1)
  BY DEF Types, Accessing, NextCycle
<1> DEFINE new == chip'[buf.loc.chip].bank[buf.loc.bank]
<1>2. new.since \in Nat /\ (new.since >= T_RC \/ new.since >= cycle)
  BY AgeKept
<1>3. new.since >= T_RC \/ new.since >= cycle' - 1
  BY <1>1, <1>2, Numbers
<1>4. /\ ModesSet' /\ \A c \in Chips : chip'[c].wait = 0
      /\ \A c \in Chips : \A b \in Banks :
           c # buf.loc.chip \/ b # buf.loc.bank => Rested(chip'[c].bank[b])
  BY AccessClock
<1>5. cycle' > 1
  BY <1>1
<1>6. InUse' = new
  BY DEF InUse
<1> HIDE DEF new
<1>7. Accessing'
  <2>1. cycle' >= 1 /\ cycle' # 1
    BY <1>1
  <2>2. QED
    BY <1>3, <1>4, <1>5, <1>6, <2>1 DEF Accessing
<1>11. QED
  BY <1>5, <1>7

-----------------------------------------------------------------------------
\* The halves under way move by one place a clock.
LEMMA ComingStep ==
  ASSUME Types, ReadingInv, ChipsSample, Total' = Total, ReceiveIn' = ReceiveIn - 1,
         ReceiveIn > 1, dq_r' = (IF DqOut # <<>> THEN DqOut ELSE Head(dq_pipe))
  PROVE  Coming' /\ dq_pipe' = [i \in 1..CAS |-> dq_pipe'[i]]
<1>1. /\ dq_pipe' = [i \in 1..CAS |-> dq_pipe'[i]]
      /\ \A i \in 1..CAS : i < CAS => dq_pipe'[i] = dq_pipe[i + 1]
      /\ dq_pipe'[CAS] # <<>> <=> pins.cmd = "RD"
      /\ Head(dq_pipe) = dq_pipe[1]
  BY PipeMoves DEF Types
<1>2. /\ ReceiveIn \in Nat /\ IssueIn \in Nat
      /\ Total \in Nat \ {0} /\ Issued \in 0..Total /\ Received \in 0..Total
  BY CaptureOnTime DEF ReadingInv, Counting
<1>3. pins.cmd = "RD" <=> Issued > 0 /\ ReceiveIn >= CAS + 2
  <2>1. BankActivate(buf.loc).cmd = "ACT" /\ Nop.cmd = "NOP"
    BY DEF BankActivate, Nop
  <2>2. QED
    BY <1>2, <2>1, ReadPins, Numbers DEF Aimed
<1>4. Issued > 0 /\ ReceiveIn >= CAS + 2 <=> ReceiveIn - 1 - Total <= CAS /\ CAS < ReceiveIn - 1
  <2> cycle \in 0..31 /\ (cycle <= T_RCD => Issued = 0)
    BY DEF Types, ReadingInv, Counting
  <2>1. Issued = 0 => ReceiveIn >= Total + CAS + 2
    <3>1. Issued = 0 => IssueIn >= Total
      BY <1>2, Numbers DEF IssueIn
    <3>2. QED
      BY <1>2, <3>1, Numbers DEF ReadingInv, Counting
  <2>2. Issued > 0 => ReceiveIn <= Total + CAS + 1
    <3>1. Issued > 0 => IssueIn = Total - Issued
      BY <1>2, Numbers DEF IssueIn
    <3>2. QED
      BY <1>2, <3>1, Numbers DEF ReadingInv, Counting
  <2>3. QED
    BY <1>2, <2>1, <2>2, Numbers
<1>5. ASSUME NEW i \in 1..CAS
      PROVE  (dq_pipe'[i] # <<>>) <=> (ReceiveIn - 1 - Total <= i /\ i < ReceiveIn - 1)
  <2>1. CASE i = CAS
    BY <1>1, <1>3, <1>4, <2>1
  <2>2. CASE i < CAS
    <3>1. i + 1 \in 1..CAS /\ dq_pipe'[i] = dq_pipe[i + 1]
      BY <1>1, <2>2, Numbers
    <3>2. (dq_pipe[i + 1] # <<>>) <=> (ReceiveIn - Total <= i + 1 /\ i + 1 < ReceiveIn)
      BY <3>1 DEF ReadingInv, Coming
    <3>3. QED
      BY <1>2, <3>1, <3>2
  <2>3. QED
    BY <2>1, <2>2, Numbers
<1>6. ReceiveIn - 1 <= Total => dq_r' # <<>>
  <2>1. DqOut = <<>>
    <3>1. pins.cmd # "WR"
      BY ReadPins DEF Aimed, BankActivate, Nop
    <3>2. QED
      BY <3>1 DEF DqOut
  <2>2. dq_r' = dq_pipe[1] /\ 1 \in 1..CAS
    BY <1>1, <2>1, Numbers
  <2>3. (dq_pipe[1] # <<>>) <=> (ReceiveIn - Total <= 1 /\ 1 < ReceiveIn)
    BY <2>2 DEF ReadingInv, Coming
  <2>4. QED
    BY <1>2, <2>2, <2>3
<1>7. QED
  BY <1>1, <1>5, <1>6 DEF Coming

LEMMA ReadingStep ==
  ASSUME Types, ReadingInv, ChipsSample, Counts, IssuesNext, buf'.loc = buf.loc,
         dq_r' = (IF DqOut # <<>> THEN DqOut ELSE Head(dq_pipe)), ReceiveIn > 1
  PROVE  /\ ReadingInv' /\ chip' \in [Chips -> ChipType] /\ cycle' \in 0..31
         /\ dq_pipe' = [i \in 1..CAS |-> dq_pipe'[i]]
<1> DEFINE new == chip'[buf.loc.chip].bank[buf.loc.bank]
<1>1. /\ Counting /\ Counting' /\ ReceiveIn' = ReceiveIn - 1 /\ Issued' >= Issued
      /\ cycle' \in 0..31 /\ Accessing
  BY CountingStep DEF ReadingInv
<1>2. /\ cycle' > 1 /\ Accessing'
      /\ chip' \in [Chips -> ChipType]
  BY <1>1, ReadPins, AccessClock, AgeStep DEF Counts
<1>3. Coming' /\ dq_pipe' = [i \in 1..CAS |-> dq_pipe'[i]]
  BY <1>1, ComingStep DEF Counts
<1>4. /\ ReceiveIn \in Nat /\ IssueIn \in Nat
      /\ Total \in Nat \ {0} /\ Issued \in 0..Total /\ Received \in 0..Total
  BY <1>1, CaptureOnTime DEF Counting
<1>5. InUse' = new
  BY DEF InUse
<1>6. ReceiveIn' >= CAS + 2 => new.row = buf.loc.row
  <2> SUFFICES ASSUME ReceiveIn' >= CAS + 2 PROVE new.row = buf.loc.row
    OBVIOUS
  <2>1. ReceiveIn > CAS + 2 /\ (cycle = 1 \/ cycle > 1)
    <3>1. cycle \in 1..31
      BY <1>1 DEF Types, Accessing
    <3>2. QED
      BY <1>1, <1>4, <3>1, Numbers
  <2>2. CASE cycle = 1
    BY <1>1, <2>1, <2>2, ReadPins, OpeningClock
  <2>3. CASE cycle > 1
    <3>1. InUse.row = buf.loc.row
      <4>1. ReceiveIn >= CAS + 2
        BY <1>4, <2>1, Numbers
      <4>2. QED
        BY <2>3, <4>1 DEF ReadingInv
    <3>2. pins = Nop \/ (Aimed("RD") /\ ~pins.ap)
      BY <1>4, <2>1, <2>3, ReadPins, Numbers
    <3>3. QED
      BY <1>1, <3>1, <3>2, StandingClock, ColumnBank
  <2>4. QED
    BY <2>1, <2>2, <2>3
<1>7. Issued' = 0 => pins' = Nop
  BY <1>4 DEF Counts, IssuesNext
<1>8. Issued' > 0 /\ ReceiveIn' >= CAS + 2 =>
        Aimed("RD")' /\ (pins'.ap <=> ReceiveIn' = CAS + 2)
  <2>1. SUFFICES ASSUME Issued' > 0, ReceiveIn' >= CAS + 2
                 PROVE  Aimed("RD")' /\ (pins'.ap <=> ReceiveIn' = CAS + 2)
    OBVIOUS
  <2>2. IssueIn > 0 /\ ReceiveIn = IssueIn + CAS + 2
    BY <1>1, <1>4, <2>1, Numbers DEF Counting
  <2>3. Issues
    BY <1>1, <1>4, <2>1, <2>2, CaptureOnTime DEF Counts
  <2>4. IssueIn = Total - Issued
    BY <1>1, <2>3, CaptureOnTime
  <2>5. (Issued = Total - 1) <=> (ReceiveIn' = CAS + 2)
    BY <1>1, <1>4, <2>2, <2>4, Numbers
  <2>6. QED
    BY <2>3, <2>5 DEF IssuesNext, Aimed
<1>9. ReceiveIn' < CAS + 2 =>
        /\ pins' = Nop /\ new.row = Closed
        /\ new.pre = 0 \/ new.pre <= T_RP + ReceiveIn' - CAS - 1
  <2> SUFFICES ASSUME ReceiveIn' < CAS + 2
               PROVE  /\ pins' = Nop /\ new.row = Closed
                      /\ new.pre = 0 \/ new.pre <= T_RP + ReceiveIn' - CAS - 1
    OBVIOUS
  <2>1. ReceiveIn <= CAS + 2 /\ (ReceiveIn = CAS + 2 \/ ReceiveIn < CAS + 2)
        /\ T_RP + ReceiveIn' - CAS - 1 = T_RP + ReceiveIn - CAS - 2
    BY <1>1, <1>4, Numbers
  <2>2. ~Issues
    <3>1. IssueIn = 0
      BY <1>1, <1>4, <2>1, Numbers DEF Counting
    <3>2. QED
      BY <1>1, <3>1, CaptureOnTime
  <2>3. pins' = Nop
    BY <2>2 DEF IssuesNext
  <2>4. CASE ReceiveIn = CAS + 2
    <3>1. Aimed("RD") /\ pins.ap
      BY <1>4, <2>4, ReadPins, Numbers
    <3>2. new.row = Closed /\ new.pre = T_RP
      BY <1>1, <3>1, ColumnBank
    <3>3. T_RP <= T_RP + ReceiveIn' - CAS - 1
      BY <2>1, <2>4, Numbers
    <3>4. QED
      BY <2>3, <3>2, <3>3
  <2>5. CASE ReceiveIn < CAS + 2
    <3>1. pins = Nop /\ InUse.row = Closed
          /\ (InUse.pre = 0 \/ InUse.pre <= T_RP + ReceiveIn - CAS - 1)
      BY <2>5 DEF ReadingInv
    <3>2. new.row = Closed /\ new.pre = (IF InUse.pre = 0 THEN 0 ELSE InUse.pre - 1)
      BY <1>1, <3>1, StandingClock
    <3>3. InUse.pre \in Nat
      <4>1. buf.loc.chip \in Chips /\ buf.loc.bank \in Banks
        BY Places DEF Types
      <4>2. QED
        BY <4>1 DEF Types, ChipType, BankType, InUse
    <3>4. QED
      BY <1>4, <2>1, <2>3, <3>1, <3>2, <3>3, Numbers
  <2>6. QED
    BY <2>1, <2>4, <2>5
<1> HIDE DEF new
<1>10. QED
  BY <1>1, <1>2, <1>3, <1>5, <1>6, <1>7, <1>8, <1>9 DEF ReadingInv

-----------------------------------------------------------------------------
(* The end of an access.                                                    *)

LEMMA EmptyPipe ==
  ASSUME Types, ChipsSample, PipeEmpty, pins.cmd # "RD"
  PROVE  PipeEmpty' /\ dq_pipe' = [i \in 1..CAS |-> dq_pipe'[i]]
<1>1. ASSUME NEW i \in 1..CAS PROVE dq_pipe'[i] = <<>>
  <2>1. CASE i = CAS
    BY <2>1, PipeMoves DEF Types
  <2>2. CASE i < CAS
    <3>1. i + 1 \in 1..CAS
      BY <2>2, Numbers
    <3>2. QED
      BY <2>2, <3>1, PipeMoves DEF Types, PipeEmpty
  <2>3. QED
    BY <2>1, <2>2, Numbers
<1>2. QED
  BY <1>1, PipeMoves DEF Types, PipeEmpty

LEMMA AccessEnds ==
  ASSUME Types, Accessing, ChipsSample, pins' = Nop, PipeEmpty',
         pins = Nop \/ Aimed("RD") \/ Aimed("WR"),
         LET new == chip'[buf.loc.chip].bank[buf.loc.bank]
         IN  new.row = Closed /\ new.pre <= 1 /\ new.since + 1 >= T_RC
  PROVE  Settling' /\ chip' \in [Chips -> ChipType]
<1>1. /\ chip' \in [Chips -> ChipType] /\ ModesSet'
      /\ \A c \in Chips : chip'[c].wait = 0
      /\ \A c \in Chips : \A b \in Banks :
           c # buf.loc.chip \/ b # buf.loc.bank => Rested(chip'[c].bank[b])
  BY AccessClock
<1>2. Resting(chip'[buf.loc.chip].bank[buf.loc.bank])
  BY DEF Resting
<1>3. ASSUME NEW c \in Chips, NEW b \in Banks PROVE Resting(chip'[c].bank[b])
  <2>1. chip'[c].bank[b] \in BankType
    BY <1>1 DEF ChipType
  <2>2. Rested(chip'[c].bank[b]) => Resting(chip'[c].bank[b])
    BY <2>1, Numbers DEF Rested, Resting, BankType
  <2>3. QED
    BY <1>1, <1>2, <2>2
<1>4. QED
  BY <1>1, <1>3 DEF Settling

\* The precharge that the last half started has a clock to go at most when its data
\* has come.
LEMMA ReadingEnds ==
  ASSUME RowsRecover, Types, ReadingInv, ChipsSample, ReceiveIn = 1, pins' = Nop
  PROVE  /\ Settling' /\ chip' \in [Chips -> ChipType]
         /\ dq_pipe' = [i \in 1..CAS |-> dq_pipe'[i]]
<1> DEFINE new == chip'[buf.loc.chip].bank[buf.loc.bank]
<1>1. ReceiveIn < CAS + 2
  BY Numbers
<1>2. /\ pins = Nop /\ InUse.row = Closed /\ Accessing /\ Counting
      /\ InUse.pre = 0 \/ InUse.pre <= T_RP + ReceiveIn - CAS - 1
  BY <1>1 DEF ReadingInv
<1>3. cycle > 1
  BY <1>1, ReadPins, Numbers
<1>4. InUse.pre \in Nat
  <2>1. buf.loc.chip \in Chips /\ buf.loc.bank \in Banks
    BY Places DEF Types
  <2>2. QED
    BY <2>1 DEF Types, ChipType, BankType, InUse
<1>5. new.row = Closed /\ new.pre = (IF InUse.pre = 0 THEN 0 ELSE InUse.pre - 1)
  BY <1>2, StandingClock
<1>6. new.pre <= 1
  BY <1>2, <1>4, <1>5, Numbers DEF RowsRecover
<1>7. new.since + 1 >= T_RC
  <2>1. new.since \in Nat /\ (new.since >= T_RC \/ new.since >= cycle)
    BY <1>2, <1>3, AgeKept
  <2>2. cycle >= CaptureFrom
    BY <1>2, CaptureOnTime
  <2>3. cycle \in 0..31 /\ CaptureFrom = T_RCD + CAS + 2
    BY DEF Types, CaptureFrom
  <2>4. QED
    BY <2>1, <2>2, <2>3, Numbers DEF RowsRecover
<1>8. PipeEmpty
  <2>1. Total \in Nat \ {0}
    BY <1>2 DEF Counting
  <2>2. \A i \in 1..CAS : ~(i < ReceiveIn)
    BY Numbers
  <2>3. QED
    BY <2>2 DEF ReadingInv, Coming, PipeEmpty
<1>9. PipeEmpty' /\ dq_pipe' = [i \in 1..CAS |-> dq_pipe'[i]]
  BY <1>2, <1>8, EmptyPipe DEF Nop
<1>10. QED
  BY <1>2, <1>5, <1>6, <1>7, <1>9, AccessEnds

-----------------------------------------------------------------------------
(* Writing.                                                                 *)

LEMMA WriteCycles ==
  ASSUME Types
  PROVE  /\ LastWrite \in {T_RCD, T_RCD + 1} /\ WriteLength = LastWrite + T_DAL - 1
         /\ T_DAL \in 2..30 /\ WriteLength < 31
         /\ LastWrite + T_DAL >= T_RCD + T_DAL
         /\ Halves = {1, 2}
<1>1. Halves = {1, 2}
  BY DEF Halves
<1>2. T_DAL = T_WR + T_RP
  BY DEF T_DAL
<1>3. QED
  BY <1>1, <1>2, Numbers DEF LastWrite, WriteLength

\* The command of a clock of WRITE.
WritesNext ==
  LET both == wr_halfs = Halves
      high == \/ cycle = T_RCD /\ wr_halfs = {2}
              \/ cycle = T_RCD + 1 /\ both
  IN  pins' = IF cycle = T_RCD /\ 1 \in wr_halfs THEN WriteHalf(1, ~both)
              ELSE IF high THEN WriteHalf(2, TRUE)
              ELSE Nop

LEMMA WritePins ==
  ASSUME Types, WritesNext, buf'.loc = buf.loc
  PROVE  /\ cycle < T_RCD \/ cycle > LastWrite => pins' = Nop
         /\ T_RCD <= cycle /\ cycle <= LastWrite =>
              Aimed("WR")' /\ (pins'.ap <=> cycle = LastWrite)
<1>1. cycle \in 0..31 /\ T_RCD \in 1..15
  BY Numbers DEF Types
<1>2. Halves = {1, 2} /\ Halves # {1} /\ Halves # {2} /\ {1} # {2}
      /\ 1 \in Halves /\ 1 \in {1} /\ 1 \notin {2}
  <2>1. 1 \in {1, 2} /\ 2 \in {1, 2} /\ 2 \notin {1} /\ 1 \notin {2} /\ 1 \in {1}
    OBVIOUS
  <2>2. Halves = {1, 2}
    BY WriteCycles
  <2>3. QED
    BY <2>1, <2>2
<1>3. ASSUME NEW h, NEW ap \in BOOLEAN, pins' = WriteHalf(h, ap)
      PROVE  Aimed("WR")' /\ pins'.ap = ap
  BY <1>3 DEF WriteHalf, Aimed
<1>4. CASE wr_halfs = Halves
  <2>1. LastWrite = T_RCD + 1
    BY <1>4 DEF LastWrite
  <2>2. cycle = T_RCD => pins' = WriteHalf(1, FALSE)
    BY <1>2, <1>4 DEF WritesNext
  <2>3. cycle = T_RCD + 1 => pins' = WriteHalf(2, TRUE)
    <3>1. cycle = T_RCD + 1 => cycle # T_RCD
      BY <1>1
    <3>2. QED
      BY <1>2, <1>4, <3>1 DEF WritesNext
  <2>4. cycle # T_RCD /\ cycle # T_RCD + 1 => pins' = Nop
    BY <1>2, <1>4 DEF WritesNext
  <2>5. QED
    <3>1. T_RCD <= cycle /\ cycle <= LastWrite => cycle = T_RCD \/ cycle = T_RCD + 1
      BY <1>1, <2>1
    <3>2. cycle < T_RCD \/ cycle > LastWrite => cycle # T_RCD /\ cycle # T_RCD + 1
      BY <1>1, <2>1
    <3>3. cycle = T_RCD => cycle # LastWrite
      BY <1>1, <2>1
    <3>4. cycle = T_RCD => Aimed("WR")' /\ pins'.ap = FALSE
      BY <1>3, <2>2
    <3>5. cycle = T_RCD + 1 => Aimed("WR")' /\ pins'.ap = TRUE
      BY <1>3, <2>3
    <3>6. QED
      BY <2>1, <2>4, <3>1, <3>2, <3>3, <3>4, <3>5
<1>5. CASE wr_halfs = {1}
  <2>1. LastWrite = T_RCD
    BY <1>2, <1>5 DEF LastWrite
  <2>2. cycle = T_RCD => pins' = WriteHalf(1, TRUE)
    BY <1>2, <1>5 DEF WritesNext
  <2>3. cycle # T_RCD => pins' = Nop
    BY <1>2, <1>5 DEF WritesNext
  <2>4. QED
    <3>1. T_RCD <= cycle /\ cycle <= LastWrite => cycle = T_RCD
      BY <1>1, <2>1
    <3>2. cycle < T_RCD \/ cycle > LastWrite => cycle # T_RCD
      BY <1>1, <2>1
    <3>3. cycle = T_RCD => Aimed("WR")' /\ pins'.ap = TRUE
      BY <1>3, <2>2
    <3>4. QED
      BY <2>1, <2>3, <3>1, <3>2, <3>3
<1>6. CASE wr_halfs = {2}
  <2>1. LastWrite = T_RCD
    BY <1>2, <1>6 DEF LastWrite
  <2>2. cycle = T_RCD => pins' = WriteHalf(2, TRUE)
    BY <1>2, <1>6 DEF WritesNext
  <2>3. cycle # T_RCD => pins' = Nop
    BY <1>2, <1>6 DEF WritesNext
  <2>4. QED
    <3>1. T_RCD <= cycle /\ cycle <= LastWrite => cycle = T_RCD
      BY <1>1, <2>1
    <3>2. cycle < T_RCD \/ cycle > LastWrite => cycle # T_RCD
      BY <1>1, <2>1
    <3>3. cycle = T_RCD => Aimed("WR")' /\ pins'.ap = TRUE
      BY <1>3, <2>2
    <3>4. QED
      BY <2>1, <2>3, <3>1, <3>2, <3>3
<1>7. QED
  BY <1>4, <1>5, <1>6 DEF Types

\* What the pins hold in WRITE.
LEMMA WritingPins ==
  ASSUME Types, WritingInv
  PROVE  /\ cycle \in 1..31
         /\ \/ cycle = 1 /\ pins = BankActivate(buf.loc)
            \/ cycle > 1 /\ cycle <= T_RCD /\ pins = Nop
            \/ cycle > T_RCD /\ cycle > 1 /\ cycle <= LastWrite /\ Aimed("WR") /\ ~pins.ap
            \/ cycle > T_RCD /\ cycle > 1 /\ cycle = LastWrite + 1 /\ Aimed("WR") /\ pins.ap
            \/ cycle > LastWrite + 1 /\ cycle > 1 /\ pins = Nop
<1>1. cycle \in 1..31 /\ LastWrite \in 1..30 /\ T_RCD \in 1..15 /\ T_RCD <= LastWrite
  <2>1. cycle \in 0..31 /\ cycle >= 1
    BY DEF Types, WritingInv, Accessing
  <2>2. LastWrite \in 1..30 /\ T_RCD <= LastWrite /\ T_RCD \in 1..15
    BY WriteCycles, Numbers
  <2>3. QED
    BY <2>1, <2>2
<1>2. cycle > T_RCD /\ cycle <= LastWrite + 1 => Aimed("WR") /\ (pins.ap <=> cycle = LastWrite + 1)
  BY DEF WritingInv
<1>3. /\ cycle = 1 => pins = BankActivate(buf.loc)
      /\ 1 < cycle /\ cycle <= T_RCD => pins = Nop
      /\ cycle > LastWrite + 1 => pins = Nop
  BY DEF WritingInv, Accessing
<1>4. QED
  BY <1>1, <1>2, <1>3

LEMMA WritingStep ==
  ASSUME Types, WritingInv, ChipsSample, WritesNext, cycle # WriteLength, cycle' = NextCycle,
         wr_halfs' = wr_halfs, buf'.loc = buf.loc
  PROVE  /\ WritingInv' /\ chip' \in [Chips -> ChipType] /\ cycle' \in 0..31
         /\ dq_pipe' = [i \in 1..CAS |-> dq_pipe'[i]]
<1> DEFINE new == chip'[buf.loc.chip].bank[buf.loc.bank]
<1>1. /\ cycle \in 1..31 /\ cycle' = cycle + 1 /\ cycle' \in 2..31 /\ cycle' <= WriteLength
      /\ LastWrite \in 1..30 /\ T_RCD \in 1..15 /\ T_DAL \in 2..30
  <2>1. cycle \in 1..31 /\ cycle <= WriteLength
    BY DEF Types, WritingInv, Accessing
  <2>2. WriteLength \in 0..30 /\ LastWrite \in 1..30 /\ T_RCD \in 1..15 /\ T_DAL \in 2..30
    BY WriteCycles, Numbers
  <2>3. QED
    BY <2>1, <2>2 DEF NextCycle
<1>2. WriteLength' = WriteLength /\ LastWrite' = LastWrite /\ InUse' = new
  BY DEF WriteLength, LastWrite, InUse
<1>3. /\ Accessing /\ Accessing' /\ chip' \in [Chips -> ChipType]
  <2>1. Accessing
    BY DEF WritingInv
  <2>2. QED
    BY <2>1, WritingPins, AccessClock, AgeStep
<1>4. PipeEmpty' /\ dq_pipe' = [i \in 1..CAS |-> dq_pipe'[i]]
  <2>1. pins.cmd # "RD"
    BY WritingPins DEF Aimed, BankActivate, Nop
  <2>2. QED
    BY <2>1, EmptyPipe DEF WritingInv
<1>5. cycle' <= LastWrite + 1 => new.row = buf.loc.row
  <2> SUFFICES ASSUME cycle <= LastWrite PROVE new.row = buf.loc.row
    BY <1>1
  <2>1. CASE cycle = 1
    <3>1. pins = BankActivate(buf.loc)
      BY <1>3, <2>1 DEF Accessing
    <3>2. QED
      BY <1>3, <3>1, OpeningClock
  <2>2. CASE cycle > 1
    <3>1. InUse.row = buf.loc.row
      BY <1>1, <2>2 DEF WritingInv
    <3>2. pins = Nop \/ (Aimed("WR") /\ ~pins.ap)
      BY <1>1, <2>2, WritingPins
    <3>3. QED
      BY <1>3, <3>1, <3>2, StandingClock, ColumnBank
  <2>3. QED
    BY <1>1, <2>1, <2>2
<1>6. cycle' > LastWrite + 1 => new.row = Closed /\ new.pre <= LastWrite + 1 + T_DAL - cycle'
  <2>1. CASE cycle = LastWrite + 1
    <3>1. Aimed("WR") /\ pins.ap
      BY <1>1, <2>1, WritingPins, WriteCycles
    <3>2. new.row = Closed /\ new.pre = T_DAL - 1
      BY <1>3, <3>1, ColumnBank
    <3>3. QED
      BY <1>1, <2>1, <3>2
  <2>2. CASE cycle > LastWrite + 1
    <3>1. pins = Nop /\ InUse.row = Closed /\ InUse.pre <= LastWrite + 1 + T_DAL - cycle
      BY <2>2 DEF WritingInv
    <3>2. new.row = Closed /\ new.pre = (IF InUse.pre = 0 THEN 0 ELSE InUse.pre - 1)
      BY <1>3, <3>1, StandingClock
    <3>3. InUse.pre \in Nat
      <4>1. buf.loc.chip \in Chips /\ buf.loc.bank \in Banks
        BY Places DEF Types
      <4>2. QED
        BY <4>1 DEF Types, ChipType, BankType, InUse
    <3>4. cycle < LastWrite + T_DAL - 1
      BY <1>1, WriteCycles DEF WritingInv
    <3> HIDE DEF new
    <3>5. new.pre <= LastWrite + 1 + T_DAL - cycle'
      BY <1>1, <3>1, <3>2, <3>3, <3>4
    <3>6. QED
      BY <3>2, <3>5
  <2>3. QED
    BY <1>1, <2>1, <2>2
<1>7. /\ cycle' <= T_RCD => pins' = Nop
      /\ T_RCD < cycle' /\ cycle' <= LastWrite + 1 =>
           Aimed("WR")' /\ (pins'.ap <=> cycle' = LastWrite + 1)
      /\ cycle' > LastWrite + 1 => pins' = Nop
  <2>1. /\ cycle < T_RCD \/ cycle > LastWrite => pins' = Nop
        /\ T_RCD <= cycle /\ cycle <= LastWrite =>
             Aimed("WR")' /\ (pins'.ap <=> cycle = LastWrite)
    BY WritePins
  <2>2. QED
    BY <1>1, <2>1
<1> HIDE DEF new
<1>8. QED
  <2>1. /\ cycle' \in 0..31 /\ cycle' > 1
        /\ cycle' <= WriteLength' /\ (cycle' <= LastWrite' + 1 => InUse'.row = buf'.loc.row)
        /\ cycle' > LastWrite' + 1 => InUse'.row = Closed /\ InUse'.pre <= LastWrite' + 1 + T_DAL - cycle'
    BY <1>1, <1>2, <1>5, <1>6
  <2>2. /\ cycle' <= T_RCD => pins' = Nop
        /\ T_RCD < cycle' /\ cycle' <= LastWrite' + 1 =>
             Aimed("WR")' /\ (pins'.ap <=> cycle' = LastWrite' + 1)
        /\ cycle' > LastWrite' + 1 => pins' = Nop
    BY <1>2, <1>7
  <2>3. WritingInv'
    BY <1>3, <1>4, <2>1, <2>2 DEF WritingInv
  <2>4. QED
    BY <1>3, <1>4, <2>1, <2>3

\* ... and the one that the last written half starts is over but for a clock.
LEMMA WritingEnds ==
  ASSUME RowsRecover, Types, WritingInv, ChipsSample, cycle = WriteLength, WritesNext,
         buf'.loc \in Locs
  PROVE  /\ Settling' /\ chip' \in [Chips -> ChipType]
         /\ dq_pipe' = [i \in 1..CAS |-> dq_pipe'[i]]
<1> DEFINE new == chip'[buf.loc.chip].bank[buf.loc.bank]
<1>1. /\ cycle \in 1..31 /\ cycle = LastWrite + T_DAL - 1 /\ cycle >= LastWrite + 1
      /\ LastWrite \in 1..30 /\ T_DAL \in 2..30 /\ LastWrite + T_DAL >= T_RCD + T_DAL
      /\ cycle > T_RCD /\ cycle > 1
  BY WritingPins, WriteCycles, Numbers
<1>2. Accessing
  BY DEF WritingInv
<1>3. \/ cycle = LastWrite + 1 /\ Aimed("WR") /\ pins.ap
      \/ cycle > LastWrite + 1 /\ pins = Nop
  <2>1. cycle # 1 /\ ~(cycle <= T_RCD) /\ ~(cycle <= LastWrite)
    BY <1>1, Numbers
  <2>2. QED
    BY <2>1, WritingPins
<1>4. new.row = Closed /\ new.pre <= 1
  <2>1. CASE cycle = LastWrite + 1 /\ Aimed("WR") /\ pins.ap
    <3>1. new.row = Closed /\ new.pre = T_DAL - 1
      BY <1>2, <2>1, ColumnBank
    <3>2. QED
      BY <1>1, <2>1, <3>1
  <2>2. CASE cycle > LastWrite + 1 /\ pins = Nop
    <3>1. InUse.row = Closed /\ InUse.pre <= LastWrite + 1 + T_DAL - cycle
      BY <2>2 DEF WritingInv
    <3>2. new.row = Closed /\ new.pre = (IF InUse.pre = 0 THEN 0 ELSE InUse.pre - 1)
      BY <1>2, <2>2, <3>1, StandingClock
    <3>3. InUse.pre \in Nat
      <4>1. buf.loc.chip \in Chips /\ buf.loc.bank \in Banks
        BY Places DEF Types
      <4>2. QED
        BY <4>1 DEF Types, ChipType, BankType, InUse
    <3>4. QED
      BY <1>1, <3>1, <3>2, <3>3
  <2>3. QED
    BY <1>3, <2>1, <2>2
<1>5. new.since + 1 >= T_RC
  <2>1. new.since \in Nat /\ (new.since >= T_RC \/ new.since >= cycle)
    BY <1>1, <1>2, <1>3, AgeKept
  <2>2. QED
    BY <1>1, <2>1, Numbers DEF RowsRecover
<1>6. PipeEmpty' /\ dq_pipe' = [i \in 1..CAS |-> dq_pipe'[i]]
  BY <1>3, EmptyPipe DEF WritingInv, Aimed, Nop
<1>7. pins' = Nop
  <2>1. cycle # T_RCD
    BY <1>1, Numbers
  <2>2. wr_halfs = Halves => cycle # T_RCD + 1
    BY <1>1, Numbers DEF LastWrite
  <2>3. QED
    BY <2>1, <2>2 DEF WritesNext
<1>8. QED
  BY <1>2, <1>3, <1>4, <1>5, <1>6, <1>7, AccessEnds

-----------------------------------------------------------------------------
(* Between the accesses.                                                    *)

\* After one clock without a command the chips can take any.
LEMMA Settles ==
  ASSUME Types, Settling, ChipsSample
  PROVE  /\ chip' \in [Chips -> ChipType] /\ ModesSet' /\ AllRested'
         /\ \A c \in Chips : chip'[c].wait = 0
         /\ PipeEmpty' /\ dq_pipe' = [i \in 1..CAS |-> dq_pipe'[i]]
<1>1. /\ chip' \in [Chips -> ChipType] /\ chip \in [Chips -> ChipType]
      /\ \A c \in Chips : Older(c) /\ \A b \in Banks : OlderBank(c, b)
  BY QuietClock DEF Types, Settling
<1>2. ModesSet'
  BY <1>1 DEF ModesSet, Settling, Older
<1>3. AllRested'
  BY <1>1, RestLasts DEF AllRested, Settling
<1>4. ASSUME NEW c \in Chips PROVE chip'[c].wait = 0
  <2>1. chip[c].wait \in Nat /\ chip[c].wait <= 1
    BY <1>1 DEF ChipType, Settling
  <2>2. QED
    BY <1>1, <2>1 DEF Older
<1>5. PipeEmpty' /\ dq_pipe' = [i \in 1..CAS |-> dq_pipe'[i]]
  BY EmptyPipe DEF Settling, Nop
<1>6. QED
  BY <1>1, <1>2, <1>3, <1>4, <1>5

\* Any time after that is as good.
LEMMA RestedSettles ==
  ASSUME Types', AllRested', ModesSet', PipeEmpty', pins' = Nop,
         \A c \in Chips : chip'[c].wait <= 1
  PROVE  Settling'
<1>1. ASSUME NEW c \in Chips, NEW b \in Banks PROVE Resting(chip'[c].bank[b])
  <2>1. chip'[c].bank[b] \in BankType /\ Rested(chip'[c].bank[b])
    BY DEF Types, ChipType, AllRested
  <2>2. QED
    BY <2>1, Numbers DEF Rested, Resting, BankType
<1>2. QED
  BY <1>1 DEF Settling

LEMMA PortStep ==
  ASSUME PortType, PortsMove(out.ready)
  PROVE  PortType'
<1> DEFINE F == [Ports -> UNION {PortSteps(p, out.ready) : p \in Ports}]
<1>1. port' \in F /\ \A p \in Ports : port'[p] \in PortSteps(p, out.ready)
  BY DEF PortsMove
<1>2. port' = [p \in Ports |-> port'[p]]
  BY <1>1
<1>3. ASSUME NEW p \in Ports
      PROVE  port'[p] = <<>> \/ \E r \in Requests[p] : port'[p] = <<r>>
  <2>1. port'[p] = port[p] \/ port'[p] = <<>> \/ \E r \in Requests[p] : port'[p] = <<r>>
    BY <1>1 DEF PortSteps
  <2>2. QED
    BY <2>1 DEF PortType
<1>4. QED
  BY <1>2, <1>3 DEF PortType

\* What a port requests is a request.
LEMMA Requested ==
  ASSUME PortType, NEW p \in Requesting
  PROVE  /\ p \in Ports /\ Req(p).loc \in Locs /\ Req(p).burst \in 0..15
         /\ Req(p).be \in SUBSET Lanes
<1>1. p \in Ports /\ port[p] # <<>>
  BY DEF Requesting
<1>2. PICK r \in Requests[p] : port[p] = <<r>>
  BY <1>1 DEF PortType
<1>3. r \in Request /\ Req(p) = r
  BY <1>1, <1>2, PortsAssumption DEF Req
<1>4. QED
  BY <1>1, <1>3 DEF Request

LEMMA WrittenHalves ==
  ASSUME NEW be \in SUBSET Lanes
  PROVE  /\ WriteHalves(be) \in {Halves, {1}, {2}}
         /\ Cardinality(WriteHalves(be)) \in {1, 2}
<1>1. Halves = {1, 2} /\ Cardinality({1, 2}) = 2 /\ Cardinality({1}) = 1 /\ Cardinality({2}) = 1
  <2>1. Halves = {1, 2}
    BY DEF Halves
  <2>2. Cardinality({1}) = 1 /\ Cardinality({2}) = 1
    BY FS_Singleton
  <2>3. IsFiniteSet({1}) /\ 2 \notin {1} /\ {1} \cup {2} = {1, 2}
    <3>1. IsFiniteSet({1})
      BY FS_Singleton
    <3>2. 2 \notin {1} /\ {1} \cup {2} = {1, 2}
      OBVIOUS
    <3>3. QED
      BY <3>1, <3>2
  <2>4. Cardinality({1, 2}) = 2
    BY <2>2, <2>3, FS_AddElement
  <2>5. QED
    BY <2>1, <2>2, <2>4
<1>2. Touched(be) \subseteq {1, 2}
  BY <1>1 DEF Touched
<1>3. Touched(be) \in {{}, {1}, {2}, {1, 2}}
  BY <1>2
<1>4. Cardinality(Touched(be)) = 1 => Touched(be) \in {{1}, {2}}
  BY <1>1, <1>3, FS_EmptySet
<1>5. WriteHalves(be) \in {Halves, {1}, {2}}
  BY <1>4 DEF WriteHalves
<1>6. QED
  BY <1>1, <1>5

\* An accepted request activates its row in chips at rest.
LEMMA Accepts ==
  ASSUME Types, Settling, NEW p \in Ports, Accept(p)
  PROVE  /\ Accessing' /\ PipeEmpty' /\ cycle' = 1 /\ pins' = BankActivate(buf'.loc)
         /\ p \in Requesting
         /\ chip' \in [Chips -> ChipType] /\ dq_pipe' = [i \in 1..CAS |-> dq_pipe'[i]]
         /\ buf' = [id |-> buf'.id, loc |-> buf'.loc, din |-> buf'.din, be |-> buf'.be]
         /\ buf'.loc \in Locs /\ PortType' /\ init_chip' = init_chip
<1>1. /\ ChipsSample /\ PortsMove(out.ready) /\ p \in Requesting
      /\ pins' = BankActivate(Req(p).loc) /\ cycle' = 1 /\ init_chip' = init_chip
      /\ buf' = [id |-> p, loc |-> Req(p).loc, din |-> Req(p).din, be |-> Req(p).be]
  BY DEF Accept, MayAccept, Granted, Edge
<1>2. /\ chip' \in [Chips -> ChipType] /\ ModesSet' /\ AllRested'
      /\ \A c \in Chips : chip'[c].wait = 0
      /\ PipeEmpty' /\ dq_pipe' = [i \in 1..CAS |-> dq_pipe'[i]]
  BY <1>1, Settles
<1>3. PortType /\ PortType'
  BY <1>1, PortStep DEF Types
<1>4. buf'.loc = Req(p).loc /\ buf'.loc \in Locs
  BY <1>1, <1>3, Requested
<1>5. Accessing'
  <2>1. Rested(InUse)'
    BY <1>2, <1>4, Places DEF AllRested, InUse
  <2>2. QED
    BY <1>1, <1>2, <1>4, <2>1 DEF Accessing, AllRested
<1>6. QED
  BY <1>1, <1>2, <1>3, <1>4, <1>5

\* The first clock of a read, from the end of the request to its first column.
LEMMA ReadingBegins ==
  ASSUME Accessing', PipeEmpty', cycle' = 1,
         Total' \in Nat \ {0}, Issued' = 0, Received' = 0
  PROVE  ReadingInv'
<1> DEFINE total == Total'
           receive == ReceiveIn'
           issue == IssueIn'
<1>1. T_RCD \in 1..15 /\ CAS \in 1..15 /\ CaptureFrom = T_RCD + CAS + 2 /\ total \in Nat \ {0}
  BY Numbers DEF CaptureFrom
<1>2. receive = T_RCD + CAS + 1 + total /\ issue = T_RCD - 1 + total
  BY <1>1 DEF ReceiveIn, IssueIn, CaptureFrom
<1> HIDE DEF total, receive, issue
<1>3. receive >= 1 /\ issue > 0 /\ receive = issue + CAS + 2 /\ receive > CAS + 2
  BY <1>1, <1>2
<1>4. (\A i \in 1..CAS : ~(receive - total <= i)) /\ ~(receive <= total)
  BY <1>1, <1>2
<1>5. 0 \in 0..total /\ ~(receive < CAS + 2) /\ issue # 0
  BY <1>1, <1>2, <1>3
<1>6. Counting'
  BY <1>1, <1>3, <1>5 DEF Counting, total, receive, issue
<1>7. Coming'
  BY <1>4 DEF Coming, PipeEmpty, total, receive
<1>8. ~(cycle' > 1) /\ ~(Issued' > 0)
  OBVIOUS
<1>9. QED
  BY <1>5, <1>6, <1>7, <1>8 DEF ReadingInv, receive

-----------------------------------------------------------------------------
(* Configuration and refresh.                                               *)

\* What a clock of the configuration does to the chips.
LEMMA ConfigChips ==
  ASSUME Types, Configuring, ChipsSample
  PROVE  LET k == chip[init_chip]
             l == chip'[init_chip]
         IN  /\ chip' \in [Chips -> ChipType] /\ AllRested'
             /\ \A c \in Chips : c # init_chip =>
                  chip'[c].wait = 0 /\ chip'[c].mode = chip[c].mode /\ chip'[c].refs = chip[c].refs
             /\ cycle = 1 => l.wait = T_RP - 1 /\ l.refs = k.refs
             /\ cycle \in {T_RP + 1, T_RP + T_RC + 1} =>
                  l.wait = T_RC - 1 /\ l.refs = (IF k.refs = 2 THEN 2 ELSE k.refs + 1)
             /\ cycle = T_RP + T_RC + T_RC + 1 =>
                  l.wait = T_MRD - 1 /\ l.refs = k.refs /\ l.mode
             /\ cycle \notin {1, T_RP + 1, T_RP + T_RC + 1, T_RP + T_RC + T_RC + 1} =>
                  /\ l.wait = (IF k.wait = 0 THEN 0 ELSE k.wait - 1)
                  /\ l.refs = k.refs /\ l.mode = k.mode
<1> DEFINE x == init_chip
<1>1. x \in Chips /\ chip \in [Chips -> ChipType] /\ pins = Command(x, cycle)
  BY DEF Types, Configuring
<1>2. /\ T_RP + 1 # 1 /\ T_RP + T_RC + 1 # 1 /\ T_RP + T_RC + T_RC + 1 # 1
      /\ T_RP + T_RC + T_RC + 1 # T_RP + 1 /\ T_RP + T_RC + T_RC + 1 # T_RP + T_RC + 1
  BY Numbers
<1>3. \A c \in Chips : c # x => chip[c].wait = 0
  BY DEF Configuring
<1>4. CASE cycle = 1
  <2>1. pins = PreChargeAll(x)
    BY <1>1, <1>2, <1>4 DEF Command
  <2>2. /\ chip' \in [Chips -> ChipType]
        /\ \A c \in Chips : c # x => Older(c) /\ \A b \in Banks : OlderBank(c, b)
        /\ chip'[x].wait = T_RP - 1 /\ chip'[x].mode = chip[x].mode /\ chip'[x].refs = chip[x].refs
        /\ \A b \in Banks : Rested(chip[x].bank[b]) => Rested(chip'[x].bank[b])
    BY <1>1, <2>1, PrechargeClock
  <2>3. AllRested'
    BY <1>1, <2>2, RestLasts DEF AllRested, Configuring
  <2>4. QED
    BY <1>2, <1>3, <1>4, <2>2, <2>3 DEF Older
<1>5. CASE cycle \in {T_RP + 1, T_RP + T_RC + 1}
  <2>1. pins = AutoRefresh(x)
    BY <1>1, <1>2, <1>5 DEF Command
  <2>2. /\ chip' \in [Chips -> ChipType]
        /\ \A c \in Chips : c # x => Older(c)
        /\ \A c \in Chips : \A b \in Banks : OlderBank(c, b)
        /\ chip'[x].wait = T_RC - 1 /\ chip'[x].mode = chip[x].mode
        /\ chip'[x].refs = (IF chip[x].refs = 2 THEN 2 ELSE chip[x].refs + 1)
    BY <1>1, <2>1, RefreshClock
  <2>3. AllRested'
    BY <1>1, <2>2, RestLasts DEF AllRested, Configuring
  <2>4. QED
    BY <1>2, <1>3, <1>5, <2>2, <2>3 DEF Older
<1>6. CASE cycle = T_RP + T_RC + T_RC + 1
  <2>1. pins = SetModeReg(x)
    BY <1>1, <1>2, <1>6 DEF Command
  <2>2. /\ chip' \in [Chips -> ChipType]
        /\ \A c \in Chips : c # x => Older(c)
        /\ \A c \in Chips : \A b \in Banks : OlderBank(c, b)
        /\ chip'[x].wait = T_MRD - 1 /\ chip'[x].mode /\ chip'[x].refs = chip[x].refs
    BY <1>1, <2>1, ModeClock
  <2>3. AllRested'
    BY <1>1, <2>2, RestLasts DEF AllRested, Configuring
  <2>4. QED
    BY <1>2, <1>3, <1>6, <2>2, <2>3 DEF Older
<1>7. CASE cycle \notin {1, T_RP + 1, T_RP + T_RC + 1, T_RP + T_RC + T_RC + 1}
  <2>1. pins = Nop
    BY <1>1, <1>7 DEF Command
  <2>2. /\ chip' \in [Chips -> ChipType]
        /\ \A c \in Chips : Older(c) /\ \A b \in Banks : OlderBank(c, b)
    BY <1>1, <2>1, QuietClock
  <2>3. AllRested'
    BY <1>1, <2>2, RestLasts DEF AllRested, Configuring
  <2>4. QED
    BY <1>1, <1>3, <1>7, <2>2, <2>3 DEF Older
<1>8. QED
  BY <1>4, <1>5, <1>6, <1>7

ConfigPins ==
  pins' = CASE cycle = 0 -> PreChargeAll(init_chip)
            [] cycle \in {T_RP, T_RP + T_RC} -> AutoRefresh(init_chip)
            [] cycle = T_RP + T_RC + T_RC -> SetModeReg(init_chip)
            [] OTHER -> Nop

LEMMA ConfigCommand ==
  ASSUME Types, ConfigPins
  PROVE  pins' = Command(init_chip, cycle + 1) /\ (cycle = ConfigLength => pins' = Nop)
<1>1. cycle \in 0..31 /\ ConfigLength = T_RP + T_RC + T_RC + T_MRD
  BY DEF Types, ConfigLength
<1>2. /\ cycle + 1 = 1 <=> cycle = 0
      /\ cycle + 1 = T_RP + 1 <=> cycle = T_RP
      /\ cycle + 1 = T_RP + T_RC + 1 <=> cycle = T_RP + T_RC
      /\ cycle + 1 = T_RP + T_RC + T_RC + 1 <=> cycle = T_RP + T_RC + T_RC
  BY <1>1, Numbers
<1>3. /\ T_RP # 0 /\ T_RP + T_RC # 0 /\ T_RP + T_RC + T_RC # 0
      /\ T_RP + T_RC + T_RC \notin {T_RP, T_RP + T_RC}
      /\ ConfigLength \notin {0, T_RP, T_RP + T_RC, T_RP + T_RC + T_RC}
  BY <1>1, Numbers
<1>4. CASE cycle = 0
  BY <1>2, <1>3, <1>4 DEF ConfigPins, Command
<1>5. CASE cycle \in {T_RP, T_RP + T_RC}
  BY <1>2, <1>3, <1>5 DEF ConfigPins, Command
<1>6. CASE cycle = T_RP + T_RC + T_RC
  BY <1>2, <1>3, <1>6 DEF ConfigPins, Command
<1>7. CASE cycle \notin {0, T_RP, T_RP + T_RC, T_RP + T_RC + T_RC}
  BY <1>2, <1>3, <1>7 DEF ConfigPins, Command
<1>8. QED
  BY <1>4, <1>5, <1>6, <1>7

LEMMA ConfiguringStep ==
  ASSUME Types, Configuring, ChipsSample, ConfigPins, cycle # ConfigLength,
         cycle' = NextCycle, init_chip' = init_chip
  PROVE  Configuring' /\ cycle' \in 0..31
<1> DEFINE k == chip[init_chip]
           l == chip'[init_chip]
<1>1. /\ cycle \in 0..30 /\ cycle' = cycle + 1 /\ cycle' <= ConfigLength
      /\ ConfigLength = T_RP + T_RC + T_RC + T_MRD
  <2>1. cycle \in 0..31 /\ cycle <= ConfigLength /\ ConfigLength = T_RP + T_RC + T_RC + T_MRD
    BY DEF Types, Configuring, ConfigLength
  <2>2. QED
    BY <2>1, Numbers DEF NextCycle
<1>2. pins' = Command(init_chip', cycle')
  BY <1>1, ConfigCommand
<1>3. /\ AllRested'
      /\ \A c \in Chips : c # init_chip =>
           chip'[c].wait = 0 /\ chip'[c].mode = chip[c].mode /\ chip'[c].refs = chip[c].refs
      /\ cycle = 1 => l.wait = T_RP - 1 /\ l.refs = k.refs
      /\ cycle \in {T_RP + 1, T_RP + T_RC + 1} =>
           l.wait = T_RC - 1 /\ l.refs = (IF k.refs = 2 THEN 2 ELSE k.refs + 1)
      /\ cycle = T_RP + T_RC + T_RC + 1 =>
           l.wait = T_MRD - 1 /\ l.refs = k.refs /\ l.mode
      /\ cycle \notin {1, T_RP + 1, T_RP + T_RC + 1, T_RP + T_RC + T_RC + 1} =>
           /\ l.wait = (IF k.wait = 0 THEN 0 ELSE k.wait - 1)
           /\ l.refs = k.refs /\ l.mode = k.mode
  BY ConfigChips
<1>4. k.wait \in Nat /\ k.refs \in 0..2
  BY DEF Types, ChipType
<1>5. /\ \A c \in Chips : c < init_chip => chip[c].mode
      /\ \A c \in Chips : c > init_chip => chip[c].refs = 0
      /\ cycle <= 1 => k.wait = 0
      /\ cycle <= T_RP + 1 => k.refs = 0
      /\ 1 < cycle /\ cycle <= T_RP + 1 => k.wait = T_RP + 1 - cycle
      /\ T_RP + 1 < cycle /\ cycle <= T_RP + T_RC + 1 =>
           k.wait = T_RP + T_RC + 1 - cycle /\ k.refs = 1
      /\ T_RP + T_RC + 1 < cycle /\ cycle <= T_RP + T_RC + T_RC + 1 =>
           k.wait = T_RP + T_RC + T_RC + 1 - cycle
      /\ T_RP + T_RC + 1 < cycle => k.refs = 2
      /\ T_RP + T_RC + T_RC + 1 < cycle => k.wait = ConfigLength + 1 - cycle /\ k.mode
  BY DEF Configuring
<1> HIDE DEF k, l
<1>6. /\ cycle' <= 1 => l.wait = 0
      /\ cycle' <= T_RP + 1 => l.refs = 0
      /\ 1 < cycle' /\ cycle' <= T_RP + 1 => l.wait = T_RP + 1 - cycle'
  BY <1>1, <1>3, <1>4, <1>5, Numbers
<1>7. T_RP + 1 < cycle' /\ cycle' <= T_RP + T_RC + 1 =>
        l.wait = T_RP + T_RC + 1 - cycle' /\ l.refs = 1
  BY <1>1, <1>3, <1>4, <1>5, Numbers
<1>8. /\ T_RP + T_RC + 1 < cycle' /\ cycle' <= T_RP + T_RC + T_RC + 1 =>
           l.wait = T_RP + T_RC + T_RC + 1 - cycle'
      /\ T_RP + T_RC + 1 < cycle' => l.refs = 2
  BY <1>1, <1>3, <1>4, <1>5, Numbers
<1>9. T_RP + T_RC + T_RC + 1 < cycle' => l.wait = ConfigLength + 1 - cycle' /\ l.mode
  BY <1>1, <1>3, <1>4, <1>5, Numbers
<1>10. /\ \A c \in Chips : c < init_chip => chip'[c].mode
       /\ \A c \in Chips : c # init_chip => chip'[c].wait = 0
       /\ \A c \in Chips : c > init_chip => chip'[c].refs = 0
  <2>1. \A c \in Chips : c < init_chip \/ c > init_chip => c # init_chip
    BY Places DEF Types
  <2>2. QED
    BY <1>3, <1>5, <2>1
<1>11. QED
  <2>1. chip[init_chip]' = l /\ ConfigLength' = ConfigLength
    BY DEF l, ConfigLength
  <2>2. cycle' \in 0..31
    BY <1>1
  <2>3. Configuring'
    <3>1. /\ AllRested' /\ cycle' <= ConfigLength /\ pins' = Command(init_chip', cycle')
          /\ \A c \in Chips : c < init_chip' => chip'[c].mode
          /\ \A c \in Chips : c # init_chip' => chip'[c].wait = 0
          /\ \A c \in Chips : c > init_chip' => chip'[c].refs = 0
      BY <1>1, <1>2, <1>3, <1>10
    <3>2. QED
      BY <1>6, <1>7, <1>8, <1>9, <2>1, <3>1 DEF Configuring, ConfigLength
  <2>4. QED
    BY <2>2, <2>3

\* A chip is configured: the other one's turn, or the requesters'.
LEMMA ConfigEnds ==
  ASSUME Types, Configuring, PipeEmpty, ChipsSample, ConfigPins, cycle = ConfigLength
  PROVE  /\ AllRested' /\ pins' = Nop /\ \A c \in Chips : chip'[c].wait = 0
         /\ chip'[init_chip].mode
         /\ \A c \in Chips : c # init_chip =>
              chip'[c].mode = chip[c].mode /\ chip'[c].refs = chip[c].refs
<1> DEFINE k == chip[init_chip]
           l == chip'[init_chip]
<1>1. cycle = T_RP + T_RC + T_RC + T_MRD
  BY DEF ConfigLength
<1>2. k.wait \in Nat
  BY DEF Types, ChipType
<1>3. T_RP + T_RC + T_RC + 1 < cycle => k.wait = 1 /\ k.mode
  BY <1>1, Numbers DEF Configuring
<1>4. l.wait = 0 /\ l.mode
  <2>1. CASE T_MRD = 1
    <3>1. cycle = T_RP + T_RC + T_RC + 1
      BY <1>1, <2>1
    <3>2. l.wait = T_MRD - 1 /\ l.mode
      BY <3>1, ConfigChips
    <3>3. QED
      BY <2>1, <3>2
  <2>2. CASE T_MRD > 1
    <3>1. /\ T_RP + T_RC + T_RC + 1 < cycle
          /\ cycle \notin {1, T_RP + 1, T_RP + T_RC + 1, T_RP + T_RC + T_RC + 1}
      BY <1>1, <2>2, Numbers
    <3>2. l.wait = (IF k.wait = 0 THEN 0 ELSE k.wait - 1) /\ l.mode = k.mode
      BY <3>1, ConfigChips
    <3>3. QED
      BY <1>3, <3>1, <3>2
  <2>3. QED
    BY <2>1, <2>2, Numbers
<1>5. pins' = Nop
  BY ConfigCommand
<1>6. QED
  BY <1>4, <1>5, ConfigChips

-----------------------------------------------------------------------------
(* The steps.                                                               *)

LEMMA InitInv == Init => IInv
<1> SUFFICES ASSUME Init PROVE IInv
  OBVIOUS
<1> USE DEF Init
<1>1. PoweredUp \in ChipType /\ \A b \in Banks : Rested(PoweredUp.bank[b])
  <2>1. \A b \in Banks : [row |-> Closed, since |-> T_RC, pre |-> 0] \in BankType
                         /\ Rested([row |-> Closed, since |-> T_RC, pre |-> 0])
    BY Numbers DEF BankType, Rested
  <2>2. QED
    BY <2>1 DEF PoweredUp, ChipType
<1>2. chip \in [Chips -> ChipType]
  BY <1>1
<1>3. dq_pipe = [i \in 1..CAS |-> dq_pipe[i]] /\ PipeEmpty
  BY DEF PipeEmpty
<1>4. buf = [id |-> buf.id, loc |-> buf.loc, din |-> buf.din, be |-> buf.be] /\ buf.loc \in Locs
  BY Places DEF Released
<1>5. PortType
  BY DEF PortType, PortsIdle
<1>6. Types
  BY <1>2, <1>3, <1>4, <1>5, Places DEF Types
<1>7. PoweringUp
  BY <1>1, Places DEF PoweringUp, AllRested, PoweredUp
<1>8. QED
  BY <1>3, <1>6, <1>7 DEF IInv, States

\* What every step that is not an acceptance leaves alone.
LEMMA Frame ==
  ASSUME Types, PortsMove(out.ready), cycle' \in 0..31, init_chip' \in Chips,
         chip' \in [Chips -> ChipType], dq_pipe' = [i \in 1..CAS |-> dq_pipe'[i]],
         UNCHANGED buf \/ buf' = Released(buf.id)
           \/ \E d, e : buf' = [buf EXCEPT !.din = d, !.be = e],
         UNCHANGED wr_halfs,
         UNCHANGED rd \/ \E i, n, d : rd' = [rd EXCEPT !.issued = i, !.received = n, !.lo16 = d],
         UNCHANGED rmw \/ \E i, n, d : rmw' = [rmw EXCEPT !.issued = i, !.received = n, !.old = d]
  PROVE  Types'
<1>1. buf' = [id |-> buf'.id, loc |-> buf'.loc, din |-> buf'.din, be |-> buf'.be]
      /\ buf'.loc \in Locs
  <2>1. CASE UNCHANGED buf
    BY <2>1 DEF Types
  <2>2. CASE buf' = Released(buf.id)
    BY <2>2, Places DEF Released
  <2>3. CASE \E d, e : buf' = [buf EXCEPT !.din = d, !.be = e]
    <3>1. PICK d, e : buf' = [buf EXCEPT !.din = d, !.be = e]
      BY <2>3
    <3>2. buf' = [id |-> buf.id, loc |-> buf.loc, din |-> d, be |-> e]
      BY <3>1 DEF Types
    <3>3. QED
      BY <3>2 DEF Types
  <2>4. QED
    BY <2>1, <2>2, <2>3
<1>2. rd' = [total |-> rd'.total, issued |-> rd'.issued, received |-> rd'.received, lo16 |-> rd'.lo16]
  <2>1. CASE UNCHANGED rd
    BY <2>1 DEF Types
  <2>2. CASE \E i, n, d : rd' = [rd EXCEPT !.issued = i, !.received = n, !.lo16 = d]
    <3>1. PICK i, n, d : rd' = [rd EXCEPT !.issued = i, !.received = n, !.lo16 = d]
      BY <2>2
    <3>2. rd' = [total |-> rd.total, issued |-> i, received |-> n, lo16 |-> d]
      BY <3>1 DEF Types
    <3>3. QED
      BY <3>2
  <2>3. QED
    BY <2>1, <2>2
<1>3. rmw' = [halfs |-> rmw'.halfs, issued |-> rmw'.issued, received |-> rmw'.received, old |-> rmw'.old]
  <2>1. CASE UNCHANGED rmw
    BY <2>1 DEF Types
  <2>2. CASE \E i, n, d : rmw' = [rmw EXCEPT !.issued = i, !.received = n, !.old = d]
    <3>1. PICK i, n, d : rmw' = [rmw EXCEPT !.issued = i, !.received = n, !.old = d]
      BY <2>2
    <3>2. rmw' = [halfs |-> rmw.halfs, issued |-> i, received |-> n, old |-> d]
      BY <3>1 DEF Types
    <3>3. QED
      BY <3>2
  <2>3. QED
    BY <2>1, <2>2
<1>4. PortType'
  BY PortStep DEF Types
<1>5. QED
  BY <1>1, <1>2, <1>3, <1>4 DEF Types

LEMMA InitDoneStep == ASSUME IInv, InitDone PROVE IInv'
<1>1. Types /\ PoweringUp /\ PipeEmpty /\ ChipsSample /\ PortsMove(out.ready)
  BY DEF IInv, InitDone, Edge
<1>2. /\ chip' \in [Chips -> ChipType] /\ chip \in [Chips -> ChipType]
      /\ \A c \in Chips : Older(c) /\ \A b \in Banks : OlderBank(c, b)
  BY <1>1, QuietClock DEF Types, PoweringUp
<1>3. PipeEmpty' /\ dq_pipe' = [i \in 1..CAS |-> dq_pipe'[i]]
  BY <1>1, EmptyPipe DEF PoweringUp, Nop
<1>4. AllRested'
  BY <1>1, <1>2, RestLasts DEF AllRested, PoweringUp
<1>5. \A c \in Chips : chip'[c].wait = 0 /\ chip'[c].refs = 0
  BY <1>1, <1>2 DEF PoweringUp, Older
<1>6. state' = "CONFIG" /\ cycle' = 0 /\ pins' = Nop /\ init_chip' = 0
  BY <1>1 DEF InitDone, PoweringUp
<1>7. Types'
  BY <1>1, <1>2, <1>3, <1>6, Places, Frame DEF InitDone
<1>8. Configuring'
  <2>1. Nop = Command(0, 0)
    BY Numbers DEF Command
  <2>2. 0 <= ConfigLength /\ ~(1 < 0) /\ ~(T_RP + 1 < 0) /\ ~(T_RP + T_RC + 1 < 0)
        /\ ~(T_RP + T_RC + T_RC + 1 < 0)
    BY Numbers DEF ConfigLength
  <2>3. \A c \in Chips : ~(c < 0)
    BY Places
  <2>4. QED
    BY <1>4, <1>5, <1>6, <2>1, <2>2, <2>3, Places DEF Configuring, ConfigLength
<1>9. QED
  BY <1>3, <1>6, <1>7, <1>8 DEF IInv, States

LEMMA ConfigStep == ASSUME IInv, Config PROVE IInv'
<1>1. /\ Types /\ Configuring /\ PipeEmpty /\ ChipsSample /\ PortsMove(out.ready) /\ ConfigPins
      /\ UNCHANGED <<buf, wr_halfs, rd, rmw>>
  BY DEF IInv, Config, Edge, ConfigPins
<1>2. chip' \in [Chips -> ChipType]
  BY <1>1, ConfigChips
<1>3. PipeEmpty' /\ dq_pipe' = [i \in 1..CAS |-> dq_pipe'[i]]
  <2>1. pins.cmd # "RD"
    BY <1>1 DEF Configuring, Command, PreChargeAll, AutoRefresh, SetModeReg, Nop
  <2>2. QED
    BY <1>1, <2>1, EmptyPipe
<1>4. CASE cycle # ConfigLength /\ cycle' = NextCycle /\ UNCHANGED <<state, init_chip>>
  <2>1. Configuring' /\ cycle' \in 0..31
    BY <1>1, <1>4, ConfiguringStep
  <2>2. Types'
    BY <1>1, <1>2, <1>3, <1>4, <2>1, Frame DEF Types
  <2>3. state' = "CONFIG"
    BY <1>4 DEF Config
  <2>4. QED
    BY <1>3, <2>1, <2>2, <2>3 DEF IInv, States
<1>5. ASSUME cycle = ConfigLength
      PROVE  /\ AllRested' /\ pins' = Nop /\ \A c \in Chips : chip'[c].wait = 0
             /\ chip'[init_chip].mode
             /\ \A c \in Chips : c # init_chip =>
                  chip'[c].mode = chip[c].mode /\ chip'[c].refs = chip[c].refs
  BY <1>1, <1>5, ConfigEnds
<1>6. CASE /\ cycle = ConfigLength /\ SdramSize = 3 /\ init_chip = 0
           /\ init_chip' = 1 /\ cycle' = 0 /\ UNCHANGED state
  <2>1. Types'
    BY <1>1, <1>2, <1>3, <1>6, Places, Frame
  <2>2. Configuring'
    <3>1. Nop = Command(1, 0)
      BY Numbers DEF Command
    <3>2. 0 <= ConfigLength /\ ~(1 < 0) /\ ~(T_RP + 1 < 0) /\ ~(T_RP + T_RC + 1 < 0)
          /\ ~(T_RP + T_RC + T_RC + 1 < 0)
      BY Numbers DEF ConfigLength
    <3>3. \A c \in Chips : ~(c > 1) /\ (c < 1 => c = 0)
      BY Places
    <3>4. 1 \in Chips /\ 1 # init_chip /\ 1 > init_chip
      BY <1>6, Places
    <3>5. chip'[1].refs = 0
      BY <1>1, <1>5, <1>6, <3>4 DEF Configuring
    <3>6. chip'[0].mode
      BY <1>5, <1>6
    <3>7. QED
      BY <1>5, <1>6, <3>1, <3>2, <3>3, <3>4, <3>5, <3>6 DEF Configuring, ConfigLength
  <2>3. state' = "CONFIG"
    BY <1>6 DEF Config
  <2>4. QED
    BY <1>3, <2>1, <2>2, <2>3 DEF IInv, States
<1>7. CASE /\ cycle = ConfigLength /\ ~(SdramSize = 3 /\ init_chip = 0)
           /\ init_chip' = 0 /\ cycle' = 0 /\ state' = "IDLE"
  <2>1. Types'
    BY <1>1, <1>2, <1>3, <1>7, Places, Frame
  <2>2. ModesSet'
    <3>1. ASSUME NEW c \in Chips PROVE chip'[c].mode
      <4>1. CASE c = init_chip
        BY <1>5, <1>7, <4>1
      <4>2. CASE c # init_chip
        <5>1. c < init_chip
          BY <1>1, <1>7, <4>2, Places DEF Types
        <5>2. QED
          BY <1>1, <1>5, <1>7, <4>2, <5>1 DEF Configuring
      <4>3. QED
        BY <4>1, <4>2
    <3>2. QED
      BY <3>1 DEF ModesSet
  <2>3. Settling'
    <3>1. \A c \in Chips : chip'[c].wait <= 1
      BY <1>5, <1>7
    <3>2. QED
      BY <1>3, <1>5, <1>7, <2>1, <2>2, <3>1, RestedSettles
  <2>4. QED
    BY <1>7, <2>1, <2>3 DEF IInv, States
<1>8. QED
  BY <1>4, <1>6, <1>7 DEF Config

LEMMA StartRefreshStep == ASSUME IInv, StartRefresh PROVE IInv'
<1>1. Types /\ Settling /\ ChipsSample /\ PortsMove(out.ready)
  BY DEF IInv, StartRefresh, Edge
<1>2. /\ chip' \in [Chips -> ChipType] /\ ModesSet' /\ AllRested'
      /\ \A c \in Chips : chip'[c].wait = 0
      /\ PipeEmpty' /\ dq_pipe' = [i \in 1..CAS |-> dq_pipe'[i]]
  BY <1>1, Settles
<1>3. Types'
  BY <1>1, <1>2, Frame DEF StartRefresh, Types
<1>4. Refreshing'
  BY <1>2, Numbers, Places DEF StartRefresh, Refreshing
<1>5. QED
  BY <1>2, <1>3, <1>4 DEF IInv, States, StartRefresh

LEMMA RefreshStep == ASSUME RowsRecover, IInv, Refresh PROVE IInv'
<1>1. /\ Types /\ Refreshing /\ PipeEmpty /\ ChipsSample /\ PortsMove(out.ready)
      /\ UNCHANGED <<init_chip, buf, wr_halfs, rd, rmw>>
      /\ pins' = IF cycle = 1 /\ SdramSize = 3 THEN AutoRefresh(1) ELSE Nop
  BY DEF IInv, Refresh, Edge
<1>2. /\ cycle \in 1..T_RC /\ T_RC \in 2..15 /\ 0 \in Chips /\ (SdramSize = 3 <=> 1 \in Chips)
      /\ chip \in [Chips -> ChipType] /\ \A c \in Chips : c = 0 \/ c = 1
  BY <1>1, Numbers, Places DEF Refreshing, Types, RowsRecover
<1>3. PipeEmpty' /\ dq_pipe' = [i \in 1..CAS |-> dq_pipe'[i]]
  <2>1. pins.cmd # "RD"
    BY <1>1 DEF Refreshing, AutoRefresh, Nop
  <2>2. QED
    BY <1>1, <2>1, EmptyPipe
<1>4. /\ chip' \in [Chips -> ChipType]
      /\ \A c \in Chips : chip'[c].mode = chip[c].mode
      /\ \A c \in Chips : \A b \in Banks : OlderBank(c, b)
      /\ \A c \in Chips : pins = AutoRefresh(c) => chip'[c].wait = T_RC - 1
      /\ \A c \in Chips : pins # AutoRefresh(c) => Older(c)
  <2>1. CASE pins = Nop
    <3>1. \A c : pins # AutoRefresh(c)
      BY <2>1 DEF AutoRefresh, Nop
    <3>2. QED
      BY <1>1, <1>2, <2>1, <3>1, QuietClock DEF Older
  <2>2. ASSUME NEW x \in Chips, pins = AutoRefresh(x)
        PROVE  <1>4!1 /\ <1>4!2 /\ <1>4!3 /\ <1>4!4 /\ <1>4!5
    <3>1. \A c \in Chips : c # x <=> pins # AutoRefresh(c)
      <4>1. \A c : AutoRefresh(c).cs = c
        BY DEF AutoRefresh
      <4>2. QED
        BY <2>2, <4>1
    <3>2. QED
      BY <1>1, <1>2, <2>2, <3>1, RefreshClock DEF Older
  <2>3. pins = Nop \/ \E x \in Chips : pins = AutoRefresh(x)
    BY <1>1, <1>2 DEF Refreshing
  <2>4. QED
    BY <2>1, <2>2, <2>3
<1>5. ModesSet' /\ AllRested'
  BY <1>1, <1>2, <1>4, RestLasts DEF ModesSet, AllRested, Refreshing
<1>6. /\ cycle = 1 => pins = AutoRefresh(0)
      /\ cycle = 2 /\ SdramSize = 3 => pins = AutoRefresh(1)
      /\ AutoRefresh(0) # AutoRefresh(1)
      /\ cycle > 2 \/ (cycle = 2 /\ SdramSize # 3) => pins = Nop
      /\ Nop # AutoRefresh(0) /\ Nop # AutoRefresh(1)
  <2>1. AutoRefresh(0).cs # AutoRefresh(1).cs
    BY DEF AutoRefresh
  <2>2. Nop.cmd # AutoRefresh(0).cmd /\ Nop.cmd # AutoRefresh(1).cmd
    BY DEF AutoRefresh, Nop
  <2>3. QED
    BY <1>1, <1>2, <2>1, <2>2 DEF Refreshing
<1>7. chip'[0].wait = T_RC - cycle
  <2>1. chip[0].wait \in Nat
    BY <1>2 DEF ChipType
  <2>2. CASE cycle = 1
    BY <1>2, <1>4, <1>6, <2>2
  <2>3. CASE cycle > 1
    <3>1. pins # AutoRefresh(0) /\ chip[0].wait = T_RC + 1 - cycle
      BY <1>1, <1>2, <1>6, <2>3 DEF Refreshing
    <3>2. Older(0)
      BY <1>2, <1>4, <3>1
    <3>3. QED
      BY <1>2, <2>1, <3>1, <3>2 DEF Older
  <2>4. QED
    BY <1>2, <2>2, <2>3
<1>8. ASSUME SdramSize = 3
      PROVE  /\ cycle = 1 => chip'[1].wait = 0
             /\ cycle > 1 => chip'[1].wait = T_RC + 1 - cycle
  <2>1. 1 \in Chips /\ chip[1].wait \in Nat
    BY <1>2, <1>8 DEF ChipType
  <2>2. CASE cycle = 1
    <3>1. Older(1) /\ chip[1].wait = 0
      BY <1>1, <1>4, <1>6, <1>8, <2>1, <2>2 DEF Refreshing
    <3>2. QED
      BY <2>2, <3>1 DEF Older
  <2>3. CASE cycle = 2
    BY <1>2, <1>4, <1>6, <1>8, <2>1, <2>3
  <2>4. CASE cycle > 2
    <3>1. Older(1) /\ chip[1].wait = T_RC + 2 - cycle
      BY <1>1, <1>4, <1>6, <1>8, <2>1, <2>4 DEF Refreshing
    <3>2. QED
      BY <1>2, <2>1, <2>4, <3>1 DEF Older
  <2>5. QED
    BY <1>2, <2>2, <2>3, <2>4
<1>9. CASE cycle = T_RC /\ state' = "IDLE" /\ cycle' = 0
  <2>1. Types'
    BY <1>1, <1>3, <1>4, <1>9, Frame DEF Types
  <2>2. pins' = Nop
    BY <1>1, <1>2, <1>9
  <2>3. \A c \in Chips : chip'[c].wait <= 1
    BY <1>2, <1>7, <1>8, <1>9
  <2>4. Settling'
    BY <1>3, <1>5, <2>1, <2>2, <2>3, RestedSettles
  <2>5. QED
    BY <1>9, <2>1, <2>4 DEF IInv, States
<1>10. CASE cycle # T_RC /\ state' = state /\ cycle' = NextCycle
  <2>1. cycle' = cycle + 1 /\ cycle' \in 2..T_RC
    BY <1>2, <1>10 DEF NextCycle
  <2>2. Types'
    <3>1. cycle' \in 0..31
      BY <1>2, <2>1
    <3>2. QED
      BY <1>1, <1>3, <1>4, <3>1, Frame DEF Types
  <2>3. pins' = (IF cycle' = 1 THEN AutoRefresh(0)
                 ELSE IF cycle' = 2 /\ SdramSize = 3 THEN AutoRefresh(1) ELSE Nop)
    BY <1>1, <1>2, <2>1
  <2>4. /\ cycle' \in 1..T_RC /\ cycle' # 1 /\ chip'[0].wait = T_RC + 1 - cycle'
        /\ SdramSize = 3 /\ cycle' <= 2 => chip'[1].wait = 0
        /\ SdramSize = 3 /\ cycle' > 2 => chip'[1].wait = T_RC + 2 - cycle'
    BY <1>2, <1>7, <1>8, <2>1
  <2>5. Refreshing'
    BY <1>5, <2>3, <2>4 DEF Refreshing
  <2>6. state' = "REFRESH"
    BY <1>10 DEF Refresh
  <2>7. QED
    BY <1>3, <2>2, <2>5, <2>6 DEF IInv, States
<1>11. QED
  BY <1>9, <1>10 DEF Refresh, RefreshLength

LEMMA IdleStep == ASSUME IInv, Idle PROVE IInv'
<1>1. Types /\ Settling /\ ChipsSample /\ PortsMove(out.ready)
  BY DEF IInv, Idle, Edge
<1>2. /\ chip' \in [Chips -> ChipType] /\ ModesSet' /\ AllRested'
      /\ \A c \in Chips : chip'[c].wait = 0
      /\ PipeEmpty' /\ dq_pipe' = [i \in 1..CAS |-> dq_pipe'[i]]
  BY <1>1, Settles
<1>3. Types'
  BY <1>1, <1>2, Frame DEF Idle, Types
<1>4. pins' = Nop /\ state' = "IDLE"
  BY DEF Idle
<1>5. Settling'
  <2>1. \A c \in Chips : chip'[c].wait <= 1
    BY <1>2
  <2>2. QED
    BY <1>2, <1>3, <1>4, <2>1, RestedSettles
<1>6. QED
  BY <1>3, <1>4, <1>5 DEF IInv, States

-----------------------------------------------------------------------------
(* The steps of an access.                                                  *)

LEMMA AcceptWriteStep == ASSUME IInv, NEW p \in Ports, AcceptWrite(p) PROVE IInv'
<1>1. Types /\ Settling /\ Accept(p) /\ PortType
  BY DEF IInv, AcceptWrite, Accept, MayAccept, Types
<1>2. /\ Accessing' /\ PipeEmpty' /\ cycle' = 1 /\ pins' = BankActivate(buf'.loc)
      /\ p \in Requesting
      /\ chip' \in [Chips -> ChipType] /\ dq_pipe' = [i \in 1..CAS |-> dq_pipe'[i]]
      /\ buf' = [id |-> buf'.id, loc |-> buf'.loc, din |-> buf'.din, be |-> buf'.be]
      /\ buf'.loc \in Locs /\ PortType' /\ init_chip' = init_chip
  BY <1>1, Accepts
<1>3. /\ state' = "WRITE" /\ wr_halfs' = WriteHalves(Req(p).be) /\ rd' = rd /\ rmw' = rmw
  BY DEF AcceptWrite
<1>4. wr_halfs' \in {Halves, {1}, {2}}
  BY <1>1, <1>2, <1>3, Requested, WrittenHalves
<1>5. Types'
  BY <1>1, <1>2, <1>3, <1>4 DEF Types
<1>6. WritingInv'
  <2> DEFINE last == LastWrite'
             length == WriteLength'
  <2>1. /\ T_DAL = T_WR + T_RP /\ last = IF wr_halfs' = Halves THEN T_RCD + 1 ELSE T_RCD
        /\ length = T_RCD + T_DAL - (IF wr_halfs' = Halves THEN 0 ELSE 1)
    BY DEF T_DAL, LastWrite, WriteLength
  <2> HIDE DEF last, length
  <2>2. /\ 1 <= length /\ ~(1 < 1) /\ ~(T_RCD < 1) /\ ~(1 > last + 1)
    BY <2>1, Numbers
  <2>3. QED
    BY <1>2, <2>2 DEF WritingInv, last, length
<1>7. QED
  BY <1>3, <1>5, <1>6 DEF IInv, States

LEMMA AcceptMergeStep == ASSUME IInv, NEW p \in Ports, AcceptMerge(p) PROVE IInv'
<1>1. Types /\ Settling /\ Accept(p) /\ PortType
  BY DEF IInv, AcceptMerge, Accept, MayAccept, Types
<1>2. /\ Accessing' /\ PipeEmpty' /\ cycle' = 1 /\ pins' = BankActivate(buf'.loc)
      /\ p \in Requesting
      /\ chip' \in [Chips -> ChipType] /\ dq_pipe' = [i \in 1..CAS |-> dq_pipe'[i]]
      /\ buf' = [id |-> buf'.id, loc |-> buf'.loc, din |-> buf'.din, be |-> buf'.be]
      /\ buf'.loc \in Locs /\ PortType' /\ init_chip' = init_chip
  BY <1>1, Accepts
<1>3. /\ state' = "RMW_READ" /\ wr_halfs' = WriteHalves(Req(p).be) /\ rd' = rd
      /\ rmw' = [halfs |-> WriteHalves(Req(p).be), issued |-> 0, received |-> 0,
                 old |-> [i \in Lanes |-> 0]]
  BY DEF AcceptMerge
<1>4. wr_halfs' \in {Halves, {1}, {2}} /\ Cardinality(WriteHalves(Req(p).be)) \in {1, 2}
  BY <1>1, <1>2, <1>3, Requested, WrittenHalves
<1>5. Types'
  <2>1. rmw' = [halfs |-> rmw'.halfs, issued |-> rmw'.issued, received |-> rmw'.received,
                old |-> rmw'.old]
    BY <1>3
  <2>2. QED
    BY <1>1, <1>2, <1>3, <1>4, <2>1 DEF Types
<1>6. Total' \in Nat \ {0} /\ Issued' = 0 /\ Received' = 0
  BY <1>3, <1>4 DEF Total, Issued, Received
<1>7. ReadingInv'
  BY <1>2, <1>6, ReadingBegins
<1>8. QED
  BY <1>3, <1>5, <1>7 DEF IInv, States

LEMMA AcceptReadStep == ASSUME IInv, NEW p \in Ports, AcceptRead(p) PROVE IInv'
<1>1. Types /\ Settling /\ Accept(p) /\ PortType
  BY DEF IInv, AcceptRead, Accept, MayAccept, Types
<1>2. /\ Accessing' /\ PipeEmpty' /\ cycle' = 1 /\ pins' = BankActivate(buf'.loc)
      /\ p \in Requesting
      /\ chip' \in [Chips -> ChipType] /\ dq_pipe' = [i \in 1..CAS |-> dq_pipe'[i]]
      /\ buf' = [id |-> buf'.id, loc |-> buf'.loc, din |-> buf'.din, be |-> buf'.be]
      /\ buf'.loc \in Locs /\ PortType' /\ init_chip' = init_chip
  BY <1>1, Accepts
<1>3. /\ state' = "READ" /\ wr_halfs' = wr_halfs /\ rmw' = rmw
      /\ rd' = [rd EXCEPT !.total = 2 * BurstLength(Req(p)), !.issued = 0, !.received = 0]
  BY DEF AcceptRead
<1>4. rd' = [total |-> 2 * BurstLength(Req(p)), issued |-> 0, received |-> 0, lo16 |-> rd.lo16]
  BY <1>1, <1>3 DEF Types
<1>5. Types'
  <2>1. rd' = [total |-> rd'.total, issued |-> rd'.issued, received |-> rd'.received,
               lo16 |-> rd'.lo16]
    BY <1>4
  <2>2. rmw' = [halfs |-> rmw'.halfs, issued |-> rmw'.issued, received |-> rmw'.received,
                old |-> rmw'.old]
    BY <1>1, <1>3 DEF Types
  <2>3. QED
    BY <1>1, <1>2, <1>3, <2>1, <2>2 DEF Types
<1>6. Total' \in Nat \ {0} /\ Issued' = 0 /\ Received' = 0
  <2>1. Req(p).burst \in 0..15
    BY <1>1, <1>2, Requested
  <2>2. BurstLength(Req(p)) \in 1..15
    BY <2>1 DEF BurstLength
  <2>3. 2 * BurstLength(Req(p)) \in Nat \ {0}
    BY <2>2
  <2>4. QED
    BY <1>3, <1>4, <2>3 DEF Total, Issued, Received
<1>7. ReadingInv'
  BY <1>2, <1>6, ReadingBegins
<1>8. QED
  BY <1>3, <1>5, <1>7 DEF IInv, States

LEMMA MergeActivateStep == ASSUME IInv, MergeActivate PROVE IInv'
<1>1. /\ Types /\ Settling /\ ChipsSample /\ PortsMove(out.ready)
      /\ UNCHANGED <<init_chip, buf, wr_halfs, rd, rmw>>
      /\ pins' = BankActivate(buf.loc) /\ cycle' = 1 /\ state' = "WRITE"
  BY DEF IInv, MergeActivate, Edge
<1>2. /\ chip' \in [Chips -> ChipType] /\ ModesSet' /\ AllRested'
      /\ \A c \in Chips : chip'[c].wait = 0
      /\ PipeEmpty' /\ dq_pipe' = [i \in 1..CAS |-> dq_pipe'[i]]
  BY <1>1, Settles
<1>3. Types'
  BY <1>1, <1>2, Frame DEF Types
<1>4. Accessing'
  <2>1. Rested(InUse)'
    BY <1>1, <1>2, Places DEF AllRested, InUse, Types
  <2>2. QED
    BY <1>1, <1>2, <2>1 DEF Accessing, AllRested
<1>5. WritingInv'
  <2>1. LastWrite' = LastWrite /\ WriteLength' = WriteLength
    BY <1>1 DEF LastWrite, WriteLength
  <2>2. /\ 1 <= WriteLength /\ ~(1 < 1) /\ ~(T_RCD < 1) /\ ~(1 > LastWrite + 1)
    BY <1>1, WriteCycles, Numbers
  <2>3. QED
    BY <1>1, <1>2, <1>4, <2>1, <2>2 DEF WritingInv
<1>6. QED
  BY <1>1, <1>3, <1>5 DEF IInv, States

LEMMA ReadStep == ASSUME RowsRecover, IInv, Read PROVE IInv'
<1>1. /\ Types /\ ReadingInv /\ Counting /\ state = "READ"
      /\ ChipsSample /\ PortsMove(out.ready)
      /\ dq_r' = (IF DqOut # <<>> THEN DqOut ELSE Head(dq_pipe))
      /\ UNCHANGED <<init_chip, wr_halfs, rmw>>
  BY DEF IInv, Read, Edge, ReadingInv
<1>2. Total = rd.total /\ Issued = rd.issued /\ Received = rd.received
  BY <1>1 DEF Total, Issued, Received
<1> DEFINE last == Captures /\ Received + 1 = Total
           lo16 == IF ~Captures THEN rd.lo16 ELSE IF Received % 2 = 1 THEN <<0, 0>> ELSE dq_r
<1>3. /\ rd' = [rd EXCEPT !.issued = IF Issues THEN rd.issued + 1 ELSE rd.issued,
                          !.received = IF Captures THEN rd.received + 1 ELSE rd.received,
                          !.lo16 = lo16]
      /\ last => state' = "IDLE" /\ cycle' = 0 /\ buf' = Released(buf.id)
      /\ ~last => state' = state /\ cycle' = NextCycle /\ buf' = buf
      /\ pins' = IF ~Issues THEN Nop
                 ELSE ReadHalf(BurstLoc(buf.loc, rd.issued \div 2),
                               1 + (rd.issued % 2), rd.issued = rd.total - 1)
  BY <1>2 DEF Read, Issues, Captures
<1>4. last <=> ReceiveIn = 1
  BY <1>1, CaptureOnTime
<1> HIDE DEF last, lo16
<1>5. rd' = [total |-> rd.total,
             issued |-> (IF Issues THEN rd.issued + 1 ELSE rd.issued),
             received |-> (IF Captures THEN rd.received + 1 ELSE rd.received),
             lo16 |-> lo16]
  BY <1>1, <1>3 DEF Types
<1>6. IssuesNext
  <2>1. ASSUME NEW i, NEW h, NEW ap, pins' = ReadHalf(BurstLoc(buf.loc, i), h, ap)
        PROVE  pins'.cmd = "RD" /\ pins'.cs = buf.loc.chip /\ pins'.ba = buf.loc.bank /\ pins'.ap = ap
    <3>1. BurstLoc(buf.loc, i).chip = buf.loc.chip /\ BurstLoc(buf.loc, i).bank = buf.loc.bank
      BY <1>1 DEF BurstLoc, Types, Locs
    <3>2. QED
      BY <2>1, <3>1 DEF ReadHalf
  <2>2. QED
    BY <1>2, <1>3, <2>1 DEF IssuesNext
<1>7. CASE last
  <2>1. ReceiveIn = 1 /\ pins' = Nop
    <3>1. ReceiveIn = 1
      BY <1>4, <1>7
    <3>2. ~Issues
      BY <1>1, <3>1, CaptureOnTime, Numbers DEF Counting
    <3>3. QED
      BY <1>3, <3>1, <3>2
  <2>2. /\ Settling' /\ chip' \in [Chips -> ChipType]
        /\ dq_pipe' = [i \in 1..CAS |-> dq_pipe'[i]]
    BY <1>1, <2>1, ReadingEnds
  <2>3. cycle' \in 0..31 /\ buf' = Released(buf.id) /\ state' = "IDLE"
    BY <1>3, <1>7
  <2>4. Types'
    BY <1>1, <1>3, <2>2, <2>3, Frame DEF Types
  <2>5. QED
    BY <2>2, <2>3, <2>4 DEF IInv, States
<1>8. CASE ~last
  <2>1. state' = "READ" /\ cycle' = NextCycle /\ buf' = buf
    BY <1>1, <1>3, <1>8
  <2>2. Counts
    BY <1>1, <1>2, <1>5, <2>1 DEF Counts, Total, Issued, Received, Counting
  <2>3. ReceiveIn > 1
    BY <1>1, <1>4, <1>8, CaptureOnTime DEF Counting
  <2>4. /\ ReadingInv' /\ chip' \in [Chips -> ChipType] /\ cycle' \in 0..31
        /\ dq_pipe' = [i \in 1..CAS |-> dq_pipe'[i]]
    BY <1>1, <1>6, <2>1, <2>2, <2>3, ReadingStep
  <2>5. Types'
    BY <1>1, <1>3, <2>1, <2>4, Frame DEF Types
  <2>6. QED
    BY <2>1, <2>4, <2>5 DEF IInv, States
<1>9. QED
  BY <1>7, <1>8

LEMMA MergeReadStep == ASSUME RowsRecover, IInv, MergeRead PROVE IInv'
<1>1. /\ Types /\ ReadingInv /\ Counting /\ state = "RMW_READ"
      /\ ChipsSample /\ PortsMove(out.ready)
      /\ dq_r' = (IF DqOut # <<>> THEN DqOut ELSE Head(dq_pipe))
      /\ UNCHANGED <<init_chip, wr_halfs, rd>>
  BY DEF IInv, MergeRead, Edge, ReadingInv
<1>2. Total = Cardinality(rmw.halfs) /\ Issued = rmw.issued /\ Received = rmw.received
  BY <1>1 DEF Total, Issued, Received
<1> DEFINE last == Captures /\ Received + 1 = Total
<1>3. /\ \E d : rmw' = [rmw EXCEPT !.issued = IF Issues THEN rmw.issued + 1 ELSE rmw.issued,
                                   !.received = IF Captures THEN rmw.received + 1 ELSE rmw.received,
                                   !.old = d]
      /\ UNCHANGED buf \/ \E d, e : buf' = [buf EXCEPT !.din = d, !.be = e]
      /\ last => state' = "RMW_ACT" /\ cycle' = 0
      /\ ~last => state' = state /\ cycle' = NextCycle
      /\ pins' = IF ~Issues THEN Nop
                 ELSE ReadHalf(buf.loc, MergeHalf(rmw.issued),
                               rmw.issued = Cardinality(rmw.halfs) - 1)
  BY <1>2 DEF MergeRead, Issues, Captures
<1>4. last <=> ReceiveIn = 1
  BY <1>1, CaptureOnTime
<1> HIDE DEF last
<1>5. PICK old : rmw' = [rmw EXCEPT !.issued = IF Issues THEN rmw.issued + 1 ELSE rmw.issued,
                             !.received = IF Captures THEN rmw.received + 1 ELSE rmw.received,
                             !.old = old]
  BY <1>3
<1>6. rmw' = [halfs |-> rmw.halfs,
              issued |-> (IF Issues THEN rmw.issued + 1 ELSE rmw.issued),
              received |-> (IF Captures THEN rmw.received + 1 ELSE rmw.received),
              old |-> old]
  BY <1>1, <1>5 DEF Types
<1>7. IssuesNext
  BY <1>2, <1>3 DEF IssuesNext, ReadHalf
<1>8. buf'.loc = buf.loc
  <2>1. CASE UNCHANGED buf
    BY <2>1
  <2>2. CASE \E d, e : buf' = [buf EXCEPT !.din = d, !.be = e]
    BY <1>1, <2>2 DEF Types
  <2>3. QED
    BY <1>3, <2>1, <2>2
<1>9. CASE last
  <2>1. ReceiveIn = 1 /\ pins' = Nop
    <3>1. ReceiveIn = 1
      BY <1>4, <1>9
    <3>2. ~Issues
      BY <1>1, <3>1, CaptureOnTime, Numbers DEF Counting
    <3>3. QED
      BY <1>3, <3>1, <3>2
  <2>2. /\ Settling' /\ chip' \in [Chips -> ChipType]
        /\ dq_pipe' = [i \in 1..CAS |-> dq_pipe'[i]]
    BY <1>1, <2>1, ReadingEnds
  <2>3. cycle' \in 0..31 /\ state' = "RMW_ACT"
    <3>1. cycle' = 0 /\ state' = "RMW_ACT"
      BY <1>3, <1>9
    <3>2. QED
      BY <3>1
  <2>4. Types'
    BY <1>1, <1>3, <1>5, <2>2, <2>3, Frame DEF Types
  <2>5. QED
    BY <2>2, <2>3, <2>4 DEF IInv, States
<1>10. CASE ~last
  <2>1. state' = "RMW_READ" /\ cycle' = NextCycle
    BY <1>1, <1>3, <1>10
  <2>2. Counts
    BY <1>1, <1>2, <1>6, <2>1 DEF Counts, Total, Issued, Received, Counting
  <2>3. ReceiveIn > 1
    BY <1>1, <1>4, <1>10, CaptureOnTime DEF Counting
  <2>4. /\ ReadingInv' /\ chip' \in [Chips -> ChipType] /\ cycle' \in 0..31
        /\ dq_pipe' = [i \in 1..CAS |-> dq_pipe'[i]]
    BY <1>1, <1>7, <1>8, <2>2, <2>3, ReadingStep
  <2>5. Types'
    BY <1>1, <1>3, <1>5, <2>4, Frame DEF Types
  <2>6. QED
    BY <2>1, <2>4, <2>5 DEF IInv, States
<1>11. QED
  BY <1>9, <1>10

LEMMA WriteStep == ASSUME RowsRecover, IInv, Write PROVE IInv'
<1>1. /\ Types /\ WritingInv /\ state = "WRITE" /\ ChipsSample /\ PortsMove(out.ready)
      /\ WritesNext /\ UNCHANGED <<init_chip, wr_halfs, rd, rmw>>
  BY DEF IInv, Write, Edge, WritesNext
<1>2. CASE cycle = WriteLength
  <2>1. state' = "IDLE" /\ cycle' = 0 /\ buf' = Released(buf.id)
    BY <1>2 DEF Write
  <2>2. buf'.loc \in Locs
    BY <2>1, Places DEF Released
  <2>3. /\ Settling' /\ chip' \in [Chips -> ChipType]
        /\ dq_pipe' = [i \in 1..CAS |-> dq_pipe'[i]]
    BY <1>1, <1>2, <2>2, WritingEnds
  <2>4. Types'
    BY <1>1, <2>1, <2>3, Frame DEF Types
  <2>5. QED
    BY <2>1, <2>3, <2>4 DEF IInv, States
<1>3. CASE cycle # WriteLength
  <2>1. state' = "WRITE" /\ cycle' = NextCycle /\ buf' = buf
    BY <1>1, <1>3 DEF Write
  <2>2. /\ WritingInv' /\ chip' \in [Chips -> ChipType] /\ cycle' \in 0..31
        /\ dq_pipe' = [i \in 1..CAS |-> dq_pipe'[i]]
    BY <1>1, <1>3, <2>1, WritingStep
  <2>3. Types'
    BY <1>1, <2>1, <2>2, Frame DEF Types
  <2>4. QED
    BY <2>1, <2>2, <2>3 DEF IInv, States
<1>4. QED
  BY <1>2, <1>3

LEMMA Stutter == ASSUME IInv, UNCHANGED vars PROVE IInv'
<1>1. /\ UNCHANGED <<state, cycle, init_chip, buf, wr_halfs, rd, rmw, pins, dq_r>>
      /\ UNCHANGED <<chip, dq_pipe, port>>
  BY DEF vars, ctl_vars, chip_vars
<1>2. UNCHANGED <<Types, PoweringUp, Configuring, PipeEmpty, Settling, Refreshing>>
  BY <1>1 DEF Types, PortType, PoweringUp, AllRested, Configuring, ConfigLength, PipeEmpty,
              Settling, ModesSet, Refreshing
<1>3. UNCHANGED <<Accessing, InUse, Aimed("RD"), Aimed("WR")>>
  BY <1>1 DEF Accessing, ModesSet, InUse, Aimed
<1>4. UNCHANGED WritingInv
  BY <1>1, <1>2, <1>3 DEF WritingInv, LastWrite, WriteLength
<1>5. UNCHANGED <<Total, Issued, Received, IssueIn, ReceiveIn>>
  BY <1>1 DEF Total, Issued, Received, IssueIn, ReceiveIn, CaptureFrom
<1>6. UNCHANGED <<Counting, Coming>>
  BY <1>1, <1>5 DEF Counting, Coming, CaptureFrom
<1>7. UNCHANGED ReadingInv
  BY <1>1, <1>3, <1>5, <1>6 DEF ReadingInv
<1>8. QED
  BY <1>1, <1>2, <1>4, <1>7 DEF IInv

LEMMA Step == ASSUME RowsRecover, IInv, [Next]_vars PROVE IInv'
<1>1. CASE Next
  <2>1. CASE InitDone \/ Config \/ StartRefresh \/ Refresh \/ Idle
    BY <2>1, InitDoneStep, ConfigStep, StartRefreshStep, RefreshStep, IdleStep
  <2>2. CASE \E p \in Ports : AcceptWrite(p) \/ AcceptMerge(p) \/ AcceptRead(p)
    BY <2>2, AcceptWriteStep, AcceptMergeStep, AcceptReadStep
  <2>3. CASE Read \/ MergeRead \/ MergeActivate \/ Write
    BY <2>3, ReadStep, MergeReadStep, MergeActivateStep, WriteStep
  <2>4. QED
    BY <1>1, <2>1, <2>2, <2>3 DEF Next
<1>2. CASE UNCHANGED vars
  BY <1>2, Stutter
<1>3. QED
  BY <1>1, <1>2

-----------------------------------------------------------------------------
(* What it says about the commands and the data bus.                        *)

LEMMA ReadingLegal == ASSUME RowsRecover, Types, ReadingInv PROVE CommandLegal
<1>1. /\ buf.loc.chip \in Chips /\ buf.loc.bank \in Banks /\ cycle \in 0..31
      /\ InUse.since \in 0..T_RC
  <2>1. buf.loc.chip \in Chips /\ buf.loc.bank \in Banks /\ cycle \in 0..31
    BY Places DEF Types
  <2>2. InUse \in BankType
    BY <2>1 DEF Types, ChipType, InUse
  <2>3. QED
    BY <2>1, <2>2 DEF BankType
<1>2. chip[buf.loc.chip].wait = 0 /\ chip[buf.loc.chip].mode
  BY <1>1 DEF ReadingInv, Accessing, ModesSet
<1>3. CASE cycle = 1 /\ pins = BankActivate(buf.loc)
  <2>1. Rested(InUse)
    BY <1>3 DEF ReadingInv, Accessing
  <2>2. pins.cmd = "ACT" /\ pins.cs = buf.loc.chip /\ pins.ba = buf.loc.bank
    BY <1>3 DEF BankActivate
  <2>3. QED
    BY <1>2, <2>1, <2>2 DEF CommandLegal, Rested, InUse
<1>4. CASE pins = Nop
  BY <1>4 DEF CommandLegal, Nop
<1>5. CASE cycle > 1 /\ Issued > 0 /\ ReceiveIn >= CAS + 2 /\ Aimed("RD")
  <2>1. InUse.row = buf.loc.row
    BY <1>5 DEF ReadingInv
  <2>2. InUse.since >= T_RC \/ InUse.since >= cycle - 1
    BY <1>5 DEF ReadingInv, Accessing
  <2>3. cycle > T_RCD
    BY <1>1, <1>5, Numbers DEF ReadingInv, Counting
  <2>4. InUse.since >= T_RCD
    BY <1>1, <2>2, <2>3, Numbers DEF RowsRecover
  <2>5. QED
    BY <1>2, <1>5, <2>1, <2>4 DEF CommandLegal, Aimed, InUse
<1>6. ReceiveIn > CAS + 2 \/ ReceiveIn = CAS + 2 => ReceiveIn >= CAS + 2
  BY CaptureOnTime, Numbers DEF ReadingInv
<1>7. QED
  BY <1>3, <1>4, <1>5, <1>6, ReadPins

LEMMA WritingLegal == ASSUME RowsRecover, Types, WritingInv PROVE CommandLegal
<1>1. /\ buf.loc.chip \in Chips /\ buf.loc.bank \in Banks /\ cycle \in 0..31
      /\ InUse.since \in 0..T_RC
  <2>1. buf.loc.chip \in Chips /\ buf.loc.bank \in Banks /\ cycle \in 0..31
    BY Places DEF Types
  <2>2. InUse \in BankType
    BY <2>1 DEF Types, ChipType, InUse
  <2>3. QED
    BY <2>1, <2>2 DEF BankType
<1>2. chip[buf.loc.chip].wait = 0 /\ chip[buf.loc.chip].mode
  BY <1>1 DEF WritingInv, Accessing, ModesSet
<1>3. CASE cycle = 1 /\ pins = BankActivate(buf.loc)
  <2>1. Rested(InUse)
    BY <1>3 DEF WritingInv, Accessing
  <2>2. pins.cmd = "ACT" /\ pins.cs = buf.loc.chip /\ pins.ba = buf.loc.bank
    BY <1>3 DEF BankActivate
  <2>3. QED
    BY <1>2, <2>1, <2>2 DEF CommandLegal, Rested, InUse
<1>4. CASE pins = Nop
  BY <1>4 DEF CommandLegal, Nop
<1>5. CASE cycle > T_RCD /\ cycle > 1 /\ cycle <= LastWrite + 1 /\ Aimed("WR")
  <2>1. InUse.row = buf.loc.row
    BY <1>5 DEF WritingInv
  <2>2. InUse.since >= T_RC \/ InUse.since >= cycle - 1
    BY <1>5 DEF WritingInv, Accessing
  <2>3. InUse.since >= T_RCD
    BY <1>1, <1>5, <2>2, Numbers DEF RowsRecover
  <2>4. QED
    BY <1>2, <1>5, <2>1, <2>3 DEF CommandLegal, Aimed, InUse
<1>6. cycle <= LastWrite \/ cycle = LastWrite + 1 => cycle <= LastWrite + 1
  BY <1>1, WriteCycles, Numbers
<1>7. QED
  BY <1>3, <1>4, <1>5, <1>6, WritingPins

LEMMA ConfiguringLegal == ASSUME Types, Configuring PROVE CommandLegal
<1> DEFINE k == chip[init_chip]
<1>1. init_chip \in Chips /\ cycle \in 0..31 /\ \A b \in Banks : Rested(k.bank[b])
  BY DEF Types, Configuring, AllRested
<1>2. /\ cycle <= 1 => k.wait = 0
      /\ 1 < cycle /\ cycle <= T_RP + 1 => k.wait = T_RP + 1 - cycle
      /\ T_RP + 1 < cycle /\ cycle <= T_RP + T_RC + 1 => k.wait = T_RP + T_RC + 1 - cycle
      /\ T_RP + T_RC + 1 < cycle /\ cycle <= T_RP + T_RC + T_RC + 1 =>
           k.wait = T_RP + T_RC + T_RC + 1 - cycle
      /\ T_RP + T_RC + 1 < cycle => k.refs = 2
  BY DEF Configuring
<1>3. CASE cycle = 1
  <2>1. pins = PreChargeAll(init_chip)
    BY <1>3, Numbers DEF Configuring, Command
  <2>2. QED
    BY <1>2, <1>3, <2>1 DEF CommandLegal, PreChargeAll
<1>4. CASE cycle \in {T_RP + 1, T_RP + T_RC + 1}
  <2>1. cycle # 1 /\ k.wait = 0
    BY <1>1, <1>2, <1>4, Numbers
  <2>2. cycle # T_RP + T_RC + T_RC + 1
    BY <1>1, <1>4, Numbers
  <2>3. pins = AutoRefresh(init_chip)
    BY <1>4, <2>1, <2>2 DEF Configuring, Command
  <2>4. QED
    BY <1>1, <2>1, <2>3 DEF CommandLegal, AutoRefresh, Rested
<1>5. CASE cycle = T_RP + T_RC + T_RC + 1
  <2>1. cycle \notin {1, T_RP + 1, T_RP + T_RC + 1} /\ k.wait = 0 /\ k.refs = 2
    BY <1>1, <1>2, <1>5, Numbers
  <2>2. pins = SetModeReg(init_chip)
    BY <1>5, <2>1 DEF Configuring, Command
  <2>3. QED
    BY <1>1, <2>1, <2>2 DEF CommandLegal, SetModeReg, Rested
<1>6. CASE cycle \notin {1, T_RP + 1, T_RP + T_RC + 1, T_RP + T_RC + T_RC + 1}
  BY <1>6 DEF Configuring, Command, CommandLegal, Nop
<1>7. QED
  BY <1>3, <1>4, <1>5, <1>6

LEMMA RefreshingLegal == ASSUME Types, Refreshing PROVE CommandLegal
<1>1. 0 \in Chips /\ (SdramSize = 3 => 1 \in Chips)
      /\ \A c \in Chips : \A b \in Banks : Rested(chip[c].bank[b])
  BY Places DEF Refreshing, AllRested
<1>2. CASE cycle = 1
  BY <1>1, <1>2 DEF Refreshing, CommandLegal, AutoRefresh, Rested
<1>3. CASE cycle = 2 /\ SdramSize = 3
  BY <1>1, <1>3 DEF Refreshing, CommandLegal, AutoRefresh, Rested
<1>4. CASE cycle # 1 /\ ~(cycle = 2 /\ SdramSize = 3)
  BY <1>4 DEF Refreshing, CommandLegal, Nop
<1>5. QED
  BY <1>2, <1>3, <1>4

LEMMA Legal == ASSUME RowsRecover, IInv PROVE CommandLegal
<1>1. CASE state \in {"INIT", "IDLE", "RMW_ACT"}
  BY <1>1 DEF IInv, PoweringUp, Settling, CommandLegal, Nop
<1>2. CASE state = "CONFIG"
  BY <1>2, ConfiguringLegal DEF IInv
<1>3. CASE state = "REFRESH"
  BY <1>3, RefreshingLegal DEF IInv
<1>4. CASE state = "WRITE"
  BY <1>4, WritingLegal DEF IInv
<1>5. CASE state \in {"READ", "RMW_READ"}
  BY <1>5, ReadingLegal DEF IInv
<1>6. QED
  BY <1>1, <1>2, <1>3, <1>4, <1>5 DEF IInv, States

LEMMA OneDriver == ASSUME IInv PROVE BusDiscipline
<1>1. Types /\ state \in States
  BY DEF IInv
<1>2. ASSUME pins.cmd = "WR" PROVE Head(dq_pipe) = <<>>
  <2>1. state = "WRITE"
    <3>1. state \notin {"INIT", "IDLE", "RMW_ACT"}
      BY <1>2 DEF IInv, PoweringUp, Settling, Nop
    <3>2. state # "CONFIG"
      BY <1>2 DEF IInv, Configuring, Command, PreChargeAll, AutoRefresh, SetModeReg, Nop
    <3>3. state # "REFRESH"
      BY <1>2 DEF IInv, Refreshing, AutoRefresh, Nop
    <3>4. state \notin {"READ", "RMW_READ"}
      BY <1>1, <1>2, ReadPins DEF IInv, BankActivate, Aimed, Nop
    <3>5. QED
      BY <1>1, <3>1, <3>2, <3>3, <3>4 DEF States
  <2>2. PipeEmpty
    BY <2>1 DEF IInv, WritingInv
  <2>3. 1 \in 1..CAS
    BY Numbers
  <2>4. Head(dq_pipe) = dq_pipe[1]
    BY <1>1, PipeHead DEF Types
  <2>5. QED
    BY <2>2, <2>3, <2>4 DEF PipeEmpty
<1>3. ASSUME state \in {"READ", "RMW_READ"}, Captures PROVE dq_r # <<>>
  <2>1. ReadingInv /\ Counting
    BY <1>3 DEF IInv, ReadingInv
  <2>2. cycle \in 0..31 /\ cycle >= CaptureFrom /\ CaptureFrom = T_RCD + CAS + 2
    BY <1>1, <1>3 DEF Captures, Types, CaptureFrom
  <2>3. ReceiveIn <= Total
    BY <2>1, <2>2, Numbers DEF ReceiveIn, Counting
  <2>4. QED
    BY <2>1, <2>3 DEF ReadingInv, Coming
<1>4. state = "READ" /\ cycle >= CaptureFrom /\ rd.received < rd.issued => Captures
  BY DEF Captures, Received, Issued
<1>5. state = "RMW_READ" /\ cycle >= CaptureFrom /\ rmw.received < rmw.issued => Captures
  BY DEF Captures, Received, Issued
<1>6. QED
  BY <1>2, <1>3, <1>4, <1>5 DEF BusDiscipline

\* Every command reaches a chip in a state to take it, for any geometry and requesters and
\* any timing for which RowsRecover holds (sdram.v, the schedules of the FSM).
THEOREM CommandsLegal == ASSUME RowsRecover PROVE Spec => []CommandLegal
<1>1. IInv /\ [Next]_vars => IInv'
  BY Step
<1>2. IInv => CommandLegal
  BY Legal
<1>3. QED
  BY InitInv, <1>1, <1>2, PTL DEF Spec

\* Controller and chips never drive the data bus in the same clock, and what is taken for
\* read data is driven, however long the bursts (sdram.v, dq_oen and the capture thresholds).
THEOREM BusShared == ASSUME RowsRecover PROVE Spec => []BusDiscipline
<1>1. IInv /\ [Next]_vars => IInv'
  BY Step
<1>2. IInv => BusDiscipline
  BY OneDriver
<1>3. QED
  BY InitInv, <1>1, <1>2, PTL DEF Spec

-----------------------------------------------------------------------------
(* The data: what the refinement of AtomicMemory needs beside IInv.         *)

\* Where the nth half of a read is, and the half as the chips hold it.
HalfLoc(n) == IF state = "READ" THEN BurstLoc(buf.loc, n \div 2) ELSE buf.loc
HalfNo(n) == IF state = "READ" THEN 1 + (n % 2) ELSE MergeHalf(n)
Fetched(n) == HalfOf(mem[HalfLoc(n)], HalfNo(n))

\* The halves under way are the ones asked for, in order.
Bringing ==
  /\ Issued > 0 /\ ReceiveIn >= CAS + 2 =>
       pins.col = HalfLoc(Issued - 1).col /\ pins.half = HalfNo(Issued - 1)
  /\ \A i \in 1..CAS : dq_pipe[i] # <<>> => dq_pipe[i] = Fetched(Total - ReceiveIn + i)
  /\ ReceiveIn <= Total => dq_r = Fetched(Total - ReceiveIn)

\* A dword has two halves, and the low one waits for the high one.
Pairing ==
  /\ rd.total = 2 * (rd.total \div 2)
  /\ rd.received % 2 = 1 => rd.lo16 = Fetched(rd.received - 1)

\* The bytes of the halves that are written.
Covered == UNION {LanesOf(h) : h \in wr_halfs}

\* What has come of the dword to merge with.
Fetching ==
  /\ rmw.halfs = wr_halfs /\ rmw.old \in Dwords
  /\ \A n \in 0..(rmw.received - 1) : \A i \in LanesOf(MergeHalf(n)) :
       rmw.old[i] = mem[buf.loc][i]

\* The cycle in which the chips have taken a half, the half on the pins, and the
\* bytes that have their values.
TakenAt(h) == T_RCD + (IF h = 2 /\ wr_halfs = Halves THEN 3 ELSE 2)
HalfOnPins == IF cycle = T_RCD + 1 /\ 1 \in wr_halfs THEN 1 ELSE 2
Storing ==
  /\ T_RCD < cycle /\ cycle <= LastWrite + 1 =>
       /\ pins.col = buf.loc.col /\ pins.half = HalfOnPins
       /\ pins.mask = IF HasDqm THEN LanesOf(HalfOnPins) \ buf.be ELSE {}
       /\ pins.dq = HalfOf(buf.din, HalfOnPins)
  /\ \A h \in wr_halfs : cycle >= TakenAt(h) =>
       \A i \in LanesOf(h) \cap buf.be : mem[buf.loc][i] = buf.din[i]

DataInv ==
  /\ mem \in [Locs -> Dwords]
  /\ buf.din \in Dwords /\ buf.be \subseteq Lanes
  /\ state \in {"READ", "RMW_READ"} => Bringing
  /\ state = "READ" => Pairing
  /\ state = "RMW_READ" => Fetching
  /\ Writing => buf.be \subseteq Covered
  /\ state \in {"WRITE", "RMW_ACT"} => HasDqm \/ buf.be = Covered
  /\ state = "WRITE" => Storing

LEMMA Parity ==
  ASSUME NEW n \in Nat
  PROVE  /\ n \div 2 \in Nat /\ n % 2 \in {0, 1} /\ n = 2 * (n \div 2) + (n % 2)
         /\ (2 * n) \div 2 = n
         /\ n % 2 = 0 => (n + 1) \div 2 = n \div 2 /\ (n + 1) % 2 = 1
         /\ n % 2 = 1 => (n + 1) \div 2 = (n \div 2) + 1 /\ (n + 1) % 2 = 0
  OBVIOUS

LEMMA BurstLocs ==
  ASSUME NEW l \in Locs, NEW i \in Nat
  PROVE  /\ BurstLoc(l, i) \in Locs
         /\ BurstLoc(l, i).chip = l.chip /\ BurstLoc(l, i).bank = l.bank
         /\ BurstLoc(l, i).row = l.row
<1>1. l.chip \in Chips /\ l.bank \in Banks /\ l.row \in Rows /\ l.col \in 0..(Cols - 1)
      /\ l = [chip |-> l.chip, bank |-> l.bank, row |-> l.row, col |-> l.col]
  BY DEF Locs
<1>2. (l.col + i) % Cols \in 0..(Cols - 1)
  BY <1>1, GeometryAssumption
<1>3. BurstLoc(l, i) = [chip |-> l.chip, bank |-> l.bank, row |-> l.row, col |-> (l.col + i) % Cols]
  BY <1>1 DEF BurstLoc
<1>4. QED
  BY <1>1, <1>2, <1>3 DEF Locs

\* A dword is its two halves.
LEMMA TwoHalves ==
  /\ Halves = {1, 2} /\ LanesOf(1) = {1, 2} /\ LanesOf(2) = {3, 4} /\ Lanes = {1, 2, 3, 4}
  /\ \A w \in Dwords : HalfOf(w, 1) \o HalfOf(w, 2) = w
<1>1. Halves = {1, 2} /\ LanesOf(1) = {1, 2} /\ LanesOf(2) = {3, 4} /\ Lanes = {1, 2, 3, 4}
  BY DEF Halves, LanesOf, Lanes
<1>2. ASSUME NEW w \in Dwords PROVE HalfOf(w, 1) \o HalfOf(w, 2) = w
  <2> DEFINE a == HalfOf(w, 1)
             b == HalfOf(w, 2)
  <2>1. a \in [1..2 -> Bytes] /\ b \in [1..2 -> Bytes]
    BY DEF HalfOf, Halves, Dwords, Lanes
  <2>2. a[1] = w[1] /\ a[2] = w[2] /\ b[1] = w[3] /\ b[2] = w[4]
    BY DEF HalfOf, Halves
  <2> HIDE DEF a, b
  <2>3. a \in Seq(Bytes) /\ b \in Seq(Bytes)
    <3>1. \A n \in Nat : [1..n -> Bytes] \subseteq Seq(Bytes)
      BY SeqDef
    <3>2. [1..2 -> Bytes] \subseteq Seq(Bytes)
      BY <3>1
    <3>3. QED
      BY <2>1, <3>2
  <2>4. Len(a) = 2 /\ Len(b) = 2
    BY <2>1, <2>3, LenProperties
  <2>5. a \o b \in Seq(Bytes) /\ Len(a \o b) = 4
        /\ \A i \in 1..4 : (a \o b)[i] = IF i <= 2 THEN a[i] ELSE b[i - 2]
    <3>1. /\ a \o b \in Seq(Bytes) /\ Len(a \o b) = Len(a) + Len(b)
          /\ \A i \in 1..(Len(a) + Len(b)) : (a \o b)[i] = IF i <= Len(a) THEN a[i] ELSE b[i - Len(a)]
      BY <2>3, ConcatProperties
    <3>2. QED
      BY <2>4, <3>1
  <2>6. \A i \in 1..4 : (a \o b)[i] = w[i]
    BY <2>2, <2>5
  <2>7. a \o b = [i \in 1..4 |-> (a \o b)[i]] /\ w = [i \in 1..4 |-> w[i]]
    BY <2>5, LenProperties DEF Dwords, Lanes
  <2>8. QED
    BY <2>6, <2>7 DEF a, b
<1>3. QED
  BY <1>1, <1>2

\* The halves that an access of rmw reads, in order.
LEMMA MergeHalves ==
  ASSUME Types, rmw.halfs \in {Halves, {1}, {2}}
  PROVE  /\ rmw.halfs = Halves => Cardinality(rmw.halfs) = 2
         /\ rmw.halfs # Halves => Cardinality(rmw.halfs) = 1
         /\ \A n \in 0..(Cardinality(rmw.halfs) - 1) : MergeHalf(n) \in rmw.halfs
         /\ \A h \in rmw.halfs : \E n \in 0..(Cardinality(rmw.halfs) - 1) : MergeHalf(n) = h
<1>1. Halves = {1, 2} /\ Halves # {1} /\ Halves # {2}
  BY DEF Halves
<1>2. Cardinality({1}) = 1 /\ Cardinality({2}) = 1
  BY FS_Singleton
<1>3. Cardinality({1, 2}) = 2
  <2>1. 2 \notin {1} /\ {1} \cup {2} = {1, 2}
    OBVIOUS
  <2>2. IsFiniteSet({1})
    BY FS_Singleton
  <2>3. QED
    BY <1>2, <2>1, <2>2, FS_AddElement
<1>4. CASE rmw.halfs = Halves
  <2>1. MergeHalf(0) = 1 /\ MergeHalf(1) = 2
    BY <1>4 DEF MergeHalf
  <2>2. Cardinality(rmw.halfs) = 2 /\ 0..(2 - 1) = {0, 1}
    BY <1>1, <1>3, <1>4
  <2>3. QED
    BY <1>1, <1>4, <2>1, <2>2
<1>5. ASSUME NEW k \in {1, 2}, rmw.halfs = {k}
      PROVE  /\ rmw.halfs # Halves /\ Cardinality(rmw.halfs) = 1
             /\ \A n \in 0..(Cardinality(rmw.halfs) - 1) : MergeHalf(n) \in rmw.halfs
             /\ \A h \in rmw.halfs : \E n \in 0..(Cardinality(rmw.halfs) - 1) : MergeHalf(n) = h
  <2>1. rmw.halfs # Halves /\ Cardinality(rmw.halfs) = 1 /\ 0..(1 - 1) = {0}
    BY <1>1, <1>2, <1>5
  <2>2. MergeHalf(0) = k
    BY <1>5, <2>1 DEF MergeHalf
  <2>3. QED
    BY <1>5, <2>1, <2>2
<1>6. QED
  BY <1>4, <1>5

\* Only a write changes the chips' contents.
LEMMA MemoryKept == ASSUME ChipsSample, pins.cmd # "WR" PROVE mem' = mem
  BY DEF ChipsSample

LEMMA FetchedKept ==
  ASSUME state' = state, buf'.loc = buf.loc, rmw'.halfs = rmw.halfs, mem' = mem
  PROVE  \A n : /\ Fetched(n)' = Fetched(n) /\ HalfLoc(n)' = HalfLoc(n)
                /\ HalfNo(n)' = HalfNo(n) /\ MergeHalf(n)' = MergeHalf(n)
<1>1. \A n : HalfLoc(n)' = HalfLoc(n) /\ MergeHalf(n)' = MergeHalf(n)
  BY DEF HalfLoc, MergeHalf
<1>2. \A n : HalfNo(n)' = HalfNo(n)
  BY <1>1 DEF HalfNo
<1>3. QED
  BY <1>1, <1>2 DEF Fetched

-----------------------------------------------------------------------------
(* Reading: the halves come in the order in which they were asked for.      *)

LEMMA HalfPlaces ==
  ASSUME Types, NEW n \in Nat
  PROVE  /\ HalfLoc(n) \in Locs
         /\ HalfLoc(n).chip = buf.loc.chip /\ HalfLoc(n).bank = buf.loc.bank
         /\ HalfLoc(n).row = buf.loc.row
<1>1. buf.loc \in Locs /\ n \div 2 \in Nat
  BY Parity DEF Types
<1>2. QED
  BY <1>1, BurstLocs DEF HalfLoc

\* The half that is captured is the one that is due.
LEMMA CapturesDue ==
  ASSUME Types, ReadingInv, Bringing, Captures
  PROVE  dq_r = Fetched(Received) /\ Received \in Nat
<1>1. /\ Counting /\ Received \in 0..Total /\ Total \in Nat \ {0} /\ cycle \in 0..31
      /\ CaptureFrom = T_RCD + CAS + 2
  BY DEF ReadingInv, Counting, Types, CaptureFrom
<1>2. cycle >= CaptureFrom
  BY <1>1, CaptureOnTime
<1>3. ReceiveIn = Total - Received
  BY <1>1, <1>2, Numbers DEF ReceiveIn
<1>4. ReceiveIn <= Total /\ Total - ReceiveIn = Received
  BY <1>1, <1>3
<1>5. QED
  BY <1>1, <1>4 DEF Bringing

LEMMA BringingStep ==
  ASSUME Types, ReadingInv, Bringing, ChipsSample, Counts, ReceiveIn > 1,
         Issues => \E ap : pins' = ReadHalf(HalfLoc(Issued), HalfNo(Issued), ap),
         dq_r' = (IF DqOut # <<>> THEN DqOut ELSE Head(dq_pipe)),
         state' = state, buf'.loc = buf.loc, rmw'.halfs = rmw.halfs
  PROVE  Bringing'
<1>1. /\ Counting /\ Counting' /\ ReceiveIn' = ReceiveIn - 1 /\ Total' = Total
      /\ ReceiveIn \in Nat /\ IssueIn \in Nat /\ cycle \in 0..31
      /\ Total \in Nat \ {0} /\ Issued \in 0..Total
      /\ (cycle <= T_RCD => Issued = 0)
  BY CountingStep, CaptureOnTime DEF ReadingInv, Counts, Counting, Types
<1>2. /\ pins.cmd # "WR"
      /\ pins.cmd = "RD" <=> Issued > 0 /\ ReceiveIn >= CAS + 2
      /\ pins.cmd = "RD" => Aimed("RD")
  <2>1. BankActivate(buf.loc).cmd = "ACT" /\ Nop.cmd = "NOP"
    BY DEF BankActivate, Nop
  <2>2. pins.cmd = "RD" <=> Issued > 0 /\ ReceiveIn >= CAS + 2
    BY <1>1, <2>1, ReadPins, Numbers DEF Aimed
  <2>3. pins.cmd # "WR" /\ (pins.cmd = "RD" => Aimed("RD"))
    BY <2>1, ReadPins DEF Aimed
  <2>4. QED
    BY <2>2, <2>3
<1>3. mem' = mem
  BY <1>2, MemoryKept
<1>4. ASSUME Issued' > 0, ReceiveIn' >= CAS + 2
      PROVE  (pins.col = HalfLoc(Issued - 1).col /\ pins.half = HalfNo(Issued - 1))'
  <2>1. IssueIn > 0
    BY <1>1, <1>4, Numbers DEF Counting
  <2>2. Issues
    BY <1>1, <1>4, <2>1, CaptureOnTime DEF Counts
  <2>3. Issued' - 1 = Issued
    BY <1>1, <2>2 DEF Counts
  <2>4. PICK ap : pins' = ReadHalf(HalfLoc(Issued), HalfNo(Issued), ap)
    BY <2>2
  <2>5. pins'.col = HalfLoc(Issued).col /\ pins'.half = HalfNo(Issued)
    BY <2>4 DEF ReadHalf
  <2>6. QED
    BY <2>3, <2>5 DEF HalfLoc, HalfNo, MergeHalf
<1>5. pins.cmd = "RD" => HalfOf(mem[Accessed], pins.half) = Fetched(Total - ReceiveIn' + CAS)
  <2> SUFFICES ASSUME pins.cmd = "RD"
               PROVE  HalfOf(mem[Accessed], pins.half) = Fetched(Total - ReceiveIn' + CAS)
    OBVIOUS
  <2>1. Aimed("RD") /\ Issued > 0 /\ ReceiveIn >= CAS + 2 /\ Issued - 1 \in Nat /\ cycle > 1
    <3>1. Aimed("RD") /\ Issued > 0 /\ ReceiveIn >= CAS + 2 /\ Issued - 1 \in Nat
      BY <1>1, <1>2
    <3>2. cycle > 1
      BY <1>1, <3>1, ReadPins, Numbers
    <3>3. QED
      BY <3>1, <3>2
  <2>2. pins.col = HalfLoc(Issued - 1).col /\ pins.half = HalfNo(Issued - 1)
    BY <2>1 DEF Bringing
  <2>3. chip[pins.cs].bank[pins.ba].row = buf.loc.row
    BY <2>1 DEF ReadingInv, InUse, Aimed
  <2>4. Accessed = HalfLoc(Issued - 1)
    <3>1. HalfLoc(Issued - 1) \in Locs /\ HalfLoc(Issued - 1).chip = buf.loc.chip
          /\ HalfLoc(Issued - 1).bank = buf.loc.bank /\ HalfLoc(Issued - 1).row = buf.loc.row
      BY <2>1, HalfPlaces
    <3>2. Accessed = [chip |-> HalfLoc(Issued - 1).chip, bank |-> HalfLoc(Issued - 1).bank,
                      row |-> HalfLoc(Issued - 1).row, col |-> HalfLoc(Issued - 1).col]
      BY <2>1, <2>2, <2>3, <3>1 DEF Accessed, Aimed
    <3>3. QED
      BY <3>1, <3>2 DEF Locs
  <2>5. Total - ReceiveIn' + CAS = Issued - 1
    <3>1. IssueIn = Total - Issued
      BY <1>1, <2>1, Numbers DEF IssueIn
    <3>2. IssueIn > 0 => ReceiveIn = IssueIn + CAS + 2
      BY <1>1 DEF Counting
    <3>3. IssueIn = 0 => ReceiveIn = CAS + 2
      BY <1>1, <2>1, Numbers DEF Counting
    <3>4. QED
      BY <1>1, <3>1, <3>2, <3>3, Numbers
  <2>6. QED
    BY <2>2, <2>4, <2>5 DEF Fetched
<1>6. ASSUME NEW i \in 1..CAS, dq_pipe'[i] # <<>>
      PROVE  dq_pipe'[i] = Fetched(Total - ReceiveIn' + i)
  <2>1. CASE i = CAS
    BY <1>5, <1>6, <2>1, PipeMoves DEF Types
  <2>2. CASE i < CAS
    <3>1. i + 1 \in 1..CAS
      BY <2>2, Numbers
    <3> dq_pipe'[i] = dq_pipe[i + 1]
      BY <2>2, PipeMoves DEF Types
    <3>2. dq_pipe[i + 1] = Fetched(Total - ReceiveIn + (i + 1))
      BY <1>6, <3>1 DEF Bringing
    <3>3. Total - ReceiveIn + (i + 1) = Total - ReceiveIn' + i
      BY <1>1
    <3>4. QED
      BY <3>1, <3>2, <3>3
  <2>3. QED
    BY <2>1, <2>2, Numbers
<1>7. ASSUME ReceiveIn' <= Total PROVE dq_r' = Fetched(Total - ReceiveIn')
  <2>1. DqOut = <<>>
    BY <1>2 DEF DqOut
  <2>2. dq_r' = dq_pipe[1] /\ 1 \in 1..CAS
    BY <2>1, PipeMoves, Numbers DEF Types
  <2>3. dq_pipe[1] # <<>>
    BY <1>1, <1>7, <2>2 DEF ReadingInv, Coming
  <2>4. dq_pipe[1] = Fetched(Total - ReceiveIn + 1)
    BY <2>2, <2>3 DEF Bringing
  <2>5. Total - ReceiveIn + 1 = Total - ReceiveIn'
    BY <1>1
  <2>6. QED
    BY <2>2, <2>4, <2>5
<1>8. QED
  <2>1. ASSUME NEW i \in 1..CAS, dq_pipe'[i] # <<>>
        PROVE  dq_pipe'[i] = Fetched(Total - ReceiveIn + i)'
    BY <1>1, <1>3, <1>6, <2>1 DEF Fetched, HalfLoc, HalfNo, MergeHalf
  <2>2. ReceiveIn' <= Total' => dq_r' = Fetched(Total - ReceiveIn)'
    BY <1>1, <1>3, <1>7 DEF Fetched, HalfLoc, HalfNo, MergeHalf
  <2>3. QED
    BY <1>4, <2>1, <2>2 DEF Bringing

-----------------------------------------------------------------------------
(* The abstract memory.                                                     *)

LEMMA SameOperators ==
  /\ Atomic!Requesting = Requesting /\ Atomic!Locs = Locs /\ Atomic!ZeroDword = ZeroDword
  /\ \A p : Atomic!Req(p) = Req(p)
  /\ \A r : Atomic!BurstLength(r) = BurstLength(r)
  /\ \A l, i : Atomic!BurstLoc(l, i) = BurstLoc(l, i)
  /\ \A old, new, be : Atomic!Merge(old, new, be) = Merge(old, new, be)
<1>1. Atomic!Chips = Chips /\ Atomic!Lanes = Lanes
  BY DEF Atomic!Chips, Chips, Atomic!Lanes, Lanes
<1>2. \A p : Atomic!Req(p) = Req(p)
  BY DEF Atomic!Req, Req
<1>3. QED
  BY <1>1, <1>2 DEF Atomic!Requesting, Requesting, Atomic!Locs, Locs, Atomic!ZeroDword, ZeroDword,
       Atomic!BurstLength, BurstLength, Atomic!BurstLoc, BurstLoc, Atomic!Merge, Merge

LEMMA SamePorts ==
  ASSUME PortsMove(out.ready)
  PROVE  Atomic!PortsMove(ShownBar.ready)
  BY DEF PortsMove, PortSteps, Atomic!PortsMove, Atomic!PortSteps, ShownBar

LEMMA SilentReady ==
  \A p : [Atomic!Silent EXCEPT !.ready = {p}]
           = [ready |-> {p}, resp |-> {}, word |-> <<>>, done |-> FALSE]
<1>1. ASSUME NEW p, NEW r, r = [Atomic!Silent EXCEPT !.ready = {p}]
      PROVE  r = [ready |-> {p}, resp |-> {}, word |-> <<>>, done |-> FALSE]
  BY <1>1 DEF Atomic!Silent
<1>2. QED
  BY <1>1

LEMMA Pauses ==
  ASSUME PortsMove(out.ready), out' = Quiet, StoreBar' = StoreBar, BurstBar' = BurstBar
  PROVE  Atomic!Next
<1>1. ShownBar' = [ready |-> {}, resp |-> {}, word |-> <<>>, done |-> FALSE]
  BY DEF ShownBar, Quiet
<1>2. Atomic!Pause
  BY <1>1 DEF Atomic!Pause, Atomic!Silent
<1>3. QED
  BY <1>2, SamePorts DEF Atomic!Next

Active == Writing \/ state = "READ"

\* Between accesses nothing happens.
LEMMA QuietStep ==
  ASSUME DataInv, ~Active, ~Active', ChipsSample, pins.cmd # "WR",
         PortsMove(out.ready), out' = Quiet, UNCHANGED buf
  PROVE  DataInv' /\ Atomic!Next
<1>1. mem' = mem
  BY MemoryKept
<1>2. DataInv'
  BY <1>1 DEF DataInv, Active, Writing
<1>3. StoreBar' = StoreBar
  BY <1>1 DEF StoreBar, Active
<1>4. BurstBar' = BurstBar
  BY DEF BurstBar, Active
<1>5. QED
  BY <1>2, <1>3, <1>4, Pauses

LEMMA RestingSteps ==
  ASSUME IInv, DataInv, InitDone \/ Config \/ StartRefresh \/ Refresh \/ Idle
  PROVE  DataInv' /\ Atomic!Next
<1>1. /\ ChipsSample /\ PortsMove(out.ready) /\ out' = Quiet /\ UNCHANGED buf
      /\ state \in {"INIT", "CONFIG", "IDLE", "REFRESH"}
      /\ state' \in {"INIT", "CONFIG", "IDLE", "REFRESH"}
  BY DEF InitDone, Config, StartRefresh, Refresh, Idle, Edge
<1>2. ~Active /\ ~Active'
  BY <1>1 DEF Active, Writing
<1>3. \A c \in Chips : Nop.cmd # "WR" /\ AutoRefresh(c).cmd # "WR"
        /\ PreChargeAll(c).cmd # "WR" /\ SetModeReg(c).cmd # "WR"
  BY DEF Nop, AutoRefresh, PreChargeAll, SetModeReg
<1>4. pins.cmd # "WR"
  <2>1. CASE state \in {"INIT", "IDLE"}
    BY <1>3, <2>1, Places DEF IInv, PoweringUp, Settling
  <2>2. CASE state = "CONFIG"
    <3>1. pins = Command(init_chip, cycle) /\ init_chip \in Chips
      BY <2>2 DEF IInv, Configuring, Types
    <3>2. QED
      BY <1>3, <3>1 DEF Command
  <2>3. CASE state = "REFRESH"
    <3>1. pins = (IF cycle = 1 THEN AutoRefresh(0)
                  ELSE IF cycle = 2 /\ SdramSize = 3 THEN AutoRefresh(1) ELSE Nop)
      BY <2>3 DEF IInv, Refreshing
    <3>2. pins \in {AutoRefresh(0), AutoRefresh(1), Nop}
      BY <3>1
    <3>3. AutoRefresh(0).cmd # "WR" /\ AutoRefresh(1).cmd # "WR" /\ Nop.cmd # "WR"
      BY DEF AutoRefresh, Nop
    <3>4. QED
      BY <3>2, <3>3
  <2>4. QED
    BY <1>1, <2>1, <2>2, <2>3
<1>5. QED
  BY <1>1, <1>2, <1>4, QuietStep

-----------------------------------------------------------------------------
(* Accepting: the abstract memory performs the request.                     *)

LEMMA AcceptingData ==
  ASSUME IInv, DataInv, NEW p \in Ports, Accept(p)
  PROVE  /\ mem' = mem /\ mem \in [Locs -> Dwords]
         /\ p \in Requesting /\ Req(p) \in Request
         /\ buf' = [id |-> p, loc |-> Req(p).loc, din |-> Req(p).din, be |-> Req(p).be]
         /\ buf'.din \in Dwords /\ buf'.be \subseteq Lanes /\ buf'.loc \in Locs
         /\ StoreBar = mem /\ BurstBar = Atomic!NoBurst
         /\ ShownBar' = [ready |-> {p}, resp |-> {}, word |-> <<>>, done |-> FALSE]
         /\ cycle' = 1 /\ state = "IDLE" /\ Atomic!PortsMove(ShownBar.ready)
<1>1. /\ ChipsSample /\ PortsMove(out.ready) /\ p \in Requesting /\ state = "IDLE"
      /\ cycle' = 1 /\ out' = [Quiet EXCEPT !.ready = {p}]
      /\ buf' = [id |-> p, loc |-> Req(p).loc, din |-> Req(p).din, be |-> Req(p).be]
  BY DEF Accept, MayAccept, Granted, Edge
<1>2. pins = Nop /\ PortType
  BY <1>1 DEF IInv, Settling, Types
<1>3. mem' = mem
  BY <1>1, <1>2, MemoryKept DEF Nop
<1>4. Req(p) \in Request
  <2>1. PICK r \in Requests[p] : port[p] = <<r>>
    BY <1>1, <1>2 DEF PortType, Requesting
  <2>2. QED
    BY <2>1, PortsAssumption DEF Req
<1>5. Req(p).loc \in Locs /\ Req(p).din \in Dwords /\ Req(p).be \subseteq Lanes
  BY <1>4 DEF Request
<1>6. StoreBar = mem /\ BurstBar = Atomic!NoBurst
  BY <1>1 DEF StoreBar, BurstBar, Writing, Atomic!NoBurst
<1>7. ShownBar' = [ready |-> {p}, resp |-> {}, word |-> <<>>, done |-> FALSE]
  BY <1>1 DEF ShownBar, Quiet
<1>8. QED
  BY <1>1, <1>3, <1>4, <1>5, <1>6, <1>7, SamePorts DEF DataInv

\* The bytes that a set of halves covers.
LEMMA CoveredBytes ==
  ASSUME NEW hs \in {Halves, {1}, {2}}
  PROVE  UNION {LanesOf(h) : h \in hs} = IF hs = Halves THEN Lanes ELSE
                                         IF hs = {1} THEN LanesOf(1) ELSE LanesOf(2)
  BY TwoHalves

LEMMA WrittenBytes ==
  ASSUME NEW be \in SUBSET Lanes
  PROVE  LET covered == UNION {LanesOf(h) : h \in WriteHalves(be)}
         IN  be \subseteq covered /\ (HasDqm \/ NeedsMerge(be) \/ be = covered)
<1> DEFINE hs == WriteHalves(be)
<1>1. hs \in {Halves, {1}, {2}} /\ Halves = {1, 2}
  BY WrittenHalves, TwoHalves
<1>2. hs # Halves => hs = Touched(be) /\ ~HasDqm
  BY DEF WriteHalves
<1>3. CASE hs = Halves
  <2>1. UNION {LanesOf(h) : h \in hs} = Lanes
    BY <1>1, <1>3, CoveredBytes
  <2>2. be = LanesOf(1) => Touched(be) = {1}
    BY TwoHalves DEF Touched
  <2>3. be = LanesOf(2) => Touched(be) = {2}
    BY TwoHalves DEF Touched
  <2>4. Cardinality({1}) = 1 /\ Cardinality({2}) = 1 /\ Halves # {1} /\ Halves # {2}
    <3>1. Cardinality({1}) = 1 /\ Cardinality({2}) = 1
      BY FS_Singleton
    <3>2. QED
      BY <1>1, <3>1
  <2>5. HasDqm \/ (be # LanesOf(1) /\ be # LanesOf(2))
    BY <1>3, <2>2, <2>3, <2>4 DEF WriteHalves
  <2>6. QED
    BY <2>1, <2>5 DEF NeedsMerge
<1>4. ASSUME NEW k \in {1, 2}, hs = {k}
      PROVE  /\ UNION {LanesOf(h) : h \in hs} = LanesOf(k)
             /\ be \subseteq LanesOf(k) /\ be # {}
  <2>1. Touched(be) = {k}
    BY <1>1, <1>2, <1>4
  <2>2. \A h \in Halves : h \in {k} <=> be \cap LanesOf(h) # {}
    BY <2>1 DEF Touched
  <2>3. \A h \in {1, 2} : h # k => be \cap LanesOf(h) = {}
    BY <1>1, <2>2
  <2>4. be \subseteq LanesOf(k)
    BY <2>3, TwoHalves
  <2>5. be # {}
    BY <1>1, <2>2
  <2>6. QED
    BY <1>4, <2>4, <2>5
<1>5. ASSUME NEW k \in {1, 2}, hs = {k}, ~HasDqm, ~NeedsMerge(be) PROVE be = LanesOf(k)
  <2>1. be \in {LanesOf(1), LanesOf(2), Lanes}
    BY <1>5 DEF NeedsMerge
  <2>2. be \subseteq LanesOf(k)
    BY <1>4, <1>5
  <2>3. QED
    BY <2>1, <2>2, TwoHalves
<1>6. QED
  BY <1>1, <1>3, <1>4, <1>5

LEMMA AcceptWriteData ==
  ASSUME IInv, DataInv, NEW p \in Ports, Accept(p), Req(p).wr,
         state' \in {"WRITE", "RMW_READ"}
  PROVE  Atomic!Next
<1>1. /\ mem' = mem /\ mem \in [Locs -> Dwords] /\ p \in Requesting
      /\ buf' = [id |-> p, loc |-> Req(p).loc, din |-> Req(p).din, be |-> Req(p).be]
      /\ StoreBar = mem /\ BurstBar = Atomic!NoBurst
      /\ ShownBar' = [ready |-> {p}, resp |-> {}, word |-> <<>>, done |-> FALSE]
      /\ Atomic!PortsMove(ShownBar.ready)
  BY AcceptingData
<1>2. StoreBar' = [StoreBar EXCEPT ![Req(p).loc] = Merge(@, Req(p).din, Req(p).be)]
  BY <1>1 DEF StoreBar, Writing
<1>3. BurstBar' = BurstBar
  BY <1>1 DEF BurstBar, Atomic!NoBurst
<1>4. Atomic!PerformWrite(p)
  <2>1. BurstBar.words = <<>>
    BY <1>1 DEF Atomic!NoBurst
  <2>2. StoreBar' = [StoreBar EXCEPT ![Atomic!Req(p).loc] =
                       Atomic!Merge(@, Atomic!Req(p).din, Atomic!Req(p).be)]
    BY <1>2, SameOperators
  <2>3. ShownBar' = [Atomic!Silent EXCEPT !.ready = {p}]
    BY <1>1, SilentReady
  <2>4. p \in Atomic!Requesting /\ Atomic!Req(p).wr
    BY <1>1, SameOperators
  <2>5. QED
    BY <1>3, <2>1, <2>2, <2>3, <2>4 DEF Atomic!PerformWrite
<1>5. QED
  BY <1>1, <1>4 DEF Atomic!Next

LEMMA AcceptWriteSteps ==
  ASSUME IInv, DataInv, NEW p \in Ports, AcceptWrite(p) \/ AcceptMerge(p)
  PROVE  DataInv' /\ Atomic!Next
<1>1. /\ Accept(p) /\ Req(p).wr
      /\ wr_halfs' = WriteHalves(Req(p).be)
      /\ \/ state' = "WRITE" /\ ~NeedsMerge(Req(p).be)
         \/ /\ state' = "RMW_READ"
            /\ rmw' = [halfs |-> WriteHalves(Req(p).be), issued |-> 0, received |-> 0,
                       old |-> [i \in Lanes |-> 0]]
  BY DEF AcceptWrite, AcceptMerge
<1>2. Atomic!Next
  BY <1>1, AcceptWriteData
<1>3. /\ mem' = mem /\ mem \in [Locs -> Dwords] /\ Req(p) \in Request /\ cycle' = 1
      /\ buf' = [id |-> p, loc |-> Req(p).loc, din |-> Req(p).din, be |-> Req(p).be]
      /\ buf'.din \in Dwords /\ buf'.be \subseteq Lanes
  BY <1>1, AcceptingData
<1>4. buf'.be \subseteq Covered' /\ (HasDqm \/ NeedsMerge(Req(p).be) \/ buf'.be = Covered')
  BY <1>1, <1>3, WrittenBytes DEF Covered
<1>5. CASE state' = "WRITE"
  <2>1. Storing'
    <3>1. ~(T_RCD < cycle') /\ \A h \in wr_halfs' : ~(cycle' >= TakenAt(h)')
      BY <1>3, Numbers DEF TakenAt
    <3>2. QED
      BY <3>1 DEF Storing
  <2>2. QED
    BY <1>1, <1>2, <1>3, <1>4, <1>5, <2>1 DEF DataInv, Writing
<1>6. CASE state' = "RMW_READ"
  <2>1. Issued' = 0 /\ Received' = 0 /\ Total' = Cardinality(wr_halfs')
    BY <1>1, <1>6 DEF Issued, Received, Total
  <2>2. PipeEmpty'
    <3>1. Types /\ Settling
      BY <1>3, AcceptingData, <1>1 DEF IInv
    <3>2. QED
      BY <1>1, <3>1, Accepts
  <2>3. ReceiveIn' > Total'
    <3>1. Total' \in {1, 2}
      BY <1>1, <1>3, <2>1, WrittenHalves DEF Request
    <3>2. CaptureFrom = T_RCD + CAS + 2
      BY DEF CaptureFrom
    <3>3. QED
      BY <1>3, <2>1, <3>1, <3>2, Numbers DEF ReceiveIn, CaptureFrom
  <2>4. Bringing'
    <3>1. Total' \in {1, 2}
      BY <1>1, <1>3, <2>1, WrittenHalves DEF Request
    <3>2. ReceiveIn' \in Int
      BY <1>3, <2>1, <3>1, Numbers DEF ReceiveIn, CaptureFrom
    <3>3. ~(Issued' > 0) /\ ~(ReceiveIn' <= Total')
      BY <2>1, <2>3, <3>1, <3>2
    <3>4. QED
      BY <2>2, <3>3 DEF Bringing, PipeEmpty
  <2>5. Fetching'
    <3>1. [i \in Lanes |-> 0] \in Dwords
      BY GeometryAssumption DEF Dwords
    <3>2. rmw'.halfs = wr_halfs' /\ rmw'.old \in Dwords /\ 0..(rmw'.received - 1) = {}
      BY <1>1, <1>6, <3>1
    <3>3. QED
      BY <3>2 DEF Fetching
  <2>6. QED
    BY <1>2, <1>3, <1>4, <1>6, <2>4, <2>5 DEF DataInv, Writing
<1>7. QED
  BY <1>1, <1>5, <1>6

LEMMA AcceptReadStepData ==
  ASSUME IInv, DataInv, NEW p \in Ports, AcceptRead(p)
  PROVE  DataInv' /\ Atomic!Next
<1>1. /\ Accept(p) /\ ~Req(p).wr /\ state' = "READ"
      /\ rd' = [rd EXCEPT !.total = 2 * BurstLength(Req(p)), !.issued = 0, !.received = 0]
  BY DEF AcceptRead
<1>2. /\ mem' = mem /\ mem \in [Locs -> Dwords] /\ p \in Requesting /\ Req(p) \in Request
      /\ buf' = [id |-> p, loc |-> Req(p).loc, din |-> Req(p).din, be |-> Req(p).be]
      /\ buf'.din \in Dwords /\ buf'.be \subseteq Lanes
      /\ StoreBar = mem /\ BurstBar = Atomic!NoBurst /\ cycle' = 1
      /\ ShownBar' = [ready |-> {p}, resp |-> {}, word |-> <<>>, done |-> FALSE]
      /\ Atomic!PortsMove(ShownBar.ready)
  BY <1>1, AcceptingData
<1> DEFINE n == BurstLength(Req(p))
<1>3. n \in Nat \ {0}
  BY <1>2 DEF Request, BurstLength
<1>4. rd'.total = 2 * n /\ rd'.issued = 0 /\ rd'.received = 0
  <2>1. rd = [total |-> rd.total, issued |-> rd.issued, received |-> rd.received, lo16 |-> rd.lo16]
    BY DEF IInv, Types
  <2>2. QED
    BY <1>1, <2>1
<1> HIDE DEF n
<1>5. (2 * n) \div 2 = n /\ 0 \div 2 = 0 /\ 0 % 2 = 0
  BY <1>3, Parity
<1>6. Bringing'
  <2>1. Issued' = 0 /\ Received' = 0 /\ Total' = 2 * n
    BY <1>1, <1>4 DEF Issued, Received, Total
  <2>2. PipeEmpty'
    <3>1. Types /\ Settling
      BY <1>1, AcceptingData DEF IInv
    <3>2. QED
      BY <1>1, <3>1, Accepts
  <2>3. ~(ReceiveIn' <= Total')
    BY <1>2, <1>3, <2>1, Numbers DEF ReceiveIn, CaptureFrom
  <2>4. ~(Issued' > 0)
    BY <2>1
  <2>5. QED
    BY <2>2, <2>3, <2>4 DEF Bringing, PipeEmpty
<1>7. Pairing'
  BY <1>4, <1>5 DEF Pairing
<1>8. DataInv'
  BY <1>1, <1>2, <1>6, <1>7 DEF DataInv, Writing
<1>9. StoreBar' = StoreBar
  BY <1>1, <1>2 DEF StoreBar, Writing
<1>10. BurstBar' = [id |-> p, words |-> [i \in 1..n |-> mem[BurstLoc(Req(p).loc, i - 1)]]]
  <2>1. BurstBar' = [id |-> p, words |-> [i \in 1..(n - 0) |-> mem[BurstLoc(Req(p).loc, 0 + i - 1)]]]
    <3>1. rd'.total \div 2 = n /\ rd'.received \div 2 = 0
      BY <1>4, <1>5
    <3>2. BurstBar' = [id |-> buf'.id,
                       words |-> [i \in 1..((rd'.total \div 2) - (rd'.received \div 2)) |->
                                    mem'[BurstLoc(buf'.loc, (rd'.received \div 2) + i - 1)]]]
      BY <1>1 DEF BurstBar
    <3>3. buf'.id = p /\ buf'.loc = Req(p).loc
      BY <1>2
    <3>4. mem' = mem
      BY <1>2
    <3>5. QED
      BY <3>1, <3>2, <3>3, <3>4
  <2>2. n - 0 = n /\ \A i \in 1..n : 0 + i - 1 = i - 1
    BY <1>3
  <2>3. [i \in 1..(n - 0) |-> mem[BurstLoc(Req(p).loc, 0 + i - 1)]]
          = [i \in 1..n |-> mem[BurstLoc(Req(p).loc, i - 1)]]
    BY <2>2
  <2>4. QED
    BY <2>1, <2>3
<1>11. Atomic!PerformRead(p)
  <2>1. BurstBar.words = <<>>
    BY <1>2 DEF Atomic!NoBurst
  <2>2. BurstBar' = [id |-> p, words |-> [i \in 1..Atomic!BurstLength(Atomic!Req(p)) |->
                        StoreBar[Atomic!BurstLoc(Atomic!Req(p).loc, i - 1)]]]
    BY <1>2, <1>10, SameOperators DEF n
  <2>3. ShownBar' = [Atomic!Silent EXCEPT !.ready = {p}]
    BY <1>2, SilentReady
  <2>4. p \in Atomic!Requesting /\ ~Atomic!Req(p).wr
    BY <1>1, <1>2, SameOperators
  <2>5. QED
    BY <1>9, <2>1, <2>2, <2>3, <2>4 DEF Atomic!PerformRead
<1>12. QED
  BY <1>2, <1>8, <1>11 DEF Atomic!Next

-----------------------------------------------------------------------------
(* Reading.                                                                 *)

\* The dwords still to come.
LEMMA SomeWords ==
  ASSUME NEW S, NEW k \in Nat, k > 0, NEW w \in [1..k -> S]
  PROVE  w \in Seq(S) /\ Len(w) = k /\ w # <<>>
<1>1. \A m \in Nat : [1..m -> S] \subseteq Seq(S)
  BY SeqDef
<1>2. w \in Seq(S)
  BY <1>1
<1>3. Len(w) = k
  BY <1>2, LenProperties
<1>4. QED
  BY <1>2, <1>3

\* k dwords of the burst at l, from the gth on.
WordsFrom(m, l, g, k) == [i \in 1..k |-> m[BurstLoc(l, g + i - 1)]]

LEMMA WordsToCome ==
  ASSUME NEW m \in [Locs -> Dwords], NEW l \in Locs, NEW g \in Nat, NEW k \in Nat
  PROVE  /\ WordsFrom(m, l, g, k) \in [1..k -> Dwords]
         /\ \A i \in 1..k : WordsFrom(m, l, g, k)[i] = m[BurstLoc(l, g + i - 1)]
<1>1. \A i \in 1..k : g + i - 1 \in Nat
  OBVIOUS
<1>2. \A i \in 1..k : BurstLoc(l, g + i - 1) \in Locs
  BY <1>1, BurstLocs
<1>3. \A i \in 1..k : m[BurstLoc(l, g + i - 1)] \in Dwords
  BY <1>2
<1>4. QED
  BY <1>3 DEF WordsFrom

LEMMA ReadFacts ==
  ASSUME IInv, DataInv, Read
  PROVE  /\ Types /\ ReadingInv /\ Counting /\ Bringing /\ Pairing /\ state = "READ"
         /\ ChipsSample /\ PortsMove(out.ready) /\ UNCHANGED <<wr_halfs, rmw>>
         /\ dq_r' = (IF DqOut # <<>> THEN DqOut ELSE Head(dq_pipe))
         /\ Total = rd.total /\ Issued = rd.issued /\ Received = rd.received
         /\ rd' = [total |-> rd.total,
                   issued |-> (IF Issues THEN rd.issued + 1 ELSE rd.issued),
                   received |-> (IF Captures THEN rd.received + 1 ELSE rd.received),
                   lo16 |-> (IF ~Captures THEN rd.lo16 ELSE IF rd.received % 2 = 1 THEN <<0, 0>> ELSE dq_r)]
         /\ Issues => \E ap : pins' = ReadHalf(HalfLoc(Issued), HalfNo(Issued), ap)
         /\ out' = IF Captures /\ rd.received % 2 = 1
                   THEN [ready |-> {}, resp |-> TRUE, done |-> ReceiveIn = 1, word |-> rd.lo16 \o dq_r]
                   ELSE Quiet
         /\ ReceiveIn = 1 => state' = "IDLE" /\ buf' = Released(buf.id)
         /\ ReceiveIn # 1 => state' = "READ" /\ cycle' = NextCycle /\ buf' = buf
         /\ ReceiveIn = 1 <=> Captures /\ rd.received + 1 = rd.total
<1>1. /\ Types /\ ReadingInv /\ Counting /\ state = "READ" /\ Bringing /\ Pairing
      /\ ChipsSample /\ PortsMove(out.ready)
      /\ dq_r' = (IF DqOut # <<>> THEN DqOut ELSE Head(dq_pipe))
      /\ UNCHANGED <<wr_halfs, rmw>>
  BY DEF IInv, Read, Edge, ReadingInv, DataInv
<1>2. Total = rd.total /\ Issued = rd.issued /\ Received = rd.received
  BY <1>1 DEF Total, Issued, Received
<1>3. ReceiveIn = 1 <=> Captures /\ rd.received + 1 = rd.total
  BY <1>1, <1>2, CaptureOnTime
<1> DEFINE lo16 == IF ~Captures THEN rd.lo16 ELSE IF rd.received % 2 = 1 THEN <<0, 0>> ELSE dq_r
           last == Captures /\ rd.received + 1 = rd.total
<1>4. /\ rd' = [rd EXCEPT !.issued = IF Issues THEN rd.issued + 1 ELSE rd.issued,
                          !.received = IF Captures THEN rd.received + 1 ELSE rd.received,
                          !.lo16 = lo16]
      /\ out' = IF Captures /\ rd.received % 2 = 1
                THEN [ready |-> {}, resp |-> TRUE, done |-> last, word |-> rd.lo16 \o dq_r]
                ELSE Quiet
      /\ last => state' = "IDLE" /\ buf' = Released(buf.id)
      /\ ~last => state' = state /\ cycle' = NextCycle /\ buf' = buf
      /\ pins' = IF ~Issues THEN Nop
                 ELSE ReadHalf(BurstLoc(buf.loc, rd.issued \div 2),
                               1 + (rd.issued % 2), rd.issued = rd.total - 1)
  BY <1>2 DEF Read, Issues, Captures
<1>5. Issues => \E ap : pins' = ReadHalf(HalfLoc(Issued), HalfNo(Issued), ap)
  BY <1>1, <1>2, <1>4 DEF HalfLoc, HalfNo
<1> HIDE DEF lo16
<1>6. rd' = [total |-> rd.total,
             issued |-> (IF Issues THEN rd.issued + 1 ELSE rd.issued),
             received |-> (IF Captures THEN rd.received + 1 ELSE rd.received), lo16 |-> lo16]
  BY <1>1, <1>4 DEF Types
<1>7. last = (ReceiveIn = 1)
  BY <1>3
<1> HIDE DEF last
<1>8. QED
  BY <1>1, <1>2, <1>3, <1>4, <1>5, <1>6, <1>7 DEF lo16

\* Nothing is written while a read is under way.
LEMMA ReadingKeeps ==
  ASSUME Types, ReadingInv, ChipsSample
  PROVE  mem' = mem
<1>1. pins.cmd # "WR"
  BY ReadPins DEF Aimed, BankActivate, Nop
<1>2. QED
  BY <1>1, MemoryKept

LEMMA ReadCounts ==
  ASSUME IInv, DataInv, Read, ReceiveIn # 1
  PROVE  Counts /\ ReceiveIn > 1
<1>1. ReceiveIn \in Nat /\ ReceiveIn >= 1
  BY ReadFacts, CaptureOnTime DEF Counting
<1>2. Total' = Total /\ cycle' = NextCycle
  BY ReadFacts DEF Total
<1>3. /\ Issued' = Issued + (IF Issues THEN 1 ELSE 0)
      /\ Received' = Received + (IF Captures THEN 1 ELSE 0)
  <2>1. Issued \in Nat /\ Received \in Nat
    BY ReadFacts DEF Counting
  <2>2. /\ Issued' = (IF Issues THEN Issued + 1 ELSE Issued)
        /\ Received' = (IF Captures THEN Received + 1 ELSE Received)
    BY ReadFacts DEF Issued, Received
  <2>3. QED
    BY <2>1, <2>2
<1>4. QED
  BY <1>1, <1>2, <1>3 DEF Counts

LEMMA ReadKeepsData ==
  ASSUME IInv, DataInv, Read
  PROVE  DataInv' /\ StoreBar' = StoreBar /\ mem' = mem
<1>1. mem' = mem
  BY ReadFacts, ReadingKeeps
<1>2. StoreBar' = StoreBar
  BY <1>1, ReadFacts DEF StoreBar, Writing
<1>3. CASE ReceiveIn = 1
  <2>1. state' = "IDLE" /\ buf' = Released(buf.id)
    BY <1>3, ReadFacts
  <2>2. buf'.din \in Dwords /\ buf'.be \subseteq Lanes
    BY <2>1, GeometryAssumption DEF Released, ZeroDword, Dwords
  <2>3. QED
    BY <1>1, <1>2, <2>1, <2>2 DEF DataInv, Writing
<1>4. CASE ReceiveIn # 1
  <2>1. Counts /\ ReceiveIn > 1
    BY <1>4, ReadCounts
  <2>2. state' = state /\ buf' = buf /\ rmw' = rmw /\ state = "READ"
    BY <1>4, ReadFacts
  <2>3. Bringing'
    BY <2>1, <2>2, ReadFacts, BringingStep
  <2>4. Pairing'
    <3>1. rd'.total = rd.total /\ rd.total = 2 * (rd.total \div 2) /\ rd.received \in Nat
      BY ReadFacts DEF Pairing, Counting
    <3>2. CASE ~Captures
      <4>1. rd'.received = rd.received /\ rd'.lo16 = rd.lo16
        BY <3>2, ReadFacts
      <4>2. rd.received % 2 = 1 => rd.lo16 = Fetched(rd.received - 1)
        BY ReadFacts DEF Pairing
      <4>3. rd'.received % 2 = 1 => rd'.lo16 = Fetched(rd.received - 1)'
        BY <1>1, <2>2, <4>1, <4>2 DEF Fetched, HalfLoc, HalfNo, MergeHalf
      <4>4. QED
        BY <3>1, <4>3 DEF Pairing
    <3>3. CASE Captures
      <4>1. rd'.received = rd.received + 1
        BY <3>3, ReadFacts
      <4>2. CASE rd.received % 2 = 1
        <5>1. rd'.received % 2 # 1
          BY <3>1, <4>1, <4>2, Parity
        <5>2. QED
          BY <3>1, <5>1 DEF Pairing
      <4>3. CASE rd.received % 2 # 1
        <5>1. rd'.lo16 = dq_r
          BY <3>3, <4>3, ReadFacts
        <5>2. dq_r = Fetched(rd.received)
          BY <3>3, ReadFacts, CapturesDue
        <5>3. rd'.received - 1 = rd.received
          BY <3>1, <4>1
        <5>4. rd'.lo16 = Fetched(rd.received - 1)'
          BY <1>1, <2>2, <5>1, <5>2, <5>3 DEF Fetched, HalfLoc, HalfNo, MergeHalf
        <5>5. QED
          BY <3>1, <5>4 DEF Pairing
      <4>4. QED
        BY <4>2, <4>3
    <3>4. QED
      BY <3>2, <3>3
  <2>5. QED
    BY <1>1, <1>2, <2>2, <2>3, <2>4 DEF DataInv, Writing
<1>5. QED
  BY <1>3, <1>4

\* The words to come lose their first.
LEMMA OneWordLess ==
  ASSUME NEW S, NEW s \in Seq(S), NEW t \in Seq(S), NEW m \in Nat, Len(s) = m + 1, Len(t) = m,
         \A i \in 1..m : t[i] = s[i + 1]
  PROVE  t = Tail(s)
<1>1. s # <<>>
  OBVIOUS
<1>2. Tail(s) \in Seq(S) /\ Len(Tail(s)) = m /\ \A i \in 1..m : Tail(s)[i] = s[i + 1]
  BY <1>1, HeadTailProperties
<1>3. QED
  BY <1>2, SeqEqual

\* The second half of a dword comes: the abstract memory responds.
LEMMA Responds ==
  ASSUME IInv, DataInv, Read, Captures, rd.received % 2 = 1
  PROVE  Atomic!Next
<1> DEFINE n == rd.total \div 2
           g == rd.received \div 2
           now == BurstBar.words
<1>1. /\ rd.total \in Nat /\ rd.received \in Nat /\ rd.received < rd.total /\ rd.total = 2 * n
      /\ state = "READ" /\ Types /\ mem \in [Locs -> Dwords]
  <2>1. rd.total \in Nat /\ rd.received \in 0..rd.total /\ rd.issued \in 0..rd.total
        /\ rd.received < rd.issued
    BY ReadFacts DEF Counting, Captures
  <2>2. rd.total = 2 * n /\ state = "READ" /\ Types /\ mem \in [Locs -> Dwords]
    BY ReadFacts DEF Pairing, DataInv
  <2>3. QED
    BY <2>1, <2>2
<1>2. /\ n \in Nat /\ g \in Nat /\ rd.received = 2 * g + 1 /\ g < n
      /\ (rd.received + 1) \div 2 = g + 1
      /\ (rd.received - 1) \div 2 = g /\ (rd.received - 1) % 2 = 0
  <2>1. n \in Nat /\ g \in Nat /\ rd.received = 2 * g + 1 /\ (rd.received + 1) \div 2 = g + 1
    BY <1>1, Parity
  <2>2. g < n
    BY <1>1, <2>1
  <2>3. (rd.received - 1) \div 2 = g /\ (rd.received - 1) % 2 = 0
    <3>1. rd.received - 1 = 2 * g
      BY <2>1
    <3>2. (2 * g) \div 2 = g /\ (2 * g) % 2 = 0
      BY <2>1, Parity
    <3>3. QED
      BY <3>1, <3>2
  <2>4. QED
    BY <2>1, <2>2, <2>3
<1> HIDE DEF n, g
<1>3. /\ BurstBar = [id |-> buf.id, words |-> now]
      /\ now \in Seq(Dwords) /\ Len(now) = n - g /\ now # <<>>
      /\ \A i \in 1..(n - g) : now[i] = mem[BurstLoc(buf.loc, g + i - 1)]
  <2>1. BurstBar = [id |-> buf.id,
                    words |-> [i \in 1..(n - g) |-> mem[BurstLoc(buf.loc, g + i - 1)]]]
    BY <1>1 DEF BurstBar, n, g
  <2>2. now = WordsFrom(mem, buf.loc, g, n - g) /\ buf.loc \in Locs
    BY <1>1, <2>1 DEF Types, WordsFrom
  <2> HIDE DEF now
  <2>3. n - g \in Nat /\ n - g > 0
    BY <1>2
  <2>4. /\ now \in [1..(n - g) -> Dwords]
        /\ \A i \in 1..(n - g) : now[i] = mem[BurstLoc(buf.loc, g + i - 1)]
    <3>1. /\ WordsFrom(mem, buf.loc, g, n - g) \in [1..(n - g) -> Dwords]
          /\ \A i \in 1..(n - g) :
               WordsFrom(mem, buf.loc, g, n - g)[i] = mem[BurstLoc(buf.loc, g + i - 1)]
      <4>1. mem \in [Locs -> Dwords] /\ buf.loc \in Locs /\ g \in Nat /\ n - g \in Nat
        BY <1>1, <1>2, <2>2, <2>3
      <4>2. QED
        BY <4>1, WordsToCome
    <3>2. now = WordsFrom(mem, buf.loc, g, n - g)
      BY <2>2
    <3>3. QED
      BY <3>1, <3>2
  <2>5. now \in Seq(Dwords) /\ Len(now) = n - g /\ now # <<>>
    BY <2>3, <2>4, SomeWords
  <2>6. QED
    BY <2>1, <2>4, <2>5 DEF now
<1>4. mem' = mem /\ StoreBar' = StoreBar /\ rd'.total = rd.total /\ rd'.received = rd.received + 1
  BY ReadKeepsData, ReadFacts
\* the word
<1>5. Head(now) = mem[BurstLoc(buf.loc, g)]
  <2>1. Head(now) = now[1] /\ 1 \in 1..(n - g) /\ g + 1 - 1 = g
    BY <1>2, <1>3
  <2>2. QED
    BY <1>3, <2>1
<1>6. rd.lo16 \o dq_r = Head(now)
  <2>1. rd.lo16 = Fetched(rd.received - 1) /\ dq_r = Fetched(rd.received)
    BY ReadFacts, CapturesDue DEF Pairing
  <2>2. Fetched(rd.received - 1) = HalfOf(mem[BurstLoc(buf.loc, g)], 1)
    BY <1>1, <1>2 DEF Fetched, HalfLoc, HalfNo
  <2>3. Fetched(rd.received) = HalfOf(mem[BurstLoc(buf.loc, g)], 2)
    BY <1>1 DEF Fetched, HalfLoc, HalfNo, g
  <2>4. mem[BurstLoc(buf.loc, g)] \in Dwords
    BY <1>1, <1>2, BurstLocs DEF Types
  <2>5. QED
    BY <1>5, <2>1, <2>2, <2>3, <2>4, TwoHalves
<1> HIDE DEF now
<1>7. ReceiveIn = 1 <=> Len(now) = 1
  <2>1. ReceiveIn = 1 <=> rd.received + 1 = rd.total
    BY ReadFacts
  <2>2. rd.received + 1 = rd.total <=> n - g = 1
    BY <1>1, <1>2 DEF n
  <2>3. QED
    BY <1>3, <2>1, <2>2
<1>8. out' = [ready |-> {}, resp |-> TRUE, done |-> ReceiveIn = 1, word |-> Head(now)]
      /\ buf'.id = buf.id
  <2>1. buf'.id = buf.id
    BY ReadFacts DEF Released
  <2>2. QED
    BY <1>6, <2>1, ReadFacts
<1>9. ShownBar' = [ready |-> {}, resp |-> {BurstBar.id}, word |-> Head(now), done |-> Len(now) = 1]
  <2>1. /\ out'.ready = {} /\ out'.resp = TRUE /\ out'.done = (Len(now) = 1)
        /\ out'.word = Head(now) /\ buf'.id = BurstBar.id
    BY <1>3, <1>7, <1>8
  <2>2. QED
    BY <2>1 DEF ShownBar
<1>10. BurstBar' = IF Len(now) = 1 THEN Atomic!NoBurst ELSE [BurstBar EXCEPT !.words = Tail(@)]
  <2>1. CASE ReceiveIn = 1
    <3>1. state' = "IDLE"
      BY <2>1, ReadFacts
    <3>2. QED
      BY <1>7, <2>1, <3>1 DEF BurstBar, Atomic!NoBurst
  <2>2. CASE ReceiveIn # 1
    <3> DEFINE next == WordsFrom(mem, buf.loc, g + 1, n - (g + 1))
    <3>1. state' = "READ" /\ buf' = buf
      BY <2>2, ReadFacts
    <3>2. rd'.total \div 2 = n /\ rd'.received \div 2 = g + 1
      BY <1>2, <1>4 DEF n
    <3>3. BurstBar' = [id |-> buf.id, words |-> next]
      <4>1. BurstBar' = [id |-> buf'.id,
                         words |-> [i \in 1..((rd'.total \div 2) - (rd'.received \div 2)) |->
                                      mem'[BurstLoc(buf'.loc, (rd'.received \div 2) + i - 1)]]]
        BY <3>1 DEF BurstBar
      <4>2. QED
        BY <1>4, <3>1, <3>2, <4>1 DEF WordsFrom
    <3>4. g + 1 < n
      BY <1>2, <1>3, <1>7, <2>2
    <3>5. /\ next \in Seq(Dwords) /\ Len(next) = n - (g + 1)
          /\ \A i \in 1..(n - (g + 1)) : next[i] = mem[BurstLoc(buf.loc, (g + 1) + i - 1)]
      <4>1. n - (g + 1) \in Nat /\ n - (g + 1) > 0 /\ g + 1 \in Nat
        BY <1>2, <3>4
      <4>2. buf.loc \in Locs
        BY <1>1 DEF Types
      <4>3. /\ next \in [1..(n - (g + 1)) -> Dwords]
            /\ \A i \in 1..(n - (g + 1)) : next[i] = mem[BurstLoc(buf.loc, (g + 1) + i - 1)]
        BY <1>1, <4>1, <4>2, WordsToCome
      <4> HIDE DEF next
      <4>4. next \in Seq(Dwords) /\ Len(next) = n - (g + 1)
        BY <4>1, <4>3, SomeWords
      <4>5. QED
        BY <4>3, <4>4
    <3> HIDE DEF next
    <3>6. next = Tail(now)
      <4>1. n - (g + 1) \in Nat /\ Len(now) = (n - (g + 1)) + 1
        BY <1>2, <1>3, <3>4
      <4>2. \A i \in 1..(n - (g + 1)) : next[i] = now[i + 1]
        <5>1. \A i \in 1..(n - (g + 1)) : i + 1 \in 1..(n - g) /\ (g + 1) + i - 1 = g + (i + 1) - 1
          BY <1>2, <3>4
        <5>2. QED
          BY <1>3, <3>5, <5>1
      <4>3. QED
        BY <1>3, <3>5, <4>1, <4>2, OneWordLess
    <3>7. QED
      BY <1>3, <1>7, <2>2, <3>3, <3>6
  <2>3. QED
    BY <2>1, <2>2
<1>11. Atomic!Respond
  BY <1>3, <1>4, <1>9, <1>10 DEF Atomic!Respond, now
<1>12. QED
  BY <1>11, ReadFacts, SamePorts DEF Atomic!Next

LEMMA ReadStepData ==
  ASSUME IInv, DataInv, Read
  PROVE  DataInv' /\ Atomic!Next
<1>1. CASE Captures /\ rd.received % 2 = 1
  BY <1>1, Responds, ReadKeepsData
<1>2. CASE ~(Captures /\ rd.received % 2 = 1)
  <2>1. out' = Quiet /\ PortsMove(out.ready) /\ state = "READ"
    BY <1>2, ReadFacts
  <2>2. rd.total \in Nat /\ rd.received \in Nat /\ rd.total = 2 * (rd.total \div 2)
    BY ReadFacts DEF Counting, Pairing
  <2>3. ReceiveIn # 1
    <3>1. Captures => (rd.received + 1) % 2 = 1
      BY <1>2, <2>2, Parity
    <3>2. rd.total % 2 = 0
      BY <2>2, Parity
    <3>3. QED
      BY <3>1, <3>2, ReadFacts
  <2>4. state' = "READ" /\ buf' = buf /\ rd'.total = rd.total
    BY <2>3, ReadFacts
  <2>5. rd'.received \div 2 = rd.received \div 2
    <3>1. CASE Captures
      <4>1. rd'.received = rd.received + 1
        BY <3>1, ReadFacts
      <4>2. QED
        BY <1>2, <2>2, <3>1, <4>1, Parity
    <3>2. CASE ~Captures
      BY <3>2, ReadFacts
    <3>3. QED
      BY <3>1, <3>2
  <2>6. BurstBar' = BurstBar
    BY <2>1, <2>4, <2>5, ReadKeepsData DEF BurstBar
  <2>7. QED
    BY <2>1, <2>6, ReadKeepsData, Pauses
<1>3. QED
  BY <1>1, <1>2


-----------------------------------------------------------------------------
(* Merging: the bytes that are not written are the ones the chips hold.     *)

\* What has come of the old dword when this clock is over.
Gathered ==
  LET h == MergeHalf(rmw.received)
  IN  IF Captures THEN WithHalf(rmw.old, h, dq_r, LanesOf(h)) ELSE rmw.old

LEMMA MergeFacts ==
  ASSUME IInv, DataInv, MergeRead
  PROVE  /\ Types /\ ReadingInv /\ Counting /\ Bringing /\ Fetching /\ state = "RMW_READ"
         /\ ChipsSample /\ PortsMove(out.ready) /\ UNCHANGED wr_halfs /\ out' = Quiet
         /\ dq_r' = (IF DqOut # <<>> THEN DqOut ELSE Head(dq_pipe))
         /\ Total = Cardinality(rmw.halfs) /\ Issued = rmw.issued /\ Received = rmw.received
         /\ rmw' = [halfs |-> rmw.halfs,
                    issued |-> (IF Issues THEN rmw.issued + 1 ELSE rmw.issued),
                    received |-> (IF Captures THEN rmw.received + 1 ELSE rmw.received),
                    old |-> (IF ReceiveIn = 1 THEN ZeroDword ELSE Gathered)]
         /\ Issues => \E ap : pins' = ReadHalf(HalfLoc(Issued), HalfNo(Issued), ap)
         /\ ReceiveIn = 1 =>
              /\ state' = "RMW_ACT"
              /\ buf' = [id |-> buf.id, loc |-> buf.loc,
                         din |-> Merge(Gathered, buf.din, buf.be), be |-> Covered]
         /\ ReceiveIn # 1 => state' = "RMW_READ" /\ cycle' = NextCycle /\ buf' = buf
         /\ ReceiveIn = 1 <=> Captures /\ rmw.received + 1 = Total
<1>1. /\ Types /\ ReadingInv /\ Counting /\ state = "RMW_READ" /\ Bringing /\ Fetching
      /\ ChipsSample /\ PortsMove(out.ready) /\ out' = Quiet
      /\ dq_r' = (IF DqOut # <<>> THEN DqOut ELSE Head(dq_pipe))
      /\ UNCHANGED wr_halfs
  BY DEF IInv, MergeRead, Edge, ReadingInv, DataInv
<1>2. Total = Cardinality(rmw.halfs) /\ Issued = rmw.issued /\ Received = rmw.received
  BY <1>1 DEF Total, Issued, Received
<1>3. ReceiveIn = 1 <=> Captures /\ rmw.received + 1 = Total
  BY <1>1, <1>2, CaptureOnTime
<1> DEFINE last == Captures /\ rmw.received + 1 = Cardinality(rmw.halfs)
<1>4. /\ rmw' = [rmw EXCEPT !.issued = IF Issues THEN rmw.issued + 1 ELSE rmw.issued,
                            !.received = IF Captures THEN rmw.received + 1 ELSE rmw.received,
                            !.old = IF last THEN ZeroDword ELSE Gathered]
      /\ buf' = IF last THEN [buf EXCEPT !.din = Merge(Gathered, buf.din, buf.be),
                                         !.be = Covered]
                ELSE buf
      /\ last => state' = "RMW_ACT"
      /\ ~last => state' = state /\ cycle' = NextCycle
      /\ pins' = IF ~Issues THEN Nop
                 ELSE ReadHalf(buf.loc, MergeHalf(rmw.issued),
                               rmw.issued = Cardinality(rmw.halfs) - 1)
  BY <1>2 DEF MergeRead, Issues, Captures, Gathered, Covered
<1>5. Issues => \E ap : pins' = ReadHalf(HalfLoc(Issued), HalfNo(Issued), ap)
  BY <1>1, <1>2, <1>4 DEF HalfLoc, HalfNo
<1>6. last = (ReceiveIn = 1)
  BY <1>2, <1>3
<1> HIDE DEF last
<1>7. rmw' = [halfs |-> rmw.halfs,
              issued |-> (IF Issues THEN rmw.issued + 1 ELSE rmw.issued),
              received |-> (IF Captures THEN rmw.received + 1 ELSE rmw.received),
              old |-> (IF ReceiveIn = 1 THEN ZeroDword ELSE Gathered)]
  BY <1>1, <1>4, <1>6 DEF Types
<1>8. ReceiveIn = 1 =>
        buf' = [id |-> buf.id, loc |-> buf.loc,
                din |-> Merge(Gathered, buf.din, buf.be), be |-> Covered]
  BY <1>1, <1>4, <1>6 DEF Types
<1>9. QED
  BY <1>1, <1>2, <1>3, <1>4, <1>5, <1>6, <1>7, <1>8

\* A half of one dword put into another.
LEMMA HalfPut ==
  ASSUME NEW w \in Dwords, NEW m \in Dwords, NEW k \in Halves
  PROVE  LET r == WithHalf(w, k, HalfOf(m, k), LanesOf(k))
         IN  /\ r \in Dwords
             /\ \A i \in LanesOf(k) : r[i] = m[i]
             /\ \A i \in Lanes \ LanesOf(k) : r[i] = w[i]
<1> DEFINE r == WithHalf(w, k, HalfOf(m, k), LanesOf(k))
<1>1. r = [i \in Lanes |-> IF i \in LanesOf(k) THEN HalfOf(m, k)[i - (2 * k - 2)] ELSE w[i]]
  BY DEF WithHalf
<1> HIDE DEF r
<1>2. \A i \in LanesOf(k) : i \in Lanes /\ HalfOf(m, k)[i - (2 * k - 2)] = m[i]
  <2>1. k \in {1, 2}
    BY TwoHalves
  <2>2. \A i \in LanesOf(k) : i \in Lanes /\ i - (2 * k - 2) \in Halves /\ 2 * k - 2 + (i - (2 * k - 2)) = i
    BY <2>1, TwoHalves
  <2>3. QED
    BY <2>2 DEF HalfOf
<1>3. (\A i \in LanesOf(k) : r[i] = m[i]) /\ \A i \in Lanes \ LanesOf(k) : r[i] = w[i]
  BY <1>1, <1>2
<1>4. \A i \in Lanes : r[i] \in Bytes
  BY <1>3 DEF Dwords
<1>5. r \in Dwords
  BY <1>1, <1>4 DEF Dwords
<1>6. QED
  BY <1>3, <1>5 DEF r

LEMMA Gathers ==
  ASSUME IInv, DataInv, MergeRead
  PROVE  /\ Gathered \in Dwords
         /\ \A n \in 0..(rmw'.received - 1) : \A i \in LanesOf(MergeHalf(n)) :
              Gathered[i] = mem[buf.loc][i]
<1>1. /\ rmw.old \in Dwords /\ mem[buf.loc] \in Dwords
      /\ \A n \in 0..(rmw.received - 1) : \A i \in LanesOf(MergeHalf(n)) :
           rmw.old[i] = mem[buf.loc][i]
  BY MergeFacts DEF Fetching, DataInv, Types
<1>2. rmw.received \in Nat
  BY MergeFacts DEF Counting
<1>3. CASE ~Captures
  <2>1. Gathered = rmw.old /\ rmw'.received = rmw.received
    BY <1>3, MergeFacts DEF Gathered
  <2>2. QED
    BY <1>1, <2>1
<1>4. CASE Captures
  <2> DEFINE k == MergeHalf(rmw.received)
  <2>1. dq_r = HalfOf(mem[buf.loc], k)
    <3>1. dq_r = Fetched(rmw.received)
      BY <1>4, MergeFacts, CapturesDue
    <3>2. QED
      BY <3>1, MergeFacts DEF Fetched, HalfLoc, HalfNo
  <2>2. k \in Halves
    <3>1. rmw.halfs \in {Halves, {1}, {2}} /\ Types
      BY MergeFacts DEF Types, Fetching
    <3>2. rmw.received \in 0..(Cardinality(rmw.halfs) - 1)
      <4>1. rmw.received < Total /\ Total \in Nat
        BY <1>2, <1>4, MergeFacts DEF Captures, Counting
      <4>2. QED
        BY <1>2, <4>1, MergeFacts
    <3>3. k \in rmw.halfs
      BY <3>1, <3>2, MergeHalves
    <3>4. QED
      BY <3>1, <3>3, TwoHalves
  <2>3. Gathered = WithHalf(rmw.old, k, HalfOf(mem[buf.loc], k), LanesOf(k))
    BY <1>4, <2>1 DEF Gathered
  <2> HIDE DEF k
  <2>4. /\ Gathered \in Dwords
        /\ \A i \in LanesOf(k) : Gathered[i] = mem[buf.loc][i]
        /\ \A i \in Lanes \ LanesOf(k) : Gathered[i] = rmw.old[i]
    <3>1. rmw.old \in Dwords /\ mem[buf.loc] \in Dwords
      BY <1>1
    <3> DEFINE r == WithHalf(rmw.old, k, HalfOf(mem[buf.loc], k), LanesOf(k))
    <3>2. /\ r \in Dwords
          /\ \A i \in LanesOf(k) : r[i] = mem[buf.loc][i]
          /\ \A i \in Lanes \ LanesOf(k) : r[i] = rmw.old[i]
      BY <2>2, <3>1, HalfPut
    <3>3. QED
      BY <2>3, <3>2
  <2>5. ASSUME NEW n \in 0..rmw.received, NEW i \in LanesOf(MergeHalf(n))
        PROVE  Gathered[i] = mem[buf.loc][i]
    <3>1. CASE n = rmw.received
      BY <2>4, <2>5, <3>1 DEF k
    <3>2. CASE n # rmw.received
      <4>1. n \in 0..(rmw.received - 1)
        BY <1>2, <3>2
      <4>2. rmw.old[i] = mem[buf.loc][i]
        BY <1>1, <4>1
      <4>3. CASE i \in LanesOf(k)
        BY <2>4, <4>3
      <4>4. CASE i \in Lanes \ LanesOf(k)
        BY <2>4, <4>2, <4>4
      <4>5. i \in Lanes
        <5>1. n \in 0..(Cardinality(rmw.halfs) - 1) /\ rmw.halfs \in {Halves, {1}, {2}} /\ Types
          <6>1. rmw.received < Total /\ Total \in Nat
            BY <1>2, <1>4, MergeFacts DEF Captures, Counting
          <6>2. rmw.halfs \in {Halves, {1}, {2}} /\ Types
            BY MergeFacts DEF Types, Fetching
          <6>3. QED
            BY <1>2, <6>1, <6>2, MergeFacts
        <5>2. MergeHalf(n) \in rmw.halfs
          BY <5>1, MergeHalves
        <5>3. MergeHalf(n) \in {1, 2}
          BY <5>1, <5>2, TwoHalves
        <5>4. QED
          BY <5>3, TwoHalves
      <4>6. QED
        BY <4>3, <4>4, <4>5
    <3>3. QED
      BY <3>1, <3>2
  <2>6. rmw'.received - 1 = rmw.received
    BY <1>2, <1>4, MergeFacts
  <2>7. QED
    BY <2>4, <2>5, <2>6
<1>5. QED
  BY <1>3, <1>4

\* Merging before the write and merging in the store are the same.
LEMMA MergedTwice ==
  ASSUME NEW m \in Dwords, NEW o \in Dwords, NEW d \in Dwords,
         NEW cov \in SUBSET Lanes, NEW be \in SUBSET cov, \A i \in cov : o[i] = m[i]
  PROVE  Merge(o, d, be) \in Dwords /\ Merge(m, Merge(o, d, be), cov) = Merge(m, d, be)
<1> DEFINE n == Merge(o, d, be)
<1>1. n = [i \in Lanes |-> IF i \in be THEN d[i] ELSE o[i]]
  BY DEF Merge
<1>2. n \in Dwords
  BY <1>1 DEF Dwords
<1>3. \A i \in Lanes : n[i] = IF i \in be THEN d[i] ELSE o[i]
  BY <1>1
<1> HIDE DEF n
<1>4. \A i \in Lanes : (IF i \in cov THEN n[i] ELSE m[i]) = (IF i \in be THEN d[i] ELSE m[i])
  BY <1>3
<1>5. Merge(m, n, cov) = Merge(m, d, be)
  BY <1>4 DEF Merge
<1>6. QED
  BY <1>2, <1>5 DEF n

LEMMA MergeCounts ==
  ASSUME IInv, DataInv, MergeRead, ReceiveIn # 1
  PROVE  Counts /\ ReceiveIn > 1
<1>1. ReceiveIn \in Nat /\ ReceiveIn >= 1
  BY MergeFacts, CaptureOnTime DEF Counting
<1>2. Issued \in Nat /\ Received \in Nat
  BY MergeFacts DEF Counting
<1>3. state' = "RMW_READ" /\ cycle' = NextCycle /\ rmw'.halfs = rmw.halfs
  BY MergeFacts
<1>4. Total' = Total
  BY <1>3, MergeFacts DEF Total
<1>5. /\ Issued' = (IF Issues THEN Issued + 1 ELSE Issued)
      /\ Received' = (IF Captures THEN Received + 1 ELSE Received)
  BY <1>3, MergeFacts DEF Issued, Received
<1>6. QED
  BY <1>1, <1>2, <1>3, <1>4, <1>5 DEF Counts

LEMMA MergeReadData ==
  ASSUME IInv, DataInv, MergeRead
  PROVE  DataInv' /\ Atomic!Next
<1>1. /\ mem' = mem /\ mem \in [Locs -> Dwords] /\ buf.loc \in Locs
      /\ buf.din \in Dwords /\ buf.be \subseteq Lanes /\ buf.be \subseteq Covered
  BY MergeFacts, ReadingKeeps DEF DataInv, Writing, Types
<1>2. Covered' = Covered /\ Covered \subseteq Lanes
  <2>1. wr_halfs \in {Halves, {1}, {2}} /\ wr_halfs' = wr_halfs
    BY MergeFacts DEF Types
  <2>2. Covered \subseteq Lanes
    BY <2>1, CoveredBytes, TwoHalves DEF Covered
  <2>3. QED
    BY <2>1, <2>2 DEF Covered
<1>3. CASE ReceiveIn = 1
  <2>1. /\ state' = "RMW_ACT"
        /\ buf' = [id |-> buf.id, loc |-> buf.loc,
                   din |-> Merge(Gathered, buf.din, buf.be), be |-> Covered]
    BY <1>3, MergeFacts
  <2>2. Gathered \in Dwords /\ \A i \in Covered : Gathered[i] = mem[buf.loc][i]
    <3>1. rmw'.received - 1 = Cardinality(rmw.halfs) - 1 /\ rmw.halfs = wr_halfs
      <4>1. Captures /\ rmw.received + 1 = Cardinality(rmw.halfs)
        BY <1>3, MergeFacts
      <4>2. QED
        BY <4>1, MergeFacts DEF Fetching
    <3>2. \A h \in wr_halfs : \E n \in 0..(rmw'.received - 1) : MergeHalf(n) = h
      <4>1. rmw.halfs \in {Halves, {1}, {2}} /\ Types
        BY MergeFacts DEF Types, Fetching
      <4>2. \A h \in rmw.halfs : \E n \in 0..(Cardinality(rmw.halfs) - 1) : MergeHalf(n) = h
        BY <4>1, MergeHalves
      <4>3. QED
        BY <3>1, <4>2
    <3>3. \A h \in wr_halfs : \A i \in LanesOf(h) : Gathered[i] = mem[buf.loc][i]
      BY <3>2, Gathers
    <3>4. QED
      BY <3>3, Gathers DEF Covered
  <2>3. buf'.din \in Dwords
        /\ Merge(mem[buf.loc], buf'.din, buf'.be) = Merge(mem[buf.loc], buf.din, buf.be)
    <3>1. mem[buf.loc] \in Dwords /\ buf'.din = Merge(Gathered, buf.din, buf.be) /\ buf'.be = Covered
      BY <1>1, <2>1
    <3>2. /\ Merge(Gathered, buf.din, buf.be) \in Dwords
          /\ Merge(mem[buf.loc], Merge(Gathered, buf.din, buf.be), Covered)
               = Merge(mem[buf.loc], buf.din, buf.be)
      <4>1. /\ mem[buf.loc] \in Dwords /\ Gathered \in Dwords /\ buf.din \in Dwords
            /\ Covered \in SUBSET Lanes /\ buf.be \in SUBSET Covered
            /\ \A i \in Covered : Gathered[i] = mem[buf.loc][i]
        BY <1>1, <1>2, <2>2, <3>1
      <4> DEFINE old == mem[buf.loc]
                 din == buf.din
                 be == buf.be
                 got == Gathered
                 covered == Covered
      <4>2. /\ old \in Dwords /\ got \in Dwords /\ din \in Dwords
            /\ covered \in SUBSET Lanes /\ be \in SUBSET covered
            /\ \A i \in covered : got[i] = old[i]
        BY <4>1
      <4> HIDE DEF old, din, be, got, covered
      <4>3. Merge(got, din, be) \in Dwords /\ Merge(old, Merge(got, din, be), covered) = Merge(old, din, be)
        BY <4>2, MergedTwice
      <4>4. QED
        BY <4>3 DEF old, din, be, got, covered
    <3>3. QED
      BY <3>1, <3>2
  <2>4. buf'.loc = buf.loc /\ buf'.be = Covered'
    BY <1>2, <2>1
  <2>5. StoreBar' = StoreBar
    BY <1>1, <2>1, <2>3, <2>4, MergeFacts DEF StoreBar, Writing
  <2>6. BurstBar' = BurstBar
    BY <2>1, MergeFacts DEF BurstBar
  <2>7. DataInv'
    BY <1>1, <1>2, <2>1, <2>3, <2>4 DEF DataInv, Writing
  <2>8. QED
    BY <2>5, <2>6, <2>7, MergeFacts, Pauses
<1>4. CASE ReceiveIn # 1
  <2>1. state' = "RMW_READ" /\ state = "RMW_READ" /\ cycle' = NextCycle /\ buf' = buf
        /\ rmw'.halfs = rmw.halfs /\ rmw'.old = Gathered
    BY <1>4, MergeFacts
  <2>2. Counts /\ ReceiveIn > 1
    BY <1>4, MergeCounts
  <2>3. Bringing'
    BY <2>1, <2>2, MergeFacts, BringingStep
  <2>4. Fetching'
    <3>1. \A n : MergeHalf(n)' = MergeHalf(n)
      BY <2>1 DEF MergeHalf
    <3>2. rmw'.halfs = wr_halfs' /\ rmw'.old \in Dwords
      BY <2>1, MergeFacts, Gathers DEF Fetching
    <3>3. \A n \in 0..(rmw'.received - 1) : \A i \in LanesOf(MergeHalf(n)') :
            rmw'.old[i] = mem'[buf'.loc][i]
      BY <1>1, <2>1, <3>1, Gathers
    <3>4. QED
      BY <3>2, <3>3 DEF Fetching
  <2>5. DataInv'
    BY <1>1, <1>2, <2>1, <2>3, <2>4 DEF DataInv, Writing
  <2>6. StoreBar' = StoreBar /\ BurstBar' = BurstBar
    BY <1>1, <2>1 DEF StoreBar, BurstBar, Writing
  <2>7. QED
    BY <2>5, <2>6, MergeFacts, Pauses
<1>5. QED
  BY <1>3, <1>4

-----------------------------------------------------------------------------
(* Writing: half by half, the chips come to hold the abstract store.        *)

LEMMA MergeActivateData ==
  ASSUME IInv, DataInv, MergeActivate
  PROVE  DataInv' /\ Atomic!Next
<1>1. /\ state = "RMW_ACT" /\ state' = "WRITE" /\ cycle' = 1 /\ out' = Quiet
      /\ UNCHANGED <<buf, wr_halfs>> /\ ChipsSample /\ PortsMove(out.ready)
  BY DEF MergeActivate, Edge
<1>2. mem' = mem
  <2>1. pins.cmd # "WR"
    BY <1>1 DEF IInv, Settling, Nop
  <2>2. QED
    BY <1>1, <2>1, MemoryKept
<1>3. Storing'
  <2>1. ~(T_RCD < cycle') /\ \A h \in wr_halfs' : ~(cycle' >= TakenAt(h)')
    BY <1>1, Numbers DEF TakenAt
  <2>2. QED
    BY <2>1 DEF Storing
<1>4. DataInv'
  BY <1>1, <1>2, <1>3 DEF DataInv, Writing, Covered
<1>5. StoreBar' = StoreBar /\ BurstBar' = BurstBar
  BY <1>1, <1>2 DEF StoreBar, BurstBar, Writing
<1>6. QED
  BY <1>1, <1>4, <1>5, Pauses

\* The bytes of one half of a dword replaced, those that are enabled.
HalfWritten(r, w, d, k, be) ==
  /\ r \in Dwords /\ Merge(r, d, be) = Merge(w, d, be)
  /\ \A i \in Lanes : r[i] = IF i \in LanesOf(k) \cap be THEN d[i] ELSE w[i]

LEMMA HalfStored ==
  ASSUME NEW w \in Dwords, NEW d \in Dwords, NEW k \in Halves, NEW be \in SUBSET Lanes
  PROVE  HalfWritten(WithHalf(w, k, HalfOf(d, k), LanesOf(k) \cap be), w, d, k, be)
<1> DEFINE r == WithHalf(w, k, HalfOf(d, k), LanesOf(k) \cap be)
<1>1. r = [i \in Lanes |-> IF i \in LanesOf(k) \cap be THEN HalfOf(d, k)[i - (2 * k - 2)] ELSE w[i]]
  BY DEF WithHalf
<1> HIDE DEF r
<1>2. \A i \in LanesOf(k) : HalfOf(d, k)[i - (2 * k - 2)] = d[i]
  <2>1. k \in {1, 2}
    BY TwoHalves
  <2>2. \A i \in LanesOf(k) : i - (2 * k - 2) \in Halves /\ 2 * k - 2 + (i - (2 * k - 2)) = i
    BY <2>1, TwoHalves
  <2>3. QED
    BY <2>2 DEF HalfOf
<1>3. \A i \in Lanes : r[i] = IF i \in LanesOf(k) \cap be THEN d[i] ELSE w[i]
  BY <1>1, <1>2
<1>4. r \in Dwords
  <2>1. \A i \in Lanes : r[i] \in Bytes
    BY <1>3 DEF Dwords
  <2>2. QED
    BY <1>1, <2>1 DEF Dwords
<1>5. Merge(r, d, be) = Merge(w, d, be)
  <2>1. \A i \in Lanes : (IF i \in be THEN d[i] ELSE r[i]) = (IF i \in be THEN d[i] ELSE w[i])
    BY <1>3
  <2>2. QED
    BY <2>1 DEF Merge
<1>6. QED
  BY <1>3, <1>4, <1>5 DEF r, HalfWritten

LEMMA WriteFacts ==
  ASSUME IInv, DataInv, Write
  PROVE  /\ Types /\ WritingInv /\ Storing /\ state = "WRITE" /\ WritesNext
         /\ ChipsSample /\ PortsMove(out.ready) /\ UNCHANGED wr_halfs /\ out' = Quiet
         /\ mem \in [Locs -> Dwords] /\ buf.loc \in Locs
         /\ buf.din \in Dwords /\ buf.be \in SUBSET Lanes
         /\ buf.be \subseteq Covered /\ (HasDqm \/ buf.be = Covered)
         /\ cycle = WriteLength => state' = "IDLE" /\ buf' = Released(buf.id)
         /\ cycle # WriteLength => state' = "WRITE" /\ cycle' = NextCycle /\ buf' = buf
<1>1. /\ state = "WRITE" /\ WritesNext
      /\ ChipsSample /\ PortsMove(out.ready) /\ UNCHANGED wr_halfs /\ out' = Quiet
      /\ cycle = WriteLength => state' = "IDLE" /\ buf' = Released(buf.id)
      /\ cycle # WriteLength => state' = state /\ cycle' = NextCycle /\ buf' = buf
  BY DEF Write, Edge, WritesNext
<1>2. Types /\ WritingInv /\ buf.loc \in Locs
  BY <1>1 DEF IInv, Types
<1>3. /\ Storing /\ mem \in [Locs -> Dwords] /\ buf.din \in Dwords /\ buf.be \in SUBSET Lanes
      /\ buf.be \subseteq Covered /\ (HasDqm \/ buf.be = Covered)
  BY <1>1 DEF DataInv, Writing
<1>4. QED
  BY <1>1, <1>2, <1>3

\* The clock in which the chips take a half has it on the pins.
OnPins == T_RCD < cycle /\ cycle <= LastWrite + 1

LEMMA HalfSets == Halves = {1, 2} /\ Halves # {1} /\ Halves # {2} /\ 1 \notin {2}
  BY DEF Halves

LEMMA Halving ==
  ASSUME IInv, DataInv, Write
  PROVE  /\ OnPins => HalfOnPins \in wr_halfs /\ HalfOnPins \in Halves
         /\ \A h \in wr_halfs : cycle + 1 = TakenAt(h) => OnPins /\ HalfOnPins = h
         /\ \A h \in wr_halfs : TakenAt(h) \in Nat /\ TakenAt(h) <= LastWrite + 2
         /\ cycle \in 1..31 /\ LastWrite \in 1..30 /\ WriteLength \in 1..30
         /\ WriteLength >= LastWrite + 1 /\ cycle <= WriteLength
<1>1. wr_halfs \in {Halves, {1}, {2}} /\ Halves = {1, 2} /\ Halves # {1} /\ Halves # {2}
  <2>1. wr_halfs \in {Halves, {1}, {2}}
    BY WriteFacts DEF Types
  <2>2. QED
    BY <2>1, HalfSets
<1>2. /\ cycle \in 1..31 /\ LastWrite \in 1..30 /\ WriteLength \in 1..30
      /\ WriteLength >= LastWrite + 1 /\ cycle <= WriteLength
  BY WriteFacts, WriteCycles, WritingPins, Numbers DEF WritingInv
<1>3. CASE wr_halfs = Halves
  <2>1. LastWrite = T_RCD + 1 /\ 1 \in wr_halfs
    BY <1>1, <1>3 DEF LastWrite
  <2>2. TakenAt(1) = T_RCD + 2 /\ TakenAt(2) = T_RCD + 3
    BY <1>3 DEF TakenAt
  <2>3. HalfOnPins = IF cycle = T_RCD + 1 THEN 1 ELSE 2
    BY <2>1 DEF HalfOnPins
  <2>4. QED
    BY <1>1, <1>2, <1>3, <2>1, <2>2, <2>3, Numbers DEF OnPins
<1>4. CASE wr_halfs = {1}
  <2>1. LastWrite = T_RCD /\ 1 \in wr_halfs /\ wr_halfs # Halves
    BY <1>1, <1>4 DEF LastWrite
  <2>2. TakenAt(1) = T_RCD + 2
    BY <2>1 DEF TakenAt
  <2>3. HalfOnPins = IF cycle = T_RCD + 1 THEN 1 ELSE 2
    BY <2>1 DEF HalfOnPins
  <2>4. QED
    BY <1>1, <1>2, <1>4, <2>1, <2>2, <2>3, Numbers DEF OnPins
<1>5. CASE wr_halfs = {2}
  <2>1. LastWrite = T_RCD /\ 1 \notin wr_halfs /\ wr_halfs # Halves
    BY <1>1, <1>5 DEF LastWrite
  <2>2. TakenAt(2) = T_RCD + 2
    BY <2>1 DEF TakenAt
  <2>3. HalfOnPins = 2
    BY <2>1 DEF HalfOnPins
  <2>4. QED
    BY <1>1, <1>2, <1>5, <2>1, <2>2, <2>3, Numbers DEF OnPins
<1>6. QED
  BY <1>1, <1>3, <1>4, <1>5

\* What a clock of WRITE does to the chips' contents.
LEMMA Stores ==
  ASSUME IInv, DataInv, Write
  PROVE  /\ mem' \in [Locs -> Dwords]
         /\ \A l \in Locs : l # buf.loc => mem'[l] = mem[l]
         /\ Merge(mem'[buf.loc], buf.din, buf.be) = Merge(mem[buf.loc], buf.din, buf.be)
         /\ \A i \in Lanes : mem'[buf.loc][i] =
              IF OnPins /\ i \in LanesOf(HalfOnPins) \cap buf.be THEN buf.din[i]
              ELSE mem[buf.loc][i]
<1>1. CASE ~OnPins
  <2>1. pins = Nop \/ pins = BankActivate(buf.loc)
    <3>1. cycle \in 1..31 /\ LastWrite \in 1..30 /\ T_RCD \in 1..15
      BY Halving, Numbers
    <3>2. ~(cycle > T_RCD /\ cycle <= LastWrite) /\ ~(cycle > T_RCD /\ cycle = LastWrite + 1)
      BY <1>1, <3>1 DEF OnPins
    <3>3. QED
      BY <3>2, WriteFacts, WritingPins
  <2>2. pins.cmd # "WR"
    BY <2>1 DEF Nop, BankActivate
  <2>3. mem' = mem
    BY <2>2, WriteFacts, MemoryKept
  <2>4. QED
    BY <1>1, <2>3, WriteFacts
<1>2. CASE OnPins
  <2> DEFINE k == HalfOnPins
             r == WithHalf(mem[buf.loc], k, HalfOf(buf.din, k), LanesOf(k) \cap buf.be)
  <2>1. /\ Aimed("WR") /\ pins.col = buf.loc.col /\ pins.half = k
        /\ pins.mask = IF HasDqm THEN LanesOf(k) \ buf.be ELSE {}
        /\ pins.dq = HalfOf(buf.din, k)
    BY <1>2, WriteFacts DEF Storing, OnPins, WritingInv
  <2>2. Accessed = buf.loc
    <3>1. InUse.row = buf.loc.row
      <4>1. 1 < cycle /\ cycle <= LastWrite + 1
        BY <1>2, Halving, Numbers DEF OnPins
      <4>2. QED
        BY <4>1, WriteFacts DEF WritingInv
    <3>2. Accessed = [chip |-> buf.loc.chip, bank |-> buf.loc.bank,
                      row |-> buf.loc.row, col |-> buf.loc.col]
      BY <2>1, <3>1 DEF Accessed, Aimed, InUse
    <3>3. QED
      BY <3>2, WriteFacts DEF Locs
  <2>3. LanesOf(k) \ pins.mask = LanesOf(k) \cap buf.be
    <3>1. LanesOf(k) \subseteq Covered
      BY <1>2, Halving DEF Covered
    <3>2. CASE HasDqm
      BY <2>1, <3>2
    <3>3. CASE ~HasDqm
      BY <2>1, <3>1, <3>3, WriteFacts
    <3>4. QED
      BY <3>2, <3>3
  <2>4. mem' = [mem EXCEPT ![buf.loc] = r]
    <3>1. mem' = [mem EXCEPT ![Accessed] =
                    WithHalf(mem[Accessed], pins.half, pins.dq, LanesOf(pins.half) \ pins.mask)]
      BY <2>1, WriteFacts DEF ChipsSample, Aimed
    <3>2. QED
      BY <2>1, <2>2, <2>3, <3>1
  <2>5. /\ r \in Dwords
        /\ Merge(r, buf.din, buf.be) = Merge(mem[buf.loc], buf.din, buf.be)
        /\ \A i \in Lanes : r[i] = IF i \in LanesOf(k) \cap buf.be THEN buf.din[i]
                                   ELSE mem[buf.loc][i]
    <3>1. mem[buf.loc] \in Dwords /\ buf.din \in Dwords /\ buf.be \in SUBSET Lanes /\ k \in Halves
      BY <1>2, WriteFacts, Halving
    <3> HIDE DEF k
    <3>2. HalfWritten(r, mem[buf.loc], buf.din, k, buf.be)
      BY <3>1, HalfStored
    <3>3. QED
      BY <3>2 DEF HalfWritten
  <2> HIDE DEF r
  <2>6. mem'[buf.loc] = r /\ (\A l \in Locs : l # buf.loc => mem'[l] = mem[l])
        /\ mem' \in [Locs -> Dwords]
    <3>1. mem \in [Locs -> Dwords] /\ buf.loc \in Locs
      BY WriteFacts
    <3>2. QED
      BY <2>4, <2>5, <3>1
  <2>7. QED
    BY <1>2, <2>5, <2>6
<1>3. QED
  BY <1>1, <1>2

\* The halves whose time has come are in the chips.
LEMMA Stored ==
  ASSUME IInv, DataInv, Write
  PROVE  \A h \in wr_halfs : cycle + 1 >= TakenAt(h) =>
           \A i \in LanesOf(h) \cap buf.be : mem'[buf.loc][i] = buf.din[i]
<1> SUFFICES ASSUME NEW h \in wr_halfs, cycle + 1 >= TakenAt(h),
                    NEW i \in LanesOf(h) \cap buf.be
             PROVE  mem'[buf.loc][i] = buf.din[i]
  OBVIOUS
<1>1. i \in Lanes
  BY WriteFacts
<1>2. CASE cycle >= TakenAt(h)
  <2>1. mem[buf.loc][i] = buf.din[i]
    BY <1>2, WriteFacts DEF Storing
  <2>2. QED
    BY <1>1, <2>1, Stores
<1>3. CASE ~(cycle >= TakenAt(h))
  <2>1. cycle + 1 = TakenAt(h)
    BY <1>3, Halving
  <2>2. OnPins /\ HalfOnPins = h
    BY <2>1, Halving
  <2>3. QED
    BY <1>1, <2>2, Stores
<1>4. QED
  BY <1>2, <1>3

LEMMA NextHalf ==
  ASSUME IInv, DataInv, Write, cycle' = cycle + 1, buf' = buf, OnPins'
  PROVE  (/\ pins.col = buf.loc.col /\ pins.half = HalfOnPins
          /\ pins.mask = (IF HasDqm THEN LanesOf(HalfOnPins) \ buf.be ELSE {})
          /\ pins.dq = HalfOf(buf.din, HalfOnPins))'
<1>1. wr_halfs \in {Halves, {1}, {2}} /\ Halves = {1, 2} /\ Halves # {1} /\ Halves # {2}
      /\ wr_halfs' = wr_halfs /\ cycle \in 1..31 /\ WritesNext
  <2>1. wr_halfs \in {Halves, {1}, {2}} /\ wr_halfs' = wr_halfs /\ WritesNext
    BY WriteFacts DEF Types
  <2>2. cycle \in 1..31
    BY Halving
  <2>3. QED
    BY <2>1, <2>2, HalfSets
<1>2. LastWrite' = LastWrite /\ T_RCD <= cycle /\ cycle <= LastWrite
  <2>1. LastWrite' = LastWrite /\ LastWrite \in 1..30
    BY <1>1, Halving DEF LastWrite
  <2>2. QED
    BY <1>1, <2>1, Numbers DEF OnPins
<1>3. HalfOnPins' = IF cycle = T_RCD /\ 1 \in wr_halfs THEN 1 ELSE 2
  BY <1>1, Numbers DEF HalfOnPins
<1>4. \E ap : pins' = WriteHalf(HalfOnPins', ap)
  <2>1. CASE cycle = T_RCD /\ 1 \in wr_halfs
    BY <1>1, <1>3, <2>1 DEF WritesNext
  <2>2. CASE ~(cycle = T_RCD /\ 1 \in wr_halfs)
    <3>1. (cycle = T_RCD /\ wr_halfs = {2}) \/ (cycle = T_RCD + 1 /\ wr_halfs = Halves)
      <4>1. CASE wr_halfs = Halves
        BY <1>1, <1>2, <2>2, <4>1, Numbers DEF LastWrite
      <4>2. CASE wr_halfs = {1}
        BY <1>1, <1>2, <2>2, <4>2, Numbers DEF LastWrite
      <4>3. CASE wr_halfs = {2}
        <5>1. LastWrite = T_RCD
          BY <1>1, <4>3 DEF LastWrite
        <5>2. cycle \in 1..31
          BY <1>1
        <5>3. cycle = T_RCD
          BY <1>2, <5>1, <5>2, Numbers
        <5>4. QED
          BY <4>3, <5>3
      <4>4. QED
        BY <1>1, <4>1, <4>2, <4>3
    <3>2. pins' = WriteHalf(2, TRUE)
      BY <1>1, <2>2, <3>1 DEF WritesNext
    <3>3. QED
      BY <1>3, <2>2, <3>2
  <2>3. QED
    BY <2>1, <2>2
<1>5. PICK ap : pins' = WriteHalf(HalfOnPins', ap)
  BY <1>4
<1>6. /\ pins'.col = buf.loc.col /\ pins'.half = HalfOnPins'
      /\ pins'.mask = (IF HasDqm THEN LanesOf(HalfOnPins') \ buf.be ELSE {})
      /\ pins'.dq = HalfOf(buf.din, HalfOnPins')
  BY <1>5 DEF WriteHalf, HalfOf
<1>7. QED
  BY <1>6

LEMMA WriteData ==
  ASSUME IInv, DataInv, Write
  PROVE  DataInv' /\ Atomic!Next
<1>1. /\ mem' \in [Locs -> Dwords] /\ mem \in [Locs -> Dwords] /\ buf.loc \in Locs
      /\ \A l \in Locs : l # buf.loc => mem'[l] = mem[l]
      /\ Merge(mem'[buf.loc], buf.din, buf.be) = Merge(mem[buf.loc], buf.din, buf.be)
  BY Stores, WriteFacts
<1>2. [mem' EXCEPT ![buf.loc] = Merge(mem'[buf.loc], buf.din, buf.be)] = StoreBar
  <2>1. StoreBar = [mem EXCEPT ![buf.loc] = Merge(mem[buf.loc], buf.din, buf.be)]
    BY WriteFacts DEF StoreBar, Writing
  <2>2. QED
    BY <1>1, <2>1
<1>3. CASE cycle = WriteLength
  <2>1. state' = "IDLE" /\ buf' = Released(buf.id)
    BY <1>3, WriteFacts
  <2>2. \A h \in wr_halfs : cycle + 1 >= TakenAt(h)
    BY <1>3, Halving
  <2>3. \A i \in buf.be : mem'[buf.loc][i] = buf.din[i]
    BY <2>2, Stored, WriteFacts DEF Covered
  <2>4. Merge(mem'[buf.loc], buf.din, buf.be) = mem'[buf.loc]
    <3>1. mem'[buf.loc] \in Dwords
      BY <1>1
    <3>2. Merge(mem'[buf.loc], buf.din, buf.be) = [i \in Lanes |-> mem'[buf.loc][i]]
      BY <2>3 DEF Merge
    <3>3. QED
      BY <3>1, <3>2 DEF Dwords
  <2>5. StoreBar' = StoreBar
    <3>1. StoreBar' = mem'
      BY <2>1 DEF StoreBar, Writing
    <3>2. QED
      BY <1>1, <1>2, <2>4, <3>1
  <2>6. BurstBar' = BurstBar
    BY <2>1, WriteFacts DEF BurstBar
  <2>7. buf'.din \in Dwords /\ buf'.be \subseteq Lanes
    BY <2>1, GeometryAssumption DEF Released, ZeroDword, Dwords
  <2>8. DataInv'
    BY <1>1, <2>1, <2>7 DEF DataInv, Writing
  <2>9. QED
    BY <2>5, <2>6, <2>8, WriteFacts, Pauses
<1>4. CASE cycle # WriteLength
  <2>1. /\ state' = "WRITE" /\ state = "WRITE" /\ buf' = buf /\ wr_halfs' = wr_halfs
        /\ cycle' = cycle + 1
    BY <1>4, WriteFacts, Halving DEF NextCycle
  <2>2. StoreBar' = StoreBar
    BY <1>2, <2>1 DEF StoreBar, Writing
  <2>3. BurstBar' = BurstBar
    BY <2>1 DEF BurstBar
  <2>4. Storing'
    <3>1. \A h \in wr_halfs' : cycle' >= TakenAt(h)' =>
            \A i \in LanesOf(h) \cap buf'.be : mem'[buf'.loc][i] = buf'.din[i]
      BY <2>1, Stored DEF TakenAt
    <3>2. OnPins' => (/\ pins.col = buf.loc.col /\ pins.half = HalfOnPins
                      /\ pins.mask = (IF HasDqm THEN LanesOf(HalfOnPins) \ buf.be ELSE {})
                      /\ pins.dq = HalfOf(buf.din, HalfOnPins))'
      BY <2>1, NextHalf
    <3>3. QED
      BY <3>1, <3>2 DEF Storing, OnPins
  <2>5. DataInv'
    BY <1>1, <2>1, <2>4, WriteFacts DEF DataInv, Writing, Covered
  <2>6. QED
    BY <2>2, <2>3, <2>5, WriteFacts, Pauses
<1>5. QED
  BY <1>3, <1>4

-----------------------------------------------------------------------------
(* The refinement.                                                          *)

LEMMA InitData == ASSUME Init PROVE DataInv /\ Atomic!Init
<1>1. /\ state = "INIT" /\ buf = Released(0) /\ mem = [l \in Locs |-> ZeroDword]
      /\ out = [ready |-> {}, resp |-> FALSE, done |-> FALSE, word |-> ZeroDword]
      /\ PortsIdle
  BY DEF Init
<1>2. ZeroDword \in Dwords
  BY GeometryAssumption DEF ZeroDword, Dwords
<1>3. DataInv
  BY <1>1, <1>2 DEF DataInv, Writing, Released
<1>4. StoreBar = mem /\ BurstBar = Atomic!NoBurst
  BY <1>1 DEF StoreBar, BurstBar, Writing, Atomic!NoBurst
<1>5. ShownBar = Atomic!Silent
  BY <1>1 DEF ShownBar, Atomic!Silent
<1>6. Atomic!PortsIdle
  BY <1>1 DEF PortsIdle, Atomic!PortsIdle
<1>7. QED
  BY <1>1, <1>3, <1>4, <1>5, <1>6, SameOperators DEF Atomic!Init

LEMMA StutterData == ASSUME DataInv, UNCHANGED vars PROVE DataInv' /\ UNCHANGED Atomic!vars
<1>1. /\ UNCHANGED <<state, cycle, buf, wr_halfs, rd, rmw, pins, dq_r, out>>
      /\ UNCHANGED <<mem, dq_pipe, port>>
  BY DEF vars, ctl_vars, chip_vars
<1>2. UNCHANGED <<Total, Issued, Received, ReceiveIn, Covered>>
  BY <1>1 DEF Total, Issued, Received, ReceiveIn, CaptureFrom, Covered
<1>3. \A n : /\ Fetched(n)' = Fetched(n) /\ HalfLoc(n)' = HalfLoc(n)
             /\ HalfNo(n)' = HalfNo(n) /\ MergeHalf(n)' = MergeHalf(n)
  BY <1>1, FetchedKept
<1>4. Bringing => Bringing'
  BY <1>1, <1>2, <1>3 DEF Bringing
<1>5. Pairing => Pairing'
  BY <1>1, <1>3 DEF Pairing
<1>6. Fetching => Fetching'
  BY <1>1, <1>3 DEF Fetching
<1>7. Storing => Storing'
  BY <1>1 DEF Storing, LastWrite, HalfOnPins, TakenAt
<1>8. DataInv'
  BY <1>1, <1>2, <1>4, <1>5, <1>6, <1>7 DEF DataInv, Writing
<1>9. UNCHANGED <<StoreBar, BurstBar, ShownBar>>
  BY <1>1 DEF StoreBar, BurstBar, ShownBar, Writing
<1>10. QED
  BY <1>1, <1>8, <1>9 DEF Atomic!vars

\* Every clock of the controller is a step of the abstract memory.
LEMMA StepData ==
  ASSUME IInv, DataInv, [Next]_vars
  PROVE  DataInv' /\ [Atomic!Next]_(Atomic!vars)
<1>1. CASE Next
  <2>1. CASE InitDone \/ Config \/ StartRefresh \/ Refresh \/ Idle
    BY <2>1, RestingSteps
  <2>2. CASE \E p \in Ports : AcceptWrite(p) \/ AcceptMerge(p) \/ AcceptRead(p)
    BY <2>2, AcceptWriteSteps, AcceptReadStepData
  <2>3. CASE Read \/ MergeRead \/ MergeActivate \/ Write
    BY <2>3, ReadStepData, MergeReadData, MergeActivateData, WriteData
  <2>4. QED
    BY <1>1, <2>1, <2>2, <2>3 DEF Next
<1>2. CASE UNCHANGED vars
  BY <1>2, StutterData
<1>3. QED
  BY <1>1, <1>2

\* The controller, its chips and its timing implement an atomic memory: whatever the
\* geometry, the requests and the timing that satisfies RowsRecover, with DQM pins or
\* without, every request takes effect in one step, when its ready pulse is given. A
\* write changes the enabled bytes of its dword and nothing else, although halves go
\* to the chips one at a time and a masked one is first read; a read returns the
\* dwords that were there when it was accepted, in order and to its own port
\* (src/src/memory/sdram.v: STATE_IDLE accepts, READ, RMW_READ, RMW_ACT and WRITE).
THEOREM AtomicMemoryImplemented == ASSUME RowsRecover PROVE Spec => ImplementsAtomicMemory
<1>1. Init => IInv /\ DataInv /\ Atomic!Init
  BY InitInv, InitData
<1>2. IInv /\ DataInv /\ [Next]_vars => IInv' /\ DataInv' /\ [Atomic!Next]_(Atomic!vars)
  BY Step, StepData
<1>3. QED
  BY <1>1, <1>2, PTL DEF Spec, ImplementsAtomicMemory, Atomic!Spec

-----------------------------------------------------------------------------
(* The refresh: what has become due waits for one access, and no longer.    *)

\* The clocks until the FSM is in IDLE.
Left ==
  CASE state = "WRITE" -> WriteLength - cycle + 1
    [] state = "READ" -> ReceiveIn
    [] state = "RMW_READ" -> ReceiveIn + 1 + WriteLength
    [] state = "RMW_ACT" -> 1 + WriteLength
    [] OTHER -> 0

\* ... at most: a burst of 15, or a write of both halves that reads them first.
LongestAccess ==
  LET merge == 3 + T_RCD + T_DAL
  IN  T_RCD + CAS + 1 + (IF merge > 30 THEN merge ELSE 30)

\* The period leaves room for the configuration before the first refresh, and the
\* counter's width for the longest access after one has become due. (That the
\* power of two which RefreshWrap chooses is a number is beyond the provers.)
RefreshFits ==
  /\ RefreshWrap \in Nat
  /\ 2 * (ConfigLength + 1) < REFRESH_CYCLES
  /\ REFRESH_CYCLES + 1 + LongestAccess < RefreshWrap

Serving == state \in {"IDLE", "RMW_ACT", "WRITE", "READ", "RMW_READ"}

RefreshInv ==
  /\ refresh_cnt \in Nat /\ need_refresh \in BOOLEAN
  /\ state = "INIT" => refresh_cnt = 0 /\ ~need_refresh
  /\ state = "CONFIG" =>
       ~need_refresh /\ refresh_cnt = 1 + (IF init_chip = 0 THEN 0 ELSE ConfigLength + 1) + cycle
  /\ state = "REFRESH" => refresh_cnt = cycle - 1 /\ (need_refresh => cycle = 1)
  /\ Serving =>
       /\ Left \in 0..LongestAccess
       /\ need_refresh => /\ REFRESH_CYCLES < refresh_cnt
                          /\ refresh_cnt + Left <= REFRESH_CYCLES + 1 + LongestAccess
       /\ ~need_refresh => refresh_cnt <= REFRESH_CYCLES

LEMMA Lengths ==
  ASSUME RefreshFits
  PROVE  /\ LongestAccess \in Nat /\ ConfigLength \in Nat /\ T_DAL \in Nat
         /\ LongestAccess >= T_RCD + CAS + 1 + 30
         /\ LongestAccess >= T_RCD + CAS + 1 + 3 + T_RCD + T_DAL
         /\ REFRESH_CYCLES \in Nat /\ REFRESH_CYCLES > T_RC + 1
         /\ REFRESH_CYCLES + 1 + LongestAccess < RefreshWrap /\ RefreshWrap \in Nat
         /\ 2 * (ConfigLength + 1) < REFRESH_CYCLES
<1>1. REFRESH_CYCLES \in Int
  BY TimingAssumption
<1>2. T_DAL = T_WR + T_RP /\ ConfigLength = T_RP + T_RC + T_RC + T_MRD
  BY DEF T_DAL, ConfigLength
<1>3. ConfigLength \in Nat /\ T_DAL \in Nat /\ ConfigLength >= T_RC
  BY <1>2, Numbers
<1>4. /\ LongestAccess \in Nat
      /\ LongestAccess >= T_RCD + CAS + 1 + 30
      /\ LongestAccess >= T_RCD + CAS + 1 + 3 + T_RCD + T_DAL
  BY <1>3, Numbers DEF LongestAccess
<1>5. 2 * (ConfigLength + 1) < REFRESH_CYCLES /\ RefreshWrap \in Nat
      /\ REFRESH_CYCLES + 1 + LongestAccess < RefreshWrap
  BY DEF RefreshFits
<1>6. QED
  BY <1>1, <1>3, <1>4, <1>5, Numbers

LEMMA SmallRemainder == ASSUME NEW n \in Nat, NEW m \in Nat, m < n PROVE m % n = m
  OBVIOUS

\* The counter does not come round.
LEMMA TimerStep ==
  ASSUME RefreshFits, refresh_cnt \in Nat, refresh_cnt + 1 < RefreshWrap,
         need_refresh \in BOOLEAN, RefreshTimer(FALSE)
  PROVE  /\ refresh_cnt' = refresh_cnt + 1 /\ refresh_cnt' \in Nat /\ need_refresh' \in BOOLEAN
         /\ refresh_cnt = 0 => ~need_refresh'
         /\ refresh_cnt # 0 =>
              (need_refresh' <=> need_refresh \/ refresh_cnt = REFRESH_CYCLES)
<1>1. (refresh_cnt + 1) % RefreshWrap = refresh_cnt + 1
  <2>1. RefreshWrap \in Nat /\ refresh_cnt + 1 \in Nat
    BY DEF RefreshFits
  <2>2. QED
    BY <2>1, SmallRemainder
<1>2. /\ refresh_cnt' = refresh_cnt + 1
      /\ need_refresh' = (IF refresh_cnt = 0 THEN FALSE
                          ELSE IF refresh_cnt = REFRESH_CYCLES THEN TRUE ELSE need_refresh)
  BY <1>1 DEF RefreshTimer
<1>3. /\ need_refresh' \in BOOLEAN
      /\ refresh_cnt = 0 => ~need_refresh'
      /\ refresh_cnt # 0 => (need_refresh' <=> need_refresh \/ refresh_cnt = REFRESH_CYCLES)
  BY <1>2, Zenon
<1>4. refresh_cnt' \in Nat
  BY <1>2
<1>5. QED
  BY <1>2, <1>3, <1>4, Zenon

\* A clock in which the FSM serves requests.
LEMMA ServingStep ==
  ASSUME RefreshFits, RefreshInv, Serving, Serving', RefreshTimer(FALSE),
         Left' \in 0..LongestAccess, ~need_refresh \/ Left' < Left
  PROVE  RefreshInv'
<1>1. /\ refresh_cnt \in Nat /\ need_refresh \in BOOLEAN /\ Left \in 0..LongestAccess
      /\ need_refresh => /\ REFRESH_CYCLES < refresh_cnt
                         /\ refresh_cnt + Left <= REFRESH_CYCLES + 1 + LongestAccess
      /\ ~need_refresh => refresh_cnt <= REFRESH_CYCLES
  BY DEF RefreshInv
<1>2. refresh_cnt + 1 < RefreshWrap
  <2>1. CASE need_refresh
    <3>1. Left' < Left
      BY <2>1
    <3>2. Left > 0
      BY <1>1, <3>1, Lengths
    <3>3. QED
      BY <1>1, <2>1, <3>2, Lengths
  <2>2. CASE ~need_refresh
    BY <1>1, <2>2, Lengths, Numbers
  <2>3. QED
    BY <2>1, <2>2
<1>3. /\ refresh_cnt' = refresh_cnt + 1 /\ refresh_cnt' \in Nat /\ need_refresh' \in BOOLEAN
      /\ refresh_cnt = 0 => ~need_refresh'
      /\ refresh_cnt # 0 =>
           (need_refresh' <=> need_refresh \/ refresh_cnt = REFRESH_CYCLES)
  BY <1>1, <1>2, TimerStep
<1>4. need_refresh' => /\ REFRESH_CYCLES < refresh_cnt'
                       /\ refresh_cnt' + Left' <= REFRESH_CYCLES + 1 + LongestAccess
  <2>1. CASE need_refresh
    <3>1. Left' < Left
      BY <2>1
    <3>2. QED
      BY <1>1, <1>3, <2>1, <3>1, Lengths
  <2>2. CASE ~need_refresh
    <3>1. need_refresh' => refresh_cnt = REFRESH_CYCLES
      BY <1>3, <2>2
    <3>2. QED
      BY <1>3, <3>1, Lengths
  <2>3. QED
    BY <2>1, <2>2
<1>5. ~need_refresh' => refresh_cnt' <= REFRESH_CYCLES
  <2>1. ~need_refresh' => refresh_cnt = 0 \/ (~need_refresh /\ refresh_cnt # REFRESH_CYCLES)
    BY <1>3
  <2>2. QED
    BY <1>1, <1>3, <2>1, Lengths, Numbers
<1>6. state' \notin {"INIT", "CONFIG", "REFRESH"}
  BY DEF Serving
<1>7. QED
  BY <1>3, <1>4, <1>5, <1>6 DEF RefreshInv

LEMMA WriteLengths ==
  ASSUME RefreshFits, Types
  PROVE  WriteLength \in 1..(T_RCD + T_DAL)
<1>1. LastWrite \in {T_RCD, T_RCD + 1} /\ WriteLength = LastWrite + T_DAL - 1 /\ T_DAL \in 2..30
  BY WriteCycles
<1>2. QED
  BY <1>1, Numbers

LEMMA InitRefresh == ASSUME Init PROVE RefreshInv
  BY DEF Init, RefreshInv, Serving

LEMMA StutterRefresh == ASSUME RefreshInv, UNCHANGED vars PROVE RefreshInv'
<1>1. UNCHANGED <<state, cycle, init_chip, wr_halfs, rd, rmw, refresh_cnt, need_refresh>>
  BY DEF vars, ctl_vars
<1>2. UNCHANGED <<Left, Serving>>
  BY <1>1 DEF Left, Serving, WriteLength, ReceiveIn, CaptureFrom, Total, Received
<1>3. QED
  BY <1>1, <1>2 DEF RefreshInv

LEMMA PowerUpRefresh ==
  ASSUME RefreshFits, IInv, RefreshInv, InitDone \/ Config
  PROVE  RefreshInv'
<1>1. CASE InitDone
  <2>1. /\ state = "INIT" /\ state' = "CONFIG" /\ cycle' = 0 /\ init_chip' = init_chip
        /\ RefreshTimer(FALSE)
    BY <1>1 DEF InitDone, Edge
  <2>2. init_chip = 0 /\ refresh_cnt = 0 /\ ~need_refresh /\ need_refresh \in BOOLEAN
    BY <2>1 DEF IInv, PoweringUp, RefreshInv
  <2>3. refresh_cnt' = 1 /\ ~need_refresh' /\ need_refresh' \in BOOLEAN
    <3>1. refresh_cnt \in Nat /\ refresh_cnt + 1 < RefreshWrap
      BY <2>2, Lengths
    <3>2. QED
      BY <2>1, <2>2, <3>1, TimerStep
  <2>4. QED
    BY <2>1, <2>2, <2>3 DEF RefreshInv, Serving
<1>2. CASE Config
  <2>1. state = "CONFIG" /\ cycle \in Nat /\ cycle <= ConfigLength /\ init_chip \in {0, 1}
    <3>1. state = "CONFIG"
      BY <1>2 DEF Config
    <3>2. Types /\ Configuring
      BY <3>1 DEF IInv
    <3>3. cycle \in Nat /\ init_chip \in {0, 1}
      <4>1. cycle \in 0..31 /\ init_chip \in Chips
        BY <3>2, Zenon DEF Types
      <4>2. Chips \subseteq {0, 1}
        BY Places
      <4>3. QED
        BY <4>1, <4>2
    <3>4. cycle <= ConfigLength
      BY <3>2 DEF Configuring
    <3>5. QED
      BY <3>1, <3>3, <3>4
  <2>2. /\ ~need_refresh /\ need_refresh \in BOOLEAN /\ refresh_cnt \in Nat
        /\ refresh_cnt = 1 + (IF init_chip = 0 THEN 0 ELSE ConfigLength + 1) + cycle
    BY <2>1 DEF RefreshInv
  <2>3. refresh_cnt # 0 /\ refresh_cnt < REFRESH_CYCLES /\ refresh_cnt + 1 < RefreshWrap
    BY <2>1, <2>2, Lengths
  <2>4. CASE cycle # ConfigLength
    <3>1. RefreshTimer(FALSE) /\ state' = "CONFIG" /\ init_chip' = init_chip /\ cycle' = cycle + 1
      <4>1. cycle # 31
        BY <2>1, <2>4, Numbers DEF ConfigLength
      <4>2. QED
        BY <1>2, <2>1, <2>4, <4>1 DEF Config, Edge, NextCycle
    <3>2. refresh_cnt' = refresh_cnt + 1 /\ ~need_refresh' /\ need_refresh' \in BOOLEAN
      BY <2>2, <2>3, <3>1, TimerStep
    <3>3. QED
      BY <2>1, <2>2, <3>1, <3>2, Lengths DEF RefreshInv, Serving
  <2>5. CASE cycle = ConfigLength /\ SdramSize = 3 /\ init_chip = 0
    <3>1. RefreshTimer(FALSE) /\ state' = "CONFIG" /\ init_chip' = 1 /\ cycle' = 0
      BY <1>2, <2>1, <2>5 DEF Config, Edge
    <3>2. refresh_cnt' = refresh_cnt + 1 /\ ~need_refresh' /\ need_refresh' \in BOOLEAN
      BY <2>2, <2>3, <3>1, TimerStep
    <3>3. QED
      BY <2>1, <2>2, <2>5, <3>1, <3>2, Lengths DEF RefreshInv, Serving
  <2>6. CASE cycle = ConfigLength /\ ~(SdramSize = 3 /\ init_chip = 0)
    <3>1. RefreshTimer(TRUE) /\ state' = "IDLE"
      BY <1>2, <2>1, <2>6 DEF Config, Edge
    <3>2. refresh_cnt' = 0 /\ ~need_refresh' /\ need_refresh' \in BOOLEAN
      <4>1. refresh_cnt # 0 /\ refresh_cnt # REFRESH_CYCLES
        BY <2>2, <2>3, Lengths
      <4>2. need_refresh' = need_refresh /\ refresh_cnt' = 0
        BY <3>1, <4>1 DEF RefreshTimer
      <4>3. QED
        BY <2>2, <4>2
    <3>3. Left' = 0
      BY <3>1 DEF Left
    <3>4. QED
      BY <3>1, <3>2, <3>3, Lengths DEF RefreshInv, Serving
  <2>7. QED
    BY <2>4, <2>5, <2>6
<1>3. QED
  BY <1>1, <1>2

LEMMA RefreshingRefresh ==
  ASSUME RefreshFits, IInv, RefreshInv, StartRefresh \/ Refresh
  PROVE  RefreshInv'
<1>1. CASE StartRefresh
  <2>1. /\ state = "IDLE" /\ need_refresh /\ state' = "REFRESH" /\ cycle' = 1
        /\ RefreshTimer(TRUE)
    BY <1>1 DEF StartRefresh, Edge
  <2>2. refresh_cnt \in Nat /\ refresh_cnt > REFRESH_CYCLES
    BY <2>1 DEF RefreshInv, Serving
  <2>3. refresh_cnt' = 0 /\ need_refresh' = TRUE
    <3>1. refresh_cnt # 0 /\ refresh_cnt # REFRESH_CYCLES
      BY <2>2, Lengths
    <3>2. need_refresh' = need_refresh /\ refresh_cnt' = 0
      BY <2>1, <3>1 DEF RefreshTimer
    <3>3. need_refresh \in BOOLEAN
      BY DEF RefreshInv
    <3>4. QED
      BY <2>1, <3>2, <3>3
  <2>4. QED
    BY <2>1, <2>3 DEF RefreshInv, Serving
<1>2. CASE Refresh
  <2>1. state = "REFRESH" /\ cycle \in 1..T_RC /\ RefreshTimer(FALSE)
    BY <1>2 DEF Refresh, Edge, IInv, Refreshing
  <2>2. /\ refresh_cnt \in Nat /\ need_refresh \in BOOLEAN
        /\ refresh_cnt = cycle - 1 /\ (need_refresh => cycle = 1)
    BY <2>1 DEF RefreshInv
  <2>3. refresh_cnt < REFRESH_CYCLES /\ refresh_cnt + 1 < RefreshWrap
    BY <2>1, <2>2, Lengths, Numbers
  <2>4. refresh_cnt' = cycle /\ ~need_refresh' /\ need_refresh' \in BOOLEAN
    BY <2>1, <2>2, <2>3, Lengths, TimerStep
  <2>5. CASE cycle = RefreshLength
    <3>1. state' = "IDLE"
      BY <1>2, <2>5 DEF Refresh
    <3>2. Left' = 0
      BY <3>1 DEF Left
    <3>3. cycle <= REFRESH_CYCLES
      BY <2>1, Lengths, Numbers
    <3>4. QED
      BY <2>1, <2>4, <3>1, <3>2, <3>3, Lengths DEF RefreshInv, Serving
  <2>6. CASE cycle # RefreshLength
    <3>1. state' = "REFRESH" /\ cycle' = NextCycle
      BY <1>2, <2>1, <2>6 DEF Refresh
    <3>2. cycle' - 1 = cycle
      BY <2>1, <3>1, Numbers DEF NextCycle
    <3>3. QED
      BY <2>1, <2>4, <3>1, <3>2 DEF RefreshInv, Serving
  <2>7. QED
    BY <2>5, <2>6
<1>3. QED
  BY <1>1, <1>2

LEMMA AcceptRefresh ==
  ASSUME RefreshFits, IInv, RefreshInv, NEW p \in Ports,
         AcceptWrite(p) \/ AcceptMerge(p) \/ AcceptRead(p)
  PROVE  RefreshInv'
<1>1. /\ state = "IDLE" /\ ~need_refresh /\ cycle' = 1 /\ RefreshTimer(FALSE)
      /\ p \in Requesting /\ Types
  BY DEF AcceptWrite, AcceptMerge, AcceptRead, Accept, MayAccept, Granted, Edge, IInv
<1>2. Req(p).burst \in 0..15 /\ Req(p).be \in SUBSET Lanes
  BY <1>1, Requested DEF Types
<1>3. CASE AcceptRead(p)
  <2>1. state' = "READ" /\ rd' = [rd EXCEPT !.total = 2 * BurstLength(Req(p)),
                                            !.issued = 0, !.received = 0]
    BY <1>3 DEF AcceptRead
  <2>2. rd'.total = 2 * BurstLength(Req(p)) /\ rd'.received = 0
    BY <1>1, <2>1 DEF Types
  <2>3. BurstLength(Req(p)) \in 1..15
    BY <1>2 DEF BurstLength
  <2>4. Left' = CaptureFrom - 1 + 2 * BurstLength(Req(p))
    <3>1. Left' = ReceiveIn'
      BY <2>1 DEF Left
    <3>2. Total' = 2 * BurstLength(Req(p)) /\ Received' = 0
      BY <2>1, <2>2 DEF Total, Received
    <3>3. QED
      BY <1>1, <2>3, <3>1, <3>2, Numbers DEF ReceiveIn, CaptureFrom
  <2>5. Left' \in 0..LongestAccess
    BY <2>3, <2>4, Lengths, Numbers DEF CaptureFrom
  <2>6. QED
    BY <1>1, <2>1, <2>5, ServingStep DEF Serving
<1>4. CASE AcceptWrite(p) \/ AcceptMerge(p)
  <2>1. /\ wr_halfs' = WriteHalves(Req(p).be) /\ WriteHalves(Req(p).be) \in {Halves, {1}, {2}}
        /\ Cardinality(WriteHalves(Req(p).be)) \in {1, 2}
    BY <1>2, <1>4, WrittenHalves DEF AcceptWrite, AcceptMerge
  <2>2. WriteLength' \in 1..(T_RCD + T_DAL)
    BY Lengths, Numbers DEF WriteLength, T_DAL
  <2>3. CASE AcceptWrite(p)
    <3>1. state' = "WRITE"
      BY <2>3 DEF AcceptWrite
    <3>2. Left' = WriteLength'
      <4>1. Left' = WriteLength' - 1 + 1
        BY <1>1, <3>1 DEF Left
      <4>2. T_RCD + T_DAL \in Nat
        BY Lengths, Numbers
      <4> DEFINE w == WriteLength'
      <4>3. w \in Int
        BY <2>2, <4>2
      <4> HIDE DEF w
      <4>4. w - 1 + 1 = w
        BY <4>3
      <4>5. QED
        BY <4>1, <4>4 DEF w
    <3>3. Left' \in 0..LongestAccess
      BY <2>2, <3>2, Lengths, Numbers
    <3>4. QED
      BY <1>1, <3>1, <3>3, ServingStep DEF Serving
  <2>4. CASE AcceptMerge(p)
    <3>1. state' = "RMW_READ" /\ rmw' = [halfs |-> WriteHalves(Req(p).be), issued |-> 0,
                                         received |-> 0, old |-> [i \in Lanes |-> 0]]
      BY <2>4 DEF AcceptMerge
    <3>2. Total' = Cardinality(WriteHalves(Req(p).be)) /\ Received' = 0
      BY <3>1 DEF Total, Received
    <3>3. Left' = CaptureFrom - 1 + Total' + 1 + WriteLength'
      <4>1. Left' = ReceiveIn' + 1 + WriteLength'
        BY <3>1 DEF Left
      <4>2. ReceiveIn' = CaptureFrom - 1 + Total'
        BY <1>1, <2>1, <3>2, Numbers DEF ReceiveIn, CaptureFrom
      <4>3. QED
        BY <4>1, <4>2
    <3>4. Left' \in 0..LongestAccess
      <4>1. Total' \in {1, 2} /\ CaptureFrom = T_RCD + CAS + 2
        BY <2>1, <3>2 DEF CaptureFrom
      <4> DEFINE w == WriteLength'
                 t == Total'
                 f == Left'
      <4>2. w \in 1..(T_RCD + T_DAL) /\ t \in {1, 2}
        BY <2>2, <4>1
      <4>3. f = CaptureFrom - 1 + t + 1 + w
        BY <3>3
      <4> HIDE DEF w, t, f
      <4>4. f \in 0..LongestAccess
        BY <4>1, <4>2, <4>3, Lengths, Numbers
      <4>5. QED
        BY <4>4 DEF f
    <3>5. QED
      BY <1>1, <3>1, <3>4, ServingStep DEF Serving
  <2>5. QED
    BY <1>4, <2>3, <2>4
<1>5. QED
  BY <1>3, <1>4

\* In an access every clock counts.
LEMMA AccessRefresh ==
  ASSUME RefreshFits, IInv, DataInv, RefreshInv, Idle \/ Read \/ MergeRead \/ MergeActivate \/ Write
  PROVE  RefreshInv'
<1>1. RefreshTimer(FALSE) /\ Serving /\ Types /\ Left \in 0..LongestAccess
  BY DEF Idle, Read, MergeRead, MergeActivate, Write, Edge, Serving, IInv, RefreshInv
<1>2. WriteLength \in 1..(T_RCD + T_DAL)
  BY <1>1, WriteLengths
<1>3. CASE Idle
  <2>1. state' = "IDLE" /\ ~need_refresh
    BY <1>3 DEF Idle
  <2>2. Left' \in 0..LongestAccess
    BY <2>1, Lengths DEF Left
  <2>3. QED
    BY <1>1, <2>1, <2>2, ServingStep DEF Serving
<1>4. ASSUME Serving', Left' \in Nat, Left' < Left PROVE RefreshInv'
  <2>1. Left' \in 0..LongestAccess
    BY <1>1, <1>4, Lengths
  <2>2. QED
    BY <1>1, <1>4, <2>1, ServingStep
<1>5. CASE Read
  <2>1. state = "READ" /\ Counting
    BY <1>5, ReadFacts
  <2>2. Left = ReceiveIn /\ ReceiveIn \in Nat
    BY <1>1, <2>1, CaptureOnTime DEF Left
  <2>3. CASE ReceiveIn = 1
    <3>1. state' = "IDLE"
      BY <1>5, <2>3, ReadFacts
    <3>2. Left' = 0
      BY <3>1 DEF Left
    <3>3. QED
      BY <1>4, <2>2, <2>3, <3>1, <3>2 DEF Serving
  <2>4. CASE ReceiveIn # 1
    <3>1. state' = "READ"
      BY <1>5, <2>4, ReadFacts
    <3>2. Counts /\ ReceiveIn > 1
      BY <1>5, <2>4, ReadCounts
    <3>3. ReceiveIn' = ReceiveIn - 1
      BY <1>1, <2>1, <3>2, CountingStep
    <3>4. Left' = ReceiveIn'
      BY <3>1 DEF Left
    <3>5. QED
      BY <1>4, <2>2, <3>1, <3>2, <3>3, <3>4 DEF Serving
  <2>5. QED
    BY <2>3, <2>4
<1>6. CASE MergeRead
  <2>1. state = "RMW_READ" /\ Counting /\ wr_halfs' = wr_halfs
    BY <1>6, MergeFacts
  <2>2. Left = ReceiveIn + 1 + WriteLength /\ ReceiveIn \in Nat
    BY <1>1, <2>1, CaptureOnTime DEF Left
  <2>3. WriteLength' = WriteLength
    BY <2>1 DEF WriteLength
  <2>4. CASE ReceiveIn = 1
    <3>1. state' = "RMW_ACT"
      BY <1>6, <2>4, MergeFacts
    <3>2. Left' = 1 + WriteLength
      BY <2>3, <3>1 DEF Left
    <3>3. QED
      BY <1>2, <1>4, <2>2, <2>4, <3>1, <3>2, Lengths, Numbers DEF Serving
  <2>5. CASE ReceiveIn # 1
    <3>1. state' = "RMW_READ"
      BY <1>6, <2>5, MergeFacts
    <3>2. Counts /\ ReceiveIn > 1
      BY <1>6, <2>5, MergeCounts
    <3>3. ReceiveIn' = ReceiveIn - 1
      BY <1>1, <2>1, <3>2, CountingStep
    <3>4. Left' = ReceiveIn' + 1 + WriteLength
      BY <2>3, <3>1 DEF Left
    <3>5. QED
      BY <1>2, <1>4, <2>2, <3>1, <3>2, <3>3, <3>4, Lengths, Numbers DEF Serving
  <2>6. QED
    BY <2>4, <2>5
<1>7. CASE MergeActivate
  <2>1. state = "RMW_ACT" /\ state' = "WRITE" /\ cycle' = 1 /\ wr_halfs' = wr_halfs
    BY <1>7 DEF MergeActivate
  <2>2. Left = 1 + WriteLength
    BY <2>1 DEF Left
  <2>3. Left' = WriteLength - 1 + 1
    BY <2>1 DEF Left, WriteLength
  <2>4. QED
    BY <1>2, <1>4, <2>1, <2>2, <2>3, Lengths, Numbers DEF Serving
<1>8. CASE Write
  <2>1. state = "WRITE" /\ wr_halfs' = wr_halfs /\ cycle \in 1..31 /\ cycle <= WriteLength
    BY <1>8, WriteFacts, Halving
  <2>2. Left = WriteLength - cycle + 1
    BY <2>1 DEF Left
  <2>3. CASE cycle = WriteLength
    <3>1. state' = "IDLE"
      BY <1>8, <2>3, WriteFacts
    <3>2. Left' = 0
      BY <3>1 DEF Left
    <3>3. QED
      BY <1>2, <1>4, <2>1, <2>2, <2>3, <3>1, <3>2, Lengths, Numbers DEF Serving
  <2>4. CASE cycle # WriteLength
    <3>1. state' = "WRITE" /\ cycle' = NextCycle
      BY <1>8, <2>4, WriteFacts
    <3>2. cycle' = cycle + 1
      BY <1>8, <2>1, <2>4, <3>1, Halving DEF NextCycle
    <3>3. Left' = WriteLength - cycle' + 1
      BY <2>1, <3>1 DEF Left, WriteLength
    <3>4. QED
      BY <1>2, <1>4, <2>1, <2>2, <2>4, <3>1, <3>2, <3>3, Lengths, Numbers DEF Serving
  <2>5. QED
    BY <2>3, <2>4
<1>9. QED
  BY <1>3, <1>5, <1>6, <1>7, <1>8

LEMMA StepRefresh ==
  ASSUME RefreshFits, IInv, DataInv, RefreshInv, [Next]_vars
  PROVE  RefreshInv'
<1>1. CASE Next
  BY <1>1, PowerUpRefresh, RefreshingRefresh, AcceptRefresh, AccessRefresh DEF Next
<1>2. CASE UNCHANGED vars
  BY <1>2, StutterRefresh
<1>3. QED
  BY <1>1, <1>2

\* need_refresh goes out in a clock whose counter is 0, and with it on that is REFRESH.
LEMMA KeptNow ==
  ASSUME RefreshFits, IInv, RefreshInv, [Next]_vars, need_refresh, ~need_refresh'
  PROVE  state = "REFRESH"
<1>1. refresh_cnt = 0
  <2>1. \E c \in BOOLEAN : RefreshTimer(c)
    <3>1. Next
      BY DEF vars, ctl_vars
    <3>2. QED
      BY <3>1 DEF Next, InitDone, Config, StartRefresh, Refresh, Idle, AcceptWrite, AcceptMerge,
                  AcceptRead, Accept, Read, MergeRead, MergeActivate, Write, Edge
  <2>2. QED
    BY <2>1 DEF RefreshTimer
<1>2. state \notin {"INIT", "CONFIG"} /\ state \in States
  BY DEF RefreshInv, IInv
<1>3. ~Serving
  BY <1>1, Lengths DEF RefreshInv
<1>4. QED
  BY <1>2, <1>3 DEF Serving, States

\* A refresh that has become due is withdrawn only by performing it: the counter does
\* not come round to 0 while an access, the longest included, keeps the FSM busy
\* (src/src/memory/sdram.v: refresh_cnt and need_refresh, which run beside the FSM).
\* The hypothesis is what the width of refresh_cnt must leave room for; the 65 MHz
\* build does not satisfy it.
THEOREM RefreshKept ==
  ASSUME RowsRecover, RefreshFits
  PROVE  Spec => RefreshNotForgotten
<1>1. Init => IInv /\ DataInv /\ RefreshInv
  BY InitInv, InitData, InitRefresh
<1>2. IInv /\ DataInv /\ RefreshInv /\ [Next]_vars => IInv' /\ DataInv' /\ RefreshInv'
  BY Step, StepData, StepRefresh
<1>3. IInv /\ RefreshInv /\ [Next]_vars
        => [need_refresh /\ ~need_refresh' => state = "REFRESH"]_vars
  BY KeptNow
<1>4. QED
  BY <1>1, <1>2, <1>3, PTL DEF Spec, RefreshNotForgotten

=============================================================================
