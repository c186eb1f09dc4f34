----------------------------- MODULE PicProofs -----------------------------
(* The acknowledge bridge and the CPU's two cycles, for every program, every  *)
(* device and however long the CPU holds a cycle; and the levels in service,  *)
(* for devices that keep their requests and controllers that were set up.     *)
EXTENDS Pic, TLAPS

CpuPhases == {"run", "inta1", "hold1", "gap", "inta2", "hold2", "serve"}

\* Where the bridge is while the CPU is at each point of its acknowledge.
Waits(state) == bridge.state = state /\ ~bridge.responded /\ ~bridge.ready
Answers(state) == bridge.state = state /\ bridge.responded /\ bridge.ready
Holds(state) == bridge.state = state /\ bridge.responded /\ ~bridge.ready

BridgeInv ==
  /\ cpu = [phase |-> cpu.phase, handlers |-> cpu.handlers] /\ cpu.phase \in CpuPhases
  /\ bridge.responded \in BOOLEAN /\ bridge.ready \in BOOLEAN
  /\ cpu.phase = "run" => Waits("S_IDLE")
  /\ cpu.phase = "inta1" => Waits("S_IDLE") \/ Answers("S_INTA1")
  /\ cpu.phase = "hold1" => Holds("S_INTA1")
  /\ cpu.phase = "gap" => Holds("S_INTA1") \/ Waits("S_INTA2")
  /\ cpu.phase = "inta2" => Waits("S_INTA2") \/ Answers("S_IDLE")
  /\ cpu.phase = "hold2" => Holds("S_IDLE")
  /\ cpu.phase = "serve" => Holds("S_IDLE") \/ Waits("S_IDLE")

LEMMA InitBridge == Init => BridgeInv
  BY DEF Init, BridgeInv, CpuPhases, Waits

\* What the bridge does in a clock.
LEMMA BridgeTick ==
  ASSUME BridgeInv, bridge' = NextBridge
  PROVE  /\ bridge'.responded \in BOOLEAN /\ bridge'.ready \in BOOLEAN
         /\ ~cpu_inta => ~bridge'.responded /\ ~bridge'.ready
         /\ cpu_inta /\ Waits("S_IDLE") => Answers("S_INTA1")'
         /\ cpu_inta /\ Waits("S_INTA2") => Answers("S_IDLE")'
         /\ cpu_inta /\ bridge.responded =>
              bridge'.responded /\ ~bridge'.ready /\ bridge'.state = bridge.state
         /\ bridge.state = "S_INTA1" /\ ~cpu_inta => bridge'.state = "S_INTA2"
         /\ bridge.state # "S_INTA1" /\ ~cpu_inta => bridge'.state = bridge.state
<1>1. /\ bridge'.state = NextBridgeState /\ bridge'.ready = (Answers1 \/ Answers2)
      /\ bridge'.responded = (cpu_inta /\ (bridge.responded \/ Answers1 \/ Answers2))
  BY DEF NextBridge
<1>2. cpu_inta \in BOOLEAN /\ Answers1 \in BOOLEAN /\ Answers2 \in BOOLEAN
  BY DEF cpu_inta, Answers1, Answers2
<1>3. QED
  BY <1>1, <1>2 DEF NextBridgeState, Answers1, Answers2, Waits, Answers, BridgeInv

LEMMA PhaseStep ==
  ASSUME BridgeInv, bridge' = NextBridge, CpuPhase
  PROVE  BridgeInv'
<1> USE BridgeTick
<1>1. CASE cpu.phase = "run"
  BY <1>1 DEF BridgeInv, CpuPhase, CpuPhases, cpu_inta, Waits
<1>2. CASE cpu.phase = "inta1"
  BY <1>2 DEF BridgeInv, CpuPhase, CpuPhases, cpu_inta, Waits, Answers, Holds
<1>3. CASE cpu.phase = "hold1"
  BY <1>3 DEF BridgeInv, CpuPhase, CpuPhases, cpu_inta, Waits, Answers, Holds
<1>4. CASE cpu.phase = "gap"
  BY <1>4 DEF BridgeInv, CpuPhase, CpuPhases, cpu_inta, Waits, Answers, Holds
<1>5. CASE cpu.phase = "inta2"
  BY <1>5 DEF BridgeInv, CpuPhase, CpuPhases, cpu_inta, Waits, Answers, Holds
<1>6. CASE cpu.phase = "hold2"
  BY <1>6 DEF BridgeInv, CpuPhase, CpuPhases, cpu_inta, Waits, Answers, Holds
<1>7. CASE cpu.phase = "serve"
  BY <1>7 DEF BridgeInv, CpuPhase, CpuPhases, cpu_inta, Waits, Answers, Holds
<1>8. QED
  BY <1>1, <1>2, <1>3, <1>4, <1>5, <1>6, <1>7 DEF BridgeInv, CpuPhases

\* While the CPU runs instructions the bridge waits.
LEMMA RunStep ==
  ASSUME BridgeInv, bridge' = NextBridge, cpu.phase = "run", cpu'.phase = "run",
         cpu' = [phase |-> cpu'.phase, handlers |-> cpu'.handlers]
  PROVE  BridgeInv'
  BY BridgeTick DEF BridgeInv, CpuPhases, cpu_inta, Waits

LEMMA BridgeStep == BridgeInv /\ [Next]_vars => BridgeInv'
<1> SUFFICES ASSUME BridgeInv, [Next]_vars PROVE BridgeInv'
  OBVIOUS
<1>1. CASE Quiet
  BY <1>1, PhaseStep DEF Quiet, Tick
<1>2. CASE Program
  BY <1>2, RunStep DEF Program, Tick, BridgeInv
<1>3. CASE Return
  BY <1>3, RunStep DEF Return, Tick, BridgeInv
<1>4. ASSUME NEW k \in {Master, Slave}, EndOfInterrupt(k) PROVE BridgeInv'
  <2>1. bridge' = NextBridge /\ cpu.phase = "run"
    BY <1>4 DEF EndOfInterrupt, Tick
  <2>2. cpu'.phase = "run" /\ cpu' = [phase |-> cpu'.phase, handlers |-> cpu'.handlers]
    BY <1>4 DEF EndOfInterrupt, BridgeInv
  <2>3. QED
    BY <2>1, <2>2, RunStep
<1>5. CASE UNCHANGED vars
  BY <1>5 DEF vars, BridgeInv, Waits, Answers, Holds
<1>6. QED
  BY <1>1, <1>2, <1>3, <1>4, <1>5 DEF Next, Handle

\* The bridge answers each acknowledge cycle once, however long the CPU holds it, and never when
\* the CPU does not wait (pic_inta_bridge.sv, responded).
THEOREM OneAnswer == Spec => []AnswersOnce
<1>1. BridgeInv => AnswersOnce
  BY DEF BridgeInv, AnswersOnce, CpuPhases, Waits, Holds
<1>2. QED
  BY <1>1, InitBridge, BridgeStep, PTL DEF Spec


-----------------------------------------------------------------------------
(* One controller, as a record: what it selects and what a clock makes of it. *)

RankOf(lowest, i) == (i - lowest - 1) % 8
FirstOf(lowest, set) ==
  IF set = {} THEN 7
  ELSE CHOOSE r \in 0..7 : /\ (lowest + r + 1) % 8 \in set
                           /\ \A q \in 0..(r - 1) : (lowest + q + 1) % 8 \notin set
PreparedOf(p) == p.irr \ (p.imr \cup p.isr)
Asks(p) ==
  /\ PreparedOf(p) # {}
  /\ p.special_mask \/ FirstOf(p.lowest, PreparedOf(p)) <= FirstOf(p.lowest, p.isr)
LineOf(p) == (p.lowest + FirstOf(p.lowest, PreparedOf(p)) + 1) % 8

LEMMA AsRecords ==
  \A k \in {Master, Slave} :
    /\ irq(k) <=> Asks(pic[k])
    /\ irq_value(k) = LineOf(pic[k])
    /\ \A i : Rank(k, i) = RankOf(pic[k].lowest, i)
    /\ Ranked(k, FirstRank(k, pic[k].isr)) = (pic[k].lowest + FirstOf(pic[k].lowest, pic[k].isr) + 1) % 8
    /\ irq(k)' <=> Asks(pic'[k])
    /\ irq_value(k)' = LineOf(pic'[k])
    /\ \A i : Rank(k, i)' = RankOf(pic'[k].lowest, i)
  BY Zenon DEF irq, irq_value, Asks, LineOf, Prepared, PreparedOf, FirstRank, FirstOf, Ranked, Rank, RankOf

LEMMA Ranks ==
  ASSUME NEW lowest \in Lines
  PROVE  /\ \A i \in Lines : /\ RankOf(lowest, i) \in 0..7
                             /\ (lowest + RankOf(lowest, i) + 1) % 8 = i
         /\ \A r \in 0..7 : /\ (lowest + r + 1) % 8 \in Lines
                            /\ RankOf(lowest, (lowest + r + 1) % 8) = r
         /\ \A i, j \in Lines : RankOf(lowest, i) = RankOf(lowest, j) => i = j
         /\ (lowest + 7 + 1) % 8 = lowest
<1>1. \A i \in Lines : RankOf(lowest, i) \in 0..7 /\ (lowest + RankOf(lowest, i) + 1) % 8 = i
  BY SMTT(30) DEF RankOf, Lines
<1>2. \A r \in 0..7 : (lowest + r + 1) % 8 \in Lines /\ RankOf(lowest, (lowest + r + 1) % 8) = r
  BY SMTT(30) DEF RankOf, Lines
<1>3. (lowest + 7 + 1) % 8 = lowest
  BY DEF Lines
<1>4. \A i, j \in Lines : RankOf(lowest, i) = RankOf(lowest, j) => i = j
  BY <1>1, Zenon
<1> QED BY <1>1, <1>2, <1>3, <1>4

\* The first of a set of lines has the least rank.
LEMMA FirstIs ==
  ASSUME NEW lowest \in Lines, NEW set \in SUBSET Lines
  PROVE  /\ FirstOf(lowest, set) \in 0..7
         /\ set = {} => FirstOf(lowest, set) = 7
         /\ set # {} => (lowest + FirstOf(lowest, set) + 1) % 8 \in set
         /\ \A i \in set : FirstOf(lowest, set) <= RankOf(lowest, i)
<1>1. CASE set = {}
  BY <1>1 DEF FirstOf
<1>2. CASE set # {}
  <2> DEFINE At(r) == (lowest + r + 1) % 8 \in set
             P(r) == At(r) /\ \A q \in 0..(r - 1) : ~At(q)
  <2>1. PICK i \in set : TRUE
    BY <1>2
  <2>2. \E n \in 0..7 : At(n)
    <3>1. i \in Lines
      BY <2>1
    <3>2. RankOf(lowest, i) \in 0..7 /\ (lowest + RankOf(lowest, i) + 1) % 8 = i
      BY <3>1, Ranks
    <3>3. QED
      BY <2>1, <3>2
  <2> HIDE DEF At
  <2>3. \E r \in 0..7 : P(r)
    BY <2>2, SMTT(30)
  <2>4. PICK f \in 0..7 : f = FirstOf(lowest, set) /\ P(f)
    BY <1>2, <2>3, Zenon DEF FirstOf, At
  <2>5. \A j \in set : f <= RankOf(lowest, j)
    <3> SUFFICES ASSUME NEW j \in set PROVE f <= RankOf(lowest, j)
      OBVIOUS
    <3>1. RankOf(lowest, j) \in 0..7 /\ At(RankOf(lowest, j))
      BY Ranks DEF At
    <3>2. QED
      BY <2>4, <3>1
  <2>6. QED
    BY <1>2, <2>4, <2>5 DEF At
<1>3. QED
  BY <1>1, <1>2

Chip(p) ==
  /\ p.last \subseteq Lines /\ p.irr \subseteq Lines /\ p.isr \subseteq Lines /\ p.imr \subseteq Lines
  /\ p.slaves \subseteq Lines /\ p.lowest \in Lines /\ p.offset \in Nat /\ p.vector \in Nat
  /\ p.do \in BOOLEAN /\ p.spurious \in BOOLEAN /\ p.slave_active \in BOOLEAN
  /\ p.special_mask \in BOOLEAN /\ p.auto_eoi \in BOOLEAN /\ p.ltim \in BOOLEAN

\* What a controller asks for is not masked, and has a higher priority than all that is in
\* service; the other way around, such a line makes it ask.
LEMMA AsksFor ==
  ASSUME NEW p, Chip(p), ~p.special_mask
  PROVE  /\ LineOf(p) \in Lines
         /\ Asks(p) => /\ LineOf(p) \in p.irr /\ LineOf(p) \notin p.imr /\ LineOf(p) \notin p.isr
                       /\ \A j \in p.isr : RankOf(p.lowest, LineOf(p)) < RankOf(p.lowest, j)
         /\ \A i \in PreparedOf(p) :
              (\A j \in p.isr : RankOf(p.lowest, i) <= RankOf(p.lowest, j)) => Asks(p)
         /\ p.isr = {} /\ PreparedOf(p) # {} => Asks(p)
         /\ PreparedOf(p) = {} => LineOf(p) = p.lowest
<1> DEFINE set == PreparedOf(p)
           low == p.lowest
           first == FirstOf(low, set)
           least == FirstOf(low, p.isr)
           isr == p.isr
<1>1. set \in SUBSET Lines /\ set \in SUBSET p.irr /\ set \cap p.imr = {} /\ set \cap isr = {}
      /\ low \in Lines /\ isr \in SUBSET Lines
  BY DEF Chip, PreparedOf
<1>2. /\ first \in 0..7 /\ (set = {} => first = 7) /\ (set # {} => (low + first + 1) % 8 \in set)
      /\ \A i \in set : first <= RankOf(low, i)
  BY <1>1, FirstIs
<1>3. /\ least \in 0..7 /\ (isr = {} => least = 7) /\ (isr # {} => (low + least + 1) % 8 \in isr)
      /\ \A i \in isr : least <= RankOf(low, i)
  BY <1>1, FirstIs
<1>4. LineOf(p) = (low + first + 1) % 8
  BY DEF LineOf
<1>5. Asks(p) <=> set # {} /\ first <= least
  BY DEF Asks
<1>6. /\ \A i \in Lines : RankOf(low, i) \in 0..7
      /\ \A r \in 0..7 : (low + r + 1) % 8 \in Lines /\ RankOf(low, (low + r + 1) % 8) = r
      /\ \A i, j \in Lines : RankOf(low, i) = RankOf(low, j) => i = j
      /\ (low + 7 + 1) % 8 = low
  BY <1>1, Ranks
<1> DEFINE line == LineOf(p)
<1> HIDE DEF set, low, first, least, isr, line
<1>7. line \in Lines /\ RankOf(low, line) = first
  BY <1>2, <1>4, <1>6 DEF line
<1>8. Asks(p) => line \in set
  BY <1>2, <1>4, <1>5 DEF line
<1>9. ASSUME Asks(p), NEW j \in isr PROVE RankOf(low, line) < RankOf(low, j)
  <2>1. line # j /\ line \in Lines /\ j \in Lines
    BY <1>9, <1>8, <1>1
  <2>2. first <= least /\ least <= RankOf(low, j)
    BY <1>9, <1>5, <1>3
  <2>3. RankOf(low, line) # RankOf(low, j) /\ RankOf(low, j) \in 0..7
    BY <2>1, <1>6
  <2>4. QED
    BY <1>2, <1>3, <1>7, <2>2, <2>3
<1>10. ASSUME NEW i \in set, \A j \in isr : RankOf(low, i) <= RankOf(low, j) PROVE Asks(p)
  <2>1. first <= RankOf(low, i) /\ RankOf(low, i) \in 0..7
    BY <1>1, <1>2, <1>6
  <2>2. CASE isr = {}
    BY <2>1, <2>2, <1>2, <1>3, <1>5
  <2>3. CASE isr # {}
    <3>1. (low + least + 1) % 8 \in isr /\ RankOf(low, (low + least + 1) % 8) = least
      BY <2>3, <1>3, <1>6
    <3>2. RankOf(low, i) <= least
      BY <3>1, <1>10
    <3>3. QED
      BY <2>1, <3>2, <1>2, <1>3, <1>5
  <2>4. QED
    BY <2>2, <2>3
<1>11. isr = {} /\ set # {} => Asks(p)
  BY <1>2, <1>3, <1>5
<1>12. set = {} => line = low
  BY <1>2, <1>4, <1>6 DEF line
<1>13. Asks(p) => line \in p.irr /\ line \notin p.imr /\ line \notin isr
  BY <1>1, <1>8
<1>14. QED
  BY <1>7, <1>9, <1>10, <1>11, <1>12, <1>13 DEF set, low, isr, line

\* A clock in which a controller is given no command, or (eoi) an end of interrupt, and,
\* if done, the acknowledge of its vector.
Ticks(p, q, inputs, acks, eoi) ==
  LET acked == IF acks /\ ~p.spurious THEN {p.vector % 8} ELSE {} IN
  /\ q.last = inputs
  /\ q.irr = ((p.irr \cap inputs) \ acked) \cup (IF p.ltim THEN inputs ELSE inputs \ p.last)
  /\ q.isr = IF eoi THEN p.isr \ {(p.lowest + FirstOf(p.lowest, p.isr) + 1) % 8} ELSE p.isr \cup acked
  /\ q.do = (~acks /\ Asks(p))
  /\ q.vector = IF Asks(p) \/ p.do THEN 8 * p.offset + LineOf(p) ELSE p.vector
  /\ q.slave_active = IF acks THEN FALSE
                      ELSE IF Asks(p) \/ p.do THEN LineOf(p) \in p.slaves ELSE p.slave_active
  /\ q.spurious = IF p.do /\ ~acks /\ ~Asks(p) THEN TRUE
                  ELSE IF acks \/ Asks(p) THEN FALSE ELSE p.spurious
  /\ q.imr = p.imr /\ q.lowest = p.lowest /\ q.offset = p.offset /\ q.slaves = p.slaves /\ q.ltim = p.ltim
  /\ ~q.special_mask /\ ~q.auto_eoi

EndOf(c) == [chip |-> c, address |-> 0, write |-> TRUE, value |-> NonSpecificEOI]

LEMMA Quietly ==
  ASSUME NEW k \in {Master, Slave},
         NEW acc, acc = NoAccess \/ (~bridge.done /\ \E c \in {Master, Slave} : acc = EndOf(c)),
         Chip(pic[k]), ~pic[k].special_mask, ~pic[k].auto_eoi,
         pic'[k] = NextPic(k, acc)
  PROVE  Ticks(pic[k], pic'[k], Inputs(k), done(k), acc.chip = k)
<1> DEFINE eoi == acc.chip = k
<1>a. acc.chip = k => acc.write /\ acc.address = 0 /\ acc.value = 32 /\ ~done(k)
  <2>1. CASE acc = NoAccess
    BY <2>1 DEF NoAccess, Master, Slave
  <2>2. ASSUME ~bridge.done, NEW c \in {Master, Slave}, acc = EndOf(c) PROVE acc.chip = k => acc.write /\ acc.address = 0 /\ acc.value = 32 /\ ~done(k)
    BY <2>2 DEF EndOf, NonSpecificEOI, Master, Slave, done
  <2>3. QED
    BY <2>1, <2>2
<1>1. ~Polls(k, acc) /\ ~init_icw1(k, acc) /\ ~ocw1(k, acc) /\ ~ocw3(k, acc) /\ \A n : ~init_icw(k, acc, n)
  BY <1>a DEF Polls, init_icw1, ocw1, ocw3, init_icw, Writes, Bit
<1>2. /\ ocw2(k, acc) <=> eoi
      /\ eoi => acc.value = 32 /\ ~done(k)
  BY <1>a DEF ocw2, Writes, NoAccess, Master, Slave
<1>3. /\ ~ocw2_of(k, acc, SpecificEOI) /\ ~ocw2_of(k, acc, RotateSpecific) /\ ~ocw2_of(k, acc, SetPriority)
      /\ ~(ocw2(k, acc) /\ acc.value = RotateEOI) /\ ~(ocw2(k, acc) /\ acc.value % 128 = 0)
      /\ isr_clear(k, acc) <=> eoi
  BY <1>1, <1>2 DEF ocw2_of, SpecificEOI, RotateSpecific, SetPriority, RotateEOI, isr_clear, NonSpecificEOI
<1>4. ~ocw3_select(k, acc)
  BY <1>1 DEF ocw3_select
<1>5. /\ acknowledge(k, acc) <=> done(k)
      /\ acknowledge_not_spurious(k, acc) <=> done(k) /\ ~pic[k].spurious
  BY <1>1 DEF acknowledge, acknowledge_not_spurious
<1> DEFINE p == pic[k]
           q == pic'[k]
           acked == IF done(k) /\ ~p.spurious THEN {p.vector % 8} ELSE {}
<1>6. q.last = Inputs(k)
  BY DEF NextPic
<1>7. q.irr = ((p.irr \cap Inputs(k)) \ acked) \cup (IF p.ltim THEN Inputs(k) ELSE Inputs(k) \ p.last)
  <2>1. q.irr = NextIrr(k, acc)
    BY DEF NextPic
  <2>2. QED
    BY <2>1, <1>1, <1>5 DEF NextIrr, VectorLine, edge_detect
<1>8. q.isr = IF eoi THEN p.isr \ {(p.lowest + FirstOf(p.lowest, p.isr) + 1) % 8} ELSE p.isr \cup acked
  <2>1. q.isr = NextIsr(k, acc)
    BY DEF NextPic
  <2>2. CASE eoi
    BY <2>1, <2>2, <1>1, <1>3, AsRecords DEF NextIsr
  <2>3. CASE ~eoi
    BY <2>1, <2>3, <1>1, <1>3, <1>5 DEF NextIsr, VectorLine
  <2>4. QED
    BY <2>2, <2>3
<1>9. q.do = (~done(k) /\ Asks(p))
  <2>1. q.do = (~init_icw1(k, acc) /\ ~acknowledge(k, acc) /\ irq(k))
    BY DEF NextPic
  <2>2. QED
    BY <2>1, <1>1, <1>5, AsRecords, Zenon
<1>10. q.vector = IF Asks(p) \/ p.do THEN 8 * p.offset + LineOf(p) ELSE p.vector
  BY <1>1, AsRecords DEF NextPic
<1>11. q.slave_active = IF done(k) THEN FALSE
                        ELSE IF Asks(p) \/ p.do THEN LineOf(p) \in p.slaves ELSE p.slave_active
  <2>1. q.slave_active = IF init_icw1(k, acc) \/ acknowledge(k, acc) THEN FALSE
                         ELSE IF irq(k) \/ p.do THEN irq_value(k) \in p.slaves ELSE p.slave_active
    BY DEF NextPic
  <2>2. QED
    BY <2>1, <1>1, <1>5, AsRecords, Zenon
<1>12. q.spurious = IF p.do /\ ~done(k) /\ ~Asks(p) THEN TRUE
                    ELSE IF done(k) \/ Asks(p) THEN FALSE ELSE p.spurious
  <2>1. q.spurious = NextSpurious(k, acc)
    BY DEF NextPic
  <2>2. QED
    BY <2>1, <1>1, <1>5, AsRecords, Zenon DEF NextSpurious
<1>13. q.lowest = p.lowest
  <2>1. q.lowest = NextLowest(k, acc)
    BY DEF NextPic
  <2>2. QED
    BY <2>1, <1>1, <1>3 DEF NextLowest
<1>14. q.imr = p.imr /\ q.offset = p.offset /\ q.slaves = p.slaves /\ q.ltim = p.ltim
  BY <1>1 DEF NextPic
<1>15. ~q.special_mask /\ ~q.auto_eoi
  BY <1>1, <1>4 DEF NextPic
<1>16. QED
  BY <1>6, <1>7, <1>8, <1>9, <1>10, <1>11, <1>12, <1>13, <1>14, <1>15, Zenon DEF Ticks

\* Inputs that a controller has seen for a clock, and what it makes of them in the next.
Latched(p, inputs) == p.last = inputs /\ p.irr \subseteq inputs /\ (p.ltim => p.irr = inputs)
Decided(p) ==
  /\ p.do <=> Asks(p)
  /\ Asks(p) => p.vector = 8 * p.offset + LineOf(p) /\ (p.slave_active <=> LineOf(p) \in p.slaves)

LEMMA Latches ==
  ASSUME NEW p, NEW q, NEW inputs, NEW acks, NEW eoi, Ticks(p, q, inputs, acks, eoi)
  PROVE  Latched(q, inputs)
  BY DEF Ticks, Latched

LEMMA Decides ==
  ASSUME NEW p, NEW q, NEW inputs, Chip(p), ~p.special_mask,
         Latched(p, inputs), Ticks(p, q, inputs, FALSE, FALSE)
  PROVE  /\ Decided(q) /\ (Asks(q) <=> Asks(p)) /\ LineOf(q) = LineOf(p)
         /\ Decided(p) /\ Asks(p) => q.vector = p.vector /\ q.slave_active = p.slave_active
<1>1. q.irr = p.irr /\ q.isr = p.isr
  <2>1. q.irr = ((p.irr \cap inputs) \ {}) \cup (IF p.ltim THEN inputs ELSE inputs \ p.last)
        /\ q.isr = p.isr \cup {}
    BY DEF Ticks
  <2>2. QED
    BY <2>1 DEF Latched
<1>2. q.imr = p.imr /\ q.lowest = p.lowest /\ q.offset = p.offset /\ q.slaves = p.slaves /\ ~q.special_mask
  BY DEF Ticks
<1>3. PreparedOf(q) = PreparedOf(p)
  BY <1>1, <1>2 DEF PreparedOf
<1>4. (Asks(q) <=> Asks(p)) /\ LineOf(q) = LineOf(p)
  BY <1>1, <1>2, <1>3, Zenon DEF Asks, LineOf
<1>5. /\ q.do <=> Asks(p)
      /\ Asks(p) => q.vector = 8 * p.offset + LineOf(p) /\ q.slave_active = (LineOf(p) \in p.slaves)
  BY DEF Ticks
<1>6. Decided(q)
  BY <1>2, <1>4, <1>5 DEF Decided
<1>7. Decided(p) /\ Asks(p) => q.vector = p.vector /\ q.slave_active = p.slave_active
  BY <1>5 DEF Decided, Chip
<1>8. QED
  BY <1>4, <1>6, <1>7

\* A request that is still there keeps being made.
LEMMA KeepsAsking ==
  ASSUME NEW p, NEW q, NEW inputs, NEW eoi, Chip(p), Chip(q), ~p.special_mask,
         p.irr \ p.isr \subseteq inputs, Asks(p), Ticks(p, q, inputs, FALSE, eoi)
  PROVE  Asks(q)
<1> DEFINE i == LineOf(p)
<1>1. i \in p.irr /\ i \notin p.imr /\ i \notin p.isr /\ \A j \in p.isr : RankOf(p.lowest, i) < RankOf(p.lowest, j)
  BY AsksFor
<1>2. i \in q.irr
  <2>1. q.irr = ((p.irr \cap inputs) \ {}) \cup (IF p.ltim THEN inputs ELSE inputs \ p.last)
    BY DEF Ticks
  <2>2. QED
    BY <1>1, <2>1
<1>3. q.isr \subseteq p.isr /\ q.imr = p.imr /\ q.lowest = p.lowest /\ ~q.special_mask
  BY DEF Ticks
<1>4. i \in PreparedOf(q)
  BY <1>1, <1>2, <1>3 DEF PreparedOf
<1>5. i \in Lines /\ p.lowest \in Lines /\ p.isr \subseteq Lines
  BY <1>1 DEF Chip
<1>6. \A j \in q.isr : RankOf(q.lowest, i) <= RankOf(q.lowest, j)
  <2> SUFFICES ASSUME NEW j \in q.isr PROVE RankOf(q.lowest, i) <= RankOf(q.lowest, j)
    OBVIOUS
  <2>1. j \in p.isr /\ RankOf(p.lowest, i) \in 0..7 /\ RankOf(p.lowest, j) \in 0..7
    BY <1>3, <1>5, Ranks
  <2>2. QED
    BY <2>1, <1>1, <1>3
<1>7. QED
  BY <1>3, <1>4, <1>6, AsksFor

\* The end of interrupt clears the level of highest priority.
LEMMA Highest ==
  ASSUME NEW lowest \in Lines, NEW isr \in SUBSET Lines, NEW i \in isr,
         \A j \in isr : RankOf(lowest, i) <= RankOf(lowest, j)
  PROVE  (lowest + FirstOf(lowest, isr) + 1) % 8 = i
<1>1. PICK f \in 0..7 : f = FirstOf(lowest, isr)
  BY FirstIs
<1>2. PICK x \in isr : x = (lowest + f + 1) % 8
  BY <1>1, FirstIs
<1>3. f <= RankOf(lowest, i)
  BY <1>1, FirstIs
<1>4. RankOf(lowest, x) = f /\ x \in Lines /\ i \in Lines /\ RankOf(lowest, i) \in 0..7
  BY <1>2, Ranks
<1>5. RankOf(lowest, i) = RankOf(lowest, x)
  BY <1>2, <1>3, <1>4
<1>6. i = x
  BY <1>4, <1>5, Ranks
<1>7. QED
  BY <1>1, <1>2, <1>6

\* What the registers hold, whatever the CPU writes to them.
LEMMA Registers ==
  ASSUME NEW k \in {Master, Slave}, NEW acc, acc \in Accesses \/ acc = NoAccess,
         Chip(pic[k]), Inputs(k) \subseteq Lines, pic'[k] = NextPic(k, acc)
  PROVE  Chip(pic'[k])
<1> DEFINE p == pic[k]
           q == pic'[k]
<1>1. acc.value \in Nat
  <2>1. CASE acc \in Accesses
    BY <2>1 DEF Accesses, Bytes
  <2>2. CASE acc = NoAccess
    BY <2>2 DEF NoAccess
  <2>3. QED
    BY <2>1, <2>2
<1>2. PICK value \in Nat : value = acc.value
  BY <1>1
<1>3. \A n \in Nat : n % 8 \in Lines /\ n \div 8 \in Nat
  BY DEF Lines
<1>4. /\ VectorLine(k) \subseteq Lines /\ BitsOf(acc.value) \subseteq Lines
      /\ acc.value % 8 \in Lines /\ acc.value \div 8 \in Nat /\ (p.lowest + 1) % 8 \in Lines
  BY <1>2, <1>3 DEF VectorLine, BitsOf, Chip, Lines
<1>5. q.last \subseteq Lines
  BY DEF NextPic
<1>6. q.irr \subseteq Lines
  <2>1. q.irr = NextIrr(k, acc)
    BY DEF NextPic
  <2>2. QED
    BY <2>1 DEF NextIrr, edge_detect, Chip
<1>7. q.isr \subseteq Lines
  <2>1. q.isr = NextIsr(k, acc)
    BY DEF NextPic
  <2>2. QED
    BY <2>1, <1>4 DEF NextIsr, Chip
<1>8. q.imr \subseteq Lines /\ q.slaves \subseteq Lines
  BY <1>4 DEF NextPic, Chip, Lines
<1>9. q.lowest \in Lines
  <2>1. q.lowest = NextLowest(k, acc) /\ 7 \in Lines
    BY DEF NextPic, Lines
  <2>2. QED
    BY <2>1, <1>4 DEF NextLowest, Chip
<1>10. q.offset \in Nat
  BY <1>4 DEF NextPic, Chip
<1>11. q.vector \in Nat
  <2>1. LineOf(p) \in Lines
    <3>1. PICK f \in 0..7 : f = FirstOf(p.lowest, PreparedOf(p))
      BY FirstIs DEF Chip, PreparedOf
    <3>2. QED
      BY <3>1, Ranks DEF LineOf, Chip
  <2>2. 8 * p.offset + irq_value(k) \in Nat
    <3>1. PICK o \in Nat : o = p.offset
      BY DEF Chip
    <3>2. PICK l \in Lines : l = irq_value(k)
      BY <2>1, AsRecords
    <3>3. QED
      BY <3>1, <3>2 DEF Lines
  <2>3. QED
    BY <2>2 DEF NextPic, Chip
<1>12. q.do \in BOOLEAN
  BY DEF NextPic
<1>13. q.spurious \in BOOLEAN
  <2>1. q.spurious = NextSpurious(k, acc)
    BY DEF NextPic
  <2>2. QED
    BY <2>1 DEF NextSpurious, Chip
<1>14. q.slave_active \in BOOLEAN
  <2>1. q.slave_active = IF init_icw1(k, acc) \/ acknowledge(k, acc) THEN FALSE
                         ELSE IF irq(k) \/ p.do THEN irq_value(k) \in p.slaves ELSE p.slave_active
    BY DEF NextPic
  <2>2. p.slave_active \in BOOLEAN
    BY DEF Chip
  <2>3. CASE irq_value(k) \in p.slaves
    <3>1. (irq_value(k) \in p.slaves) = TRUE
      BY <2>3
    <3>2. QED
      BY <2>1, <2>2, <3>1, Zenon
  <2>4. CASE irq_value(k) \notin p.slaves
    <3>1. (irq_value(k) \in p.slaves) = FALSE
      BY <2>4
    <3>2. QED
      BY <2>1, <2>2, <3>1, Zenon
  <2>5. QED
    BY <2>3, <2>4
<1>15. q.special_mask \in BOOLEAN /\ q.auto_eoi \in BOOLEAN /\ q.ltim \in BOOLEAN
  <2>1. \A n : Bit(acc.value, n) \in BOOLEAN
    BY DEF Bit
  <2>2. /\ q.special_mask = IF init_icw1(k, acc) THEN FALSE
                           ELSE IF ocw3_select(k, acc) /\ Bit(acc.value, 6) THEN Bit(acc.value, 5)
                           ELSE p.special_mask
        /\ q.auto_eoi = IF init_icw1(k, acc) THEN FALSE
                       ELSE IF init_icw(k, acc, 4) THEN Bit(acc.value, 1) ELSE p.auto_eoi
        /\ q.ltim = IF init_icw1(k, acc) THEN Bit(acc.value, 3) ELSE p.ltim
    BY DEF NextPic
  <2>3. p.special_mask \in BOOLEAN /\ p.auto_eoi \in BOOLEAN /\ p.ltim \in BOOLEAN
    BY DEF Chip
  <2>4. QED
    BY <2>1, <2>2, <2>3, Zenon
<1>16. QED
  BY <1>5, <1>6, <1>7, <1>8, <1>9, <1>10, <1>11, <1>12, <1>13, <1>14, <1>15 DEF Chip

\* A controller without requests stays without, whatever the CPU writes.
LEMMA Unasked ==
  ASSUME NEW k \in {Master, Slave}, NEW acc, ~bridge.done, pic'[k] = NextPic(k, acc),
         Inputs(k) = {}, pic[k].irr = {}, pic[k].isr = {}, ~pic[k].do, pic[k].spurious = FALSE
  PROVE  /\ pic'[k].irr = {} /\ pic'[k].isr = {} /\ ~pic'[k].do /\ pic'[k].spurious = FALSE
<1>1. ~irq(k)
  BY DEF irq, Prepared
<1>2. ~done(k) /\ (acknowledge_not_spurious(k, acc) => isr_clear(k, acc))
  BY DEF done, acknowledge_not_spurious, isr_clear
<1>3. pic'[k].irr = {}
  <2>1. pic'[k].irr = NextIrr(k, acc)
    BY DEF NextPic
  <2>2. QED
    BY <2>1 DEF NextIrr, edge_detect
<1>4. pic'[k].isr = {}
  <2>1. pic'[k].isr = NextIsr(k, acc)
    BY DEF NextPic
  <2>2. QED
    BY <2>1, <1>2 DEF NextIsr
<1>5. ~pic'[k].do
  <2>1. pic'[k].do = (~init_icw1(k, acc) /\ ~acknowledge(k, acc) /\ irq(k))
    BY DEF NextPic
  <2>2. QED
    BY <2>1, <1>1, Zenon
<1>6. pic'[k].spurious = FALSE
  <2>1. pic'[k].spurious = NextSpurious(k, acc)
    BY DEF NextPic
  <2>2. QED
    BY <2>1, <1>1 DEF NextSpurious
<1>7. QED
  BY <1>3, <1>4, <1>5, <1>6

-----------------------------------------------------------------------------
(* The controllers, the bridge, the CPU and devices that keep their requests. *)

\* A device that keeps its request until its handler runs, never raises the line of the
\* cascade itself and, like the others, does not move it while the CPU acknowledges; and a
\* program that sets the controllers up.
Waiting ==
  /\ world.steady /\ world.patient /\ <<Master, CascadeLine>> \notin world.sources
  /\ program # <<>>

\* What the program leaves: no special mask, no automatic end of interrupt, two bases of
\* vectors, and the slave on its line of the master.
Configured ==
  /\ \A k \in {Master, Slave} : ~pic[k].special_mask /\ ~pic[k].auto_eoi
  /\ pic[Master].offset # pic[Slave].offset
  /\ CascadeLine \in pic[Master].slaves
SetsUp == [][program # <<>> /\ program' = <<>> => Configured']_vars

InputsOf(k, high, do) ==
  {i \in Lines : <<k, i>> \in high} \cup (IF k = Master /\ do THEN {CascadeLine} ELSE {})
InputsNow(k) == InputsOf(k, lines, pic[Slave].do)

Handlers == [vector : Nat, eoi : SUBSET {Master, Slave}]

Typed ==
  /\ Chip(pic[Master]) /\ Chip(pic[Slave])
  /\ world.steady /\ world.patient /\ <<Master, CascadeLine>> \notin world.sources
  /\ world.sources \subseteq {Master, Slave} \X Lines /\ lines \subseteq world.sources
  /\ cpu.handlers \in Seq(Handlers)
  /\ bridge.din \in Nat /\ program \in Seq(Accesses)
  /\ bridge.done <=> cpu.phase = "inta2" /\ bridge.ready

\* While the program sets the controllers up.
Silent ==
  /\ cpu.phase = "run" /\ cpu.handlers = <<>> /\ lines = {} /\ ~bridge.intr
  /\ \A k \in {Master, Slave} : pic[k].irr = {} /\ pic[k].isr = {} /\ ~pic[k].do /\ pic[k].spurious = FALSE

LEMMA InputsAre ==
  ASSUME Typed, NEW k \in {Master, Slave}
  PROVE  Inputs(k) = InputsNow(k) /\ Inputs(k) \subseteq Lines
<1> DEFINE low == {s[2] : s \in {t \in lines : t[1] = k}}
<1>1. lines \subseteq {Master, Slave} \X Lines
  BY DEF Typed
<1>2. low = {i \in Lines : <<k, i>> \in lines}
  <2>1. ASSUME NEW i \in low PROVE i \in Lines /\ <<k, i>> \in lines
    <3>1. PICK s \in lines : s[1] = k /\ s[2] = i
      BY <2>1
    <3>2. PICK a \in {Master, Slave}, b \in Lines : s = <<a, b>>
      BY <1>1, <3>1
    <3>3. s = <<k, i>> /\ i \in Lines
      BY <3>1, <3>2
    <3>4. QED
      BY <3>1, <3>3
  <2>2. ASSUME NEW i \in Lines, <<k, i>> \in lines PROVE i \in low
    BY <2>2
  <2>3. QED
    BY <2>1, <2>2, Zenon
<1>3. Inputs(k) = low \cup (IF k = Master /\ pic[Slave].do THEN {CascadeLine} ELSE {})
  BY DEF Inputs
<1>4. Inputs(k) = InputsNow(k)
  BY <1>2, <1>3, Zenon DEF InputsNow, InputsOf
<1>5. CascadeLine \in Lines
  BY DEF CascadeLine, Lines
<1>6. InputsNow(k) \subseteq Lines
  BY <1>5 DEF InputsNow, InputsOf
<1>7. QED
  BY <1>4, <1>6

\* The CPU, phase by phase.
LEMMA CpuMoves ==
  ASSUME BridgeInv, CpuPhase
  PROVE  /\ cpu' = [phase |-> cpu'.phase, handlers |-> cpu'.handlers]
         /\ cpu.phase = "run" => \/ cpu'.phase = "run"
                                 \/ cpu'.phase = "inta1" /\ bridge.intr /\ program = <<>>
         /\ cpu.phase = "inta1" /\ ~bridge.ready => cpu'.phase = "inta1"
         /\ cpu.phase = "inta1" /\ bridge.ready => cpu'.phase = "hold1" \/ cpu'.phase = "gap"
         /\ cpu.phase = "hold1" => cpu'.phase = "gap"
         /\ cpu.phase = "gap" => cpu'.phase = "gap" \/ cpu'.phase = "inta2"
         /\ cpu.phase = "inta2" /\ ~bridge.ready => cpu'.phase = "inta2"
         /\ cpu.phase = "inta2" /\ bridge.ready =>
              /\ cpu'.phase = "hold2" \/ cpu'.phase = "serve"
              /\ cpu'.handlers = <<[vector |-> bridge.din, eoi |-> {}]>> \o cpu.handlers
         /\ cpu.phase = "hold2" => cpu'.phase = "serve"
         /\ cpu.phase = "serve" => cpu'.phase = "serve" \/ cpu'.phase = "run"
         /\ ~(cpu.phase = "inta2" /\ bridge.ready) => cpu'.handlers = cpu.handlers
<1>1. CASE cpu.phase = "run"
  BY <1>1 DEF BridgeInv, CpuPhase, CpuPhases
<1>2. CASE cpu.phase = "inta1"
  BY <1>2 DEF BridgeInv, CpuPhase, CpuPhases
<1>3. CASE cpu.phase = "hold1"
  BY <1>3 DEF BridgeInv, CpuPhase, CpuPhases
<1>4. CASE cpu.phase = "gap"
  BY <1>4 DEF BridgeInv, CpuPhase, CpuPhases
<1>5. CASE cpu.phase = "inta2"
  BY <1>5 DEF BridgeInv, CpuPhase, CpuPhases
<1>6. CASE cpu.phase = "hold2"
  BY <1>6 DEF BridgeInv, CpuPhase, CpuPhases
<1>7. CASE cpu.phase = "serve"
  BY <1>7 DEF BridgeInv, CpuPhase, CpuPhases
<1>8. QED
  BY <1>1, <1>2, <1>3, <1>4, <1>5, <1>6, <1>7 DEF BridgeInv, CpuPhases

\* The second answer of the bridge, and the acknowledge it gives the controllers.
LEMMA SecondAnswer ==
  ASSUME BridgeInv, bridge' = NextBridge,
         CpuPhase \/ (cpu.phase = "run" /\ cpu'.phase = "run")
  PROVE  /\ bridge'.done <=> cpu'.phase = "inta2" /\ bridge'.ready
         /\ bridge'.done => cpu.phase = "inta2" /\ ~bridge.ready /\ bridge'.din = interrupt_vector
         /\ ~bridge'.done => bridge'.din = 0 \/ bridge'.din = bridge.din
         /\ bridge'.intr = pic[Master].do
<1>1. /\ bridge'.done = Answers2 /\ bridge'.ready = (Answers1 \/ Answers2) /\ bridge'.intr = pic[Master].do
      /\ bridge'.din = IF Answers1 THEN 0 ELSE IF Answers2 THEN interrupt_vector ELSE bridge.din
  BY DEF NextBridge
<1>2. Answers2 <=> cpu.phase = "inta2" /\ ~bridge.ready
  BY DEF Answers2, cpu_inta, BridgeInv, CpuPhases, Waits, Answers, Holds
<1>3. Answers1 => cpu.phase = "inta1" /\ ~bridge.ready
  BY DEF Answers1, cpu_inta, BridgeInv, CpuPhases, Waits, Answers, Holds
<1>4. Answers1 => cpu'.phase # "inta2"
  BY <1>3, CpuMoves
<1>5. Answers2 => cpu'.phase = "inta2"
  BY <1>2, CpuMoves
<1>6. Answers1 \in BOOLEAN /\ Answers2 \in BOOLEAN
  BY DEF Answers1, Answers2
<1>7. bridge'.done <=> cpu'.phase = "inta2" /\ bridge'.ready
  BY <1>1, <1>4, <1>5, <1>6
<1>8. bridge'.done => cpu.phase = "inta2" /\ ~bridge.ready /\ bridge'.din = interrupt_vector
  BY <1>1, <1>2, <1>3
<1>9. ~bridge'.done => bridge'.din = 0 \/ bridge'.din = bridge.din
  BY <1>1
<1>10. QED
  BY <1>1, <1>7, <1>8, <1>9

LEMMA InitTypes == Init /\ Waiting => BridgeInv /\ Typed /\ Silent
<1> SUFFICES ASSUME Init, Waiting PROVE BridgeInv /\ Typed /\ Silent
  OBVIOUS
<1>1. BridgeInv
  BY InitBridge
<1>2. PICK s \in Scenarios :
        /\ program = s.program
        /\ world = [sources |-> s.sources, nest |-> s.nest, steady |-> s.steady, patient |-> s.patient]
  BY Zenon DEF Init
<1>3. program \in Seq(Accesses) /\ world.sources \subseteq {Master, Slave} \X Lines
  BY <1>2, ScenariosAssumption
<1>4. \A k \in {Master, Slave} :
        /\ pic[k].last = {} /\ pic[k].irr = {} /\ pic[k].isr = {} /\ pic[k].imr = Lines /\ pic[k].slaves = {}
        /\ pic[k].do = FALSE /\ pic[k].vector = 0 /\ pic[k].slave_active = FALSE /\ pic[k].spurious = FALSE
        /\ pic[k].lowest = 7 /\ pic[k].special_mask = FALSE /\ pic[k].ltim = FALSE /\ pic[k].offset = 14
        /\ pic[k].auto_eoi = FALSE
  BY DEF Init
<1>5. Chip(pic[Master]) /\ Chip(pic[Slave])
  <2>1. 7 \in Lines
    BY DEF Lines
  <2>2. ASSUME NEW k \in {Master, Slave} PROVE Chip(pic[k])
    <3>1. /\ pic[k].last = {} /\ pic[k].irr = {} /\ pic[k].isr = {} /\ pic[k].imr = Lines /\ pic[k].slaves = {}
          /\ pic[k].vector = 0 /\ pic[k].lowest = 7 /\ pic[k].offset = 14
      BY <1>4
    <3>2. /\ pic[k].do \in BOOLEAN /\ pic[k].slave_active \in BOOLEAN /\ pic[k].spurious \in BOOLEAN
          /\ pic[k].special_mask \in BOOLEAN /\ pic[k].ltim \in BOOLEAN /\ pic[k].auto_eoi \in BOOLEAN
      BY <1>4, Zenon
    <3>3. 14 \in Nat /\ 0 \in Nat
      OBVIOUS
    <3>4. QED
      BY <2>1, <3>1, <3>2, <3>3, Zenon DEF Chip
  <2>3. QED
    BY <2>2
<1>6. /\ bridge.intr = FALSE /\ bridge.done = FALSE /\ bridge.ready = FALSE /\ bridge.din = 0
      /\ lines = {} /\ cpu.phase = "run" /\ cpu.handlers = <<>>
  BY DEF Init
<1>7. Typed
  BY <1>3, <1>5, <1>6 DEF Typed, Waiting
<1>8. Silent
  BY <1>4, <1>6 DEF Silent
<1>9. QED
  BY <1>1, <1>7, <1>8

\* The access of a step.
Access(acc) ==
  /\ Tick(acc) /\ (acc = NoAccess \/ (acc \in Accesses /\ cpu.phase = "run" /\ cpu'.phase = "run"))
  /\ program = <<>> => acc = NoAccess \/ (~bridge.done /\ \E c \in {Master, Slave} : acc = EndOf(c))
  /\ CpuPhase \/ (cpu.phase = "run" /\ cpu'.phase = "run")

LEMMA Steps ==
  ASSUME BridgeInv, Typed, Next
  PROVE  /\ \E acc : Access(acc)
         /\ LinesMove
         /\ cpu'.handlers \in Seq(Handlers) /\ program' \in Seq(Accesses)
<1>1. CASE Quiet
  <2>1. Access(NoAccess)
    BY <1>1 DEF Quiet, Access
  <2>2. cpu'.handlers = cpu.handlers \/ cpu'.handlers = <<[vector |-> bridge.din, eoi |-> {}]>> \o cpu.handlers
    BY <1>1, CpuMoves DEF Quiet, BridgeInv, CpuPhases
  <2>3. [vector |-> bridge.din, eoi |-> {}] \in Handlers
    BY DEF Handlers, Typed
  <2>4. cpu'.handlers \in Seq(Handlers)
    <3> DEFINE r == [vector |-> bridge.din, eoi |-> {}]
               h == cpu.handlers
    <3>1. r \in Handlers /\ h \in Seq(Handlers)
      BY <2>3 DEF Typed
    <3> HIDE DEF r, h
    <3>2. <<r>> \o h \in Seq(Handlers)
      BY <3>1
    <3>3. QED
      BY <2>2, <3>1, <3>2 DEF r, h
  <2>5. QED
    BY <1>1, <2>1, <2>4 DEF Quiet, Typed
<1>2. CASE Program
  <2>1. Head(program) \in Accesses /\ Tail(program) \in Seq(Accesses)
    BY <1>2 DEF Program, Typed
  <2>2. Access(Head(program))
    BY <1>2, <2>1 DEF Program, Access
  <2>3. QED
    BY <1>2, <2>1, <2>2 DEF Program, Typed
<1>3. CASE Return
  <2>1. Access(NoAccess)
    BY <1>3 DEF Return, Access, BridgeInv
  <2>2. cpu'.handlers = Tail(cpu.handlers) /\ cpu.handlers # <<>>
    BY <1>3 DEF Return, BridgeInv
  <2>3. cpu'.handlers \in Seq(Handlers)
    BY <2>2 DEF Typed
  <2>4. QED
    BY <1>3, <2>1, <2>3 DEF Return, Typed
<1>4. ASSUME NEW k \in {Master, Slave}, EndOfInterrupt(k)
      PROVE  /\ \E acc : Access(acc)
             /\ LinesMove
             /\ cpu'.handlers \in Seq(Handlers) /\ program' \in Seq(Accesses)
  <2>1. cpu.phase = "run" /\ cpu'.phase = "run" /\ cpu.handlers # <<>>
        /\ cpu'.handlers = [cpu.handlers EXCEPT ![1].eoi = @ \cup {k}]
    BY <1>4 DEF EndOfInterrupt, BridgeInv
  <2>2. EndOf(k) \in Accesses
    BY DEF EndOf, Accesses, NonSpecificEOI, Bytes
  <2>3. Tick(EndOf(k)) \/ Tick(NoAccess)
    BY <1>4, Zenon DEF EndOfInterrupt, EndOf
  <2>4. ~bridge.done
    BY <2>1 DEF Typed
  <2>5. Access(EndOf(k)) \/ Access(NoAccess)
    BY <2>1, <2>2, <2>3, <2>4, Zenon DEF Access
  <2>6. cpu'.handlers \in Seq(Handlers)
    <3>1. PICK h \in Seq(Handlers) : h = cpu.handlers
      BY DEF Typed
    <3>2. PICK n \in Nat \ {0} : Len(h) = n /\ h \in [1..n -> Handlers]
      BY <2>1, <3>1
    <3>3. [h EXCEPT ![1].eoi = @ \cup {k}] = [h EXCEPT ![1] = [h[1] EXCEPT !.eoi = @ \cup {k}]]
      OBVIOUS
    <3>4. [h[1] EXCEPT !.eoi = @ \cup {k}] \in Handlers
      BY <3>2 DEF Handlers
    <3>5. [h EXCEPT ![1] = [h[1] EXCEPT !.eoi = @ \cup {k}]] \in [1..n -> Handlers]
      BY <3>2, <3>4
    <3>6. QED
      BY <2>1, <3>1, <3>3, <3>5
  <2>7. QED
    BY <1>4, <2>5, <2>6 DEF EndOfInterrupt, Typed
<1>5. QED
  BY <1>1, <1>2, <1>3, <1>4 DEF Next, Handle

LEMMA TypedStep ==
  ASSUME BridgeInv, Typed, Next
  PROVE  Typed'
<1>1. PICK acc : Access(acc)
  BY Steps
<1>2. bridge' = NextBridge /\ UNCHANGED world /\ \A k \in {Master, Slave} : pic'[k] = NextPic(k, acc)
  BY <1>1 DEF Access, Tick
<1>3. \A k \in {Master, Slave} : Chip(pic'[k])
  <2> SUFFICES ASSUME NEW k \in {Master, Slave} PROVE Chip(pic'[k])
    OBVIOUS
  <2>1. Chip(pic[k])
    BY DEF Typed
  <2>2. QED
    BY <1>1, <1>2, <2>1, InputsAre, Registers DEF Access
<1>4. interrupt_vector \in Nat
  BY DEF interrupt_vector, Typed, Chip
<1>5. bridge'.din \in Nat /\ (bridge'.done <=> cpu'.phase = "inta2" /\ bridge'.ready)
  BY <1>1, <1>2, <1>4, SecondAnswer DEF Access, Typed
<1>6. lines' \subseteq world.sources
  <2>1. LinesMove
    BY Steps
  <2>2. QED
    BY <2>1 DEF LinesMove, Typed
<1>7. cpu'.handlers \in Seq(Handlers) /\ program' \in Seq(Accesses)
  BY Steps
<1>8. Chip(pic'[Master]) /\ Chip(pic'[Slave])
  BY <1>3
<1>9. QED
  BY <1>2, <1>5, <1>6, <1>7, <1>8 DEF Typed

LEMMA SilentStep ==
  ASSUME BridgeInv, Typed, Silent, program # <<>>, Next
  PROVE  Silent'
<1>1. PICK acc : Access(acc)
  BY Steps
<1>2. bridge' = NextBridge /\ \A k \in {Master, Slave} : pic'[k] = NextPic(k, acc)
  BY <1>1 DEF Access, Tick
<1>3. cpu'.phase = "run" /\ cpu'.handlers = <<>>
  <2>1. CASE Quiet
    BY <2>1, CpuMoves DEF Quiet, Silent
  <2>2. CASE Program
    BY <2>2 DEF Program, Silent
  <2>3. CASE Handle
    BY <2>3 DEF Handle, Return, EndOfInterrupt, Silent
  <2>4. QED
    BY <2>1, <2>2, <2>3 DEF Next
<1>4. lines' = {}
  <2>1. LinesMove
    BY Steps
  <2>2. QED
    BY <2>1 DEF LinesMove, Silent, Typed
<1>5. bridge'.intr = pic[Master].do
  BY <1>2 DEF NextBridge
<1>6. ~bridge'.intr
  BY <1>5 DEF Silent
<1>7. ~bridge.done
  BY DEF Typed, Silent
<1>8. \A k \in {Master, Slave} : Inputs(k) = {}
  <2> SUFFICES ASSUME NEW k \in {Master, Slave} PROVE Inputs(k) = {}
    OBVIOUS
  <2>1. lines = {} /\ ~pic[Slave].do
    BY DEF Silent
  <2>2. QED
    BY <2>1 DEF Inputs
<1>9. ASSUME NEW k \in {Master, Slave}
      PROVE  pic'[k].irr = {} /\ pic'[k].isr = {} /\ ~pic'[k].do /\ pic'[k].spurious = FALSE
  BY <1>2, <1>7, <1>8, Unasked DEF Silent
<1>10. QED
  BY <1>3, <1>4, <1>6, <1>9 DEF Silent

-----------------------------------------------------------------------------
(* Once the controllers are set up.                                          *)

\* What a clock makes of the controllers.
LEMMA Clock ==
  ASSUME BridgeInv, Typed, Configured, program = <<>>, NEW acc, Access(acc)
  PROVE  /\ \A k \in {Master, Slave} :
              Ticks(pic[k], pic'[k], InputsNow(k), done(k), acc.chip = k)
         /\ Configured'
<1>1. \A k \in {Master, Slave} : pic'[k] = NextPic(k, acc)
  BY DEF Access, Tick
<1>2. ASSUME NEW k \in {Master, Slave}
      PROVE  Ticks(pic[k], pic'[k], InputsNow(k), done(k), acc.chip = k)
  <2>1. acc = NoAccess \/ (~bridge.done /\ \E c \in {Master, Slave} : acc = EndOf(c))
    BY DEF Access
  <2>2. Chip(pic[k]) /\ ~pic[k].special_mask /\ ~pic[k].auto_eoi
    BY DEF Typed, Configured
  <2>3. Ticks(pic[k], pic'[k], Inputs(k), done(k), acc.chip = k)
    BY <1>1, <2>1, <2>2, Quietly
  <2>4. QED
    BY <2>3, InputsAre
<1>3. Configured'
  <2>1. \A k \in {Master, Slave} : /\ ~pic'[k].special_mask /\ ~pic'[k].auto_eoi
                                   /\ pic'[k].offset = pic[k].offset /\ pic'[k].slaves = pic[k].slaves
    BY <1>2 DEF Ticks
  <2>2. QED
    BY <2>1 DEF Configured
<1>4. QED
  BY <1>2, <1>3

\* No request is lost: what waits in a controller is on its inputs, or has a handler.
Requests ==
  \A k \in {Master, Slave} :
    /\ pic[k].spurious = FALSE
    /\ pic[k].irr \ pic[k].isr \subseteq InputsNow(k)
    /\ pic[k].do => Asks(pic[k])

\* The handlers under way, by the base of the slave's vectors.
LineAt(k, base, v) == IF k = Master /\ v \div 8 = base THEN CascadeLine ELSE v % 8
OpenIn(k, base, handlers) ==
  {i \in DOMAIN handlers : /\ k \notin handlers[i].eoi
                           /\ k = Slave => handlers[i].vector \div 8 = base}
Levels(k, base, handlers) == {LineAt(k, base, handlers[i].vector) : i \in OpenIn(k, base, handlers)}
Nested(base, lowest, handlers) ==
  /\ \A i, j \in OpenIn(Master, base, handlers) :
       i < j => RankOf(lowest, LineAt(Master, base, handlers[i].vector))
                  < RankOf(lowest, LineAt(Master, base, handlers[j].vector))
  /\ OpenIn(Slave, base, handlers) \subseteq OpenIn(Master, base, handlers)

Stack ==
  /\ \A k \in {Master, Slave} : pic[k].isr = Levels(k, pic[Slave].offset, cpu.handlers)
  /\ Nested(pic[Slave].offset, pic[Master].lowest, cpu.handlers)
  /\ cpu.phase \in {"hold2", "serve"} => cpu.handlers # <<>> /\ Top.eoi = {}

LEMMA RequestsStep ==
  ASSUME BridgeInv, Typed, Configured, Requests, Stack, program = <<>>, Next
  PROVE  Requests'
<1>1. PICK acc : Access(acc)
  BY Steps
<1>2. \A k \in {Master, Slave} : Ticks(pic[k], pic'[k], InputsNow(k), done(k), acc.chip = k)
  BY <1>1, Clock
<1>3. \A k \in {Master, Slave} : Chip(pic[k]) /\ Chip(pic'[k]) /\ ~pic[k].special_mask
  BY TypedStep DEF Typed, Configured
<1>4. acc # NoAccess => cpu.phase = "run"
  BY <1>1 DEF Access
<1>5. NoAccess.chip \notin {Master, Slave}
  BY DEF NoAccess, Master, Slave
<1>6. ASSUME NEW k \in {Master, Slave}, cpu.phase # "run", NEW x \in pic[k].isr PROVE x \in pic'[k].isr
  <2>1. acc.chip # k
    BY <1>4, <1>5, <1>6
  <2>2. QED
    BY <1>2, <2>1, <1>6 DEF Ticks
<1>7. ASSUME NEW k \in {Master, Slave} PROVE pic'[k].spurious = FALSE
  <2>1. pic'[k].spurious = IF pic[k].do /\ ~done(k) /\ ~Asks(pic[k]) THEN TRUE
                           ELSE IF done(k) \/ Asks(pic[k]) THEN FALSE ELSE pic[k].spurious
    BY <1>2 DEF Ticks
  <2>2. pic[k].spurious = FALSE /\ (pic[k].do => Asks(pic[k]))
    BY DEF Requests
  <2>3. QED
    BY <2>1, <2>2, Zenon
<1>8. ASSUME NEW k \in {Master, Slave} PROVE pic'[k].do => Asks(pic'[k])
  <2>1. SUFFICES ASSUME pic'[k].do PROVE Asks(pic'[k])
    OBVIOUS
  <2>2. pic'[k].do = (~done(k) /\ Asks(pic[k]))
    BY <1>2 DEF Ticks
  <2>3. ~done(k) /\ Asks(pic[k])
    BY <2>1, <2>2, Zenon
  <2>4. done(k) = FALSE
    BY <2>3 DEF done
  <2>5. Ticks(pic[k], pic'[k], InputsNow(k), FALSE, acc.chip = k)
    BY <1>2, <2>4, Zenon
  <2>6. pic[k].irr \ pic[k].isr \subseteq InputsNow(k)
    BY DEF Requests
  <2>7. QED
    BY <1>3, <2>3, <2>5, <2>6, KeepsAsking
<1>9. ASSUME NEW k \in {Master, Slave}, NEW x \in pic'[k].irr, x \notin pic'[k].isr
      PROVE  x \in InputsOf(k, lines', pic'[Slave].do)
  <2>1. x \in InputsNow(k)
    BY <1>2, <1>9, Latches DEF Latched
  <2>2. CASE x \in Lines /\ <<k, x>> \in lines
    <3>1. SUFFICES ASSUME <<k, x>> \notin lines' PROVE FALSE
      BY <2>2 DEF InputsOf
    <3>2. lines \ Quieted \subseteq lines'
      <4>1. LinesMove
        BY Steps
      <4>2. QED
        BY <4>1 DEF LinesMove, Typed
    <3>3. cpu.phase = "serve" /\ <<k, x>> = SourceOf(Top.vector)
      BY <2>2, <3>1, <3>2 DEF Quieted
    <3>4. x \in pic[k].isr
      <4> DEFINE h == cpu.handlers
                 base == pic[Slave].offset
      <4>1. h # <<>> /\ Top.eoi = {} /\ pic[k].isr = Levels(k, base, h)
        BY <3>3 DEF Stack
      <4>2. h \in Seq(Handlers)
        BY DEF Typed
      <4>3. Top = h[1] /\ 1 \in DOMAIN h
        BY <4>1, <4>2 DEF Top
      <4>4. IsSlaveVector(Top.vector) <=> h[1].vector \div 8 = base
        BY <4>3 DEF IsSlaveVector, Configured
      <4>5. CASE IsSlaveVector(Top.vector)
        <5>1. k = Slave /\ x = h[1].vector % 8
          BY <3>3, <4>3, <4>5 DEF SourceOf
        <5>2. 1 \in OpenIn(k, base, h) /\ LineAt(k, base, h[1].vector) = x
          BY <4>1, <4>3, <4>4, <4>5, <5>1 DEF OpenIn, LineAt, Master, Slave
        <5>3. QED
          BY <4>1, <5>2 DEF Levels
      <4>6. CASE ~IsSlaveVector(Top.vector)
        <5>1. k = Master /\ x = h[1].vector % 8
          BY <3>3, <4>3, <4>6 DEF SourceOf
        <5>2. 1 \in OpenIn(k, base, h) /\ LineAt(k, base, h[1].vector) = x
          BY <4>1, <4>3, <4>4, <4>6, <5>1 DEF OpenIn, LineAt, Master, Slave
        <5>3. QED
          BY <4>1, <5>2 DEF Levels
      <4>7. QED
        BY <4>5, <4>6
    <3>5. QED
      BY <1>6, <1>9, <3>3, <3>4
  <2>3. CASE k = Master /\ x = CascadeLine /\ pic[Slave].do
    <3>1. SUFFICES ASSUME ~pic'[Slave].do PROVE FALSE
      BY <2>3 DEF InputsOf
    <3>2. Asks(pic[Slave]) /\ pic'[Slave].do = (~done(Slave) /\ Asks(pic[Slave]))
      BY <1>2, <2>3 DEF Requests, Ticks
    <3>3. done(Slave)
      BY <3>1, <3>2, Zenon
    <3>4. bridge.done /\ pic[Master].vector % 8 = CascadeLine
      BY <3>3 DEF done, sla_select, Master, Slave
    <3>5. cpu.phase = "inta2" /\ done(Master)
      BY <3>4 DEF Typed, done
    <3>6. acc.chip # Master
      BY <1>4, <1>5, <3>5
    <3>7. ~pic[Master].spurious
      BY DEF Requests
    <3>8. CascadeLine \in pic'[Master].isr
      BY <1>2, <3>4, <3>5, <3>6, <3>7 DEF Ticks
    <3>9. QED
      BY <1>9, <2>3, <3>8
  <2>4. QED
    BY <2>1, <2>2, <2>3 DEF InputsNow, InputsOf
<1>10. \A k \in {Master, Slave} : pic'[k].irr \ pic'[k].isr \subseteq InputsOf(k, lines', pic'[Slave].do)
  BY <1>9
<1>11. QED
  BY <1>7, <1>8, <1>10, Zenon DEF Requests, InputsNow

\* An acknowledge is for a request that stays; its levels pass the two controllers, a clock
\* each, before the bridge takes the vector.
Acknowledging == {"inta1", "hold1", "gap", "inta2"}
Pipeline ==
  /\ cpu.phase \in Acknowledging \/ (cpu.phase = "run" /\ bridge.intr) => pic[Master].do
  /\ cpu.phase \in Acknowledging => Latched(pic[Slave], InputsNow(Slave))
  /\ cpu.phase \in Acknowledging /\ ~(cpu.phase = "inta1" /\ ~bridge.ready) => Decided(pic[Slave])
  /\ cpu.phase \in {"hold1", "gap", "inta2"} => Latched(pic[Master], InputsNow(Master))
  /\ cpu.phase = "inta2" \/ (cpu.phase = "gap" /\ bridge.state = "S_INTA2") => Decided(pic[Master])
  /\ bridge.done => bridge.din = interrupt_vector

\* The vector of a controller names its line and its base.
LEMMA VectorIs ==
  ASSUME NEW p, Chip(p), ~p.special_mask, Decided(p), Asks(p)
  PROVE  LineOf(p) \in Lines /\ p.vector % 8 = LineOf(p) /\ p.vector \div 8 = p.offset
<1>1. PICK o \in Nat : o = p.offset
  BY DEF Chip
<1>2. PICK l \in 0..7 : l = LineOf(p)
  BY AsksFor DEF Lines
<1>3. PICK v \in Nat : v = p.vector
  BY DEF Chip
<1>4. v = 8 * o + l
  BY <1>1, <1>2, <1>3 DEF Decided
<1>5. v % 8 = l /\ v \div 8 = o
  BY <1>4
<1>6. QED
  BY <1>1, <1>2, <1>3, <1>5 DEF Lines

\* Who asks, by the vector that the master shows.
LEMMA Selected ==
  ASSUME Typed, Configured, Requests, Asks(pic[Master]), Decided(pic[Master])
  PROVE  /\ LineOf(pic[Master]) \in Lines
         /\ pic[Master].vector = 8 * pic[Master].offset + LineOf(pic[Master])
         /\ pic[Master].vector % 8 = LineOf(pic[Master])
         /\ pic[Master].vector \div 8 = pic[Master].offset
         /\ sla_select <=> LineOf(pic[Master]) = CascadeLine
         /\ sla_select => Asks(pic[Slave])
         /\ ~sla_select => <<Master, LineOf(pic[Master])>> \in lines
<1> DEFINE p == pic[Master]
           line == LineOf(p)
<1>1. line \in Lines /\ line \in p.irr /\ line \notin p.isr
  BY AsksFor DEF Typed, Configured
<1>2. p.vector = 8 * p.offset + line /\ (p.slave_active <=> line \in p.slaves)
  BY DEF Decided
<1>3. p.vector % 8 = line /\ p.vector \div 8 = p.offset
  BY VectorIs DEF Typed, Configured
<1>4. line \in InputsNow(Master)
  BY <1>1 DEF Requests
<1>5. CascadeLine \in p.slaves
  BY DEF Configured
<1>6. sla_select <=> line = CascadeLine
  BY <1>2, <1>3, <1>5 DEF sla_select
<1>7. line = CascadeLine => Asks(pic[Slave])
  <2>1. <<Master, CascadeLine>> \notin lines
    BY DEF Typed
  <2>2. line = CascadeLine => pic[Slave].do
    BY <1>4, <2>1 DEF InputsNow, InputsOf
  <2>3. QED
    BY <2>2 DEF Requests
<1>8. line # CascadeLine => <<Master, line>> \in lines
  BY <1>4 DEF InputsNow, InputsOf
<1>9. QED
  BY <1>1, <1>2, <1>3, <1>6, <1>7, <1>8

LEMMA PipelineStep ==
  ASSUME BridgeInv, Typed, Configured, Requests, Pipeline, program = <<>>, Next
  PROVE  Pipeline'
<1>1. PICK acc : Access(acc)
  BY Steps
<1>2. \A k \in {Master, Slave} : Ticks(pic[k], pic'[k], InputsNow(k), done(k), acc.chip = k)
  BY <1>1, Clock
<1>3. bridge' = NextBridge /\ (CpuPhase \/ (cpu.phase = "run" /\ cpu'.phase = "run"))
  BY <1>1 DEF Access, Tick
<1>4. \A k \in {Master, Slave} : Chip(pic[k]) /\ ~pic[k].special_mask
  BY DEF Typed, Configured
<1>5. cpu'.phase \in Acknowledging \/ cpu'.phase = "run" => ~bridge.done
  <2>1. bridge.done => cpu.phase = "inta2" /\ bridge.ready
    BY DEF Typed
  <2>2. QED
    BY <1>3, <2>1, CpuMoves DEF Acknowledging
<1>6. \A k \in {Master, Slave} : cpu'.phase \in Acknowledging =>
        Ticks(pic[k], pic'[k], InputsNow(k), FALSE, FALSE)
  <2> SUFFICES ASSUME NEW k \in {Master, Slave}, cpu'.phase \in Acknowledging
               PROVE  Ticks(pic[k], pic'[k], InputsNow(k), FALSE, FALSE)
    OBVIOUS
  <2>1. done(k) = FALSE
    BY <1>5 DEF done
  <2>2. (acc.chip = k) = FALSE
    BY <1>1 DEF Access, NoAccess, Master, Slave, Acknowledging
  <2>3. QED
    BY <1>2, <2>1, <2>2, Zenon
<1>7. cpu'.phase \in Acknowledging => lines' = lines
  <2>1. LinesMove
    BY Steps
  <2>2. cpu'.phase \in Acknowledging => cpu'.phase = "inta1" \/ cpu.phase \in Acknowledging
    BY <1>3, CpuMoves DEF Acknowledging, BridgeInv, CpuPhases
  <2>3. QED
    BY <2>1, <2>2 DEF LinesMove, Typed, Acknowledging
<1>8. cpu'.phase \in Acknowledging \/ (cpu'.phase = "run" /\ bridge'.intr) => pic'[Master].do
  <2>1. SUFFICES ASSUME cpu'.phase \in Acknowledging \/ (cpu'.phase = "run" /\ bridge'.intr)
                 PROVE  pic'[Master].do
    OBVIOUS
  <2>2. bridge'.intr = pic[Master].do
    BY <1>3 DEF NextBridge
  <2>3. cpu'.phase \in Acknowledging => cpu.phase \in Acknowledging \/ (cpu.phase = "run" /\ bridge.intr)
    BY <1>3, CpuMoves DEF Acknowledging, BridgeInv, CpuPhases
  <2>4. pic[Master].do
    BY <2>1, <2>2, <2>3, Zenon DEF Pipeline
  <2>5. Asks(pic[Master])
    BY <2>4 DEF Requests
  <2>6. ~done(Master)
    BY <1>5, <2>1 DEF done
  <2>7. pic'[Master].do = (~done(Master) /\ Asks(pic[Master]))
    BY <1>2 DEF Ticks
  <2>8. QED
    BY <2>5, <2>6, <2>7, Zenon
<1>9. cpu'.phase \in Acknowledging => Latched(pic'[Slave], InputsOf(Slave, lines', pic'[Slave].do))
  <2>1. InputsOf(Slave, lines, pic[Slave].do) = InputsOf(Slave, lines, pic'[Slave].do)
    BY DEF InputsOf, Master, Slave
  <2>2. Latched(pic'[Slave], InputsOf(Slave, lines, pic[Slave].do))
    BY <1>2, Latches DEF InputsNow
  <2>3. QED
    BY <1>7, <2>1, <2>2, Zenon
<1>10. cpu'.phase \in Acknowledging /\ ~(cpu'.phase = "inta1" /\ ~bridge'.ready) =>
         /\ Latched(pic[Slave], InputsNow(Slave)) /\ Decided(pic'[Slave])
         /\ cpu.phase \in Acknowledging
  <2>1. SUFFICES ASSUME cpu'.phase \in Acknowledging, ~(cpu'.phase = "inta1" /\ ~bridge'.ready)
                 PROVE  /\ Latched(pic[Slave], InputsNow(Slave)) /\ Decided(pic'[Slave])
                        /\ cpu.phase \in Acknowledging
    OBVIOUS
  <2>2. cpu.phase = "run" => cpu'.phase = "inta1" /\ ~bridge'.ready
    BY <1>3, <2>1, CpuMoves, BridgeTick DEF Acknowledging, cpu_inta
  <2>3. cpu.phase \in Acknowledging
    BY <1>3, <2>1, <2>2, CpuMoves DEF Acknowledging, BridgeInv, CpuPhases
  <2>4. Latched(pic[Slave], InputsNow(Slave))
    BY <2>3 DEF Pipeline
  <2>5. Decided(pic'[Slave])
    BY <1>4, <1>6, <2>1, <2>4, Decides
  <2>6. QED
    BY <2>3, <2>4, <2>5
<1>11. cpu'.phase \in {"hold1", "gap", "inta2"} => Latched(pic'[Master], InputsOf(Master, lines', pic'[Slave].do))
  <2>1. SUFFICES ASSUME cpu'.phase \in {"hold1", "gap", "inta2"}
                 PROVE  Latched(pic'[Master], InputsOf(Master, lines', pic'[Slave].do))
    OBVIOUS
  <2>2. cpu.phase \in Acknowledging /\ ~(cpu.phase = "inta1" /\ ~bridge.ready) /\ cpu'.phase \in Acknowledging
    BY <1>3, <2>1, CpuMoves DEF Acknowledging, BridgeInv, CpuPhases
  <2>3. Decided(pic[Slave])
    BY <2>2 DEF Pipeline
  <2>4. pic'[Slave].do = (~FALSE /\ Asks(pic[Slave]))
    BY <1>6, <2>2 DEF Ticks
  <2>5. pic'[Slave].do <=> pic[Slave].do
    BY <2>3, <2>4, Zenon DEF Decided
  <2>6. InputsOf(Master, lines', pic'[Slave].do) = InputsNow(Master)
    BY <1>7, <2>2, <2>5, Zenon DEF InputsNow, InputsOf
  <2>7. Latched(pic'[Master], InputsNow(Master))
    BY <1>2, Latches
  <2>8. QED
    BY <2>6, <2>7, Zenon
<1>12. cpu'.phase = "inta2" \/ (cpu'.phase = "gap" /\ bridge'.state = "S_INTA2") => Decided(pic'[Master])
  <2>1. SUFFICES ASSUME cpu'.phase = "inta2" \/ (cpu'.phase = "gap" /\ bridge'.state = "S_INTA2")
                 PROVE  Decided(pic'[Master])
    OBVIOUS
  <2>2. cpu.phase = "inta1" /\ bridge.ready => bridge'.state = "S_INTA1"
    BY <1>3, BridgeTick DEF BridgeInv, cpu_inta, Waits, Answers
  <2>3. cpu.phase \in {"hold1", "gap", "inta2"} /\ cpu'.phase \in Acknowledging
    BY <1>3, <2>1, <2>2, CpuMoves DEF Acknowledging, BridgeInv, CpuPhases
  <2>4. Latched(pic[Master], InputsNow(Master))
    BY <2>3 DEF Pipeline
  <2>5. QED
    BY <1>4, <1>6, <2>3, <2>4, Decides
<1>13. ASSUME bridge'.done PROVE bridge'.din = interrupt_vector'
  <2>1. cpu.phase = "inta2" /\ ~bridge.ready /\ bridge'.din = interrupt_vector /\ cpu'.phase \in Acknowledging
    BY <1>3, <1>13, SecondAnswer DEF Acknowledging
  <2>2. /\ Latched(pic[Master], InputsNow(Master)) /\ Decided(pic[Master])
        /\ Latched(pic[Slave], InputsNow(Slave)) /\ Decided(pic[Slave]) /\ pic[Master].do
    BY <2>1 DEF Pipeline, Acknowledging
  <2>3. Asks(pic[Master])
    BY <2>2 DEF Requests
  <2>4. pic'[Master].vector = pic[Master].vector /\ pic'[Master].slave_active = pic[Master].slave_active
    BY <1>4, <1>6, <2>1, <2>2, <2>3, Decides
  <2>5. sla_select' = sla_select
    BY <2>4 DEF sla_select
  <2>6. sla_select => pic'[Slave].vector = pic[Slave].vector
    <3>1. sla_select => Asks(pic[Slave])
      BY <2>2, <2>3, Selected
    <3>2. QED
      BY <1>4, <1>6, <2>1, <2>2, <3>1, Decides
  <2>7. interrupt_vector' = interrupt_vector
    BY <2>4, <2>5, <2>6 DEF interrupt_vector
  <2>8. QED
    BY <2>1, <2>7
<1>14. cpu'.phase \in Acknowledging => Latched(pic'[Slave], InputsNow(Slave)')
  BY <1>9 DEF InputsNow
<1>15. cpu'.phase \in {"hold1", "gap", "inta2"} => Latched(pic'[Master], InputsNow(Master)')
  BY <1>11 DEF InputsNow
<1>16. QED
  BY <1>8, <1>10, <1>12, <1>13, <1>14, <1>15 DEF Pipeline, Acknowledging

\* The handlers under way, after one is entered, has ended its interrupt, or has returned.
Enter(v, handlers) == <<[vector |-> v, eoi |-> {}]>> \o handlers
End(c, handlers) == [handlers EXCEPT ![1].eoi = @ \cup {c}]

LEMMA Entered ==
  ASSUME NEW base \in Nat, NEW lowest \in Lines, NEW h \in Seq(Handlers), NEW v \in Nat, NEW g,
         g = Enter(v, h), Nested(base, lowest, h),
         \A l \in Levels(Master, base, h) : RankOf(lowest, LineAt(Master, base, v)) < RankOf(lowest, l)
  PROVE  /\ Levels(Master, base, g) = Levels(Master, base, h) \cup {LineAt(Master, base, v)}
         /\ Levels(Slave, base, g) = Levels(Slave, base, h) \cup (IF v \div 8 = base THEN {v % 8} ELSE {})
         /\ Nested(base, lowest, g) /\ g # <<>>
<1> DEFINE r == [vector |-> v, eoi |-> {}]
<1>1. /\ DOMAIN h = 1..Len(h) /\ Len(h) \in Nat /\ DOMAIN g = 1..(Len(h) + 1)
      /\ g[1] = r /\ \A i \in DOMAIN h : g[i + 1] = h[i]
  <2>1. <<r>> \in Seq({r}) /\ Len(<<r>>) = 1 /\ <<r>>[1] = r
    OBVIOUS
  <2>2. QED
    BY DEF Enter
<1>2. \A i \in DOMAIN g : i = 1 \/ (i - 1 \in DOMAIN h /\ g[i] = h[i - 1])
  BY <1>1
<1>3. \A i \in DOMAIN h : i + 1 \in DOMAIN g /\ i + 1 # 1
  BY <1>1
<1>4. 1 \in DOMAIN g
  BY <1>1
<1>5. r.vector = v /\ r.eoi = {}
  OBVIOUS
<1> HIDE DEF r
<1>6. \A k \in {Master, Slave} : \A i \in DOMAIN h : i + 1 \in OpenIn(k, base, g) <=> i \in OpenIn(k, base, h)
  BY <1>1, <1>3 DEF OpenIn
<1>7. 1 \in OpenIn(Master, base, g) /\ (1 \in OpenIn(Slave, base, g) <=> v \div 8 = base)
  <2>1. g[1].vector = v /\ g[1].eoi = {}
    BY <1>1, <1>5
  <2>2. Master # Slave
    BY DEF Master, Slave
  <2>3. QED
    BY <1>4, <2>1, <2>2, Zenon DEF OpenIn
<1>8. \A k \in {Master, Slave} : OpenIn(k, base, h) \subseteq DOMAIN h /\ OpenIn(k, base, g) \subseteq DOMAIN g
  BY DEF OpenIn
<1>9. \A k \in {Master, Slave} : \A i \in OpenIn(k, base, g) :
        i = 1 \/ (i - 1 \in OpenIn(k, base, h) /\ g[i] = h[i - 1])
  <2> SUFFICES ASSUME NEW k \in {Master, Slave}, NEW i \in OpenIn(k, base, g), i # 1
               PROVE  i - 1 \in OpenIn(k, base, h) /\ g[i] = h[i - 1]
    OBVIOUS
  <2>1. i - 1 \in DOMAIN h /\ g[i] = h[i - 1]
    BY <1>2, <1>8
  <2>2. i \in 1..(Len(h) + 1)
    BY <1>1, <1>8
  <2>3. (i - 1) + 1 = i
    BY <1>1, <2>2
  <2>4. QED
    BY <1>6, <2>1, <2>3
<1>10. Levels(Master, base, g) = Levels(Master, base, h) \cup {LineAt(Master, base, v)}
  <2>1. ASSUME NEW l \in Levels(Master, base, g) PROVE l \in Levels(Master, base, h) \cup {LineAt(Master, base, v)}
    <3>1. PICK i \in OpenIn(Master, base, g) : l = LineAt(Master, base, g[i].vector)
      BY <2>1 DEF Levels
    <3>2. QED
      BY <1>1, <1>5, <1>9, <3>1 DEF Levels
  <2>2. ASSUME NEW l \in Levels(Master, base, h) PROVE l \in Levels(Master, base, g)
    <3>1. PICK i \in OpenIn(Master, base, h) : l = LineAt(Master, base, h[i].vector)
      BY <2>2 DEF Levels
    <3>2. i + 1 \in OpenIn(Master, base, g) /\ g[i + 1] = h[i]
      BY <1>1, <1>6, <1>8, <3>1
    <3>3. QED
      BY <3>1, <3>2 DEF Levels
  <2>3. LineAt(Master, base, v) \in Levels(Master, base, g)
    BY <1>1, <1>5, <1>7 DEF Levels
  <2>4. QED
    BY <2>1, <2>2, <2>3
<1>11. Levels(Slave, base, g) = Levels(Slave, base, h) \cup (IF v \div 8 = base THEN {v % 8} ELSE {})
  <2>0. LineAt(Slave, base, v) = v % 8
    BY DEF LineAt, Master, Slave
  <2>1. ASSUME NEW l \in Levels(Slave, base, g)
        PROVE  l \in Levels(Slave, base, h) \/ (v \div 8 = base /\ l = v % 8)
    <3>1. PICK i \in OpenIn(Slave, base, g) : l = LineAt(Slave, base, g[i].vector)
      BY <2>1 DEF Levels
    <3>2. QED
      BY <1>1, <1>5, <1>7, <1>9, <2>0, <3>1 DEF Levels
  <2>2. ASSUME NEW l \in Levels(Slave, base, h) PROVE l \in Levels(Slave, base, g)
    <3>1. PICK i \in OpenIn(Slave, base, h) : l = LineAt(Slave, base, h[i].vector)
      BY <2>2 DEF Levels
    <3>2. i + 1 \in OpenIn(Slave, base, g) /\ g[i + 1] = h[i]
      BY <1>1, <1>6, <1>8, <3>1
    <3>3. QED
      BY <3>1, <3>2 DEF Levels
  <2>3. v \div 8 = base => v % 8 \in Levels(Slave, base, g)
    BY <1>1, <1>5, <1>7, <2>0 DEF Levels
  <2>4. QED
    BY <2>1, <2>2, <2>3
<1>12. Nested(base, lowest, g)
  <2>1. ASSUME NEW i \in OpenIn(Master, base, g), NEW j \in OpenIn(Master, base, g), i < j
        PROVE  RankOf(lowest, LineAt(Master, base, g[i].vector)) < RankOf(lowest, LineAt(Master, base, g[j].vector))
    <3>1. i \in 1..(Len(h) + 1) /\ j \in 1..(Len(h) + 1) /\ Len(h) \in Nat
      BY <1>1, <1>8
    <3>2. j # 1
      BY <2>1, <3>1
    <3>3. j - 1 \in OpenIn(Master, base, h) /\ g[j] = h[j - 1]
      BY <1>9, <3>2
    <3>4. CASE i = 1
      <4>1. g[i].vector = v
        BY <1>1, <1>5, <3>4
      <4>2. LineAt(Master, base, g[j].vector) \in Levels(Master, base, h)
        BY <3>3 DEF Levels
      <4>3. QED
        BY <4>1, <4>2
    <3>5. CASE i # 1
      <4>1. i - 1 \in OpenIn(Master, base, h) /\ g[i] = h[i - 1]
        BY <1>9, <3>5
      <4>2. i - 1 < j - 1
        BY <2>1, <3>1
      <4>3. QED
        BY <3>3, <4>1, <4>2 DEF Nested
    <3>6. QED
      BY <3>4, <3>5
  <2>2. OpenIn(Slave, base, g) \subseteq OpenIn(Master, base, g)
    <3> SUFFICES ASSUME NEW i \in OpenIn(Slave, base, g), i # 1 PROVE i \in OpenIn(Master, base, g)
      BY <1>7
    <3>1. i - 1 \in OpenIn(Slave, base, h)
      BY <1>9
    <3>2. i - 1 \in OpenIn(Master, base, h)
      BY <3>1 DEF Nested
    <3>3. i \in 1..(Len(h) + 1)
      BY <1>1, <1>8
    <3>4. (i - 1) + 1 = i
      BY <1>1, <3>3
    <3>5. QED
      BY <1>6, <1>8, <3>2, <3>4
  <2>3. QED
    BY <2>1, <2>2 DEF Nested
<1>13. g # <<>>
  BY <1>4
<1>14. QED
  BY <1>10, <1>11, <1>12, <1>13

LEMMA Returned ==
  ASSUME NEW base \in Nat, NEW lowest \in Lines, NEW h \in Seq(Handlers), NEW g,
         h # <<>>, Master \in h[1].eoi, g = Tail(h), Nested(base, lowest, h)
  PROVE  /\ \A k \in {Master, Slave} : Levels(k, base, g) = Levels(k, base, h)
         /\ Nested(base, lowest, g)
<1>1. /\ Len(h) \in Nat \ {0} /\ DOMAIN h = 1..Len(h) /\ DOMAIN g = 1..(Len(h) - 1)
      /\ \A i \in DOMAIN g : g[i] = h[i + 1] /\ i + 1 \in DOMAIN h
  OBVIOUS
<1>2. \A k \in {Master, Slave} : OpenIn(k, base, h) \subseteq DOMAIN h /\ OpenIn(k, base, g) \subseteq DOMAIN g
  BY DEF OpenIn
<1>3. 1 \notin OpenIn(Master, base, h) /\ 1 \notin OpenIn(Slave, base, h)
  BY DEF OpenIn, Nested
<1>4. \A k \in {Master, Slave} : \A i \in DOMAIN g : i \in OpenIn(k, base, g) <=> i + 1 \in OpenIn(k, base, h)
  BY <1>1 DEF OpenIn
<1>5. \A k \in {Master, Slave} : \A i \in OpenIn(k, base, h) : i - 1 \in OpenIn(k, base, g) /\ g[i - 1] = h[i]
  <2> SUFFICES ASSUME NEW k \in {Master, Slave}, NEW i \in OpenIn(k, base, h)
               PROVE  i - 1 \in OpenIn(k, base, g) /\ g[i - 1] = h[i]
    OBVIOUS
  <2>1. i \in 1..Len(h) /\ i # 1
    BY <1>1, <1>2, <1>3
  <2>2. i - 1 \in DOMAIN g /\ (i - 1) + 1 = i
    BY <1>1, <2>1
  <2>3. QED
    BY <1>1, <1>4, <2>2
<1>6. ASSUME NEW k \in {Master, Slave} PROVE Levels(k, base, g) = Levels(k, base, h)
  <2>1. ASSUME NEW l \in Levels(k, base, g) PROVE l \in Levels(k, base, h)
    <3>1. PICK i \in OpenIn(k, base, g) : l = LineAt(k, base, g[i].vector)
      BY <2>1 DEF Levels
    <3>2. i + 1 \in OpenIn(k, base, h) /\ g[i] = h[i + 1]
      BY <1>1, <1>2, <1>4, <3>1
    <3>3. QED
      BY <3>1, <3>2 DEF Levels
  <2>2. ASSUME NEW l \in Levels(k, base, h) PROVE l \in Levels(k, base, g)
    <3>1. PICK i \in OpenIn(k, base, h) : l = LineAt(k, base, h[i].vector)
      BY <2>2 DEF Levels
    <3>2. i - 1 \in OpenIn(k, base, g) /\ g[i - 1] = h[i]
      BY <1>5, <3>1
    <3>3. QED
      BY <3>1, <3>2 DEF Levels
  <2>3. QED
    BY <2>1, <2>2
<1>7. Nested(base, lowest, g)
  <2>1. ASSUME NEW i \in OpenIn(Master, base, g), NEW j \in OpenIn(Master, base, g), i < j
        PROVE  RankOf(lowest, LineAt(Master, base, g[i].vector)) < RankOf(lowest, LineAt(Master, base, g[j].vector))
    <3>1. i + 1 \in OpenIn(Master, base, h) /\ g[i] = h[i + 1] /\ j + 1 \in OpenIn(Master, base, h) /\ g[j] = h[j + 1]
      BY <1>1, <1>2, <1>4
    <3>2. i + 1 < j + 1
      BY <1>1, <1>2, <2>1
    <3>3. QED
      BY <3>1, <3>2 DEF Nested
  <2>2. OpenIn(Slave, base, g) \subseteq OpenIn(Master, base, g)
    BY <1>2, <1>4 DEF Nested
  <2>3. QED
    BY <2>1, <2>2 DEF Nested
<1>8. QED
  BY <1>6, <1>7

LEMMA Ended ==
  ASSUME NEW base \in Nat, NEW lowest \in Lines, NEW h \in Seq(Handlers), NEW g, NEW c \in {Master, Slave},
         h # <<>>, g = End(c, h), Nested(base, lowest, h), c \notin h[1].eoi,
         c = Slave => h[1].vector \div 8 = base,
         c = Master /\ h[1].vector \div 8 = base => Slave \in h[1].eoi
  PROVE  LET x == LineAt(c, base, h[1].vector) IN
         /\ x \in Levels(c, base, h) /\ Levels(c, base, h) \subseteq Lines
         /\ c = Master => \A l \in Levels(c, base, h) : RankOf(lowest, x) <= RankOf(lowest, l)
         /\ c = Slave => Levels(c, base, h) = {x}
         /\ Levels(c, base, g) = Levels(c, base, h) \ {x}
         /\ \A k \in {Master, Slave} \ {c} : Levels(k, base, g) = Levels(k, base, h)
         /\ Nested(base, lowest, g)
<1> DEFINE x == LineAt(c, base, h[1].vector)
<1>1. /\ Len(h) \in Nat /\ DOMAIN h = 1..Len(h) /\ 1 \in DOMAIN h /\ DOMAIN g = DOMAIN h
      /\ \A i \in DOMAIN h : h[i].vector \in Nat
  <2>1. g = [h EXCEPT ![1] = [h[1] EXCEPT !.eoi = @ \cup {c}]]
    BY DEF End
  <2>2. Len(h) \in Nat \ {0} /\ DOMAIN h = 1..Len(h) /\ h \in [1..Len(h) -> Handlers]
    OBVIOUS
  <2>3. DOMAIN g = DOMAIN h
    BY <2>1, <2>2
  <2>4. QED
    BY <2>2, <2>3 DEF Handlers
<1>2. /\ \A i \in DOMAIN h : i # 1 => g[i] = h[i]
      /\ g[1] = [h[1] EXCEPT !.eoi = @ \cup {c}]
  <2>1. g = [h EXCEPT ![1] = [h[1] EXCEPT !.eoi = @ \cup {c}]]
    BY DEF End
  <2>2. QED
    BY <1>1, <2>1
<1>3. h[1] \in Handlers
  BY <1>1
<1>4. g[1].vector = h[1].vector /\ g[1].eoi = h[1].eoi \cup {c}
  BY <1>2, <1>3 DEF Handlers
<1>5. \A i \in DOMAIN h : g[i].vector = h[i].vector
  BY <1>2, <1>4
<1>6. \A k \in {Master, Slave} : OpenIn(k, base, h) \subseteq DOMAIN h /\ OpenIn(k, base, g) \subseteq DOMAIN h
  BY <1>1 DEF OpenIn
<1>7. OpenIn(c, base, g) = OpenIn(c, base, h) \ {1}
  BY <1>1, <1>2, <1>4 DEF OpenIn
<1>8. \A k \in {Master, Slave} \ {c} : OpenIn(k, base, g) = OpenIn(k, base, h)
  <2> SUFFICES ASSUME NEW k \in {Master, Slave} \ {c} PROVE OpenIn(k, base, g) = OpenIn(k, base, h)
    OBVIOUS
  <2>1. \A i \in DOMAIN h : k \in g[i].eoi <=> k \in h[i].eoi
    BY <1>2, <1>4
  <2>2. QED
    BY <1>1, <1>5, <2>1 DEF OpenIn
<1>9. 1 \in OpenIn(c, base, h)
  BY <1>1 DEF OpenIn
<1>10. 1 \in OpenIn(Master, base, h)
  BY <1>9 DEF Nested
<1>11. \A k \in {Master, Slave} : \A i \in DOMAIN h : LineAt(k, base, h[i].vector) \in Lines
  <2> SUFFICES ASSUME NEW k \in {Master, Slave}, NEW i \in DOMAIN h
               PROVE  LineAt(k, base, h[i].vector) \in Lines
    OBVIOUS
  <2>1. PICK v \in Nat : v = h[i].vector
    BY <1>1
  <2>2. v % 8 \in Lines /\ CascadeLine \in Lines
    BY DEF Lines, CascadeLine
  <2>3. QED
    BY <2>1, <2>2 DEF LineAt
<1>12. \A i \in OpenIn(Master, base, h) : i # 1 =>
         RankOf(lowest, LineAt(Master, base, h[1].vector)) < RankOf(lowest, LineAt(Master, base, h[i].vector))
  <2> SUFFICES ASSUME NEW i \in OpenIn(Master, base, h), i # 1
               PROVE  RankOf(lowest, LineAt(Master, base, h[1].vector)) < RankOf(lowest, LineAt(Master, base, h[i].vector))
    OBVIOUS
  <2>1. 1 < i
    BY <1>1, <1>6
  <2>2. QED
    BY <1>10, <2>1 DEF Nested
<1>13. \A l \in Lines : RankOf(lowest, l) \in 0..7
  BY Ranks
<1>14. c = Slave => OpenIn(Slave, base, h) = {1}
  <2>1. SUFFICES ASSUME c = Slave, NEW i \in OpenIn(Slave, base, h), i # 1 PROVE FALSE
    BY <1>9
  <2>2. i \in OpenIn(Master, base, h) /\ h[i].vector \div 8 = base /\ h[1].vector \div 8 = base
    BY <2>1 DEF Nested, OpenIn
  <2>3. LineAt(Master, base, h[1].vector) = CascadeLine /\ LineAt(Master, base, h[i].vector) = CascadeLine
    BY <2>2 DEF LineAt
  <2>4. RankOf(lowest, CascadeLine) < RankOf(lowest, CascadeLine)
    BY <1>12, <2>1, <2>2, <2>3
  <2>5. CascadeLine \in Lines
    BY DEF CascadeLine, Lines
  <2>6. RankOf(lowest, CascadeLine) \in 0..7
    BY <1>13, <2>5
  <2>7. QED
    BY <2>4, <2>6
<1>15. x \in Levels(c, base, h) /\ Levels(c, base, h) \subseteq Lines
  BY <1>6, <1>9, <1>11 DEF Levels
<1>16. c = Master => \A l \in Levels(c, base, h) : RankOf(lowest, x) <= RankOf(lowest, l)
  <2>1. SUFFICES ASSUME c = Master, NEW l \in Levels(c, base, h) PROVE RankOf(lowest, x) <= RankOf(lowest, l)
    OBVIOUS
  <2>2. PICK i \in OpenIn(c, base, h) : l = LineAt(c, base, h[i].vector)
    BY DEF Levels
  <2>3. RankOf(lowest, x) \in 0..7 /\ RankOf(lowest, l) \in 0..7
    BY <1>13, <1>15
  <2>4. CASE i = 1
    BY <2>2, <2>3, <2>4
  <2>5. CASE i # 1
    <3>1. RankOf(lowest, x) < RankOf(lowest, l)
      BY <1>12, <2>1, <2>2, <2>5
    <3>2. QED
      BY <2>3, <3>1
  <2>6. QED
    BY <2>4, <2>5
<1>17. c = Slave => Levels(c, base, h) = {x}
  <2>1. SUFFICES ASSUME c = Slave PROVE Levels(c, base, h) = {x}
    OBVIOUS
  <2>2. OpenIn(c, base, h) = {1}
    BY <1>14, <2>1
  <2>3. QED
    BY <2>2 DEF Levels
<1>18. Levels(c, base, g) = Levels(c, base, h) \ {x}
  <2>1. ASSUME NEW l \in Levels(c, base, g) PROVE l \in Levels(c, base, h) /\ l # x
    <3>1. PICK i \in OpenIn(c, base, g) : l = LineAt(c, base, g[i].vector)
      BY <2>1 DEF Levels
    <3>2. i \in OpenIn(c, base, h) /\ i # 1 /\ l = LineAt(c, base, h[i].vector)
      BY <1>5, <1>6, <1>7, <3>1
    <3>3. c = Master
      BY <1>14, <3>2
    <3>4. RankOf(lowest, x) < RankOf(lowest, l)
      BY <1>12, <3>2, <3>3
    <3>5. RankOf(lowest, x) \in 0..7
      BY <1>13, <1>15
    <3>6. l # x
      BY <3>4, <3>5
    <3>7. QED
      BY <3>2, <3>6 DEF Levels
  <2>2. ASSUME NEW l \in Levels(c, base, h), l # x PROVE l \in Levels(c, base, g)
    <3>1. PICK i \in OpenIn(c, base, h) : l = LineAt(c, base, h[i].vector)
      BY <2>2 DEF Levels
    <3>2. i \in OpenIn(c, base, g) /\ l = LineAt(c, base, g[i].vector)
      BY <1>5, <1>6, <1>7, <2>2, <3>1
    <3>3. QED
      BY <3>2 DEF Levels
  <2>3. QED
    BY <2>1, <2>2
<1>19. ASSUME NEW k \in {Master, Slave} \ {c} PROVE Levels(k, base, g) = Levels(k, base, h)
  <2>1. OpenIn(k, base, g) = OpenIn(k, base, h) /\ OpenIn(k, base, h) \subseteq DOMAIN h
    BY <1>6, <1>8
  <2>2. \A i \in OpenIn(k, base, h) : LineAt(k, base, g[i].vector) = LineAt(k, base, h[i].vector)
    BY <1>5, <2>1
  <2>3. QED
    BY <2>1, <2>2 DEF Levels
<1>20. Nested(base, lowest, g)
  <2>1. OpenIn(Master, base, g) \subseteq OpenIn(Master, base, h)
    BY <1>7, <1>8
  <2>2. ASSUME NEW i \in OpenIn(Master, base, g), NEW j \in OpenIn(Master, base, g), i < j
        PROVE  RankOf(lowest, LineAt(Master, base, g[i].vector)) < RankOf(lowest, LineAt(Master, base, g[j].vector))
    BY <1>5, <1>6, <2>1, <2>2 DEF Nested
  <2>3. OpenIn(Slave, base, g) \subseteq OpenIn(Master, base, g)
    <3>1. CASE c = Slave
      <4>1. OpenIn(Slave, base, g) = {}
        BY <1>7, <1>14, <3>1
      <4>2. QED
        BY <4>1
    <3>2. CASE c = Master
      <4>1. Master # Slave
        BY DEF Master, Slave
      <4>2. OpenIn(Slave, base, g) = OpenIn(Slave, base, h) /\ OpenIn(Master, base, g) = OpenIn(Master, base, h) \ {1}
        BY <1>7, <1>8, <3>2, <4>1
      <4>3. 1 \notin OpenIn(Slave, base, h)
        BY <3>2, <4>1 DEF OpenIn
      <4>4. QED
        BY <4>2, <4>3 DEF Nested
    <3>3. QED
      BY <3>1, <3>2
  <2>4. QED
    BY <2>2, <2>3 DEF Nested
<1>21. QED
  BY <1>15, <1>16, <1>17, <1>18, <1>19, <1>20

\* The vector that the CPU is given, when it is given one.
LEMMA Given ==
  ASSUME Typed, Configured, Requests, Pipeline, bridge.done
  PROVE  /\ LineAt(Master, pic[Slave].offset, bridge.din) = LineOf(pic[Master])
         /\ pic[Master].vector % 8 = LineOf(pic[Master])
         /\ \A l \in pic[Master].isr :
              RankOf(pic[Master].lowest, LineOf(pic[Master])) < RankOf(pic[Master].lowest, l)
         /\ bridge.din \div 8 = pic[Slave].offset <=> sla_select
         /\ sla_select => pic[Slave].vector % 8 = bridge.din % 8
         /\ SourceOf(bridge.din) \in lines
<1> DEFINE v == bridge.din
           base == pic[Slave].offset
           line == LineOf(pic[Master])
<1>1. /\ Decided(pic[Master]) /\ Decided(pic[Slave]) /\ pic[Master].do /\ v = interrupt_vector
  BY DEF Typed, Pipeline, Acknowledging
<1>2. Asks(pic[Master])
  BY <1>1 DEF Requests
<1>3. /\ line \in Lines /\ pic[Master].vector % 8 = line /\ pic[Master].vector \div 8 = pic[Master].offset
      /\ sla_select <=> line = CascadeLine
      /\ sla_select => Asks(pic[Slave])
      /\ ~sla_select => <<Master, line>> \in lines
  BY <1>1, <1>2, Selected
<1>4. \A l \in pic[Master].isr : RankOf(pic[Master].lowest, line) < RankOf(pic[Master].lowest, l)
  BY <1>2, AsksFor DEF Typed, Configured
<1>5. IsSlaveVector(v) <=> v \div 8 = base
  BY DEF IsSlaveVector, Configured
<1>6. CASE sla_select
  <2>1. v = pic[Slave].vector
    BY <1>1, <1>6 DEF interrupt_vector
  <2>2. Asks(pic[Slave])
    BY <1>3, <1>6
  <2>3. /\ LineOf(pic[Slave]) \in Lines /\ v % 8 = LineOf(pic[Slave]) /\ v \div 8 = base
    BY <1>1, <2>1, <2>2, VectorIs DEF Typed, Configured
  <2>4. LineOf(pic[Slave]) \in InputsNow(Slave)
    <3>1. LineOf(pic[Slave]) \in pic[Slave].irr /\ LineOf(pic[Slave]) \notin pic[Slave].isr
      BY <2>2, AsksFor DEF Typed, Configured
    <3>2. QED
      BY <3>1 DEF Requests
  <2>5. <<Slave, v % 8>> \in lines
    BY <2>3, <2>4 DEF InputsNow, InputsOf, Master, Slave
  <2>6. SourceOf(v) \in lines
    BY <1>5, <2>3, <2>5 DEF SourceOf
  <2>7. LineAt(Master, base, v) = line
    BY <1>3, <1>6, <2>3 DEF LineAt
  <2>8. QED
    BY <1>3, <1>4, <1>6, <2>1, <2>3, <2>6, <2>7
<1>7. CASE ~sla_select
  <2>1. v = pic[Master].vector
    BY <1>1, <1>7 DEF interrupt_vector
  <2>2. v \div 8 # base /\ v % 8 = line
    BY <1>3, <2>1 DEF Configured
  <2>3. SourceOf(v) \in lines
    BY <1>3, <1>5, <1>7, <2>2 DEF SourceOf
  <2>4. LineAt(Master, base, v) = line
    BY <2>2 DEF LineAt
  <2>5. QED
    BY <1>3, <1>4, <1>7, <2>2, <2>3, <2>4
<1>8. QED
  BY <1>6, <1>7

LEMMA StackStep ==
  ASSUME BridgeInv, Typed, Configured, Requests, Pipeline, Stack, program = <<>>, Next
  PROVE  Stack'
<1> DEFINE h == cpu.handlers
           g == cpu'.handlers
           base == pic[Slave].offset
           lowest == pic[Master].lowest
<1>1. base \in Nat /\ lowest \in Lines /\ h \in Seq(Handlers) /\ bridge.din \in Nat
  BY DEF Typed, Chip
<1>2. /\ \A k \in {Master, Slave} : pic[k].isr = Levels(k, base, h)
      /\ Nested(base, lowest, h)
      /\ cpu.phase \in {"hold2", "serve"} => h # <<>> /\ Head(h).eoi = {}
  BY DEF Stack, Top
<1>3. ASSUME NEW acc, Access(acc)
      PROVE  /\ pic'[Slave].offset = base /\ pic'[Master].lowest = lowest
             /\ \A k \in {Master, Slave} : Ticks(pic[k], pic'[k], InputsNow(k), done(k), acc.chip = k)
  <2>1. \A k \in {Master, Slave} : Ticks(pic[k], pic'[k], InputsNow(k), done(k), acc.chip = k)
    BY <1>3, Clock
  <2>2. QED
    BY <2>1 DEF Ticks
<1>4. ASSUME /\ \A k \in {Master, Slave} : pic'[k].isr = Levels(k, base, g)
             /\ pic'[Slave].offset = base /\ pic'[Master].lowest = lowest
             /\ Nested(base, lowest, g)
             /\ cpu'.phase \in {"hold2", "serve"} => g # <<>> /\ Head(g).eoi = {}
      PROVE  Stack'
  BY <1>4 DEF Stack, Top
<1>5. ASSUME NEW acc, Access(acc), NEW k \in {Master, Slave}, acc.chip # k, ~done(k)
      PROVE  pic'[k].isr = pic[k].isr
  <2>1. done(k) = FALSE /\ (acc.chip = k) = FALSE
    BY <1>5 DEF done
  <2>2. Ticks(pic[k], pic'[k], InputsNow(k), FALSE, FALSE)
    BY <1>3, <1>5, <2>1, Zenon
  <2>3. pic'[k].isr = pic[k].isr \cup {}
    BY <2>2 DEF Ticks
  <2>4. QED
    BY <2>3
<1>6. NoAccess.chip \notin {Master, Slave}
  BY DEF NoAccess, Master, Slave
<1>7. CASE Quiet
  <2>1. Access(NoAccess)
    BY <1>7 DEF Quiet, Access
  <2>2. CASE cpu.phase = "inta2" /\ bridge.ready
    <3>1. bridge.done /\ done(Master) /\ (done(Slave) <=> sla_select)
      BY <2>2 DEF Typed, done, Master, Slave
    <3>2. g = Enter(bridge.din, h)
      BY <1>7, <2>2, CpuMoves DEF Quiet, Enter
    <3>3. /\ LineAt(Master, base, bridge.din) = LineOf(pic[Master])
          /\ pic[Master].vector % 8 = LineOf(pic[Master])
          /\ \A l \in pic[Master].isr : RankOf(lowest, LineOf(pic[Master])) < RankOf(lowest, l)
          /\ bridge.din \div 8 = base <=> sla_select
          /\ sla_select => pic[Slave].vector % 8 = bridge.din % 8
      BY <3>1, Given
    <3>4. /\ Levels(Master, base, g) = Levels(Master, base, h) \cup {LineAt(Master, base, bridge.din)}
          /\ Levels(Slave, base, g) = Levels(Slave, base, h) \cup (IF bridge.din \div 8 = base THEN {bridge.din % 8} ELSE {})
          /\ Nested(base, lowest, g) /\ g # <<>> /\ Head(g).eoi = {}
      <4>1. \A l \in Levels(Master, base, h) : RankOf(lowest, LineAt(Master, base, bridge.din)) < RankOf(lowest, l)
        BY <1>2, <3>3
      <4>2. Nested(base, lowest, h)
        BY <1>2
      <4>3. Levels(Master, base, g) = Levels(Master, base, h) \cup {LineAt(Master, base, bridge.din)}
        BY <1>1, <3>2, <4>1, <4>2, Entered, SMTT(40)
      <4>4. Levels(Slave, base, g)
              = Levels(Slave, base, h) \cup (IF bridge.din \div 8 = base THEN {bridge.din % 8} ELSE {})
        BY <1>1, <3>2, <4>1, <4>2, Entered, SMTT(40)
      <4>5. Nested(base, lowest, g)
        BY <1>1, <3>2, <4>1, <4>2, Entered, SMTT(40)
      <4>6. g # <<>>
        BY <1>1, <3>2, <4>1, <4>2, Entered, SMTT(40)
      <4>7. Head(g).eoi = {}
        <5>1. Head(Enter(bridge.din, h)) = [vector |-> bridge.din, eoi |-> {}]
          BY <1>1 DEF Enter
        <5>2. QED
          BY <3>2, <5>1
      <4>8. QED
        BY <4>3, <4>4, <4>5, <4>6, <4>7
    <3>5. pic[Master].spurious = FALSE /\ pic[Slave].spurious = FALSE
      BY DEF Requests
    <3>6. pic'[Master].isr = pic[Master].isr \cup {pic[Master].vector % 8}
      BY <1>3, <1>6, <2>1, <3>1, <3>5 DEF Ticks
    <3>7. pic'[Slave].isr = pic[Slave].isr \cup (IF sla_select THEN {pic[Slave].vector % 8} ELSE {})
      BY <1>3, <1>6, <2>1, <3>1, <3>5 DEF Ticks
    <3>8. pic'[Master].isr = Levels(Master, base, g) /\ pic'[Slave].isr = Levels(Slave, base, g)
      BY <1>2, <3>3, <3>4, <3>6, <3>7
    <3>9. QED
      BY <1>3, <1>4, <2>1, <3>4, <3>8
  <2>3. CASE ~(cpu.phase = "inta2" /\ bridge.ready)
    <3>1. ~done(Master) /\ ~done(Slave)
      BY <2>3 DEF Typed, done
    <3>2. g = h
      BY <1>7, <2>3, CpuMoves DEF Quiet
    <3>3. cpu'.phase \in {"hold2", "serve"} => cpu.phase \in {"hold2", "serve"}
      BY <1>7, <2>3, CpuMoves DEF Quiet, BridgeInv, CpuPhases
    <3>4. \A k \in {Master, Slave} : pic'[k].isr = pic[k].isr
      BY <1>5, <1>6, <2>1, <3>1
    <3>5. QED
      BY <1>2, <1>3, <1>4, <2>1, <3>2, <3>3, <3>4
  <2>4. QED
    BY <2>2, <2>3
<1>8. CASE Return
  <2>1. /\ Access(NoAccess) /\ cpu.phase = "run" /\ cpu'.phase = "run"
        /\ h # <<>> /\ Master \in h[1].eoi /\ g = Tail(h)
    BY <1>8 DEF Return, Access, BridgeInv, Top
  <2>2. ~done(Master) /\ ~done(Slave)
    BY <2>1 DEF Typed, done
  <2>3. \A k \in {Master, Slave} : pic'[k].isr = pic[k].isr
    BY <1>5, <1>6, <2>1, <2>2
  <2>4. Nested(base, lowest, g) /\ \A k \in {Master, Slave} : Levels(k, base, g) = Levels(k, base, h)
    <3>1. Nested(base, lowest, h)
      BY <1>2
    <3>2. g = Tail(h) /\ h # <<>> /\ Master \in h[1].eoi
      BY <2>1
    <3>3. QED
      BY <1>1, <3>1, <3>2, Returned, ZenonT(60)
  <2>5. QED
    BY <1>2, <1>3, <1>4, <2>1, <2>3, <2>4
<1>9. ASSUME NEW c \in {Master, Slave}, EndOfInterrupt(c) PROVE Stack'
  <2>1. /\ cpu.phase = "run" /\ cpu'.phase = "run" /\ h # <<>>
        /\ g = End(c, h) /\ c \notin h[1].eoi
        /\ c = Master \/ (IsSlaveVector(h[1].vector) /\ h[1].eoi = {})
        /\ c = Master /\ IsSlaveVector(h[1].vector) => Slave \in h[1].eoi
    BY <1>9 DEF EndOfInterrupt, BridgeInv, Top, End
  <2>2. IsSlaveVector(h[1].vector) <=> h[1].vector \div 8 = base
    BY DEF IsSlaveVector, Configured
  <2>3. c = Slave => h[1].vector \div 8 = base
    BY <2>1, <2>2 DEF Master, Slave
  <2>4. c = Master /\ h[1].vector \div 8 = base => Slave \in h[1].eoi
    BY <2>1, <2>2
  <2> DEFINE x == LineAt(c, base, h[1].vector)
  <2>5. /\ x \in Levels(c, base, h) /\ Levels(c, base, h) \subseteq Lines
        /\ c = Master => \A l \in Levels(c, base, h) : RankOf(lowest, x) <= RankOf(lowest, l)
        /\ c = Slave => Levels(c, base, h) = {x}
        /\ Levels(c, base, g) = Levels(c, base, h) \ {x}
        /\ \A k \in {Master, Slave} \ {c} : Levels(k, base, g) = Levels(k, base, h)
        /\ Nested(base, lowest, g)
    <3>1. Nested(base, lowest, h) /\ h # <<>> /\ g = End(c, h) /\ c \notin h[1].eoi
      BY <1>2, <2>1
    <3>2. QED
      BY <1>1, <2>3, <2>4, <3>1, Ended, SMTT(40)
  <2>6. InServiceOn(c, h[1].vector)
    <3>1. x \in pic[c].isr
      BY <1>2, <2>5
    <3>2. CASE c = Slave
      BY <2>2, <2>3, <3>1, <3>2 DEF InServiceOn, LineAt, Master, Slave
    <3>3. CASE c = Master
      BY <2>2, <3>1, <3>3 DEF InServiceOn, LineAt, Master, Slave
    <3>4. QED
      BY <3>2, <3>3
  <2>7. Access(EndOf(c))
    <3>1. InServiceOn(c, Top.vector)
      BY <2>1, <2>6 DEF Top
    <3>0. Tick(EndOf(c))
      BY <1>9, <3>1, Zenon DEF EndOfInterrupt, EndOf
    <3>2. EndOf(c) \in Accesses
      BY DEF EndOf, Accesses, NonSpecificEOI, Bytes
    <3>3. ~bridge.done
      BY <2>1 DEF Typed
    <3>4. QED
      BY <2>1, <3>0, <3>2, <3>3, Zenon DEF Access
  <2>8. EndOf(c).chip = c /\ ~done(Master) /\ ~done(Slave)
    BY <2>1 DEF EndOf, Typed, done
  <2>9. pic'[c].isr = pic[c].isr \ {(pic[c].lowest + FirstOf(pic[c].lowest, pic[c].isr) + 1) % 8}
    BY <1>3, <2>7, <2>8 DEF Ticks
  <2>10. (pic[c].lowest + FirstOf(pic[c].lowest, pic[c].isr) + 1) % 8 = x
    <3>1. pic[c].lowest \in Lines /\ pic[c].isr \in SUBSET Lines /\ x \in pic[c].isr
      BY <1>2, <2>5 DEF Typed, Chip
    <3>2. \A l \in pic[c].isr : RankOf(pic[c].lowest, x) <= RankOf(pic[c].lowest, l)
      <4>1. CASE c = Master
        BY <1>2, <2>5, <4>1
      <4>2. CASE c = Slave
        <5>1. pic[c].isr = {x}
          BY <1>2, <2>5, <4>2
        <5>2. RankOf(pic[c].lowest, x) \in 0..7
          BY <3>1, Ranks
        <5>3. QED
          BY <5>1, <5>2
      <4>3. QED
        BY <4>1, <4>2
    <3>3. QED
      BY <3>1, <3>2, Highest
  <2>11. \A k \in {Master, Slave} \ {c} : pic'[k].isr = pic[k].isr
    BY <1>5, <2>7, <2>8
  <2>12. \A k \in {Master, Slave} : pic'[k].isr = Levels(k, base, g)
    BY <1>2, <2>5, <2>9, <2>10, <2>11
  <2>13. QED
    BY <1>3, <1>4, <2>1, <2>5, <2>7, <2>12
<1>10. CASE Program
  BY <1>10 DEF Program
<1>11. QED
  BY <1>7, <1>8, <1>9, <1>10 DEF Next, Handle

\* A program that has ended finds the controllers as it left them, without a request.
LEMMA Fresh ==
  ASSUME Typed, Silent
  PROVE  Requests /\ Pipeline /\ Stack
<1>1. Requests
  BY DEF Requests, Silent
<1>2. Pipeline
  BY DEF Pipeline, Silent, Typed, Acknowledging
<1>3. \A k \in {Master, Slave} : \A b : OpenIn(k, b, cpu.handlers) = {}
  BY DEF OpenIn, Silent
<1>4. Stack
  BY <1>3 DEF Stack, Silent, Levels, Nested
<1>5. QED
  BY <1>1, <1>2, <1>4

PicInv ==
  /\ BridgeInv /\ Typed
  /\ program = <<>> => Configured
  /\ Silent \/ (program = <<>> /\ Requests /\ Pipeline /\ Stack)

LEMMA Settled ==
  ASSUME PicInv, program = <<>>
  PROVE  BridgeInv /\ Typed /\ Configured /\ Requests /\ Pipeline /\ Stack
  BY Fresh DEF PicInv

LEMMA PicInvStep ==
  ASSUME PicInv, [Next]_vars, [program # <<>> /\ program' = <<>> => Configured']_vars
  PROVE  PicInv'
<1>1. CASE UNCHANGED vars
  <2>1. BridgeInv'
    BY <1>1, BridgeStep DEF PicInv
  <2>2. pic' = pic /\ bridge' = bridge /\ lines' = lines /\ cpu' = cpu /\ program' = program /\ world' = world
    BY <1>1 DEF vars
  <2>3. Typed' /\ (Configured <=> Configured')
    BY <2>2 DEF PicInv, Typed, Configured
  <2>4. Silent => Silent'
    BY <2>2 DEF Silent
  <2>5. InputsNow(Master)' = InputsNow(Master) /\ InputsNow(Slave)' = InputsNow(Slave)
        /\ interrupt_vector' = interrupt_vector
    BY <2>2 DEF InputsNow, interrupt_vector, sla_select
  <2>6. (Requests => Requests') /\ (Pipeline => Pipeline') /\ (Stack => Stack')
    BY <2>2, <2>5 DEF Requests, Pipeline, Stack, Top, InputsNow
  <2>7. QED
    BY <2>1, <2>2, <2>3, <2>4, <2>6 DEF PicInv
<1>2. CASE Next /\ program # <<>>
  <2>1. BridgeInv /\ Typed /\ Silent
    BY <1>2 DEF PicInv
  <2>2. BridgeInv' /\ Typed' /\ Silent'
    BY <1>2, <2>1, BridgeStep, TypedStep, SilentStep
  <2>3. program' = <<>> => Configured'
    BY <1>2 DEF vars
  <2>4. QED
    BY <2>2, <2>3 DEF PicInv
<1>3. CASE Next /\ program = <<>>
  <2>1. BridgeInv /\ Typed /\ Configured /\ Requests /\ Pipeline /\ Stack
    BY <1>3, Settled
  <2>2. BridgeInv' /\ Typed' /\ Requests' /\ Pipeline' /\ Stack'
    BY <1>3, <2>1, BridgeStep, TypedStep, RequestsStep, PipelineStep, StackStep
  <2>3. Configured'
    <3>1. PICK acc : Access(acc)
      BY <1>3, <2>1, Steps
    <3>2. QED
      BY <1>3, <2>1, <3>1, Clock
  <2>4. program' = <<>>
    BY <1>3 DEF Next, Quiet, Program, Handle, Return, EndOfInterrupt
  <2>5. QED
    BY <2>2, <2>3, <2>4 DEF PicInv
<1>4. QED
  BY <1>1, <1>2, <1>3

LEMMA InitPic == Init /\ Waiting => PicInv
  BY InitTypes DEF PicInv, Waiting

\* The lines of the open handlers, as the properties name them.
LEMMA LevelsAre ==
  ASSUME Configured
  PROVE  /\ \A k \in {Master, Slave} :
              {LineOn(k, h) : h \in OpenOn(k)} = Levels(k, pic[Slave].offset, cpu.handlers)
         /\ \A h : Level(h) = LineAt(Master, pic[Slave].offset, h.vector)
<1> DEFINE base == pic[Slave].offset
<1>1. \A v : IsSlaveVector(v) <=> v \div 8 = base
  BY DEF IsSlaveVector, Configured
<1>2. \A h : Level(h) = LineAt(Master, base, h.vector)
  BY <1>1 DEF Level, LineAt
<1>3. \A k \in {Master, Slave} : \A h : LineOn(k, h) = LineAt(k, base, h.vector)
  BY <1>2 DEF LineOn, LineAt
<1>4. ASSUME NEW k \in {Master, Slave}
      PROVE  {LineOn(k, h) : h \in OpenOn(k)} = Levels(k, base, cpu.handlers)
  <2>1. OpenOn(k) = {cpu.handlers[i] : i \in OpenIn(k, base, cpu.handlers)}
    BY <1>1 DEF OpenOn, OpenIn
  <2>2. QED
    BY <1>3, <2>1 DEF Levels
<1>5. QED
  BY <1>2, <1>4

LEMMA PicInvHolds == Spec /\ Waiting /\ SetsUp => []PicInv
<1>1. Init /\ Waiting => PicInv
  BY InitPic
<1>2. PicInv /\ [Next]_vars /\ [program # <<>> /\ program' = <<>> => Configured']_vars => PicInv'
  BY PicInvStep
<1>3. QED
  BY <1>1, <1>2, PTL DEF Spec, SetsUp

\* For devices that keep their requests and software that sets the controllers up, the levels
\* in service are, on each controller, those of the handlers that have not ended their
\* interrupt: the acknowledge reaches the request whose vector the CPU was given, and the end
\* of interrupt the request it is meant for (pic.v, interrupt_done and selectected_index).
THEOREM InServiceHandled == Spec /\ Waiting /\ SetsUp => []InServiceIsHandled
<1>1. PicInv => InServiceIsHandled
  <2> SUFFICES ASSUME PicInv PROVE InServiceIsHandled
    OBVIOUS
  <2>1. CASE program # <<>>
    <3>1. cpu.handlers = <<>> /\ \A k \in {Master, Slave} : pic[k].isr = {}
      BY <2>1 DEF PicInv, Silent
    <3>2. \A k \in {Master, Slave} : OpenOn(k) = {}
      BY <3>1 DEF OpenOn
    <3>3. QED
      BY <3>1, <3>2 DEF InServiceIsHandled
  <2>2. CASE program = <<>>
    <3>1. Configured /\ Stack
      BY <2>2, Settled
    <3>2. \A k \in {Master, Slave} : pic[k].isr = {LineOn(k, h) : h \in OpenOn(k)}
      BY <3>1, LevelsAre DEF Stack
    <3>3. QED
      BY <3>2 DEF InServiceIsHandled
  <2>3. QED
    BY <2>1, <2>2
<1>2. QED
  BY <1>1, PicInvHolds, PTL

\* Under the same conditions a handler is only interrupted by a request of higher priority, to
\* any depth (pic.v, irq compares the levels of irr and isr).
THEOREM NestedByPriority == Spec /\ Waiting /\ SetsUp => []NestsByPriority
<1>1. PicInv => NestsByPriority
  <2> SUFFICES ASSUME PicInv PROVE NestsByPriority
    OBVIOUS
  <2>1. CASE program # <<>>
    <3>1. cpu.handlers = <<>>
      BY <2>1 DEF PicInv, Silent
    <3>2. QED
      BY <3>1 DEF NestsByPriority
  <2>2. CASE program = <<>>
    <3>1. Configured /\ Stack
      BY <2>2, Settled
    <3>2. SUFFICES ASSUME NEW i \in DOMAIN cpu.handlers, NEW j \in DOMAIN cpu.handlers, i < j,
                          Master \notin cpu.handlers[i].eoi, Master \notin cpu.handlers[j].eoi
                   PROVE  Rank(Master, Level(cpu.handlers[i])) < Rank(Master, Level(cpu.handlers[j]))
      BY DEF NestsByPriority
    <3>3. i \in OpenIn(Master, pic[Slave].offset, cpu.handlers) /\ j \in OpenIn(Master, pic[Slave].offset, cpu.handlers)
      BY <3>2 DEF OpenIn, Master, Slave
    <3>4. \A l : Rank(Master, l) = RankOf(pic[Master].lowest, l)
      BY AsRecords
    <3>5. QED
      BY <3>1, <3>2, <3>3, <3>4, LevelsAre DEF Stack, Nested
  <2>3. QED
    BY <2>1, <2>2
<1>2. QED
  BY <1>1, PicInvHolds, PTL

\* And the CPU is given the vector of a line that is high (pic_inta_bridge.sv, interrupt_vector).
THEOREM RequestedIsTaken == Spec /\ Waiting /\ SetsUp => TakesWhatIsRequested
<1>1. PicInv /\ [Next]_vars =>
        [Len(cpu'.handlers) > Len(cpu.handlers) =>
           SourceOf(bridge.din) \in lines \/ Spurious(Head(cpu'.handlers))]_vars
  <2> SUFFICES ASSUME PicInv, Next, Len(cpu'.handlers) > Len(cpu.handlers)
               PROVE  SourceOf(bridge.din) \in lines
    BY DEF vars
  <2>1. BridgeInv /\ Typed /\ Len(cpu.handlers) \in Nat
    BY DEF PicInv, Typed
  <2>2. CASE Quiet
    <3>1. cpu.phase = "inta2" /\ bridge.ready
      BY <2>1, <2>2, CpuMoves DEF Quiet
    <3>2. bridge.done
      BY <2>1, <3>1 DEF Typed
    <3>3. program = <<>>
      BY <3>1 DEF PicInv, Silent
    <3>4. QED
      BY <3>2, <3>3, Settled, Given
  <2>3. CASE Program
    BY <2>1, <2>3 DEF Program
  <2>4. CASE Return
    <3>1. cpu'.handlers = Tail(cpu.handlers) /\ cpu.handlers # <<>> /\ cpu.handlers \in Seq(Handlers)
      BY <2>1, <2>4 DEF Return, BridgeInv, Typed
    <3>2. QED
      BY <2>1, <3>1
  <2>5. ASSUME NEW k \in {Master, Slave}, EndOfInterrupt(k) PROVE FALSE
    <3>1. /\ cpu'.handlers = [cpu.handlers EXCEPT ![1] = [cpu.handlers[1] EXCEPT !.eoi = @ \cup {k}]]
          /\ cpu.handlers \in Seq(Handlers)
      BY <2>1, <2>5 DEF EndOfInterrupt, BridgeInv, Typed
    <3>2. Len(cpu'.handlers) = Len(cpu.handlers)
      BY <3>1
    <3>3. QED
      BY <2>1, <3>2
  <2>6. QED
    BY <2>2, <2>3, <2>4, <2>5 DEF Next, Handle
<1>2. QED
  BY <1>1, PicInvHolds, PTL DEF Spec, TakesWhatIsRequested

=============================================================================
