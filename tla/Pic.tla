-------------------------------- MODULE Pic --------------------------------
(***************************************************************************)
(* Interrupts: the two i8259 controllers and their cascade                 *)
(* (src/src/soc/pic.v) and the bridge that turns their handshake into the  *)
(* CPU's two interrupt-acknowledge cycles (src/src/pic_inta_bridge.sv).    *)
(*                                                                         *)
(* One step is one rising edge of clk.  External: the devices, which raise *)
(* and lower their lines, and the CPU (the z486 submodule), which performs *)
(* register accesses, takes an interrupt when cpu_intr is high and it is   *)
(* between instructions, asserts inta twice for it, and runs a handler     *)
(* that ends with a non-specific EOI to each controller that has the       *)
(* interrupt in service, as a BIOS or DOS handler does.                    *)
(*                                                                         *)
(* Abstractions.  A byte with one bit per line is a set of lines 0..7.     *)
(* What a register read returns is left out, its effects are not.  The     *)
(* CPU and its program alternate with the handlers at will.  A definition  *)
(* Name_How is Name with a bug in it.                                      *)
(***************************************************************************)
EXTENDS Integers, Sequences, FiniteSets

CONSTANT
  Scenarios  \* what surrounds the controllers, a set of records
             \*   program: the register accesses the CPU performs
             \*   sources: the device lines in use, <<0, line>> master, <<1, line>> slave
             \*   nest: handlers under way at a time
             \*   steady: no line changes while the CPU acknowledges an interrupt
             \*   patient: a device keeps its line until its handler runs, and no longer

Lines == 0..7
Master == 0
Slave == 1
CascadeLine == 2
Bytes == 0..255
Accesses == [chip : {Master, Slave}, address : {0, 1}, write : BOOLEAN, value : Bytes]
NoAccess == [chip |-> -1, address |-> 0, write |-> FALSE, value |-> 0]

ASSUME ScenariosAssumption ==
  \A s \in Scenarios :
    /\ s.program \in Seq(Accesses)
    /\ s.sources \subseteq {Master, Slave} \X Lines
    /\ s.nest \in Nat \ {0} /\ s.steady \in BOOLEAN /\ s.patient \in BOOLEAN

VARIABLES
  pic,      \* i8259, one record per controller
  bridge,   \* pic_inta_bridge
  lines,    \* external: the device lines that are high
  cpu,      \* external: phase of the acknowledge, handlers under way
  program,  \* external: the register accesses still to come
  world     \* external: the rest of the scenario, fixed

vars == <<pic, bridge, lines, cpu, program, world>>

Bit(v, i) == (v \div <<1, 2, 4, 8, 16, 32, 64, 128>>[i + 1]) % 2 = 1
BitsOf(v) == {i \in Lines : Bit(v, i)}

-----------------------------------------------------------------------------
(* Wires of one i8259.                                                     *)

\* Lines in order of priority, counted from the one after lowest_priority.
Rank(k, i) == (i - pic[k].lowest - 1) % 8
Ranked(k, r) == (pic[k].lowest + r + 1) % 8

\* selectected_index and selectected_shifted_isr_first: 7 when there is none.
FirstRank(k, set) ==
  IF set = {} THEN 7
  ELSE CHOOSE r \in 0..7 : Ranked(k, r) \in set /\ \A q \in 0..(r - 1) : Ranked(k, q) \notin set

Prepared(k) == pic[k].irr \ (pic[k].imr \cup pic[k].isr)
irq_AnyLevel(k) == Prepared(k) # {}
irq(k) ==
  /\ Prepared(k) # {}
  /\ pic[k].special_mask \/ FirstRank(k, Prepared(k)) <= FirstRank(k, pic[k].isr)
irq_value(k) == Ranked(k, FirstRank(k, Prepared(k)))

sla_select == pic[Master].slave_active /\ pic[Master].vector % 8 = CascadeLine
interrupt_vector_Master == pic[Master].vector
interrupt_vector == IF sla_select THEN pic[Slave].vector ELSE pic[Master].vector
done(k) == bridge.done /\ (k = Master \/ sla_select)

Inputs(k) ==
  {s[2] : s \in {t \in lines : t[1] = k}}
    \cup (IF k = Master /\ pic[Slave].do THEN {CascadeLine} ELSE {})

Writes(k, acc, addr) == acc.chip = k /\ acc.write /\ acc.address = addr
Polls(k, acc) == pic[k].polled /\ acc.chip = k /\ ~acc.write

init_icw1(k, acc) == Writes(k, acc, 0) /\ Bit(acc.value, 4)
init_icw(k, acc, n) == Writes(k, acc, 1) /\ pic[k].in_init /\ pic[k].expected = n
ocw1(k, acc) == Writes(k, acc, 1) /\ ~pic[k].in_init
ocw2(k, acc) == Writes(k, acc, 0) /\ (acc.value \div 8) % 4 = 0
ocw3(k, acc) == Writes(k, acc, 0) /\ (acc.value \div 8) % 4 = 1
ocw3_select(k, acc) == ocw3(k, acc) /\ ~Bit(acc.value, 2)

NonSpecificEOI == 32    \* 20h
RotateEOI == 160        \* A0h
SpecificEOI == 12       \* 60h .. 67h
SetPriority == 24       \* C0h .. C7h
RotateSpecific == 28    \* E0h .. E7h
ocw2_of(k, acc, group) == ocw2(k, acc) /\ acc.value \div 8 = group

acknowledge(k, acc) == Polls(k, acc) \/ done(k)
acknowledge_not_spurious(k, acc) == Polls(k, acc) \/ (done(k) /\ ~pic[k].spurious)
isr_clear(k, acc) ==
  Polls(k, acc) \/ (ocw2(k, acc) /\ acc.value \in {NonSpecificEOI, RotateEOI})

VectorLine(k) == {pic[k].vector % 8}

-----------------------------------------------------------------------------
(* The registers of one i8259.                                             *)

edge_detect(k) == Inputs(k) \ pic[k].last

NextIrr(k, acc) ==
  LET p   == pic[k]
      new == IF p.ltim THEN Inputs(k) ELSE edge_detect(k)
      acked == IF acknowledge_not_spurious(k, acc) THEN VectorLine(k) ELSE {}
  IN  IF init_icw1(k, acc) THEN {} ELSE ((p.irr \cap Inputs(k)) \ acked) \cup new

NextIsr_KeepOnEOI(k, acc) ==
  IF acknowledge_not_spurious(k, acc) /\ ~pic[k].auto_eoi THEN pic[k].isr \cup VectorLine(k)
  ELSE pic[k].isr
NextIsr(k, acc) ==
  LET p == pic[k] IN
  IF init_icw1(k, acc) THEN {}
  ELSE IF ocw2_of(k, acc, SpecificEOI) \/ ocw2_of(k, acc, RotateSpecific)
       THEN p.isr \ {acc.value % 8}
  ELSE IF isr_clear(k, acc) THEN p.isr \ {Ranked(k, FirstRank(k, p.isr))}
  ELSE IF acknowledge_not_spurious(k, acc) /\ ~p.auto_eoi THEN p.isr \cup VectorLine(k)
  ELSE p.isr

NextLowest(k, acc) ==
  LET p == pic[k] IN
  IF init_icw1(k, acc) THEN 7
  ELSE IF ocw2(k, acc) /\ acc.value = RotateEOI THEN (p.lowest + 1) % 8
  ELSE IF ocw2_of(k, acc, SetPriority) \/ ocw2_of(k, acc, RotateSpecific) THEN acc.value % 8
  ELSE IF acknowledge_not_spurious(k, acc) /\ p.auto_eoi /\ p.rotate THEN (p.lowest + 1) % 8
  ELSE p.lowest

NextInInit(k, acc) ==
  IF init_icw1(k, acc) THEN TRUE
  ELSE IF (init_icw(k, acc, 3) /\ ~pic[k].requires_4) \/ init_icw(k, acc, 4) THEN FALSE
  ELSE pic[k].in_init

NextExpected(k, acc) ==
  CASE init_icw1(k, acc) -> 2
    [] init_icw(k, acc, 2) -> 3
    [] init_icw(k, acc, 3) /\ pic[k].requires_4 -> 4
    [] OTHER -> pic[k].expected

\* A request that goes away before it is acknowledged.
NextSpurious(k, acc) ==
  IF init_icw1(k, acc) THEN FALSE
  ELSE IF pic[k].do /\ ~done(k) /\ ~irq(k) THEN TRUE
  ELSE IF acknowledge(k, acc) \/ irq(k) THEN FALSE
  ELSE pic[k].spurious

NextPic(k, acc) ==
  LET p == pic[k]
      icw1 == init_icw1(k, acc)
  IN  [last |-> Inputs(k),
       irr |-> NextIrr(k, acc),
       isr |-> NextIsr(k, acc),
       imr |-> IF icw1 THEN {} ELSE IF ocw1(k, acc) THEN BitsOf(acc.value) ELSE p.imr,
       do |-> ~icw1 /\ ~acknowledge(k, acc) /\ irq(k),
       vector |-> IF icw1 THEN 0
                  ELSE IF irq(k) \/ p.do THEN 8 * p.offset + irq_value(k) ELSE p.vector,
       slave_active |-> IF icw1 \/ acknowledge(k, acc) THEN FALSE
                        ELSE IF irq(k) \/ p.do THEN irq_value(k) \in p.slaves
                        ELSE p.slave_active,
       spurious |-> NextSpurious(k, acc),
       lowest |-> NextLowest(k, acc),
       polled |-> IF Polls(k, acc) THEN FALSE
                  ELSE IF ocw3(k, acc) THEN Bit(acc.value, 2) ELSE p.polled,
       read_isr |-> IF icw1 THEN FALSE
                    ELSE IF ocw3_select(k, acc) /\ Bit(acc.value, 1) THEN Bit(acc.value, 0)
                    ELSE p.read_isr,
       special_mask |-> IF icw1 THEN FALSE
                        ELSE IF ocw3_select(k, acc) /\ Bit(acc.value, 6) THEN Bit(acc.value, 5)
                        ELSE p.special_mask,
       in_init |-> NextInInit(k, acc),
       expected |-> NextExpected(k, acc),
       requires_4 |-> IF icw1 THEN Bit(acc.value, 0) ELSE p.requires_4,
       ltim |-> IF icw1 THEN Bit(acc.value, 3) ELSE p.ltim,
       offset |-> IF init_icw(k, acc, 2) THEN acc.value \div 8 ELSE p.offset,
       slaves |-> IF init_icw(k, acc, 3) THEN BitsOf(acc.value) ELSE p.slaves,
       auto_eoi |-> IF icw1 THEN FALSE
                    ELSE IF init_icw(k, acc, 4) THEN Bit(acc.value, 1) ELSE p.auto_eoi,
       rotate |-> IF icw1 THEN FALSE
                  ELSE IF ocw2(k, acc) /\ acc.value % 128 = 0 THEN acc.value = 128
                  ELSE p.rotate]

-----------------------------------------------------------------------------
(* The bridge. responded keeps a cycle that the CPU holds from being       *)
(* answered twice.                                                         *)

cpu_inta == cpu.phase \in {"inta1", "hold1", "inta2", "hold2"}

Answers1_Held == bridge.state = "S_IDLE" /\ cpu_inta
Answers1 == bridge.state = "S_IDLE" /\ cpu_inta /\ ~bridge.responded
Answers2 == bridge.state = "S_INTA2" /\ cpu_inta /\ ~bridge.responded

NextBridgeState ==
  CASE Answers1 -> "S_INTA1"
    [] bridge.state = "S_INTA1" /\ ~cpu_inta -> "S_INTA2"
    [] Answers2 -> "S_IDLE"
    [] OTHER -> bridge.state

NextBridge ==
  [state |-> NextBridgeState,
   intr |-> pic[Master].do,
   done |-> Answers2,
   ready |-> Answers1 \/ Answers2,
   din |-> IF Answers1 THEN 0 ELSE IF Answers2 THEN interrupt_vector ELSE bridge.din,
   responded |-> cpu_inta /\ (bridge.responded \/ Answers1 \/ Answers2)]

-----------------------------------------------------------------------------
(* The CPU and the devices, external.                                      *)

Top == Head(cpu.handlers)

\* The interrupts the vector of a handler stands for, given the bases in force.
IsSlaveVector(v) == v \div 8 = pic[Slave].offset /\ CascadeLine \in pic[Master].slaves
InServiceOn(k, v) ==
  IF k = Slave THEN IsSlaveVector(v) /\ v % 8 \in pic[Slave].isr
  ELSE (IF IsSlaveVector(v) THEN CascadeLine ELSE v % 8) \in pic[Master].isr

\* The acknowledge: inta is held until ready, possibly a clock longer, released,
\* and asserted again.
CpuPhase ==
  CASE cpu.phase = "run" ->
         \/ cpu' = cpu
         \/ /\ bridge.intr /\ program = <<>> /\ Len(cpu.handlers) < world.nest
            /\ cpu' = [cpu EXCEPT !.phase = "inta1"]
    [] cpu.phase = "inta1" ->
         IF ~bridge.ready THEN cpu' = cpu
         ELSE cpu' \in {[cpu EXCEPT !.phase = p] : p \in {"hold1", "gap"}}
    [] cpu.phase = "hold1" -> cpu' = [cpu EXCEPT !.phase = "gap"]
    [] cpu.phase = "gap" -> cpu' \in {cpu, [cpu EXCEPT !.phase = "inta2"]}
    [] cpu.phase = "inta2" ->
         IF ~bridge.ready THEN cpu' = cpu
         ELSE cpu' \in {[cpu EXCEPT !.phase = p,
                           !.handlers = <<[vector |-> bridge.din, eoi |-> {}]>> \o @] :
                          p \in {"hold2", "serve"}}
    [] cpu.phase = "hold2" -> cpu' = [cpu EXCEPT !.phase = "serve"]
    \* the first instruction of the handler: later than the clock of done
    [] cpu.phase = "serve" -> cpu' \in {cpu, [cpu EXCEPT !.phase = "run"]}

\* The line of the device a handler serves.
SourceOf(v) == IF IsSlaveVector(v) THEN <<Slave, v % 8>> ELSE <<Master, v % 8>>

\* A patient device is silent while the CPU sets the controllers up, keeps its line
\* high until its handler begins, and then lowers it.
Quieted == IF cpu.phase = "serve" THEN {SourceOf(Top.vector)} ELSE {}
LinesMove ==
  IF \/ world.steady /\ (cpu'.phase = "inta1" \/ cpu.phase \in {"inta1", "hold1", "gap", "inta2"})
     \/ world.patient /\ program # <<>>
  THEN lines' = lines
  ELSE lines' \in {s \in SUBSET world.sources :
                     world.patient => lines \ Quieted \subseteq s /\ s \cap Quieted = {}}

Tick(acc) ==
  /\ UNCHANGED world
  /\ pic' = [k \in {Master, Slave} |-> NextPic(k, acc)]
  /\ bridge' = NextBridge

\* No access of the CPU in this clock.
Quiet == Tick(NoAccess) /\ CpuPhase /\ LinesMove /\ UNCHANGED program

Program ==
  /\ cpu.phase = "run" /\ program # <<>>
  /\ Tick(Head(program))
  /\ program' = Tail(program)
  /\ UNCHANGED cpu /\ LinesMove

\* The handler ends the interrupt, first on the slave.
EndOfInterrupt(k) ==
  /\ cpu.phase = "run" /\ cpu.handlers # <<>>
  /\ k \notin Top.eoi /\ (k = Master \/ (IsSlaveVector(Top.vector) /\ Top.eoi = {}))
  /\ k = Master /\ IsSlaveVector(Top.vector) => Slave \in Top.eoi
  /\ Tick(IF InServiceOn(k, Top.vector)
          THEN [chip |-> k, address |-> 0, write |-> TRUE, value |-> NonSpecificEOI]
          ELSE NoAccess)
  /\ cpu' = [cpu EXCEPT !.handlers[1].eoi = @ \cup {k}]
  /\ LinesMove /\ UNCHANGED program

Return ==
  /\ cpu.phase = "run" /\ cpu.handlers # <<>> /\ Master \in Top.eoi
  /\ Tick(NoAccess)
  /\ cpu' = [cpu EXCEPT !.handlers = Tail(@)]
  /\ LinesMove /\ UNCHANGED program

Init ==
  /\ pic = [k \in {Master, Slave} |->
       [last |-> {}, irr |-> {}, isr |-> {}, imr |-> Lines, do |-> FALSE, vector |-> 0,
        slave_active |-> FALSE, spurious |-> FALSE, lowest |-> 7, polled |-> FALSE,
        read_isr |-> FALSE, special_mask |-> FALSE, in_init |-> FALSE, expected |-> 0,
        requires_4 |-> FALSE, ltim |-> FALSE, offset |-> 14, slaves |-> {},
        auto_eoi |-> FALSE, rotate |-> FALSE]]
  /\ bridge = [state |-> "S_IDLE", intr |-> FALSE, done |-> FALSE, ready |-> FALSE,
               din |-> 0, responded |-> FALSE]
  /\ lines = {}
  /\ cpu = [phase |-> "run", handlers |-> <<>>]
  /\ \E s \in Scenarios :
       /\ program = s.program
       /\ world = [sources |-> s.sources, nest |-> s.nest,
                   steady |-> s.steady, patient |-> s.patient]

Handle == Return \/ \E k \in {Master, Slave} : EndOfInterrupt(k)

Next == Quiet \/ Program \/ Handle

Spec == Init /\ [][Next]_vars

\* The clock runs, the CPU proceeds through its program, its acknowledge cycles and
\* its handlers, and between instructions takes an interrupt that stays requested.
Proceeds == cpu'.phase # cpu.phase
FairSpec ==
  /\ Spec
  /\ WF_vars(Next) /\ WF_vars(Program) /\ SF_vars(Handle) /\ SF_vars(Quiet /\ Proceeds)

-----------------------------------------------------------------------------
Level(h) == IF IsSlaveVector(h.vector) THEN CascadeLine ELSE h.vector % 8

\* The lowest level, now or when the vector was formed, stands for no request.
SpuriousLevels(k) == {7, pic[k].lowest}

\* The handlers that have not yet sent chip k the end of interrupt, and their lines.
OpenOn(k) == {cpu.handlers[i] : i \in {j \in DOMAIN cpu.handlers :
                                         /\ k \notin cpu.handlers[j].eoi
                                         /\ k = Slave => IsSlaveVector(cpu.handlers[j].vector)}}
LineOn(k, h) == IF k = Master THEN Level(h) ELSE h.vector % 8

Spurious(h) ==
  LET source == SourceOf(h.vector) IN source[2] \in SpuriousLevels(source[1])

\* Second INTA cycle: return the vector, acknowledge the PIC. The interrupt in
\* service is the one whose vector the CPU was given: on each controller exactly
\* the levels with a handler under way are in service (one for a request that
\* went away needs not be).
InServiceIsHandled ==
  \A k \in {Master, Slave} :
    /\ pic[k].isr \subseteq {LineOn(k, h) : h \in OpenOn(k)}
    /\ {LineOn(k, h) : h \in {g \in OpenOn(k) : ~Spurious(g)}} \subseteq pic[k].isr

\* A handler is interrupted only by an interrupt of higher priority, until it has
\* sent its end of interrupt (pic.v, irq compares the levels of irr and isr).
NestsByPriority ==
  \A i, j \in {n \in DOMAIN cpu.handlers : /\ Master \notin cpu.handlers[n].eoi
                                            /\ InServiceOn(Master, cpu.handlers[n].vector)} :
    i < j /\ ~Spurious(cpu.handlers[i]) =>
      Rank(Master, Level(cpu.handlers[i])) < Rank(Master, Level(cpu.handlers[j]))

\* The CPU is given the vector of a line that is high, or of a request that
\* went away.
TakesWhatIsRequested ==
  [][Len(cpu'.handlers) > Len(cpu.handlers) =>
       SourceOf(bridge.din) \in lines \/ Spurious(Head(cpu'.handlers))]_vars

\* The bridge answers each INTA cycle of the CPU once: it is never ready in a clock
\* in which the CPU does not wait for it.
AnswersOnce == bridge.ready => cpu.phase \in {"inta1", "inta2"}

\* An interrupt of the highest priority is served, whatever comes beside it.
FirstLineServed ==
  <<Master, 0>> \in lines /\ program = <<>> ~>
    \E i \in DOMAIN cpu.handlers : SourceOf(cpu.handlers[i].vector) = <<Master, 0>>

=============================================================================
