-------------------------- MODULE MainMemoryProofs --------------------------
(***************************************************************************)
(* For every size of the memories, with a DDR3 port that may be busy at    *)
(* any time: that the SDRAM and the VGA machine never serve the CPU        *)
(* together, whatever it asks for; and, when its planar requests enable    *)
(* one byte, that reads are answered with what the memories held and that  *)
(* writes arrive.                                                          *)
(***************************************************************************)
EXTENDS MainMemory, TLAPS

IsSeq(s) == \E S : s \in Seq(S)

LEMMA ConcatSeq ==
  ASSUME NEW s, NEW t, IsSeq(s), IsSeq(t)
  PROVE  IsSeq(s \o t) /\ Len(s \o t) = Len(s) + Len(t)
<1>1. PICK S : s \in Seq(S)
  BY DEF IsSeq
<1>2. PICK T : t \in Seq(T)
  BY DEF IsSeq
<1>3. s \in Seq(S \cup T) /\ t \in Seq(S \cup T)
  BY <1>1, <1>2
<1>4. s \o t \in Seq(S \cup T) /\ Len(s \o t) = Len(s) + Len(t)
  BY <1>3
<1> QED BY <1>4 DEF IsSeq

LEMMA TailSeq ==
  ASSUME NEW s, IsSeq(s), s # <<>>
  PROVE  IsSeq(Tail(s)) /\ Len(Tail(s)) = Len(s) - 1
<1>1. PICK S : s \in Seq(S)
  BY DEF IsSeq
<1>2. Tail(s) \in Seq(S) /\ Len(Tail(s)) = Len(s) - 1
  BY <1>1
<1> QED BY <1>2 DEF IsSeq

LEMMA FunctionSeq ==
  ASSUME NEW n \in Nat, NEW f, f = [i \in 1..n |-> f[i]]
  PROVE  IsSeq(f) /\ Len(f) = n
<1>1. f \in Seq({f[i] : i \in 1..n}) /\ Len(f) = n
  OBVIOUS
<1> QED BY <1>1 DEF IsSeq

\* A read is answered once, or as often as its burst says.
LEMMA AnswersSeq ==
  ASSUME req \in RequestType
  PROVE  /\ IsSeq(Answers)
         /\ Valid("ram") => Len(Answers) = BurstCount(req.burst)
<1>1. BurstCount(req.burst) \in Nat /\ req.region \in {"ram", "vga", "unmapped"}
  BY DEF BurstCount, RequestType
<1>2. CASE req.region = "ram"
  <2> DEFINE f == [n \in 1..BurstCount(req.burst) |-> world.ram[RamLoc(req.loc + n - 1)]]
  <2>1. Answers = f
    BY <1>2 DEF Answers, Planar
  <2>2. f = [i \in 1..BurstCount(req.burst) |-> f[i]]
    OBVIOUS
  <2> HIDE DEF f
  <2> QED BY <1>1, <2>1, <2>2, FunctionSeq
<1>3. CASE req.region = "unmapped"
  <2> DEFINE f == [n \in 1..BurstCount(req.burst) |-> FF]
  <2>1. Answers = f
    BY <1>3 DEF Answers, Planar
  <2>2. f = [i \in 1..BurstCount(req.burst) |-> f[i]]
    OBVIOUS
  <2> HIDE DEF f
  <2> QED BY <1>1, <1>3, <2>1, <2>2, FunctionSeq DEF Valid
<1>4. CASE req.region = "vga"
  <2>1. \E x : Answers = <<x>>
    <3>1. CASE ~mode.fb
      BY <1>4, <3>1 DEF Answers, Planar
    <3>2. CASE mode.fb /\ Planar
      BY <1>4, <3>2 DEF Answers
    <3>3. CASE mode.fb /\ ~Planar
      BY <1>4, <3>3 DEF Answers
    <3> QED BY <3>1, <3>2, <3>3
  <2>2. \A x : <<x>> \in Seq({x})
    OBVIOUS
  <2> QED BY <1>4, <2>1, <2>2 DEF IsSeq, Valid
<1> QED BY <1>1, <1>2, <1>3, <1>4

-----------------------------------------------------------------------------
\* What the SDRAM is doing determines what the CPU waits for: an accepted request is
\* one for RAM, a read under way is all that is unanswered.
SdramInv ==
  /\ mem.phase \in {"idle", "granted", "reading", "answer"}
  /\ mem.phase = "granted" => Valid("ram")
  /\ mem.phase \in {"reading", "answer"} =>
       req = NoRequest /\ mem.left \in Nat \ {0} /\ Len(expected) = mem.left

\* The machine is busy, and for the clock after it answers, only while the SDRAM rests.
MachineInv ==
  /\ vga_busy \/ vga_dout_ready => mem.phase = "idle"
  /\ vga_accepted => vga_busy /\ Valid("vga")

\* The CPU has a request only when nothing is unanswered.
CpuInv ==
  /\ scenario \in Scenarios
  /\ req \in RequestType \cup {NoRequest}
  /\ IsSeq(expected)
  /\ req # NoRequest => expected = <<>>

PathInv == SdramInv /\ MachineInv /\ CpuInv

LEMMA PathInit == Init => PathInv
<1> SUFFICES ASSUME Init
             PROVE  PathInv
  OBVIOUS
<1>1. IsSeq(<<>>)
  <2>1. <<>> \in Seq({})
    OBVIOUS
  <2> QED BY <2>1 DEF IsSeq
<1> QED BY <1>1 DEF Init, PathInv, SdramInv, MachineInv, CpuInv, IdlePort, Port, vga_busy, req

\* Something accepts the CPU's request only when there is one, for that path.
LEMMA ReadyMeans ==
  ASSUME PathInv, cpu_ready
  PROVE  req \in RequestType /\ req # NoRequest
<1>1. req.region \in {"ram", "vga", "unmapped"}
  BY DEF cpu_ready, PathInv, SdramInv, MachineInv, mem_ready, Valid
<1> QED BY <1>1 DEF PathInv, CpuInv, NoRequest

\* The CPU keeps the request it has until it is accepted, and has none or a new one
\* otherwise.
LEMMA RequestStep ==
  ASSUME PathInv, Cpu
  PROVE  \/ req' = req /\ ~cpu_ready
         \/ req' = NoRequest
         \/ req' \in scenario.requests /\ Quiet
BY DEF Cpu, Released, req

LEMMA CpuStep ==
  ASSUME PathInv, Cpu, History
  PROVE  CpuInv'
<1> DEFINE rest == IF cpu_resp_valid /\ expected # <<>> THEN Tail(expected) ELSE expected
           more == IF cpu_ready /\ ~req.write THEN Answers ELSE <<>>
<1>1. req' \in RequestType \cup {NoRequest}
  BY RequestStep, ScenariosAssumption DEF PathInv, CpuInv
<1>2. IsSeq(<<>>)
  <2>1. <<>> \in Seq({})
    OBVIOUS
  <2> QED BY <2>1 DEF IsSeq
<1>3. IsSeq(rest)
  BY TailSeq DEF PathInv, CpuInv
<1>4. IsSeq(more)
  BY <1>2, ReadyMeans, AnswersSeq
<1>5. expected' = rest \o more
  BY DEF History
<1>6. IsSeq(expected') /\ Len(expected') = Len(rest) + Len(more)
  <2> HIDE DEF rest, more
  <2> QED BY <1>3, <1>4, <1>5, ConcatSeq
<1>7. ASSUME req' # NoRequest
      PROVE  expected' = <<>>
  <2>1. \A s : IsSeq(s) => (s = <<>> <=> Len(s) = 0) /\ Len(s) \in Nat
    <3> SUFFICES ASSUME NEW s, NEW S, s \in Seq(S)
                 PROVE  (s = <<>> <=> Len(s) = 0) /\ Len(s) \in Nat
      BY DEF IsSeq
    <3> QED OBVIOUS
  <2>2. CASE req' = req /\ ~cpu_ready
    <3>1. expected = <<>> /\ rest = <<>> /\ more = <<>>
      BY <1>7, <2>2 DEF PathInv, CpuInv
    <3> QED BY <3>1, <1>6, <2>1
  <2>3. CASE req' \in scenario.requests /\ Quiet
    <3>1. more = <<>>
      BY <2>3 DEF Quiet
    <3>2. Len(rest) = 0
      <4>1. IsSeq(expected) /\ Len(expected) \in Nat /\ (expected = <<>> <=> Len(expected) = 0)
        BY <2>1 DEF PathInv, CpuInv
      <4>2. Len(expected) <= (IF cpu_resp_valid THEN 1 ELSE 0)
        BY <2>3 DEF Quiet
      <4>3. CASE cpu_resp_valid /\ expected # <<>>
        <5>1. Len(Tail(expected)) = Len(expected) - 1
          BY <4>1, <4>3, TailSeq
        <5>2. rest = Tail(expected)
          BY <4>3
        <5> HIDE DEF rest
        <5> QED BY <4>1, <4>2, <4>3, <5>1, <5>2
      <4>4. CASE ~(cpu_resp_valid /\ expected # <<>>)
        BY <4>1, <4>2, <4>4
      <4> QED BY <4>3, <4>4
    <3> HIDE DEF rest, more
    <3> QED BY <3>1, <3>2, <1>6, <1>2, <2>1
  <2> QED BY <1>7, <2>2, <2>3, RequestStep
<1>8. scenario' \in Scenarios
  BY DEF History, PathInv, CpuInv
<1> HIDE DEF rest, more
<1> QED BY <1>1, <1>6, <1>7, <1>8 DEF CpuInv, req

\* While the SDRAM is busy the machine takes nothing.
LEMMA MachineIdles ==
  ASSUME PathInv, Machine, mem.phase # "idle" \/ mem_valid
  PROVE  ~vga_busy' /\ ~vga_dout_ready' /\ ~vga_accepted'
<1>1. state = "IDLE" /\ ~Valid("vga") /\ ~Valid("unmapped")
  BY DEF PathInv, SdramInv, MachineInv, vga_busy, mem_valid, Valid, NoRequest
<1> QED BY <1>1 DEF Machine, NextState, NextDoutReady, TakesVga, TakesUnmapped, vga_busy

LEMMA MachineStep ==
  ASSUME PathInv, Machine, Sdram, Cpu
  PROVE  MachineInv'
<1>1. vga_busy' \/ vga_dout_ready' => mem'.phase = "idle"
  <2> SUFFICES ASSUME mem'.phase # "idle"
               PROVE  ~vga_busy' /\ ~vga_dout_ready'
    OBVIOUS
  <2>1. mem.phase # "idle" \/ mem_valid
    BY DEF Sdram, IdlePort, Port
  <2> QED BY <2>1, MachineIdles
<1>2. vga_accepted' => vga_busy' /\ Valid("vga")'
  <2> SUFFICES ASSUME TakesVga
               PROVE  vga_busy' /\ Valid("vga")'
    BY DEF Machine
  <2>1. vga_busy'
    BY DEF Machine, NextState, TakesVga, TakesUnmapped, Valid, vga_busy
  <2>2. ~cpu_ready /\ req # NoRequest
    BY DEF TakesVga, Valid, cpu_ready, mem_ready, PathInv, SdramInv, MachineInv, vga_busy, NoRequest
  <2>3. req' = req
    BY <2>2 DEF Cpu, Quiet, req
  <2> QED BY <2>1, <2>3 DEF TakesVga, Valid
<1> QED BY <1>1, <1>2 DEF MachineInv, vga_busy

LEMMA SdramStep ==
  ASSUME PathInv, Machine, Sdram, Cpu, History
  PROVE  SdramInv'
<1>1. Len(expected) \in Nat /\ (expected = <<>> <=> Len(expected) = 0)
  <2>1. PICK S : expected \in Seq(S)
    BY DEF PathInv, CpuInv, IsSeq
  <2> QED BY <2>1
<1>2. CASE mem' = mem /\ mem.phase \in {"idle", "reading"}
  <2>1. mem.phase = "reading" => /\ req' = NoRequest
                                 /\ expected' = expected
    <3> SUFFICES ASSUME mem.phase = "reading"
                 PROVE  req' = NoRequest /\ expected' = expected
      OBVIOUS
    <3>1. req = NoRequest /\ Len(expected) >= 1 /\ ~vga_dout_ready /\ ~vga_accepted
      BY DEF PathInv, SdramInv, MachineInv
    <3>2. ~cpu_resp_valid /\ ~cpu_ready
      BY <3>1 DEF cpu_resp_valid, mem_resp_valid, cpu_ready, mem_ready, Valid, NoRequest
    <3>3. ~Quiet
      BY <3>1, <3>2, <1>1 DEF Quiet
    <3>4. expected' = expected \o <<>>
      BY <3>2 DEF History
    <3>5. PICK S : expected \in Seq(S)
      BY DEF PathInv, CpuInv, IsSeq
    <3> QED BY <3>1, <3>2, <3>3, <3>4, <3>5 DEF Cpu, req
  <2> QED BY <1>2, <2>1 DEF PathInv, SdramInv, Valid
<1>3. CASE mem.phase = "idle" /\ mem_valid /\ mem' = Port("granted", 0, 0, Zero)
  <2>1. Valid("ram") /\ ~vga_busy /\ ~cpu_ready /\ req # NoRequest
    BY <1>3 DEF mem_valid, Valid, cpu_ready, mem_ready, PathInv, MachineInv, NoRequest
  <2>2. req' = req
    BY <2>1 DEF Cpu, Quiet, req
  <2> QED BY <1>3, <2>1, <2>2 DEF SdramInv, Port, Valid
<1>4. CASE mem' = IdlePort
  BY <1>4 DEF SdramInv, IdlePort, Port
<1>5. CASE mem.phase = "granted" /\ ~req.write
           /\ mem' = Port("reading", req.loc, BurstCount(req.burst), Zero)
  <2>1. cpu_ready /\ Valid("ram") /\ req \in RequestType /\ expected = <<>>
    <3>1. cpu_ready /\ Valid("ram")
      BY <1>5 DEF cpu_ready, mem_ready, PathInv, SdramInv
    <3> QED BY <3>1, ReadyMeans DEF PathInv, CpuInv
  <2>2. req' = NoRequest
    BY <1>5, <2>1 DEF Cpu, Quiet, Released, req
  <2>3. BurstCount(req.burst) \in Nat \ {0}
    <3>1. req.burst \in 0..255
      BY <2>1 DEF RequestType
    <3> QED BY <3>1 DEF BurstCount
  <2>4. Len(expected') = BurstCount(req.burst)
    <3>1. IsSeq(Answers) /\ Len(Answers) = BurstCount(req.burst)
      BY <2>1, AnswersSeq
    <3>2. expected' = <<>> \o Answers
      BY <1>5, <2>1 DEF History
    <3>3. PICK S : Answers \in Seq(S)
      BY <3>1 DEF IsSeq
    <3> QED BY <3>1, <3>2, <3>3
  <2> QED BY <1>5, <2>2, <2>3, <2>4 DEF SdramInv, Port
<1>6. CASE mem.phase = "reading"
           /\ mem' = Port("answer", mem.loc, mem.left, ram[RamLoc(mem.loc)])
  <2>1. req = NoRequest /\ Len(expected) >= 1 /\ ~vga_dout_ready /\ ~vga_accepted
    BY <1>6 DEF PathInv, SdramInv, MachineInv
  <2>2. ~cpu_resp_valid /\ ~cpu_ready
    BY <1>6, <2>1 DEF cpu_resp_valid, mem_resp_valid, cpu_ready, mem_ready, Valid, NoRequest
  <2>3. ~Quiet
    BY <2>1, <2>2, <1>1 DEF Quiet
  <2>4. req' = NoRequest
    BY <2>1, <2>2, <2>3 DEF Cpu, req
  <2>5. expected' = expected
    <3>1. expected' = expected \o <<>>
      BY <2>2 DEF History
    <3>2. PICK S : expected \in Seq(S)
      BY DEF PathInv, CpuInv, IsSeq
    <3> QED BY <3>1, <3>2
  <2> QED BY <1>6, <2>4, <2>5 DEF PathInv, SdramInv, Port
<1>7. CASE mem.phase = "answer" /\ mem.left # 1
           /\ mem' = Port("reading", mem.loc + 1, mem.left - 1, Zero)
  <2>1. req = NoRequest /\ Len(expected) = mem.left /\ mem.left \in Nat /\ mem.left >= 2
        /\ ~vga_accepted
    BY <1>7 DEF PathInv, SdramInv, MachineInv
  <2>2. cpu_resp_valid /\ ~cpu_ready
    BY <1>7, <2>1 DEF cpu_resp_valid, mem_resp_valid, cpu_ready, mem_ready, Valid, NoRequest
  <2>3. req' = NoRequest
    BY <2>1, <2>2 DEF Cpu, Quiet, req
  <2>4. Len(expected') = mem.left - 1
    <3>1. expected' = Tail(expected) \o <<>>
      BY <2>1, <2>2, <1>1 DEF History
    <3>2. PICK S : expected \in Seq(S)
      BY DEF PathInv, CpuInv, IsSeq
    <3> QED BY <3>1, <3>2, <2>1
  <2> QED BY <1>7, <2>1, <2>3, <2>4 DEF SdramInv, Port
<1> QED BY <1>2, <1>3, <1>4, <1>5, <1>6, <1>7 DEF Sdram

LEMMA PathStep == PathInv /\ [Next]_vars => PathInv'
<1> SUFFICES ASSUME PathInv, [Next]_vars
             PROVE  PathInv'
  OBVIOUS
<1>1. CASE UNCHANGED vars
  BY <1>1 DEF vars, PathInv, SdramInv, MachineInv, CpuInv, vga_busy, Valid, req
<1>2. CASE Next
  <2>1. Machine /\ Sdram /\ Cpu /\ History
    BY <1>2 DEF Next, Tick
  <2> QED BY <2>1, CpuStep, MachineStep, SdramStep DEF PathInv
<1> QED BY <1>1, <1>2

\* The ready and answer wires of the SDRAM and of the VGA machine, which main_memory
\* ORs together, never belong to two requests (main_memory.sv, vga_busy).
THEOREM PathsExclude == Spec => []OnePath
<1>1. PathInv => OnePath
  BY DEF PathInv, MachineInv, OnePath
<1> QED BY PathInit, PathStep, <1>1, PTL DEF Spec

-----------------------------------------------------------------------------
(* What the memories hold, and what the CPU is told.                       *)

\* With the planes the machine serves the first byte that a request enables.
OneByte ==
  \A s \in Scenarios : \A q \in s.requests, m \in s.modes :
    q.region = "vga" /\ m.fb /\ ~m.chain4 => \E i \in Lanes : q.be = {i}

Requested ==
  /\ mode \in scenario.modes
  /\ req \in scenario.requests \cup {NoRequest}
  /\ req.write /\ Planar /\ mode.latched => world.latch # NoLatch

Serving == {"VGA_READ", "FB_READ", "FB_READ_WAIT"}      \* the reads of the machine

\* Between taking a request and its being accepted the machine is in its first state; a read
\* that has been accepted is all that the CPU waits for.
Taken ==
  /\ state \in Serving \cup {"IDLE", "FB_WRITE", "UNMAPPED_READ", "VGA_WRITE"}
  /\ vga_accepted =>
       state = IF mode.fb THEN IF req.write THEN "FB_WRITE" ELSE "FB_READ"
               ELSE IF req.write THEN "VGA_WRITE" ELSE "VGA_READ"
  /\ state \in Serving =>
       /\ ~vga_dout_ready
       /\ ~vga_accepted => req = NoRequest /\ Len(expected) = 1
       /\ mode.fb <=> state # "VGA_READ"

Win == 0..(Window - 1)
Bytes == Nat \X Nat
WorldFields == {"ram", "vga", "fb", "latch"}
VgaFields == {"loc", "lane", "read", "write", "writedata", "be", "bcnt"}
Stores ==
  /\ DOMAIN world = WorldFields /\ DOMAIN vga = VgaFields
  /\ DOMAIN fb = {"addr", "high", "rd", "be", "din"}
  /\ DOMAIN ddr.store = Fbs
  /\ world.vga \in [Win -> [Lanes -> Bytes]]
  /\ vga_mem.store \in [Win -> [Lanes -> Bytes]]

\* The memories after the write that is just being accepted as well.
WriteAccepted == vga_accepted /\ req.write
AcceptedFb == IF WriteAccepted /\ mode.fb THEN Written.fb ELSE world.fb
AcceptedVga(l, i) ==
  IF WriteAccepted /\ ~mode.fb /\ l = req.loc /\ i \in req.be THEN Byte(req.data, i)
  ELSE world.vga[l][i]

\* They are what the memories hold once the machine has written what it has still to write.
RamHolds == world.ram = ram
FbHolds ==
  AcceptedFb = IF state # "FB_WRITE" THEN ddr.store
               ELSE [ddr.store EXCEPT ![2 * fb.addr + fb.high] = Merge(@, fb.din, fb.be)]
StillToWrite(i) == i - vga.lane - 1      \* of a lane, its place in vga_be and vga_data
PendingVga(l, i) ==
  IF state # "VGA_WRITE" \/ l # vga.loc THEN vga_mem.store[l][i]
  ELSE IF i = vga.lane /\ vga.write THEN vga.writedata
  ELSE IF i > vga.lane /\ StillToWrite(i) \in vga.be THEN vga_data[StillToWrite(i)]
  ELSE vga_mem.store[l][i]
VgaHolds ==
  /\ vga.write => state = "VGA_WRITE"
  /\ state = "VGA_WRITE" =>
       /\ vga.lane \in Lanes /\ vga.be \subseteq {b \in 0..2 : b + vga.lane <= 2}
       /\ vga.writedata \in Bytes /\ vga_data \in [Lanes -> Bytes]
  /\ \A l \in Win, i \in Lanes : AcceptedVga(l, i) = PendingVga(l, i)

\* The bytes that a read of the VGA memory is for; those it has are in their places.
ReadBytes == IF vga_accepted THEN req.be ELSE DOMAIN expected[1]
VgaReads ==
  state = "VGA_READ" =>
    /\ vga.lane \in Lanes /\ vga.bcnt = 3 - vga.lane /\ ReadBytes \subseteq Lanes
    /\ IF vga_accepted THEN vga.loc = req.loc
       ELSE expected[1] = [i \in ReadBytes |-> vga_mem.store[vga.loc][i]]
    /\ \A i \in ReadBytes : i < vga.lane => vga_dout[i + 4 - vga.lane] = vga_mem.store[vga.loc][i]
    /\ vga.lane \in ReadBytes => vga.read \/ vga_mem.readdata = vga_mem.store[vga.loc][vga.lane]
    /\ vga.be \subseteq 0..2
    /\ \A b \in 0..2 : b \in vga.be <=> b + vga.lane + 1 \in ReadBytes

\* The word that a read of the framebuffer is for, and the dword of it.
FbWord == 2 * fb.addr + fb.high
FbReads ==
  /\ fb.high \in 0..1
  /\ fb.rd \/ ddr.phase # "idle" => state = "FB_READ_WAIT" /\ ~(fb.rd /\ ddr.phase # "idle")
  /\ ddr.phase # "idle" => \A h \in 0..1 : ddr.dout[h] = ddr.store[2 * fb.addr + h]
  /\ state \in {"FB_READ", "FB_READ_WAIT"} =>
       IF vga_accepted THEN FbWord = FbIndex(mode.rd_bank)
       ELSE IF mode.chain4 THEN expected[1] = ddr.store[FbWord]
       ELSE /\ DOMAIN expected[1] \subseteq Lanes
            /\ \A i \in DOMAIN expected[1] : expected[1][i] = ddr.store[FbWord][mode.plane]

RamReads ==
  /\ mem.phase = "answer" => mem.dout = ram[RamLoc(mem.loc)]
  /\ mem.phase \in {"reading", "answer"} =>
       mem.loc \in Nat /\ \A j \in 1..mem.left : expected[j] = ram[RamLoc(mem.loc + j - 1)]

UnmappedReads ==
  state = "UNMAPPED_READ" =>
    /\ vga.bcnt \in 0..7
    /\ Len(expected) >= (IF vga_dout_ready THEN 1 ELSE 0) + (IF vga.bcnt = 0 THEN 1 ELSE vga.bcnt)
    /\ \A j \in 1..Len(expected) : expected[j] = FF
    /\ vga_dout_ready => vga_dout = FF

Answered ==
  vga_dout_ready =>
    expected # <<>> /\ \A i \in DOMAIN expected[1] : vga_dout[i] = expected[1][i]

\* The plane latches hold what the last planar read found, or will when it is answered.
Latches ==
  /\ ~mode.fb \/ state = "VGA_WRITE" => world.latch = NoLatch
  /\ world.latch # NoLatch =>
       IF state \in {"FB_READ", "FB_READ_WAIT"} /\ ~vga_accepted /\ ~mode.chain4
       THEN world.latch = ddr.store[FbWord] ELSE vga_data = world.latch

DataInv ==
  /\ Requested /\ Taken /\ Stores /\ RamHolds /\ FbHolds /\ VgaHolds
  /\ VgaReads /\ FbReads /\ RamReads /\ UnmappedReads /\ Answered /\ Latches

-----------------------------------------------------------------------------
LEMMA SeqFacts ==
  ASSUME NEW s, IsSeq(s)
  PROVE  /\ Len(s) \in Nat /\ (s = <<>> <=> Len(s) = 0)
         /\ s # <<>> => /\ Head(s) = s[1] /\ Len(Tail(s)) = Len(s) - 1
                        /\ \A j \in 1..(Len(s) - 1) : Tail(s)[j] = s[j + 1]
         /\ s \o <<>> = s /\ <<>> \o s = s
<1>1. PICK S : s \in Seq(S)
  BY DEF IsSeq
<1>2. QED
  BY <1>1

\* What the CPU waits for after a clock.
LEMMA ExpectedStep ==
  ASSUME PathInv, History, Cpu
  PROVE  /\ ~cpu_resp_valid /\ ~cpu_ready => expected' = expected
         /\ cpu_resp_valid /\ expected # <<>> => expected' = Tail(expected)
         /\ cpu_ready /\ ~req.write => expected' = Answers
<1>1. IsSeq(expected)
  BY DEF PathInv, CpuInv
<1>2. expected \o <<>> = expected
  BY <1>1, SeqFacts
<1>3. cpu_ready => expected = <<>>
  BY ReadyMeans DEF PathInv, CpuInv
<1>4. CASE ~cpu_resp_valid /\ ~cpu_ready
  BY <1>2, <1>4 DEF History
<1>5. CASE cpu_resp_valid /\ expected # <<>>
  <2>1. IsSeq(Tail(expected)) /\ ~cpu_ready
    BY <1>1, <1>3, <1>5, TailSeq
  <2>2. Tail(expected) \o <<>> = Tail(expected)
    BY <2>1, SeqFacts
  <2>3. QED
    BY <1>5, <2>1, <2>2 DEF History
<1>6. CASE cpu_ready /\ ~req.write
  <2>1. IsSeq(Answers)
    BY <1>6, ReadyMeans, AnswersSeq
  <2>2. <<>> \o Answers = Answers
    BY <2>1, SeqFacts
  <2>3. QED
    BY <1>3, <1>6, <2>2 DEF History
<1>7. QED
  BY <1>4, <1>5, <1>6

\* A request stays until it is accepted, and nothing follows a read before it is answered.
LEMMA RequestKept ==
  ASSUME PathInv, Cpu, req # NoRequest, ~cpu_ready
  PROVE  req' = req /\ mode' = mode
BY DEF Cpu, Quiet, req

LEMMA ReadReleased ==
  ASSUME PathInv, Cpu, cpu_ready, ~req.write
  PROVE  req' = NoRequest /\ mode' = mode
BY DEF Cpu, Quiet, Released, req

LEMMA StillWaiting ==
  ASSUME PathInv, Cpu, req = NoRequest, Len(expected) >= (IF cpu_resp_valid THEN 2 ELSE 1)
  PROVE  req' = NoRequest /\ mode' = mode
<1>1. Len(expected) \in Nat
  BY SeqFacts DEF PathInv, CpuInv
<1>2. ~cpu_ready
  BY ReadyMeans
<1>3. QED
  BY <1>1, <1>2 DEF Cpu, Quiet, req

\* Who accepts a request.
LEMMA AcceptedBy ==
  ASSUME PathInv, cpu_ready
  PROVE  \/ vga_accepted /\ Valid("vga") /\ ~mem_ready /\ vga_busy
         \/ mem_ready /\ Valid("ram") /\ ~vga_accepted /\ ~vga_busy
         \/ state = "IDLE" /\ Valid("unmapped") /\ ~vga_accepted /\ ~mem_ready
BY DEF PathInv, MachineInv, SdramInv, cpu_ready, mem_ready, vga_busy, Valid

RamWritten == [world.ram EXCEPT ![RamLoc(req.loc)] = Merge(@, Dword(req.data), req.be)]
VgaWritten == [world.vga EXCEPT ![req.loc] = Merge(@, Dword(req.data), req.be)]
PackedWritten ==
  [world.fb EXCEPT ![FbIndex(mode.wr_bank)] = Merge(@, Dword(req.data), req.be)]
Groups == {Group(mode.wr_bank, i) : i \in req.be}
Put(g) == Merge(world.fb[g], IF mode.latched THEN world.latch
                             ELSE [i \in Lanes |-> Byte(req.data, g % 4)], mode.mask)
PlanarWritten == [g \in Fbs |-> IF g \in Groups THEN Put(g) ELSE world.fb[g]]

LEMMA WrittenIs ==
  ASSUME DOMAIN world = WorldFields
  PROVE  /\ DOMAIN Written = WorldFields /\ Written.latch = world.latch
         /\ Written.ram = IF Valid("ram") THEN RamWritten ELSE world.ram
         /\ Written.vga = IF Valid("vga") /\ ~mode.fb THEN VgaWritten ELSE world.vga
         /\ (cpu_ready /\ PathInv) \/ Valid("vga") =>
              Written.fb = IF ~(Valid("vga") /\ mode.fb) THEN world.fb
                           ELSE IF mode.chain4 THEN PackedWritten ELSE PlanarWritten
<1>1. CASE Valid("ram")
  <2>1. Written = [world EXCEPT !.ram[RamLoc(req.loc)] = Merge(@, Dword(req.data), req.be)]
    BY <1>1 DEF Written, Valid, Planar
  <2>2. QED
    BY <1>1, <2>1 DEF Valid, WorldFields, RamWritten
<1>2. CASE Valid("vga") /\ ~mode.fb
  <2>1. Written = [world EXCEPT !.vga[req.loc] = Merge(@, Dword(req.data), req.be)]
    BY <1>2 DEF Written, Valid, Planar
  <2>2. QED
    BY <1>2, <2>1 DEF Valid, WorldFields, VgaWritten
<1>3. CASE Valid("vga") /\ mode.fb /\ ~mode.chain4
  <2>1. Written = [world EXCEPT !.fb = [g \in Fbs |-> IF g \in Groups THEN Put(g) ELSE @[g]]]
    BY <1>3 DEF Written, Valid, Planar, Groups, Put
  <2>2. QED
    BY <1>3, <2>1 DEF Valid, WorldFields, PlanarWritten
<1>4. CASE Valid("vga") /\ mode.fb /\ mode.chain4
  <2>1. Written = [world EXCEPT !.fb[FbIndex(mode.wr_bank)] = Merge(@, Dword(req.data), req.be)]
    BY <1>4 DEF Written, Valid, Planar
  <2>2. QED
    BY <1>4, <2>1 DEF Valid, WorldFields, PackedWritten
<1>5. CASE Valid("unmapped")
  <2>1. Written = world
    BY <1>5 DEF Written, Valid, Planar
  <2>2. QED
    BY <1>5, <2>1 DEF Valid
<1>a. CASE ~Valid("vga") /\ ~Valid("ram") /\ ~Valid("unmapped")
  <2>1. Written = [world EXCEPT !.fb[FbIndex(mode.wr_bank)] = Merge(@, Dword(req.data), req.be)]
    BY <1>a DEF Written, Valid, Planar
  <2>2. QED
    BY <1>a, <2>1, AcceptedBy DEF Valid, WorldFields
<1>6. QED
  BY <1>1, <1>2, <1>3, <1>4, <1>5, <1>a

LEMMA LatchedIs ==
  ASSUME DOMAIN world = WorldFields
  PROVE  /\ DOMAIN Latched = WorldFields
         /\ Latched.ram = world.ram /\ Latched.vga = world.vga /\ Latched.fb = world.fb
         /\ Latched.latch = IF Planar THEN world.fb[Group(mode.rd_bank, Min(req.be))] ELSE world.latch
BY DEF Latched, WorldFields

LEMMA WorldStep ==
  ASSUME PathInv, DOMAIN world = WorldFields, History, Cpu
  PROVE  /\ DOMAIN world' = WorldFields
         /\ cpu_ready /\ req.write => world' = Written
         /\ ~(cpu_ready /\ req.write) => UNCHANGED <<world.ram, world.vga, world.fb>>
         /\ world'.latch = IF cpu_ready /\ ~req.write /\ Planar
                           THEN world.fb[Group(mode.rd_bank, Min(req.be))]
                           ELSE IF mode' # mode /\ ~mode'.fb THEN NoLatch ELSE world.latch
<1>1. CASE cpu_ready /\ req.write
  <2>1. mode' = mode
    <3>1. req # NoRequest
      BY <1>1, ReadyMeans
    <3>2. QED
      BY <3>1 DEF Cpu
  <2>2. world' = Written
    BY <1>1, <2>1 DEF History
  <2>3. QED
    BY <1>1, <2>1, <2>2, WrittenIs
<1>2. CASE cpu_ready /\ ~req.write
  <2>1. world' = Latched /\ mode' = mode
    BY <1>2, ReadReleased DEF History
  <2>2. QED
    BY <1>2, <2>1, LatchedIs
<1>3. CASE ~cpu_ready /\ mode' # mode /\ ~mode'.fb
  <2>1. world' = [world EXCEPT !.latch = NoLatch]
    BY <1>3 DEF History
  <2>2. QED
    BY <1>3, <2>1 DEF WorldFields
<1>4. CASE ~cpu_ready /\ ~(mode' # mode /\ ~mode'.fb)
  <2>1. world' = world
    BY <1>4 DEF History
  <2>2. QED
    BY <1>4, <2>1
<1>5. QED
  BY <1>1, <1>2, <1>3, <1>4

\* A read of the VGA has one answer.
LEMMA OneAnswer ==
  ASSUME Valid("vga")
  PROVE  Len(Answers) = 1
<1>1. \E x : Answers = <<x>>
  <2>1. CASE ~mode.fb
    BY <2>1 DEF Answers, Planar, Valid
  <2>2. CASE Planar
    BY <2>2 DEF Answers, Planar
  <2>3. CASE mode.fb /\ ~Planar
    BY <2>3 DEF Answers, Planar, Valid
  <2>4. QED
    BY <2>1, <2>2, <2>3
<1>2. QED
  BY <1>1

\* The world, as it is once the write that is being accepted counts.
LEMMA AcceptedRam ==
  ASSUME PathInv, Requested, Taken, Stores, History, Cpu
  PROVE  world'.ram = IF mem_ready /\ req.write THEN RamWritten ELSE world.ram
<1>1. CASE cpu_ready /\ req.write
  <2>1. world' = Written
    BY <1>1, WorldStep DEF Stores
  <2>2. mem_ready <=> Valid("ram")
    BY <1>1, AcceptedBy DEF Valid
  <2>3. QED
    BY <1>1, <2>1, <2>2, WrittenIs DEF Stores
<1>2. CASE ~(cpu_ready /\ req.write)
  BY <1>2, WorldStep DEF Stores, cpu_ready
<1>3. QED
  BY <1>1, <1>2

LEMMA AcceptedFbIs ==
  ASSUME PathInv, Requested, Taken, Stores, History, Cpu
  PROVE  world'.fb = AcceptedFb
<1>1. CASE cpu_ready /\ req.write
  <2>1. world' = Written
    BY <1>1, WorldStep DEF Stores
  <2>2. vga_accepted <=> Valid("vga")
    BY <1>1, AcceptedBy DEF Valid
  <2>3. CASE vga_accepted /\ mode.fb
    BY <1>1, <2>1, <2>3 DEF AcceptedFb, WriteAccepted
  <2>4. CASE ~(vga_accepted /\ mode.fb)
    BY <1>1, <2>1, <2>2, <2>4, WrittenIs DEF Stores, AcceptedFb, WriteAccepted
  <2>5. QED
    BY <2>3, <2>4
<1>2. CASE ~(cpu_ready /\ req.write)
  BY <1>2, WorldStep DEF Stores, cpu_ready, AcceptedFb, WriteAccepted
<1>3. QED
  BY <1>1, <1>2

LEMMA AcceptedVgaIs ==
  ASSUME PathInv, Requested, Taken, Stores, History, Cpu
  PROVE  /\ world'.vga \in [Win -> [Lanes -> Bytes]]
         /\ \A l \in Win, i \in Lanes : world'.vga[l][i] = AcceptedVga(l, i)
<1>1. CASE cpu_ready /\ req.write
  <2>1. world' = Written
    BY <1>1, WorldStep DEF Stores
  <2>2. vga_accepted <=> Valid("vga")
    BY <1>1, AcceptedBy DEF Valid
  <2>3. CASE vga_accepted /\ ~mode.fb
    <3>1. world'.vga = VgaWritten
      BY <2>1, <2>2, <2>3, WrittenIs DEF Stores
    <3>2. req \in RequestType
      BY <1>1, ReadyMeans
    <3>3. Dword(req.data) \in [Lanes -> Bytes]
      <4>1. req.data \in Nat
        BY <3>2 DEF RequestType
      <4>2. \A i \in Lanes : Byte(req.data, i) \in Bytes
        BY <4>1 DEF Byte, Bytes, Lanes
      <4>3. QED
        BY <4>2 DEF Dword
    <3>4. ASSUME NEW old \in [Lanes -> Bytes]
          PROVE  /\ Merge(old, Dword(req.data), req.be) \in [Lanes -> Bytes]
                 /\ \A i \in Lanes : Merge(old, Dword(req.data), req.be)[i] =
                                       IF i \in req.be THEN Byte(req.data, i) ELSE old[i]
      <4>1. \A i \in Lanes : Dword(req.data)[i] = Byte(req.data, i)
        BY DEF Dword
      <4>2. QED
        BY <3>3, <4>1 DEF Merge
    <3>5. world.vga \in [Win -> [Lanes -> Bytes]]
      BY DEF Stores
    <3> DEFINE row == Merge(world.vga[req.loc], Dword(req.data), req.be)
    <3>6. world'.vga = [world.vga EXCEPT ![req.loc] = row]
      BY <3>1 DEF VgaWritten
    <3>7. req.loc \in Win => row \in [Lanes -> Bytes]
      BY <3>4, <3>5
    <3>8. ASSUME req.loc \in Win, NEW i \in Lanes
          PROVE  row[i] = IF i \in req.be THEN Byte(req.data, i) ELSE world.vga[req.loc][i]
      BY <3>4, <3>5, <3>8
    <3> HIDE DEF row
    <3>9. world'.vga \in [Win -> [Lanes -> Bytes]]
      BY <3>5, <3>6, <3>7
    <3>10. ASSUME NEW l \in Win, NEW i \in Lanes
           PROVE  world'.vga[l][i] = AcceptedVga(l, i)
      BY <1>1, <2>3, <3>5, <3>6, <3>8, <3>10 DEF AcceptedVga, WriteAccepted
    <3>11. QED
      BY <3>9, <3>10
  <2>4. CASE ~(vga_accepted /\ ~mode.fb)
    <3>1. world'.vga = world.vga
      BY <2>1, <2>2, <2>4, WrittenIs DEF Stores
    <3>2. QED
      BY <2>4, <3>1 DEF Stores, AcceptedVga, WriteAccepted
  <2>5. QED
    BY <2>3, <2>4
<1>2. CASE ~(cpu_ready /\ req.write)
  <2>1. world'.vga = world.vga /\ ~WriteAccepted
    BY <1>2, WorldStep DEF Stores, cpu_ready, WriteAccepted
  <2>2. QED
    BY <2>1 DEF Stores, AcceptedVga
<1>3. QED
  BY <1>1, <1>2

-----------------------------------------------------------------------------
LEMMA RequestedStep ==
  ASSUME PathInv, Requested, Taken, Stores, History, Cpu
  PROVE  Requested'
<1>1. scenario' = scenario /\ mode' \in scenario.modes
  BY DEF History, Cpu, Requested
<1>2. req' \in scenario.requests \cup {NoRequest}
  BY RequestStep DEF Requested
<1>3. ASSUME req'.write, Planar', mode'.latched
      PROVE  world'.latch # NoLatch
  <2>1. req'.region = "vga" /\ req' # NoRequest
    BY <1>3 DEF Planar, NoRequest, req
  <2>2. mode' = mode
    BY <2>1, RequestKept DEF Cpu, req
  <2>3. CASE req' = req /\ ~cpu_ready
    <3>1. world'.latch = world.latch
      BY <2>2, <2>3, WorldStep DEF Stores
    <3>2. QED
      BY <1>3, <2>2, <2>3, <3>1 DEF Requested, Planar, req
  <2>4. CASE ~(req' = req /\ ~cpu_ready)
    <3>1. Quiet /\ req' \in {q \in scenario.requests : Sensible(q)}
      BY <2>1, <2>4 DEF Cpu, Released, req
    <3>2. world.latch # NoLatch
      BY <1>3, <2>2, <3>1 DEF Sensible, Planar, req
    <3>3. world'.latch = world.latch
      BY <2>2, <3>1, WorldStep DEF Stores, Quiet
    <3>4. QED
      BY <3>2, <3>3
  <2>5. QED
    BY <2>3, <2>4
<1>4. QED
  BY <1>1, <1>2, <1>3 DEF Requested, req, Planar

\* A read of the machine that is not being accepted is all that is unanswered.
LEMMA ServingStep ==
  ASSUME PathInv, Requested, Taken, History, Cpu, state \in Serving
  PROVE  /\ req' = NoRequest /\ mode' = mode /\ ~cpu_resp_valid
         /\ vga_accepted => expected' = Answers /\ cpu_ready /\ ~req.write /\ Valid("vga")
         /\ ~vga_accepted => expected' = expected /\ ~cpu_ready
<1>1. ~vga_dout_ready /\ mem.phase = "idle" /\ vga_busy
  BY DEF Taken, Serving, PathInv, MachineInv, vga_busy
<1>2. ~cpu_resp_valid /\ ~mem_ready
  BY <1>1 DEF cpu_resp_valid, mem_resp_valid, mem_ready
<1>3. CASE vga_accepted
  <2>1. cpu_ready /\ ~req.write /\ Valid("vga")
    BY <1>3 DEF cpu_ready, Taken, Serving, PathInv, MachineInv
  <2>2. QED
    BY <1>2, <1>3, <2>1, ReadReleased, ExpectedStep
<1>4. CASE ~vga_accepted
  <2>1. req = NoRequest /\ Len(expected) = 1 /\ ~cpu_ready
    BY <1>4, ReadyMeans DEF Taken
  <2>2. QED
    BY <1>2, <1>4, <2>1, StillWaiting, ExpectedStep
<1>5. QED
  BY <1>2, <1>3, <1>4

LEMMA TakenStep ==
  ASSUME PathInv, Requested, Taken, Machine, History, Cpu
  PROVE  Taken'
<1>1. state' \in Serving \cup {"IDLE", "FB_WRITE", "UNMAPPED_READ", "VGA_WRITE"}
  BY DEF Machine, NextState, Taken, Serving
<1>2. ASSUME TakesVga
      PROVE  /\ req' = req /\ mode' = mode /\ ~cpu_ready
             /\ state' = IF mode.fb THEN IF req.write THEN "FB_WRITE" ELSE "FB_READ"
                         ELSE IF req.write THEN "VGA_WRITE" ELSE "VGA_READ"
             /\ vga_accepted' /\ ~vga_dout_ready'
  <2>1. req # NoRequest /\ ~cpu_ready
    BY <1>2, AcceptedBy DEF TakesVga, Valid, NoRequest, vga_busy
  <2>2. req' = req /\ mode' = mode
    BY <2>1, RequestKept
  <2>3. state' = IF mode.fb THEN IF req.write THEN "FB_WRITE" ELSE "FB_READ"
                 ELSE IF req.write THEN "VGA_WRITE" ELSE "VGA_READ"
    BY <1>2 DEF Machine, NextState, TakesVga, TakesUnmapped, Valid
  <2>4. vga_accepted' /\ ~vga_dout_ready'
    <3>1. vga_accepted'
      BY <1>2 DEF Machine
    <3>2. ~NextDoutReady
      BY <1>2 DEF NextDoutReady, TakesVga
    <3>3. QED
      BY <3>1, <3>2 DEF Machine
  <2>5. QED
    BY <2>1, <2>2, <2>3, <2>4
<1>3. ASSUME ~TakesVga
      PROVE  ~vga_accepted'
  BY <1>3 DEF Machine
<1>4. ASSUME ~TakesVga, state' \in Serving
      PROVE  state \in Serving /\ ~vga_dout_ready' /\ (state' = "VGA_READ" <=> state = "VGA_READ")
  <2>1. state \in Serving /\ (state' = "VGA_READ" <=> state = "VGA_READ")
    BY <1>4 DEF Machine, NextState, TakesUnmapped, Taken, Serving
  <2>2. ~vga_dout_ready'
    BY <1>4, <2>1 DEF Machine, NextState, NextDoutReady, Serving
  <2>3. QED
    BY <2>1, <2>2
<1>5. ASSUME ~TakesVga, state' \in Serving
      PROVE  req' = NoRequest /\ Len(expected') = 1 /\ mode' = mode
  <2>1. state \in Serving
    BY <1>4, <1>5
  <2>2. req' = NoRequest /\ mode' = mode
    BY <2>1, ServingStep
  <2>3. CASE vga_accepted
    <3>1. expected' = Answers /\ Valid("vga")
      BY <2>1, <2>3, ServingStep
    <3>2. Len(Answers) = 1
      BY <3>1, OneAnswer
    <3>3. QED
      BY <2>2, <3>1, <3>2
  <2>4. CASE ~vga_accepted
    BY <2>1, <2>2, <2>4, ServingStep DEF Taken
  <2>5. QED
    BY <2>3, <2>4
<1>6. CASE TakesVga
  <2>1. vga_accepted' /\ ~vga_dout_ready' /\ mode' = mode /\ req' = req
    BY <1>2, <1>6
  <2>2. state' = IF mode'.fb THEN IF req'.write THEN "FB_WRITE" ELSE "FB_READ"
                 ELSE IF req'.write THEN "VGA_WRITE" ELSE "VGA_READ"
    BY <1>2, <1>6
  <2>3. state' \in Serving => (mode'.fb <=> state' # "VGA_READ")
    BY <2>2 DEF Serving
  <2>4. QED
    BY <1>1, <2>1, <2>2, <2>3 DEF Taken, Serving
<1>7. CASE ~TakesVga
  <2>1. state' \in Serving => (mode'.fb <=> state' # "VGA_READ")
    BY <1>4, <1>5, <1>7 DEF Taken
  <2>2. QED
    BY <1>1, <1>3, <1>4, <1>5, <1>7, <2>1 DEF Taken
<1>8. QED
  BY <1>6, <1>7

-----------------------------------------------------------------------------
\* What a request that is taken was, is and stays in the clock in which it is taken.
LEMMA TakenRequest ==
  ASSUME PathInv, Machine, History, Cpu, TakesVga
  PROVE  /\ state = "IDLE" /\ ~vga_accepted /\ ~cpu_ready /\ vga_accepted'
         /\ req' = req /\ mode' = mode /\ world' = world
<1>1. state = "IDLE" /\ ~vga_accepted /\ vga_accepted'
  BY DEF TakesVga, Machine, PathInv, MachineInv, vga_busy
<1>2. req # NoRequest /\ ~cpu_ready
  BY AcceptedBy DEF TakesVga, Valid, NoRequest, vga_busy
<1>3. req' = req /\ mode' = mode
  BY <1>2, RequestKept
<1>4. world' = world
  BY <1>2, <1>3 DEF History
<1>5. QED
  BY <1>1, <1>2, <1>3, <1>4

LEMMA RamHoldsStep ==
  ASSUME PathInv, Requested, Taken, Stores, RamHolds, Sdram, History, Cpu
  PROVE  RamHolds'
<1>1. world'.ram = IF mem_ready /\ req.write THEN RamWritten ELSE world.ram
  BY AcceptedRam
<1>2. ram' = IF mem_ready /\ req.write
             THEN [ram EXCEPT ![RamLoc(req.loc)] = Merge(@, Dword(req.data), req.be)] ELSE ram
  BY DEF Sdram
<1>3. QED
  BY <1>1, <1>2 DEF RamHolds, RamWritten

-----------------------------------------------------------------------------
LEMMA MinOne == ASSUME NEW i PROVE Min({i}) = i
BY DEF Min

LEMMA MinIsLane ==
  ASSUME NEW S \in (SUBSET Lanes) \ {{}}
  PROVE  Min(S) \in S /\ Min(S) \in Lanes /\ \A j \in S : Min(S) <= j
<1>1. \E i \in S : \A j \in S : i <= j
  BY DEF Lanes
<1>2. QED
  BY <1>1 DEF Min

LEMMA WindowIsEven ==
  ASSUME NEW b \in Nat, NEW l \in Nat
  PROVE  b * Window + l \in Nat /\ (b * Window + l) % 2 = l % 2
<1>1. PICK k \in Nat : Window = 2 * k
  BY SizesAssumption
<1>2. b * k \in Nat /\ b * Window = 2 * (b * k)
  BY <1>1
<1>3. QED
  BY <1>2

\* The place that a framebuffer access is given is the one that the request addresses.
LEMMA FbParts ==
  ASSUME NEW bank \in Nat, req \in RequestType, ~mode.chain4 => \E i \in Lanes : req.be = {i}
  PROVE  /\ FbIndex(bank) \in Nat /\ FbHalf \in 0..1
         /\ 2 * (FbIndex(bank) \div 2) + FbHalf = FbIndex(bank)
<1>1. req.loc \in Nat
  BY DEF RequestType
<1> DEFINE d == bank * Window + req.loc
<1>2. d \in Nat /\ d % 2 = req.loc % 2
  BY <1>1, WindowIsEven
<1>3. CASE mode.chain4
  <2>1. FbIndex(bank) = d /\ FbHalf = req.loc % 2
    BY <1>3 DEF FbIndex, FbHalf
  <2> HIDE DEF d
  <2>2. QED
    BY <1>1, <1>2, <2>1
<1>4. CASE ~mode.chain4
  <2>1. PICK i \in Lanes : req.be = {i}
    BY <1>4
  <2>2. FbIndex(bank) = 4 * d + i
    BY <1>4, <2>1, MinOne DEF FbIndex
  <2>3. FbHalf = IF i \in {1, 3} THEN 1 ELSE 0
    BY <1>4, <2>1 DEF FbHalf
  <2>4. i \in {0, 1, 2, 3}
    BY DEF Lanes
  <2> HIDE DEF d
  <2>5. QED
    BY <1>2, <2>2, <2>3, <2>4
<1>5. QED
  BY <1>3, <1>4

\* What a request for the VGA may be.
LEMMA VgaRequest ==
  ASSUME OneByte, PathInv, Requested, Valid("vga")
  PROVE  /\ req \in RequestType /\ mode \in ModeType
         /\ mode.fb /\ ~mode.chain4 => \E i \in Lanes : req.be = {i}
<1>1. req \in scenario.requests /\ mode \in scenario.modes /\ scenario \in Scenarios
  BY DEF Requested, Valid, NoRequest, PathInv, CpuInv
<1>2. req \in RequestType /\ mode \in ModeType
  BY <1>1, ScenariosAssumption
<1>3. QED
  BY <1>1, <1>2 DEF OneByte, Valid

LEMMA FbTaken ==
  ASSUME OneByte, PathInv, Requested, Taken, Stores, FbHolds, Latches,
         TakesVga, req.write, mode.fb, ~vga_accepted
  PROVE  /\ NextFb.addr = FbIndex(mode.wr_bank) \div 2 /\ NextFb.high = FbHalf
         /\ Written.fb = [ddr.store EXCEPT ![FbIndex(mode.wr_bank)] = Merge(@, NextFb.din, NextFb.be)]
<1>1. /\ state = "IDLE" /\ Valid("vga") /\ req \in RequestType /\ mode \in ModeType
      /\ mode.wr_bank \in Nat
      /\ ~mode.chain4 => \E i \in Lanes : req.be = {i}
  BY VgaRequest, SizesAssumption DEF TakesVga, ModeType
<1> DEFINE x == FbIndex(mode.wr_bank)
<1>2. x \in Nat
  BY <1>1, FbParts
<1>3. world.fb = ddr.store
  BY <1>1 DEF FbHolds, AcceptedFb, WriteAccepted
<1>4. /\ NextFb.addr = x \div 2 /\ NextFb.high = FbHalf
      /\ NextFb.be = IF mode.chain4 THEN req.be ELSE mode.mask
      /\ NextFb.din = IF mode.chain4 THEN Dword(req.data) ELSE PlanarBytes
  BY DEF NextFb
<1>5. CASE mode.chain4
  <2>1. Written.fb = PackedWritten
    BY <1>1, <1>5, WrittenIs DEF Stores
  <2>2. QED
    BY <1>3, <1>4, <1>5, <2>1 DEF PackedWritten
<1>6. CASE ~mode.chain4
  <2>1. Written.fb = PlanarWritten
    BY <1>1, <1>6, WrittenIs DEF Stores
  <2>2. PICK i \in Lanes : req.be = {i}
    BY <1>1, <1>6
  <2>3. x = Group(mode.wr_bank, i) /\ Groups = {x} /\ Min(req.be) = i
    BY <1>6, <2>2, MinOne DEF FbIndex, Group, Groups
  <2>4. x % 4 = i
    <3> DEFINE d == mode.wr_bank * Window + req.loc
    <3>1. d \in Nat /\ x = 4 * d + i
      BY <1>1, <2>3, WindowIsEven DEF Group, RequestType
    <3>2. i \in {0, 1, 2, 3}
      BY DEF Lanes
    <3> HIDE DEF d, x
    <3>3. QED
      BY <3>1, <3>2
  <2>5. mode.latched => vga_data = world.latch
    BY <1>1, <1>6 DEF Requested, Planar, Valid, Latches
  <2>6. (IF mode.latched THEN world.latch ELSE [j \in Lanes |-> Byte(req.data, x % 4)]) = PlanarBytes
    BY <2>3, <2>4, <2>5 DEF PlanarBytes
  <2>7. Put(x) = Merge(ddr.store[x], NextFb.din, NextFb.be)
    BY <1>3, <1>4, <1>6, <2>6 DEF Put
  <2>8. PlanarWritten = [g \in Fbs |-> IF g = x THEN Put(x) ELSE ddr.store[g]]
    BY <1>3, <2>3 DEF PlanarWritten
  <2> HIDE DEF x
  <2>9. PlanarWritten = [ddr.store EXCEPT ![x] = Merge(ddr.store[x], NextFb.din, NextFb.be)]
    BY <2>7, <2>8 DEF Stores
  <2>10. QED
    BY <1>4, <2>1, <2>9 DEF x
<1>7. QED
  BY <1>4, <1>5, <1>6

LEMMA FbHoldsStep ==
  ASSUME OneByte, PathInv, Requested, Taken, Stores, FbHolds, Latches, Machine, Ddr, History, Cpu
  PROVE  FbHolds'
<1>1. world'.fb = AcceptedFb
  BY AcceptedFbIs
<1>2. ddr'.store = IF TakesWrite
                   THEN [ddr.store EXCEPT ![2 * fb.addr + fb.high] = Merge(@, fb.din, fb.be)]
                   ELSE ddr.store
  BY DEF Ddr
<1>3. CASE TakesVga /\ req.write /\ mode.fb
  <2>1. state = "IDLE" /\ ~vga_accepted /\ vga_accepted' /\ req' = req /\ mode' = mode /\ world' = world
    BY <1>3, TakenRequest
  <2>2. state' = "FB_WRITE" /\ fb' = NextFb
    BY <1>3 DEF Machine, NextState, TakesVga, TakesUnmapped, Valid
  <2>3. ddr'.store = ddr.store
    BY <1>2, <2>1 DEF TakesWrite
  <2>4. /\ fb'.addr = FbIndex(mode.wr_bank) \div 2 /\ fb'.high = FbHalf
        /\ Written.fb = [ddr.store EXCEPT ![FbIndex(mode.wr_bank)] = Merge(@, fb'.din, fb'.be)]
    BY <1>3, <2>1, <2>2, FbTaken
  <2>5. 2 * fb'.addr + fb'.high = FbIndex(mode.wr_bank)
    <3>1. /\ req \in RequestType /\ mode \in ModeType
          /\ ~mode.chain4 => \E i \in Lanes : req.be = {i}
      BY <1>3, VgaRequest DEF TakesVga
    <3>2. mode.wr_bank \in Nat
      BY <3>1, SizesAssumption DEF ModeType
    <3>3. QED
      BY <2>4, <3>1, <3>2, FbParts
  <2>6. Written' = Written
    BY <2>1, Zenon DEF Written, Planar, Group, FbIndex, req
  <2>7. AcceptedFb' = Written.fb
    BY <1>3, <2>1, <2>6 DEF AcceptedFb, WriteAccepted
  <2>8. QED
    BY <2>2, <2>3, <2>4, <2>5, <2>7 DEF FbHolds
<1>4. ASSUME ~(TakesVga /\ req.write /\ mode.fb)
      PROVE  AcceptedFb' = world'.fb
  <2>1. ~(vga_accepted' /\ req'.write /\ mode'.fb)
    BY <1>4, TakenRequest DEF Machine
  <2>2. QED
    BY <2>1 DEF AcceptedFb, WriteAccepted, req
<1>5. CASE state = "FB_WRITE"
  <2>1. ~TakesVga /\ AcceptedFb' = AcceptedFb
    BY <1>1, <1>4, <1>5 DEF TakesVga
  <2>2. fb'.addr = fb.addr /\ fb'.high = fb.high /\ fb'.din = fb.din /\ fb'.be = fb.be
    BY <2>1 DEF Machine, NextFb, Stores
  <2>3. CASE ddr.busy
    <3>1. state' = state /\ ddr'.store = ddr.store
      BY <1>2, <1>5, <2>3 DEF Machine, NextState, TakesWrite
    <3>2. QED
      BY <1>5, <2>1, <2>2, <3>1 DEF FbHolds
  <2>4. CASE ~ddr.busy
    <3>1. state' = "IDLE" /\ TakesWrite
      BY <1>5, <2>4 DEF Machine, NextState, TakesWrite
    <3>2. QED
      BY <1>2, <1>5, <2>1, <3>1 DEF FbHolds
  <2>5. QED
    BY <2>3, <2>4
<1>6. CASE state # "FB_WRITE" /\ ~(TakesVga /\ req.write /\ mode.fb)
  <2>1. state' # "FB_WRITE"
    BY <1>6 DEF Machine, NextState, TakesUnmapped, Taken, Serving
  <2>2. ddr'.store = ddr.store
    BY <1>2, <1>6 DEF TakesWrite
  <2>3. QED
    BY <1>1, <1>4, <1>6, <2>1, <2>2 DEF FbHolds
<1>7. QED
  BY <1>3, <1>5, <1>6 DEF TakesVga

\* A byte at a time goes to the VGA memory.
LEMMA VgaStoreIs ==
  ASSUME Stores, VgaHolds, VgaMemory
  PROVE  /\ vga_mem'.store \in [Win -> [Lanes -> Bytes]]
         /\ ~vga.write => vga_mem'.store = vga_mem.store
         /\ \A l \in Win, i \in Lanes :
              vga_mem'.store[l][i] = IF vga.write /\ l = vga.loc /\ i = vga.lane THEN vga.writedata
                                     ELSE vga_mem.store[l][i]
<1>1. vga_mem.store \in [Win -> [Lanes -> Bytes]]
  BY DEF Stores
<1>2. CASE vga.write
  <2> DEFINE row == [vga_mem.store[vga.loc] EXCEPT ![vga.lane] = vga.writedata]
  <2>1. vga_mem'.store = [vga_mem.store EXCEPT ![vga.loc] = row]
    BY <1>2 DEF VgaMemory
  <2>2. vga.lane \in Lanes /\ vga.writedata \in Bytes
    BY <1>2 DEF VgaHolds
  <2>3. ASSUME vga.loc \in Win
        PROVE  /\ row \in [Lanes -> Bytes]
               /\ \A i \in Lanes : row[i] = IF i = vga.lane THEN vga.writedata
                                            ELSE vga_mem.store[vga.loc][i]
    <3>1. vga_mem.store[vga.loc] \in [Lanes -> Bytes]
      BY <1>1, <2>3
    <3>2. QED
      BY <2>2, <3>1
  <2> HIDE DEF row
  <2>4. vga_mem'.store \in [Win -> [Lanes -> Bytes]]
    BY <1>1, <2>1, <2>3
  <2>5. \A l \in Win, i \in Lanes :
          vga_mem'.store[l][i] = IF l = vga.loc /\ i = vga.lane THEN vga.writedata
                                 ELSE vga_mem.store[l][i]
    BY <1>1, <2>1, <2>3
  <2>6. QED
    BY <1>2, <2>4, <2>5
<1>3. CASE ~vga.write
  <2>1. vga_mem'.store = vga_mem.store
    BY <1>3 DEF VgaMemory
  <2>2. QED
    BY <1>1, <1>3, <2>1
<1>4. QED
  BY <1>2, <1>3

LEMMA StoresStep ==
  ASSUME PathInv, Requested, Taken, Stores, VgaHolds, Machine, VgaMemory, Ddr, History, Cpu
  PROVE  Stores'
<1>1. DOMAIN world' = WorldFields
  BY WorldStep DEF Stores
<1>2. DOMAIN vga' = VgaFields
  <2>1. CASE TakesVga /\ ~mode.fb
    <3>1. ~TakesUnmapped
      BY <2>1 DEF TakesVga, TakesUnmapped, Valid
    <3>2. vga' = [loc |-> req.loc, lane |-> Min(req.be), read |-> ~req.write, write |-> req.write,
                  writedata |-> Byte(req.data, Min(req.be)),
                  be |-> {i - Min(req.be) - 1 : i \in req.be \ {Min(req.be)}},
                  bcnt |-> Remaining(req.be)]
      BY <2>1, <3>1 DEF Machine, NextVga, TakesVga
    <3>3. QED
      BY <3>2 DEF VgaFields
  <2>2. CASE ~(TakesVga /\ ~mode.fb)
    <3>1. DOMAIN NextVga = DOMAIN vga
      BY <2>2 DEF NextVga
    <3>2. QED
      BY <3>1 DEF Stores, Machine
  <2>3. QED
    BY <2>1, <2>2
<1>3. DOMAIN fb' = {"addr", "high", "rd", "be", "din"}
  BY DEF Machine, NextFb, Stores
<1>4. DOMAIN ddr'.store = Fbs
  BY DEF Ddr, Stores
<1>5. world'.vga \in [Win -> [Lanes -> Bytes]]
  BY AcceptedVgaIs
<1>6. vga_mem'.store \in [Win -> [Lanes -> Bytes]]
  BY VgaStoreIs
<1>7. QED
  BY <1>1, <1>2, <1>3, <1>4, <1>5, <1>6 DEF Stores

-----------------------------------------------------------------------------
\* The registers of a VGA access, clock by clock.
LEMMA VgaTaken ==
  ASSUME Taken, Machine, TakesVga, ~mode.fb
  PROVE  /\ vga'.loc = req.loc /\ vga'.lane = Min(req.be) /\ vga'.bcnt = Remaining(req.be)
         /\ (vga'.read <=> ~req.write) /\ (vga'.write <=> req.write)
         /\ vga'.writedata = Byte(req.data, Min(req.be))
         /\ vga'.be = {i - Min(req.be) - 1 : i \in req.be \ {Min(req.be)}}
<1>1. ~TakesUnmapped
  BY DEF TakesVga, TakesUnmapped, Valid
<1>2. vga' = [loc |-> req.loc, lane |-> Min(req.be), read |-> ~req.write, write |-> req.write,
              writedata |-> Byte(req.data, Min(req.be)),
              be |-> {i - Min(req.be) - 1 : i \in req.be \ {Min(req.be)}},
              bcnt |-> Remaining(req.be)]
  BY <1>1 DEF Machine, NextVga, TakesVga
<1>3. QED
  BY <1>2

LEMMA VgaStays ==
  ASSUME Stores, Machine, ~TakesVga \/ mode.fb,
         state \notin {"VGA_READ", "VGA_WRITE"} \/ (state = "VGA_READ" /\ vga.read)
           \/ (state = "VGA_WRITE" /\ vga.write)
  PROVE  /\ vga'.loc = vga.loc /\ vga'.lane = vga.lane /\ vga'.be = vga.be
         /\ vga'.writedata = vga.writedata
         /\ state \in {"VGA_READ", "VGA_WRITE"} => ~vga'.read /\ ~vga'.write /\ vga'.bcnt = vga.bcnt
         /\ ~vga.write => ~vga'.write
<1>1. CASE TakesUnmapped
  <2>1. vga' = [vga EXCEPT !.bcnt = BurstCount(req.burst) % 8]
    BY <1>1 DEF Machine, NextVga, TakesVga, TakesUnmapped, Valid
  <2>2. QED
    BY <1>1, <2>1 DEF TakesUnmapped
<1>2. CASE state = "UNMAPPED_READ"
  <2>1. \E n : vga' = [vga EXCEPT !.bcnt = n]
    BY <1>2 DEF Machine, NextVga, TakesVga, TakesUnmapped, Valid
  <2>2. QED
    BY <1>2, <2>1
<1>3. CASE ~TakesUnmapped /\ state # "UNMAPPED_READ"
  <2>1. vga' = [vga EXCEPT !.read = FALSE, !.write = FALSE]
    BY <1>3 DEF Machine, NextVga, TakesVga, Valid
  <2>2. QED
    BY <1>3, <2>1 DEF Stores, VgaFields
<1>4. QED
  BY <1>1, <1>2, <1>3

LEMMA VgaShifts ==
  ASSUME Stores, Machine, (state = "VGA_READ" /\ ~vga.read) \/ (state = "VGA_WRITE" /\ ~vga.write)
  PROVE  /\ vga'.loc = vga.loc /\ vga'.lane = (vga.lane + 1) % 4 /\ vga'.be = Shift(vga.be)
         /\ state = "VGA_READ" => /\ vga'.read <=> 0 \in vga.be
                                  /\ vga'.write = vga.write /\ vga'.bcnt = (vga.bcnt - 1) % 8
         /\ state = "VGA_WRITE" => (vga'.write <=> 0 \in vga.be) /\ vga'.writedata = vga_data[0]
<1> DEFINE r == 0 \in vga.be
<1>0. r \in BOOLEAN
  OBVIOUS
<1>1. CASE state = "VGA_READ" /\ ~vga.read
  <2>1. vga' = [vga EXCEPT !.read = r, !.be = Shift(@), !.bcnt = (@ - 1) % 8, !.lane = (@ + 1) % 4]
    BY <1>1 DEF Machine, NextVga, TakesVga, TakesUnmapped, Valid
  <2> HIDE DEF r
  <2>2. /\ vga'.loc = vga.loc /\ vga'.lane = (vga.lane + 1) % 4 /\ vga'.be = Shift(vga.be)
        /\ vga'.read = r /\ vga'.write = vga.write /\ vga'.bcnt = (vga.bcnt - 1) % 8
    BY <1>0, <2>1 DEF Stores, VgaFields
  <2>3. QED
    BY <1>1, <2>2, Zenon DEF r
<1>2. CASE state = "VGA_WRITE" /\ ~vga.write
  <2>1. vga' = [vga EXCEPT !.write = r, !.be = Shift(@), !.lane = (@ + 1) % 4, !.writedata = vga_data[0]]
    BY <1>2 DEF Machine, NextVga, TakesVga, TakesUnmapped, Valid
  <2> HIDE DEF r
  <2>2. /\ vga'.loc = vga.loc /\ vga'.lane = (vga.lane + 1) % 4 /\ vga'.be = Shift(vga.be)
        /\ vga'.write = r /\ vga'.writedata = vga_data[0]
    BY <1>0, <2>1 DEF Stores, VgaFields
  <2>3. QED
    BY <1>2, <2>2, Zenon DEF r
<1>3. QED
  BY <1>1, <1>2

\* The three ways in which what is still to be written goes on.
LEMMA VgaWriteTaken ==
  ASSUME OneByte, PathInv, Requested, Taken, Stores, VgaHolds, Machine, VgaMemory, History, Cpu,
         TakesVga, req.write, ~mode.fb
  PROVE  VgaHolds'
<1>1. /\ state = "IDLE" /\ ~vga_accepted /\ ~vga.write
      /\ vga_accepted' /\ req' = req /\ mode' = mode /\ world' = world
  BY TakenRequest DEF VgaHolds
<1>2. state' = "VGA_WRITE"
  BY DEF Machine, NextState, TakesVga, TakesUnmapped, Valid
<1>3. req \in RequestType
  BY VgaRequest DEF TakesVga
<1>4. req.be \in (SUBSET Lanes) \ {{}} /\ req.data \in Nat
  BY <1>3 DEF RequestType
<1> DEFINE m == Min(req.be)
<1>5. m \in req.be /\ m \in Lanes /\ \A i \in req.be : m <= i /\ i \in Lanes
  BY <1>4, MinIsLane
<1>6. /\ vga'.loc = req.loc /\ vga'.lane = m /\ vga'.write /\ vga'.writedata = Byte(req.data, m)
      /\ vga'.be = {i - m - 1 : i \in req.be \ {m}}
  BY VgaTaken
<1>7. vga_data' = [i \in Lanes |-> IF i + m < 3 THEN Byte(req.data, i + m + 1) ELSE Zero[i]]
  <2>1. vga_data' = NextVgaData
    BY DEF Machine
  <2>2. /\ TakesVga /\ req.write /\ ~mode.fb
        /\ state # "VGA_WRITE" /\ state # "FB_READ_WAIT"
    BY <1>1
  <2>3. QED
    BY <2>1, <2>2 DEF NextVgaData
<1>8. vga_mem'.store = vga_mem.store
  BY <1>1, VgaStoreIs
<1>9. \A i \in Nat : Byte(req.data, i) \in Bytes
  BY <1>4 DEF Byte, Bytes
<1> HIDE DEF m
<1>10. vga'.be \subseteq {b \in 0..2 : b + vga'.lane <= 2}
  BY <1>5, <1>6 DEF Lanes
<1>11. vga'.writedata \in Bytes /\ vga_data' \in [Lanes -> Bytes]
  <2>1. \A i \in Lanes : Zero[i] \in Bytes
    BY DEF Zero, Bytes
  <2>2. \A i \in Lanes : i + m < 3 => i + m + 1 \in Nat
    BY <1>5 DEF Lanes
  <2>3. m \in Nat
    BY <1>5 DEF Lanes
  <2>4. QED
    BY <1>6, <1>7, <1>9, <2>1, <2>2, <2>3
<1>12. ASSUME NEW l \in Win, NEW i \in Lanes
       PROVE  AcceptedVga(l, i)' = PendingVga(l, i)'
  <2>1. world.vga[l][i] = vga_mem.store[l][i]
    BY <1>1 DEF VgaHolds, AcceptedVga, WriteAccepted, PendingVga
  <2>2. AcceptedVga(l, i)' = IF l = req.loc /\ i \in req.be THEN Byte(req.data, i)
                             ELSE vga_mem.store[l][i]
    BY <1>1, <2>1 DEF AcceptedVga, WriteAccepted
  <2>3. CASE l # req.loc
    BY <1>2, <1>6, <1>8, <2>2, <2>3 DEF PendingVga
  <2>4. CASE l = req.loc /\ i = m
    BY <1>2, <1>5, <1>6, <2>2, <2>4 DEF PendingVga
  <2>5. CASE l = req.loc /\ i < m
    <3>1. i \notin req.be /\ ~(i > m) /\ i # m
      BY <1>5, <2>5 DEF Lanes
    <3>2. QED
      BY <1>2, <1>6, <1>8, <2>2, <2>5, <3>1 DEF PendingVga
  <2>6. CASE l = req.loc /\ i > m
    <3>1. i - m - 1 \in vga'.be <=> i \in req.be
      BY <1>5, <1>6, <2>6 DEF Lanes
    <3>2. i - m - 1 \in Lanes /\ (i - m - 1) + m < 3 /\ (i - m - 1) + m + 1 = i
      BY <1>5, <2>6 DEF Lanes
    <3>3. vga_data'[i - m - 1] = Byte(req.data, i)
      BY <1>7, <3>2
    <3>4. StillToWrite(i)' = i - m - 1
      BY <1>6 DEF StillToWrite
    <3>5. PendingVga(l, i)' = IF i \in req.be THEN Byte(req.data, i) ELSE vga_mem.store[l][i]
      BY <1>2, <1>5, <1>6, <1>8, <2>6, <3>1, <3>3, <3>4 DEF PendingVga, Lanes
    <3>6. QED
      BY <2>2, <2>6, <3>5
  <2>7. QED
    BY <1>5, <2>3, <2>4, <2>5, <2>6 DEF Lanes
<1>13. vga'.lane \in Lanes
  BY <1>5, <1>6
<1>14. QED
  BY <1>2, <1>10, <1>11, <1>12, <1>13, Zenon DEF VgaHolds

LEMMA VgaWriteStored ==
  ASSUME PathInv, Requested, Taken, Stores, VgaHolds, Machine, VgaMemory, History, Cpu,
         state = "VGA_WRITE", vga.write
  PROVE  VgaHolds'
<1>1. /\ vga'.loc = vga.loc /\ vga'.lane = vga.lane /\ vga'.be = vga.be
      /\ vga'.writedata = vga.writedata /\ ~vga'.write
  BY VgaStays DEF TakesVga
<1>2. state' = "VGA_WRITE" /\ vga_data' = vga_data /\ ~vga_accepted'
  BY DEF Machine, NextState, NextVgaData, TakesVga, TakesUnmapped
<1>3. \A l \in Win, i \in Lanes :
        /\ world'.vga[l][i] = PendingVga(l, i)
        /\ vga_mem'.store[l][i] = IF l = vga.loc /\ i = vga.lane THEN vga.writedata
                                  ELSE vga_mem.store[l][i]
  BY AcceptedVgaIs, VgaStoreIs DEF VgaHolds
<1>4. ASSUME NEW l \in Win, NEW i \in Lanes
      PROVE  AcceptedVga(l, i)' = PendingVga(l, i)'
  <2>1. AcceptedVga(l, i)' = PendingVga(l, i)
    BY <1>2, <1>3 DEF AcceptedVga, WriteAccepted
  <2>2. StillToWrite(i)' = StillToWrite(i)
    BY <1>1 DEF StillToWrite
  <2>3. vga.lane \in Lanes
    BY DEF VgaHolds
  <2>4. PendingVga(l, i)' = PendingVga(l, i)
    <3>1. CASE l # vga.loc
      BY <1>1, <1>2, <1>3, <3>1 DEF PendingVga
    <3>2. CASE l = vga.loc /\ i = vga.lane
      BY <1>1, <1>2, <1>3, <2>3, <3>2 DEF PendingVga, Lanes
    <3>3. CASE l = vga.loc /\ i # vga.lane
      BY <1>1, <1>2, <1>3, <2>2, <3>3 DEF PendingVga
    <3>4. QED
      BY <3>1, <3>2, <3>3
  <2>5. QED
    BY <2>1, <2>4
<1>5. QED
  BY <1>1, <1>2, <1>4 DEF VgaHolds

LEMMA VgaWriteShifts ==
  ASSUME PathInv, Requested, Taken, Stores, VgaHolds, Machine, VgaMemory, History, Cpu,
         state = "VGA_WRITE", ~vga.write
  PROVE  VgaHolds'
<1>1. /\ vga'.loc = vga.loc /\ vga'.lane = (vga.lane + 1) % 4 /\ vga'.be = Shift(vga.be)
      /\ (vga'.write <=> 0 \in vga.be) /\ vga'.writedata = vga_data[0]
  BY VgaShifts
<1>2. /\ state' = IF vga.be = {} THEN "IDLE" ELSE "VGA_WRITE"
      /\ vga_data' = ShiftIn(vga_data, Zero[3]) /\ ~vga_accepted'
  BY DEF Machine, NextState, NextVgaData, TakesVga, TakesUnmapped, LastByte
<1>3. /\ \A l \in Win, i \in Lanes : world'.vga[l][i] = PendingVga(l, i)
      /\ vga_mem'.store = vga_mem.store
  BY AcceptedVgaIs, VgaStoreIs DEF VgaHolds
<1>4. /\ vga.lane \in Lanes /\ vga.be \subseteq {b \in 0..2 : b + vga.lane <= 2}
      /\ vga_data \in [Lanes -> Bytes]
  BY DEF VgaHolds
<1>5. \A l \in Win, i \in Lanes : AcceptedVga(l, i)' = PendingVga(l, i)
  BY <1>2, <1>3 DEF AcceptedVga, WriteAccepted
<1>6. CASE vga.be = {}
  <2>1. state' = "IDLE" /\ ~vga'.write
    BY <1>1, <1>2, <1>6
  <2>2. ASSUME NEW l \in Win, NEW i \in Lanes
        PROVE  PendingVga(l, i)' = PendingVga(l, i)
    BY <1>3, <1>6, <2>1 DEF PendingVga
  <2>3. QED
    BY <1>5, <2>1, <2>2 DEF VgaHolds
<1>7. CASE vga.be # {}
  <2>1. state' = "VGA_WRITE" /\ vga.lane \in 0..2 /\ vga'.lane = vga.lane + 1
    <3>1. PICK b \in vga.be : TRUE
      BY <1>7
    <3>2. b \in 0..2 /\ b + vga.lane <= 2
      BY <1>4
    <3>3. QED
      BY <1>1, <1>2, <1>4, <1>7, <3>2 DEF Lanes
  <2>2. vga'.lane \in Lanes /\ vga'.be \subseteq {b \in 0..2 : b + vga'.lane <= 2}
    BY <1>1, <1>4, <2>1 DEF Lanes, Shift
  <2>3. vga'.writedata \in Bytes /\ vga_data' \in [Lanes -> Bytes]
    <3>1. Zero[3] \in Bytes
      BY DEF Zero, Bytes, Lanes
    <3>2. QED
      BY <1>1, <1>2, <1>4, <3>1 DEF ShiftIn, Lanes
  <2>4. ASSUME NEW l \in Win, NEW i \in Lanes
        PROVE  PendingVga(l, i)' = PendingVga(l, i)
    <3>1. CASE l # vga.loc
      BY <1>1, <1>3, <3>1 DEF PendingVga
    <3>2. CASE l = vga.loc /\ i <= vga.lane
      BY <1>1, <1>3, <2>1, <3>2 DEF PendingVga, Lanes
    <3>3. CASE l = vga.loc /\ i = vga.lane + 1
      <4>1. StillToWrite(i) = 0 /\ i > vga.lane /\ i = vga'.lane /\ ~(i > vga'.lane)
        <5>1. i - vga.lane - 1 = 0 /\ i > vga.lane /\ i = vga'.lane /\ ~(i > vga'.lane)
          <6>1. PICK n \in 0..2 : n = vga.lane
            BY <2>1
          <6>2. vga'.lane = n + 1 /\ i = n + 1
            BY <2>1, <3>3, <6>1
          <6>3. n + 1 - n - 1 = 0 /\ n + 1 > n /\ ~(n + 1 > n + 1)
            OBVIOUS
          <6>4. QED
            BY <6>1, <6>2, <6>3
        <5>2. QED
          BY <5>1 DEF StillToWrite
      <4>2. PendingVga(l, i) = IF 0 \in vga.be THEN vga_data[0] ELSE vga_mem.store[l][i]
        BY <2>1, <3>3, <4>1 DEF PendingVga
      <4>3. PendingVga(l, i)' = IF 0 \in vga.be THEN vga_data[0] ELSE vga_mem.store[l][i]
        BY <1>1, <1>3, <2>1, <3>3, <4>1 DEF PendingVga
      <4>4. QED
        BY <4>2, <4>3
    <3>4. CASE l = vga.loc /\ i > vga.lane + 1
      <4> DEFINE j == i - vga.lane - 1
      <4>1. /\ i > vga.lane /\ i # vga.lane /\ i > vga'.lane /\ i # vga'.lane
            /\ StillToWrite(i) = j /\ StillToWrite(i)' = j - 1 /\ j - 1 \in 0..2 /\ j # 0 /\ j \in Nat
        <5>1. /\ i > vga.lane /\ i # vga.lane /\ i > vga'.lane /\ i # vga'.lane
              /\ j - 1 \in 0..2 /\ j # 0 /\ j \in Nat /\ i - vga'.lane - 1 = j - 1
          <6>1. PICK n \in 0..2 : n = vga.lane
            BY <2>1
          <6>2. vga'.lane = n + 1 /\ i > n + 1
            BY <2>1, <3>4, <6>1
          <6>3. /\ i > n /\ i # n /\ i # n + 1 /\ i - n - 1 - 1 \in 0..2 /\ i - n - 1 # 0
                /\ i - n - 1 \in Nat /\ i - (n + 1) - 1 = i - n - 1 - 1
            BY <6>2 DEF Lanes
          <6>4. QED
            BY <6>1, <6>2, <6>3
        <5>2. QED
          BY <5>1 DEF StillToWrite
      <4> HIDE DEF j
      <4>2. j - 1 \in vga'.be <=> j \in vga.be
        BY <1>1, <1>4, <4>1 DEF Shift
      <4>3. vga_data'[j - 1] = vga_data[j]
        BY <1>2, <4>1 DEF ShiftIn, Lanes
      <4>4. PendingVga(l, i) = IF j \in vga.be THEN vga_data[j] ELSE vga_mem.store[l][i]
        BY <3>4, <4>1 DEF PendingVga
      <4>5. PendingVga(l, i)' = IF j - 1 \in vga'.be THEN vga_data'[j - 1] ELSE vga_mem.store[l][i]
        BY <1>1, <1>3, <2>1, <3>4, <4>1 DEF PendingVga
      <4>6. QED
        BY <4>2, <4>3, <4>4, <4>5
    <3>5. QED
      BY <2>1, <3>1, <3>2, <3>3, <3>4 DEF Lanes
  <2>5. QED
    BY <1>5, <2>1, <2>2, <2>3, <2>4 DEF VgaHolds
<1>8. QED
  BY <1>6, <1>7

LEMMA VgaHoldsStep ==
  ASSUME OneByte, PathInv, Requested, Taken, Stores, VgaHolds, Machine, VgaMemory, History, Cpu
  PROVE  VgaHolds'
<1>1. CASE TakesVga /\ req.write /\ ~mode.fb
  BY <1>1, VgaWriteTaken
<1>2. CASE state = "VGA_WRITE"
  BY <1>2, VgaWriteStored, VgaWriteShifts
<1>3. CASE state # "VGA_WRITE" /\ ~(TakesVga /\ req.write /\ ~mode.fb)
  <2>1. state' # "VGA_WRITE" /\ ~vga.write
    BY <1>3 DEF Machine, NextState, TakesUnmapped, Taken, Serving, VgaHolds
  <2>2. ~vga'.write
    <3>1. CASE TakesVga /\ ~mode.fb
      BY <1>3, <3>1, VgaTaken
    <3>2. CASE state = "VGA_READ" /\ ~vga.read
      BY <2>1, <3>2, VgaShifts
    <3>3. CASE ~(TakesVga /\ ~mode.fb) /\ ~(state = "VGA_READ" /\ ~vga.read)
      BY <1>3, <2>1, <3>3, VgaStays
    <3>4. QED
      BY <3>1, <3>2, <3>3
  <2>3. vga_mem'.store = vga_mem.store
    BY <2>1, VgaStoreIs
  <2>4. ~(vga_accepted' /\ req'.write /\ ~mode'.fb)
    BY <1>3, TakenRequest DEF Machine
  <2>5. ASSUME NEW l \in Win, NEW i \in Lanes
        PROVE  AcceptedVga(l, i)' = PendingVga(l, i)'
    <3>1. world'.vga[l][i] = AcceptedVga(l, i) /\ AcceptedVga(l, i) = vga_mem.store[l][i]
      BY <1>3, AcceptedVgaIs DEF VgaHolds, PendingVga
    <3>2. AcceptedVga(l, i)' = world'.vga[l][i]
      BY <2>4 DEF AcceptedVga, WriteAccepted, req
    <3>3. QED
      BY <2>1, <2>3, <3>1, <3>2 DEF PendingVga
  <2>6. QED
    BY <2>1, <2>2, <2>5 DEF VgaHolds
<1>4. QED
  BY <1>1, <1>2, <1>3 DEF TakesVga

-----------------------------------------------------------------------------
\* Unless a write to it is under way, the VGA memory is the world's.
LEMMA VgaMemoryIs ==
  ASSUME Stores, VgaHolds, ~WriteAccepted, state # "VGA_WRITE"
  PROVE  world.vga = vga_mem.store
<1>1. world.vga \in [Win -> [Lanes -> Bytes]] /\ vga_mem.store \in [Win -> [Lanes -> Bytes]]
  BY DEF Stores
<1>2. \A l \in Win, i \in Lanes : world.vga[l][i] = vga_mem.store[l][i]
  BY DEF VgaHolds, AcceptedVga, PendingVga
<1>3. \A l \in Win : world.vga[l] = vga_mem.store[l]
  BY <1>1, <1>2
<1>4. QED
  BY <1>1, <1>3

\* The bytes a read of the VGA memory is for, before and after its being accepted.
LEMMA VgaPromise ==
  ASSUME PathInv, Requested, Taken, Stores, VgaHolds, VgaReads, Machine, VgaMemory, History, Cpu,
         state = "VGA_READ"
  PROVE  /\ expected'[1] = [i \in ReadBytes |-> vga_mem.store[vga.loc][i]]
         /\ DOMAIN expected'[1] = ReadBytes
         /\ ~vga_accepted' /\ vga_mem'.store = vga_mem.store
<1>1. ~vga_accepted'
  <2>1. ~TakesVga
    BY DEF TakesVga
  <2>2. QED
    BY <2>1 DEF Machine
<1>2. vga_mem'.store = vga_mem.store
  BY VgaStoreIs DEF VgaHolds
<1>3. expected'[1] = [i \in ReadBytes |-> vga_mem.store[vga.loc][i]]
  <2>1. CASE vga_accepted
    <3>1. expected' = Answers /\ ~req.write /\ Valid("vga") /\ ~mode.fb
      BY <2>1, ServingStep DEF Serving, Taken
    <3>2. Answers = <<[i \in req.be |-> world.vga[req.loc][i]]>>
      BY <3>1, Zenon DEF Answers, Valid, Planar
    <3>3. world.vga = vga_mem.store
      BY <3>1, VgaMemoryIs DEF WriteAccepted
    <3>4. vga.loc = req.loc /\ ReadBytes = req.be
      BY <2>1 DEF VgaReads, ReadBytes
    <3>5. expected'[1] = [i \in req.be |-> world.vga[req.loc][i]]
      BY <3>1, <3>2
    <3>6. QED
      BY <3>3, <3>4, <3>5
  <2>2. CASE ~vga_accepted
    <3>1. expected' = expected
      BY <2>2, ServingStep DEF Serving
    <3>2. QED
      BY <2>2, <3>1 DEF VgaReads
  <2>3. QED
    BY <2>1, <2>2
<1>4. QED
  BY <1>1, <1>2, <1>3

LEMMA VgaReadTaken ==
  ASSUME OneByte, PathInv, Requested, Taken, Stores, Machine, History, Cpu,
         TakesVga, ~req.write, ~mode.fb
  PROVE  VgaReads'
<1>1. vga_accepted' /\ req' = req
  BY TakenRequest
<1>2. req.be \in (SUBSET Lanes) \ {{}}
  BY VgaRequest DEF TakesVga, RequestType
<1> DEFINE m == Min(req.be)
<1>3. m \in req.be /\ m \in Lanes /\ \A i \in req.be : m <= i /\ i \in Lanes
  BY <1>2, MinIsLane
<1>4. /\ vga'.loc = req.loc /\ vga'.lane = m /\ vga'.bcnt = 3 - m /\ vga'.read
      /\ vga'.be = {i - m - 1 : i \in req.be \ {m}}
  BY VgaTaken DEF Remaining
<1>5. ReadBytes' = req.be
  BY <1>1 DEF ReadBytes
<1> HIDE DEF m
<1>6. \A i \in req.be : ~(i < m)
  BY <1>3 DEF Lanes
<1>7. vga'.be \subseteq 0..2
  BY <1>3, <1>4 DEF Lanes
<1>8. \A b \in 0..2 : b \in vga'.be <=> b + m + 1 \in req.be
  BY <1>3, <1>4 DEF Lanes
<1>9. QED
  BY <1>1, <1>2, <1>3, <1>4, <1>5, <1>6, <1>7, <1>8 DEF VgaReads

LEMMA VgaReadStrobed ==
  ASSUME PathInv, Requested, Taken, Stores, VgaHolds, VgaReads, Machine, VgaMemory, History, Cpu,
         state = "VGA_READ", vga.read
  PROVE  VgaReads'
<1>1. /\ expected'[1] = [i \in ReadBytes |-> vga_mem.store[vga.loc][i]]
      /\ DOMAIN expected'[1] = ReadBytes /\ ~vga_accepted' /\ vga_mem'.store = vga_mem.store
  BY VgaPromise
<1>2. ReadBytes' = ReadBytes
  BY <1>1 DEF ReadBytes
<1>3. vga'.loc = vga.loc /\ vga'.lane = vga.lane /\ vga'.be = vga.be /\ vga'.bcnt = vga.bcnt
  BY VgaStays DEF TakesVga
<1>4. vga_dout' = vga_dout
  BY DEF Machine, NextDout
<1>5. vga_mem'.readdata = vga_mem.store[vga.loc][vga.lane]
  BY DEF VgaMemory
<1>6. QED
  BY <1>1, <1>2, <1>3, <1>4, <1>5 DEF VgaReads

\* A byte is shifted in; after the last one they are all in their lanes.
LEMMA VgaReadShifts ==
  ASSUME PathInv, Requested, Taken, Stores, VgaHolds, VgaReads, Machine, VgaMemory, History, Cpu,
         state = "VGA_READ", ~vga.read
  PROVE  /\ VgaReads'
         /\ vga_dout_ready' => \A i \in DOMAIN expected'[1] : vga_dout'[i] = expected'[1][i]
<1>1. /\ expected'[1] = [i \in ReadBytes |-> vga_mem.store[vga.loc][i]]
      /\ DOMAIN expected'[1] = ReadBytes /\ ~vga_accepted' /\ vga_mem'.store = vga_mem.store
  BY VgaPromise
<1>2. ReadBytes' = ReadBytes
  BY <1>1 DEF ReadBytes
<1>3. /\ vga'.loc = vga.loc /\ vga'.lane = (vga.lane + 1) % 4 /\ vga'.be = Shift(vga.be)
      /\ (vga'.read <=> 0 \in vga.be) /\ vga'.bcnt = (vga.bcnt - 1) % 8
  <2>1. (state = "VGA_READ" /\ ~vga.read) \/ (state = "VGA_WRITE" /\ ~vga.write)
    OBVIOUS
  <2>2. /\ vga'.loc = vga.loc /\ vga'.lane = (vga.lane + 1) % 4 /\ vga'.be = Shift(vga.be)
        /\ state = "VGA_READ" => /\ vga'.read <=> 0 \in vga.be
                                 /\ vga'.write = vga.write /\ vga'.bcnt = (vga.bcnt - 1) % 8
    BY <2>1, VgaShifts, Zenon
  <2>3. QED
    BY <2>2, Zenon
<1>4. /\ vga.lane \in Lanes /\ vga.bcnt = 3 - vga.lane /\ ReadBytes \subseteq Lanes
      /\ vga.be \subseteq 0..2
      /\ \A b \in 0..2 : b \in vga.be <=> b + vga.lane + 1 \in ReadBytes
      /\ vga.lane \in ReadBytes => vga_mem.readdata = vga_mem.store[vga.loc][vga.lane]
      /\ \A i \in ReadBytes : i < vga.lane => vga_dout[i + 4 - vga.lane] = vga_mem.store[vga.loc][i]
  BY DEF VgaReads
<1>5. vga_dout' = ShiftIn(vga_dout, vga_mem.readdata)
  BY DEF Machine, NextDout
<1>6. \A i \in Lanes : vga_dout'[i] = IF i = 3 THEN vga_mem.readdata ELSE vga_dout[i + 1]
  BY <1>5 DEF ShiftIn
<1>7. PICK n \in Lanes : n = vga.lane
  BY <1>4
<1>8. CASE n = 3
  <2>1. state' = "IDLE"
    BY <1>4, <1>7, <1>8 DEF Machine, NextState, TakesVga, TakesUnmapped
  <2>2. ASSUME NEW i \in ReadBytes
        PROVE  vga_dout'[i] = vga_mem.store[vga.loc][i]
    <3>1. i \in Lanes
      BY <1>4
    <3>2. CASE i = 3
      BY <1>4, <1>6, <1>7, <1>8, <3>1, <3>2
    <3>3. CASE i # 3
      <4>1. i < 3 /\ i + 4 - 3 = i + 1
        BY <3>1, <3>3 DEF Lanes
      <4>2. vga_dout[i + 1] = vga_mem.store[vga.loc][i]
        BY <1>4, <1>7, <1>8, <4>1
      <4>3. QED
        BY <1>6, <3>1, <3>3, <4>2
    <3>4. QED
      BY <3>2, <3>3
  <2>3. QED
    BY <1>1, <2>1, <2>2 DEF VgaReads
<1>9. CASE n # 3
  <2>1. n \in 0..2 /\ (n + 1) % 4 = n + 1 /\ 3 - n # 0 /\ (3 - n - 1) % 8 = 3 - (n + 1)
    BY <1>7, <1>9 DEF Lanes
  <2>2. vga'.lane = n + 1 /\ vga'.bcnt = 3 - (n + 1) /\ n + 1 \in Lanes
    BY <1>3, <1>4, <1>7, <2>1 DEF Lanes
  <2>3. ~vga_dout_ready'
    <3>1. ~NextDoutReady
      BY <1>4, <1>7, <2>1 DEF NextDoutReady
    <3>2. QED
      BY <3>1 DEF Machine
  <2>4. ASSUME NEW i \in ReadBytes, i < n + 1
        PROVE  vga_dout'[i + 4 - (n + 1)] = vga_mem.store[vga.loc][i]
    <3>1. i \in Lanes
      BY <1>4
    <3>2. CASE i = n
      <4>1. i + 4 - (n + 1) = 3 /\ 3 \in Lanes
        BY <3>2, <2>1 DEF Lanes
      <4>2. vga_dout'[3] = vga_mem.readdata
        BY <1>6, <4>1
      <4>3. QED
        BY <1>4, <1>7, <3>2, <4>1, <4>2
    <3>3. CASE i # n
      <4>1. /\ i < n /\ i + 4 - (n + 1) \in Lanes /\ i + 4 - (n + 1) # 3
            /\ (i + 4 - (n + 1)) + 1 = i + 4 - n
        BY <2>1, <2>4, <3>1, <3>3 DEF Lanes
      <4>2. vga_dout'[i + 4 - (n + 1)] = vga_dout[i + 4 - n]
        BY <1>6, <4>1
      <4>3. QED
        BY <1>4, <1>7, <4>1, <4>2
    <3>4. QED
      BY <3>2, <3>3
  <2>5. vga'.be \subseteq 0..2
    BY <1>3, <1>4 DEF Shift
  <2>6. ASSUME NEW b \in 0..2
        PROVE  b \in vga'.be <=> b + (n + 1) + 1 \in ReadBytes
    <3>1. b \in vga'.be <=> b + 1 \in vga.be
      BY <1>3, <1>4 DEF Shift
    <3>2. CASE b = 2
      <4>1. b + 1 \notin 0..2 /\ b + (n + 1) + 1 \notin Lanes
        BY <2>1, <3>2 DEF Lanes
      <4>2. QED
        BY <1>4, <3>1, <4>1
    <3>3. CASE b # 2
      <4>1. b + 1 \in 0..2 /\ (b + 1) + n + 1 = b + (n + 1) + 1
        BY <2>1, <3>3
      <4>2. QED
        BY <1>4, <1>7, <3>1, <4>1
    <3>4. QED
      BY <3>2, <3>3
  <2>7. n + 1 \in ReadBytes => vga'.read
    <3>1. 0 \in 0..2 /\ 0 + n + 1 = n + 1
      BY <2>1
    <3>2. QED
      BY <1>3, <1>4, <1>7, <3>1
  <2>8. VgaReads'
    BY <1>1, <1>2, <1>3, <1>4, <2>2, <2>4, <2>5, <2>6, <2>7 DEF VgaReads
  <2>9. QED
    BY <2>3, <2>8
<1>10. QED
  BY <1>8, <1>9

LEMMA VgaReadsStep ==
  ASSUME OneByte, PathInv, Requested, Taken, Stores, VgaHolds, VgaReads, Machine, VgaMemory,
         History, Cpu
  PROVE  VgaReads'
<1>1. CASE TakesVga /\ ~req.write /\ ~mode.fb
  BY <1>1, VgaReadTaken
<1>2. CASE state = "VGA_READ"
  BY <1>2, VgaReadStrobed, VgaReadShifts
<1>3. CASE state # "VGA_READ" /\ ~(TakesVga /\ ~req.write /\ ~mode.fb)
  <2>1. state' # "VGA_READ"
    BY <1>3 DEF Machine, NextState, TakesUnmapped, Taken, Serving
  <2>2. QED
    BY <2>1 DEF VgaReads
<1>4. QED
  BY <1>1, <1>2, <1>3

-----------------------------------------------------------------------------
\* Unless a write to it is under way, the framebuffer is the world's.
LEMMA FbMemoryIs ==
  ASSUME FbHolds, ~WriteAccepted, state # "FB_WRITE"
  PROVE  world.fb = ddr.store
BY DEF FbHolds, AcceptedFb

\* Until it is answered, a framebuffer read keeps its word and what was promised for it.
LEMMA FbPromise ==
  ASSUME OneByte, PathInv, Requested, Taken, Stores, FbHolds, FbReads, Machine, Ddr, History, Cpu,
         state \in {"FB_READ", "FB_READ_WAIT"}
  PROVE  /\ ~vga_accepted' /\ req' = NoRequest /\ mode' = mode /\ ddr'.store = ddr.store
         /\ fb'.addr = fb.addr /\ fb'.high = fb.high
         /\ IF mode.chain4 THEN expected'[1] = ddr.store[FbWord]
            ELSE /\ DOMAIN expected'[1] \subseteq Lanes
                 /\ \A i \in DOMAIN expected'[1] : expected'[1][i] = ddr.store[FbWord][mode.plane]
         /\ vga_accepted /\ ~mode.chain4 =>
              Planar /\ world.fb[Group(mode.rd_bank, Min(req.be))] = ddr.store[FbWord]
<1>1. ~TakesVga
  BY DEF TakesVga
<1>2. ~vga_accepted' /\ ddr'.store = ddr.store
  BY <1>1 DEF Machine, Ddr, TakesWrite
<1>3. fb'.addr = fb.addr /\ fb'.high = fb.high
  BY <1>1 DEF Machine, NextFb, Stores
<1>4. req' = NoRequest /\ mode' = mode /\ mode.fb
  BY ServingStep DEF Serving, Taken
<1>5. CASE vga_accepted
  <2>1. expected' = Answers /\ ~req.write /\ Valid("vga")
    BY <1>5, ServingStep DEF Serving
  <2>2. world.fb = ddr.store
    BY <2>1, FbMemoryIs DEF WriteAccepted
  <2>3. FbWord = FbIndex(mode.rd_bank)
    BY <1>5 DEF FbReads
  <2>4. CASE mode.chain4
    <3>1. Answers = <<world.fb[FbIndex(mode.rd_bank)]>>
      BY <1>4, <2>1, <2>4 DEF Answers, Valid, Planar
    <3>2. QED
      BY <1>2, <1>3, <1>4, <2>1, <2>2, <2>3, <2>4, <3>1
  <2>5. CASE ~mode.chain4
    <3>1. PICK i \in Lanes : req.be = {i}
      BY <1>4, <2>1, <2>5, VgaRequest
    <3>2. Min(req.be) = i /\ Group(mode.rd_bank, i) = FbIndex(mode.rd_bank) /\ Planar
      BY <1>4, <2>1, <2>5, <3>1, MinOne DEF FbIndex, Group, Planar, Valid
    <3>3. Answers = <<[j \in req.be |-> world.fb[Group(mode.rd_bank, j)][mode.plane]]>>
      BY <1>4, <2>1, <3>2, Zenon DEF Answers, Valid, Planar
    <3>4. expected'[1] = [j \in {i} |-> ddr.store[Group(mode.rd_bank, j)][mode.plane]]
      BY <2>1, <2>2, <3>1, <3>3
    <3>5. DOMAIN expected'[1] = {i} /\ expected'[1][i] = ddr.store[FbWord][mode.plane]
      BY <2>3, <3>2, <3>4
    <3>6. world.fb[Group(mode.rd_bank, Min(req.be))] = ddr.store[FbWord]
      BY <2>2, <2>3, <3>2
    <3>7. QED
      BY <1>2, <1>3, <1>4, <2>5, <3>2, <3>5, <3>6
  <2>6. QED
    BY <2>4, <2>5
<1>6. CASE ~vga_accepted
  <2>1. expected' = expected
    BY <1>6, ServingStep DEF Serving
  <2>2. QED
    BY <1>2, <1>3, <1>4, <1>6, <2>1 DEF FbReads
<1>7. QED
  BY <1>5, <1>6

LEMMA FbReadTaken ==
  ASSUME OneByte, PathInv, Requested, Taken, Machine, History, Cpu, TakesVga, mode.fb
  PROVE  /\ fb'.high \in 0..1 /\ ~fb'.rd
         /\ ~req.write => 2 * fb'.addr + fb'.high = FbIndex(mode.rd_bank)
<1>1. /\ req \in RequestType /\ mode \in ModeType
      /\ ~mode.chain4 => \E i \in Lanes : req.be = {i}
  BY VgaRequest DEF TakesVga
<1>2. mode.rd_bank \in Nat
  BY <1>1, SizesAssumption DEF ModeType
<1>3. fb' = NextFb
  BY DEF Machine
<1>4. /\ NextFb.high = FbHalf /\ NextFb.rd = FALSE
      /\ ~req.write => NextFb.addr = FbIndex(mode.rd_bank) \div 2
  BY DEF NextFb
<1>5. QED
  BY <1>1, <1>2, <1>3, <1>4, FbParts

LEMMA FbReadsStep ==
  ASSUME OneByte, PathInv, Requested, Taken, Stores, FbHolds, FbReads, Machine, Ddr, History, Cpu
  PROVE  FbReads'
<1>1. CASE TakesVga /\ mode.fb
  <2>1. state = "IDLE" /\ vga_accepted' /\ req' = req /\ mode' = mode
    BY <1>1, TakenRequest
  <2>2. /\ fb'.high \in 0..1 /\ ~fb'.rd
        /\ ~req.write => 2 * fb'.addr + fb'.high = FbIndex(mode.rd_bank)
    BY <1>1, FbReadTaken
  <2>3. ddr'.phase = "idle"
    BY <2>1 DEF Ddr, TakesRead, FbReads
  <2>4. req.write => state' = "FB_WRITE"
    BY <1>1 DEF Machine, NextState, TakesVga, TakesUnmapped, Valid
  <2>5. FbIndex(mode.rd_bank)' = FbIndex(mode.rd_bank)
    BY <2>1 DEF FbIndex, req
  <2>6. QED
    BY <2>1, <2>2, <2>3, <2>4, <2>5, Zenon DEF FbReads, FbWord
<1>2. CASE ~(TakesVga /\ mode.fb)
  <2>1. /\ fb'.addr = fb.addr /\ fb'.high = fb.high
        /\ fb'.rd <=> state = "FB_READ" /\ ~ddr.busy
    <3> DEFINE r == state = "FB_READ" /\ ~ddr.busy
    <3>1. fb' = [fb EXCEPT !.rd = r]
      BY <1>2 DEF Machine, NextFb
    <3>2. r \in BOOLEAN
      OBVIOUS
    <3> HIDE DEF r
    <3>3. fb'.addr = fb.addr /\ fb'.high = fb.high /\ fb'.rd = r
      BY <3>1, <3>2 DEF Stores
    <3>4. QED
      BY <3>3, Zenon DEF r
  <2>2. fb'.rd => state' = "FB_READ_WAIT" /\ ddr'.phase = "idle"
    <3>1. ASSUME state = "FB_READ", ~ddr.busy
          PROVE  state' = "FB_READ_WAIT" /\ ddr'.phase = "idle"
      BY <3>1 DEF Machine, NextState, TakesVga, TakesUnmapped, Ddr, TakesRead, FbReads
    <3>2. QED
      BY <2>1, <3>1
  <2>3. ASSUME ddr'.phase # "idle"
        PROVE  /\ state = "FB_READ_WAIT" /\ state' = "FB_READ_WAIT"
               /\ \A h \in 0..1 : ddr'.dout[h] = ddr.store[2 * fb.addr + h]
    <3>1. TakesRead \/ ddr.phase = "reading"
      BY <2>3 DEF Ddr
    <3>2. state = "FB_READ_WAIT" /\ ddr.phase # "answer"
      BY <3>1 DEF TakesRead, FbReads
    <3>3. state' = "FB_READ_WAIT"
      BY <3>2 DEF Machine, NextState, TakesVga, TakesUnmapped
    <3>4. CASE TakesRead
      <4>1. ddr'.dout = [h \in 0..1 |-> ddr.store[2 * fb.addr + h]]
        BY <3>4 DEF Ddr
      <4>2. QED
        BY <3>2, <3>3, <4>1
    <3>5. CASE ~TakesRead
      <4>1. ddr'.dout = ddr.dout
        BY <2>3, <3>5 DEF Ddr
      <4>2. QED
        BY <3>1, <3>2, <3>3, <3>5, <4>1 DEF FbReads
    <3>6. QED
      BY <3>4, <3>5
  <2>4. ASSUME state' \in {"FB_READ", "FB_READ_WAIT"}
        PROVE  state \in {"FB_READ", "FB_READ_WAIT"}
    BY <1>2, <2>4 DEF Machine, NextState, TakesUnmapped, Taken, Serving
  <2>5. ddr'.phase # "idle" => ddr'.store = ddr.store
    BY <2>3 DEF Ddr, TakesWrite
  <2>6. ASSUME state' \in {"FB_READ", "FB_READ_WAIT"}
        PROVE  /\ ~vga_accepted' /\ mode' = mode /\ ddr'.store = ddr.store
               /\ IF mode.chain4 THEN expected'[1] = ddr.store[FbWord]
                  ELSE /\ DOMAIN expected'[1] \subseteq Lanes
                       /\ \A i \in DOMAIN expected'[1] :
                            expected'[1][i] = ddr.store[FbWord][mode.plane]
    BY <2>4, <2>6, FbPromise
  <2>7. FbWord' = FbWord
    BY <2>1 DEF FbWord
  <2>8. fb'.high \in 0..1
    BY <2>1 DEF FbReads
  <2>9. /\ fb'.rd \/ ddr'.phase # "idle" =>
             state' = "FB_READ_WAIT" /\ ~(fb'.rd /\ ddr'.phase # "idle")
    BY <2>2, <2>3
  <2>10. ddr'.phase # "idle" => \A h \in 0..1 : ddr'.dout[h] = ddr'.store[2 * fb'.addr + h]
    BY <2>1, <2>3, <2>5
  <2>11. state' \in {"FB_READ", "FB_READ_WAIT"} =>
           IF vga_accepted' THEN FbWord' = FbIndex(mode.rd_bank)'
           ELSE IF mode'.chain4 THEN expected'[1] = ddr'.store[FbWord']
           ELSE /\ DOMAIN expected'[1] \subseteq Lanes
                /\ \A i \in DOMAIN expected'[1] :
                     expected'[1][i] = ddr'.store[FbWord'][mode'.plane]
    BY <2>6, <2>7
  <2>12. QED
    BY <2>8, <2>9, <2>10, <2>11 DEF FbReads
<1>3. QED
  BY <1>1, <1>2

-----------------------------------------------------------------------------
LEMMA RamReadsStep ==
  ASSUME PathInv, Requested, Taken, Stores, RamHolds, RamReads, Sdram, History, Cpu
  PROVE  RamReads'
<1>1. ram' = IF mem_ready /\ req.write
             THEN [ram EXCEPT ![RamLoc(req.loc)] = Merge(@, Dword(req.data), req.be)] ELSE ram
  BY DEF Sdram
<1>2. mem.phase \in {"reading", "answer"} => ~cpu_ready /\ ram' = ram
  <2>1. mem.phase \in {"reading", "answer"} => req = NoRequest /\ ~mem_ready
    BY DEF PathInv, SdramInv, mem_ready
  <2>2. QED
    BY <1>1, <2>1, ReadyMeans
<1>3. mem.phase \in {"idle", "reading"} => ~mem_resp_valid
  BY DEF mem_resp_valid
<1>4. mem.phase = "reading" => ~cpu_resp_valid /\ expected' = expected
  <2>1. mem.phase = "reading" => ~cpu_resp_valid
    BY <1>3 DEF cpu_resp_valid, PathInv, MachineInv
  <2>2. QED
    BY <1>2, <2>1, ExpectedStep
<1>5. CASE mem' = mem /\ mem.phase \in {"idle", "reading"}
  BY <1>2, <1>4, <1>5 DEF RamReads
<1>6. CASE mem' = Port("granted", 0, 0, Zero) \/ mem' = IdlePort
  BY <1>6 DEF RamReads, IdlePort, Port
<1>7. CASE mem.phase = "granted" /\ ~req.write
           /\ mem' = Port("reading", req.loc, BurstCount(req.burst), Zero)
  <2>1. cpu_ready /\ Valid("ram")
    BY <1>7 DEF cpu_ready, mem_ready, PathInv, SdramInv
  <2>2. req \in RequestType
    BY <2>1, ReadyMeans
  <2>3. expected' = Answers /\ ram' = ram
    BY <1>1, <1>7, <2>1, ExpectedStep
  <2>4. Answers = [n \in 1..BurstCount(req.burst) |-> world.ram[RamLoc(req.loc + n - 1)]]
    BY <2>1, Zenon DEF Answers, Valid, Planar
  <2>5. mem'.phase = "reading" /\ mem'.loc = req.loc /\ mem'.left = BurstCount(req.burst)
    BY <1>7 DEF Port
  <2>6. req.loc \in Nat
    BY <2>2 DEF RequestType
  <2>7. \A j \in 1..mem'.left : expected'[j] = ram'[RamLoc(mem'.loc + j - 1)]
    BY <2>3, <2>4, <2>5 DEF RamHolds
  <2>8. QED
    BY <2>5, <2>6, <2>7 DEF RamReads, RamLoc
<1>8. CASE mem.phase = "reading"
           /\ mem' = Port("answer", mem.loc, mem.left, ram[RamLoc(mem.loc)])
  <2>1. /\ mem'.phase = "answer" /\ mem'.loc = mem.loc /\ mem'.left = mem.left
        /\ mem'.dout = ram[RamLoc(mem.loc)]
    BY <1>8 DEF Port
  <2>2. ram' = ram /\ expected' = expected
    BY <1>2, <1>4, <1>8
  <2>3. QED
    BY <1>8, <2>1, <2>2 DEF RamReads, RamLoc
<1>9. CASE mem.phase = "answer" /\ mem.left # 1
           /\ mem' = Port("reading", mem.loc + 1, mem.left - 1, Zero)
  <2>1. mem'.phase = "reading" /\ mem'.loc = mem.loc + 1 /\ mem'.left = mem.left - 1
    BY <1>9 DEF Port
  <2>2. /\ mem.left \in Nat \ {0} /\ Len(expected) = mem.left /\ IsSeq(expected)
        /\ mem.loc \in Nat /\ \A j \in 1..mem.left : expected[j] = ram[RamLoc(mem.loc + j - 1)]
    BY <1>9 DEF PathInv, SdramInv, CpuInv, RamReads
  <2>3. expected # <<>> /\ \A j \in 1..(mem.left - 1) : Tail(expected)[j] = expected[j + 1]
    BY <2>2, SeqFacts
  <2>4. cpu_resp_valid
    BY <1>9 DEF cpu_resp_valid, mem_resp_valid
  <2>5. expected' = Tail(expected) /\ ram' = ram
    BY <1>2, <1>9, <2>3, <2>4, ExpectedStep
  <2>6. ASSUME NEW j \in 1..(mem.left - 1)
        PROVE  expected'[j] = ram[RamLoc((mem.loc + 1) + j - 1)]
    <3>1. j + 1 \in 1..mem.left /\ mem.loc + (j + 1) - 1 = (mem.loc + 1) + j - 1
      BY <2>2
    <3>2. expected'[j] = expected[j + 1]
      BY <2>3, <2>5
    <3>3. QED
      BY <2>2, <3>1, <3>2
  <2>7. \A j \in 1..mem'.left : expected'[j] = ram'[RamLoc(mem'.loc + j - 1)]
    BY <2>1, <2>5, <2>6
  <2>8. mem'.loc \in Nat
    BY <2>1, <2>2
  <2>9. QED
    BY <2>1, <2>7, <2>8 DEF RamReads
<1>10. QED
  BY <1>5, <1>6, <1>7, <1>8, <1>9 DEF Sdram

-----------------------------------------------------------------------------
LEMMA UnmappedReadsStep ==
  ASSUME PathInv, Requested, Taken, Stores, UnmappedReads, Machine, History, Cpu
  PROVE  /\ UnmappedReads'
         /\ state = "UNMAPPED_READ" =>
              expected' # <<>> /\ expected'[1] = FF /\ vga_dout' = FF
<1>1. CASE TakesUnmapped
  <2>1. /\ state = "IDLE" /\ Valid("unmapped") /\ ~req.write /\ ~TakesVga
        /\ cpu_ready /\ ~vga_dout_ready'
    <3>1. state = "IDLE" /\ Valid("unmapped") /\ ~req.write /\ ~TakesVga
      BY <1>1 DEF TakesUnmapped, TakesVga, Valid
    <3>2. cpu_ready
      BY <3>1 DEF cpu_ready
    <3>3. ~NextDoutReady
      BY <3>1 DEF NextDoutReady
    <3>4. QED
      BY <3>1, <3>2, <3>3 DEF Machine
  <2>2. req \in RequestType
    BY <2>1, ReadyMeans
  <2> DEFINE n == BurstCount(req.burst)
  <2>3. n \in 1..255
    <3>1. req.burst \in 0..255
      BY <2>2 DEF RequestType
    <3>2. QED
      BY <3>1 DEF BurstCount
  <2>4. expected' = [k \in 1..n |-> FF]
    <3>1. expected' = Answers
      BY <2>1, ExpectedStep
    <3>2. Answers = [k \in 1..n |-> FF]
      BY <2>1 DEF Answers, Valid, Planar
    <3>3. QED
      BY <3>1, <3>2
  <2>5. vga'.bcnt = n % 8
    <3>1. vga' = [vga EXCEPT !.bcnt = n % 8]
      BY <1>1, <2>1 DEF Machine, NextVga
    <3>2. QED
      BY <3>1 DEF Stores, VgaFields
  <2> HIDE DEF n
  <2>6. Len(expected') = n /\ \A j \in 1..n : expected'[j] = FF
    <3> DEFINE f == [k \in 1..n |-> FF]
    <3>1. f = [k \in 1..n |-> f[k]] /\ n \in Nat
      BY <2>3
    <3>2. \A j \in 1..n : f[j] = FF
      OBVIOUS
    <3>3. expected' = f
      BY <2>4
    <3> HIDE DEF f
    <3>4. QED
      BY <3>1, <3>2, <3>3, FunctionSeq
  <2>7. vga'.bcnt \in 0..7 /\ n >= IF vga'.bcnt = 0 THEN 1 ELSE vga'.bcnt
    BY <2>3, <2>5
  <2>8. QED
    BY <2>1, <2>6, <2>7 DEF UnmappedReads
<1>2. CASE state = "UNMAPPED_READ"
  <2>1. /\ vga.bcnt \in 0..7
        /\ Len(expected) >= (IF vga_dout_ready THEN 1 ELSE 0) + (IF vga.bcnt = 0 THEN 1 ELSE vga.bcnt)
        /\ \A j \in 1..Len(expected) : expected[j] = FF
    BY <1>2 DEF UnmappedReads
  <2>2. IsSeq(expected) /\ Len(expected) \in Nat /\ Len(expected) >= 1 /\ expected # <<>>
    <3>1. IsSeq(expected)
      BY DEF PathInv, CpuInv
    <3>2. Len(expected) \in Nat /\ (expected = <<>> <=> Len(expected) = 0)
      BY <3>1, SeqFacts
    <3>3. QED
      BY <2>1, <3>1, <3>2
  <2>3. ~cpu_ready /\ (cpu_resp_valid <=> vga_dout_ready)
    BY <1>2, <2>2, ReadyMeans
       DEF PathInv, CpuInv, MachineInv, cpu_resp_valid, mem_resp_valid, vga_busy
  <2>4. expected' = IF vga_dout_ready THEN Tail(expected) ELSE expected
    BY <2>2, <2>3, ExpectedStep
  <2>5. /\ Len(Tail(expected)) = Len(expected) - 1
        /\ \A j \in 1..(Len(expected) - 1) : Tail(expected)[j] = expected[j + 1]
    BY <2>2, SeqFacts
  <2>6. Len(expected') = IF vga_dout_ready THEN Len(expected) - 1 ELSE Len(expected)
    BY <2>4, <2>5
  <2>7. \A j \in 1..Len(expected') : expected'[j] = FF
    <3>1. CASE vga_dout_ready
      <4>1. ASSUME NEW j \in 1..Len(expected')
            PROVE  expected'[j] = FF
        <5>1. j \in 1..(Len(expected) - 1) /\ j + 1 \in 1..Len(expected)
          BY <2>2, <2>6, <3>1
        <5>2. expected'[j] = expected[j + 1]
          BY <2>4, <2>5, <3>1, <5>1
        <5>3. QED
          BY <2>1, <5>1, <5>2
      <4>2. QED
        BY <4>1
    <3>2. CASE ~vga_dout_ready
      BY <2>1, <2>4, <2>6, <3>2
    <3>3. QED
      BY <3>1, <3>2
  <2>8. /\ state' = IF vga.bcnt <= 1 THEN "IDLE" ELSE state
        /\ vga'.bcnt = IF vga.bcnt <= 1 THEN 0 ELSE vga.bcnt - 1
        /\ vga_dout' = FF /\ vga_dout_ready'
    <3>1. ~TakesVga /\ ~TakesUnmapped
      BY <1>2 DEF TakesVga, TakesUnmapped
    <3>2. vga' = [vga EXCEPT !.bcnt = IF @ <= 1 THEN 0 ELSE @ - 1]
      BY <1>2, <3>1 DEF Machine, NextVga
    <3>3. vga'.bcnt = IF vga.bcnt <= 1 THEN 0 ELSE vga.bcnt - 1
      BY <3>2 DEF Stores, VgaFields
    <3>4. state' = IF vga.bcnt <= 1 THEN "IDLE" ELSE state
      BY <1>2 DEF Machine, NextState
    <3>5. vga_dout' = FF
      BY <1>2 DEF Machine, NextDout
    <3>6. vga_dout_ready'
      BY <1>2 DEF Machine, NextDoutReady
    <3>7. QED
      BY <3>3, <3>4, <3>5, <3>6
  <2>9. Len(expected') \in Nat /\ Len(expected') >= 1 /\ expected' # <<>>
    <3>1. Len(expected') >= 1 /\ Len(expected') \in Nat
      BY <2>1, <2>2, <2>6
    <3>2. expected' # <<>>
      BY <3>1
    <3>3. QED
      BY <3>1, <3>2
  <2>10. vga.bcnt > 1 => Len(expected') >= 1 + vga'.bcnt /\ vga'.bcnt \in 1..7
    BY <2>1, <2>2, <2>6, <2>8
  <2>11. expected'[1] = FF
    BY <2>7, <2>9
  <2>12. UnmappedReads'
    <3>1. CASE vga.bcnt <= 1
      BY <1>2, <2>8, <3>1 DEF UnmappedReads
    <3>2. CASE vga.bcnt > 1
      BY <2>7, <2>8, <2>10, <3>2 DEF UnmappedReads
    <3>3. QED
      BY <2>1, <3>1, <3>2
  <2>13. QED
    BY <2>8, <2>9, <2>11, <2>12
<1>3. CASE ~TakesUnmapped /\ state # "UNMAPPED_READ"
  <2>1. state' # "UNMAPPED_READ"
    BY <1>3 DEF Machine, NextState, Taken, Serving
  <2>2. QED
    BY <1>3, <2>1 DEF UnmappedReads
<1>4. QED
  BY <1>1, <1>2, <1>3 DEF TakesUnmapped

LEMMA AnsweredStep ==
  ASSUME OneByte, PathInv, Requested, Taken, Stores, VgaHolds, VgaReads, FbHolds, FbReads,
         UnmappedReads, Machine, VgaMemory, Ddr, History, Cpu
  PROVE  Answered'
<1> SUFFICES ASSUME vga_dout_ready'
             PROVE  expected' # <<>> /\ \A i \in DOMAIN expected'[1] : vga_dout'[i] = expected'[1][i]
  BY DEF Answered
<1>1. NextDoutReady
  BY DEF Machine
<1>2. ASSUME state \in Serving
      PROVE  expected' # <<>>
  <2>1. vga_accepted => expected' = Answers /\ Len(Answers) = 1
    BY <1>2, ServingStep, OneAnswer
  <2>2. ~vga_accepted => expected' = expected /\ Len(expected) = 1
    BY <1>2, ServingStep DEF Taken
  <2>3. Len(expected') = 1
    BY <2>1, <2>2
  <2>4. QED
    BY <2>3
<1>3. CASE state = "FB_READ_WAIT" /\ ddr.phase = "answer"
  <2>1. /\ IF mode.chain4 THEN expected'[1] = ddr.store[FbWord]
           ELSE /\ DOMAIN expected'[1] \subseteq Lanes
                /\ \A i \in DOMAIN expected'[1] : expected'[1][i] = ddr.store[FbWord][mode.plane]
    BY <1>3, FbPromise
  <2>2. FbRead = ddr.store[FbWord]
    BY <1>3 DEF FbRead, ReadHalf, FbReads, FbWord
  <2>3. vga_dout' = IF mode.chain4 THEN FbRead ELSE [i \in Lanes |-> FbRead[mode.plane]]
    BY <1>3 DEF Machine, NextDout
  <2>4. QED
    BY <1>2, <1>3, <2>1, <2>2, <2>3 DEF Serving
<1>4. CASE state = "UNMAPPED_READ"
  BY <1>4, UnmappedReadsStep
<1>5. CASE state = "VGA_READ" /\ ~vga.read
  BY <1>2, <1>5, VgaReadShifts DEF Serving
<1>6. QED
  BY <1>1, <1>3, <1>4, <1>5 DEF NextDoutReady

LEMMA LatchesStep ==
  ASSUME OneByte, PathInv, Requested, Taken, Stores, VgaHolds, FbHolds, FbReads, Latches,
         Machine, Ddr, History, Cpu
  PROVE  Latches'
<1>1. world'.latch = IF cpu_ready /\ ~req.write /\ Planar
                     THEN world.fb[Group(mode.rd_bank, Min(req.be))]
                     ELSE IF mode' # mode /\ ~mode'.fb THEN NoLatch ELSE world.latch
  BY WorldStep DEF Stores
<1>2. cpu_ready /\ ~req.write /\ Planar =>
        vga_accepted /\ state = "FB_READ" /\ mode.fb /\ ~mode.chain4
  <2>1. ASSUME cpu_ready, ~req.write, Planar
        PROVE  vga_accepted /\ mode.fb /\ ~mode.chain4
    BY <2>1, AcceptedBy DEF Planar, Valid
  <2>2. QED
    BY <2>1 DEF Taken
<1>3. CASE state \in {"FB_READ", "FB_READ_WAIT"}
  <2>1. /\ ~vga_accepted' /\ mode' = mode /\ mode.fb /\ ddr'.store = ddr.store /\ FbWord' = FbWord
        /\ vga_accepted /\ ~mode.chain4 =>
             Planar /\ world.fb[Group(mode.rd_bank, Min(req.be))] = ddr.store[FbWord]
    BY <1>3, FbPromise DEF FbWord, Taken, Serving
  <2>2. state' \in {"FB_READ", "FB_READ_WAIT", "IDLE"}
    BY <1>3 DEF Machine, NextState, TakesVga, TakesUnmapped
  <2>3. CASE mode.chain4
    <3>1. vga_data' = vga_data
      BY <1>3, <2>3 DEF Machine, NextVgaData, TakesVga
    <3>2. world'.latch = world.latch
      BY <1>1, <1>2, <2>1, <2>3
    <3>3. QED
      BY <1>3, <2>1, <2>2, <2>3, <3>1, <3>2 DEF Latches
  <2>4. CASE ~mode.chain4
    <3>1. world'.latch # NoLatch => world'.latch = ddr.store[FbWord]
      <4>1. CASE vga_accepted
        <5>1. cpu_ready /\ ~req.write
          BY <1>3, <4>1, ServingStep DEF Serving
        <5>2. QED
          BY <1>1, <2>1, <2>4, <4>1, <5>1
      <4>2. CASE ~vga_accepted
        <5>1. world'.latch = world.latch
          BY <1>1, <1>2, <2>1, <4>2
        <5>2. QED
          BY <1>3, <2>4, <4>2, <5>1 DEF Latches
      <4>3. QED
        BY <4>1, <4>2
    <3>2. state' = "IDLE" => vga_data' = ddr.store[FbWord]
      <4>1. ASSUME state' = "IDLE"
            PROVE  state = "FB_READ_WAIT" /\ ddr.phase = "answer"
        BY <1>3, <4>1 DEF Machine, NextState, TakesVga, TakesUnmapped
      <4>2. ASSUME state = "FB_READ_WAIT", ddr.phase = "answer"
            PROVE  vga_data' = ddr.store[FbWord]
        <5>1. vga_data' = FbRead
          BY <2>4, <4>2 DEF Machine, NextVgaData, TakesVga
        <5>2. FbRead = ddr.store[FbWord]
          BY <4>2 DEF FbRead, ReadHalf, FbReads, FbWord
        <5>3. QED
          BY <5>1, <5>2
      <4>3. QED
        BY <4>1, <4>2
    <3>3. QED
      BY <2>1, <2>2, <2>4, <3>1, <3>2 DEF Latches
  <2>5. QED
    BY <2>3, <2>4
<1>4. CASE state \notin {"FB_READ", "FB_READ_WAIT"}
  <2>1. world'.latch = IF mode' # mode /\ ~mode'.fb THEN NoLatch ELSE world.latch
    BY <1>1, <1>2, <1>4
  <2>2. ~mode'.fb \/ state' = "VGA_WRITE" => world'.latch = NoLatch
    <3>1. ~mode'.fb => world'.latch = NoLatch
      BY <2>1 DEF Latches
    <3>2. state' = "VGA_WRITE" => world.latch = NoLatch
      <4>1. state' = "VGA_WRITE" => state = "VGA_WRITE" \/ ~mode.fb
        BY DEF Machine, NextState, TakesUnmapped, Taken, Serving
      <4>2. QED
        BY <4>1 DEF Latches
    <3>3. QED
      BY <2>1, <3>1, <3>2
  <2>3. ASSUME world'.latch # NoLatch
        PROVE  vga_data' = world'.latch
    <3>1. world'.latch = world.latch /\ world.latch # NoLatch
      BY <2>1, <2>3
    <3>2. mode.fb /\ state # "VGA_WRITE" /\ vga_data = world.latch
      BY <1>4, <3>1 DEF Latches
    <3>3. vga_data' = vga_data
      BY <1>4, <3>2 DEF Machine, NextVgaData
    <3>4. QED
      BY <3>1, <3>2, <3>3
  <2>4. state' \in {"FB_READ", "FB_READ_WAIT"} => vga_accepted'
    <3>1. state' \in {"FB_READ", "FB_READ_WAIT"} => TakesVga
      BY <1>4 DEF Machine, NextState, TakesUnmapped, Taken, Serving
    <3>2. QED
      BY <3>1 DEF Machine
  <2>5. QED
    BY <2>2, <2>3, <2>4 DEF Latches
<1>5. QED
  BY <1>3, <1>4

-----------------------------------------------------------------------------
LEMMA DataInit == Init => DataInv
<1> SUFFICES ASSUME Init
             PROVE  DataInv
  OBVIOUS
<1>1. /\ state = "IDLE" /\ ~vga_accepted /\ ~vga_dout_ready /\ req = NoRequest /\ expected = <<>>
      /\ mode \in scenario.modes /\ mem.phase = "idle" /\ ddr.phase = "idle"
      /\ ~fb.rd /\ fb.high = 0 /\ ~vga.write
      /\ world = [ram |-> ram, vga |-> vga_mem.store, fb |-> ddr.store, latch |-> NoLatch]
  BY DEF Init, req, IdlePort, Port
<1>2. Requested
  BY <1>1 DEF Requested, NoRequest
<1>3. Taken
  BY <1>1 DEF Taken, Serving
<1>4. vga_mem.store \in [Win -> [Lanes -> Bytes]]
  <2>1. Zero \in [Lanes -> Bytes]
    <3>1. <<0, 0>> \in Bytes
      BY DEF Bytes
    <3>2. QED
      BY <3>1 DEF Zero
  <2>2. vga_mem.store = [l \in Win |-> Zero]
    BY DEF Init, Win
  <2>3. QED
    BY <2>1, <2>2
<1>5. Stores
  <2>1. DOMAIN world = WorldFields
    BY <1>1 DEF WorldFields
  <2>2. DOMAIN vga = VgaFields
    BY DEF Init, VgaFields
  <2>3. DOMAIN fb = {"addr", "high", "rd", "be", "din"}
    BY DEF Init
  <2>4. DOMAIN ddr.store = Fbs
    BY DEF Init
  <2>5. QED
    BY <1>1, <1>4, <2>1, <2>2, <2>3, <2>4 DEF Stores
<1>6. RamHolds
  BY <1>1 DEF RamHolds
<1>7. FbHolds
  BY <1>1 DEF FbHolds, AcceptedFb, WriteAccepted
<1>8. VgaHolds
  BY <1>1 DEF VgaHolds, AcceptedVga, PendingVga, WriteAccepted
<1>9. VgaReads /\ FbReads /\ UnmappedReads /\ Answered
  BY <1>1 DEF VgaReads, FbReads, UnmappedReads, Answered
<1>10. RamReads
  BY <1>1 DEF RamReads
<1>11. Latches
  BY <1>1 DEF Latches
<1>12. QED
  BY <1>2, <1>3, <1>5, <1>6, <1>7, <1>8, <1>9, <1>10, <1>11 DEF DataInv

LEMMA DataStep ==
  ASSUME OneByte
  PROVE  PathInv /\ DataInv /\ [Next]_vars => DataInv'
<1> SUFFICES ASSUME PathInv, DataInv, [Next]_vars
             PROVE  DataInv'
  OBVIOUS
<1>1. CASE Next
  <2>1. Machine /\ Sdram /\ VgaMemory /\ Ddr /\ Cpu /\ History
    BY <1>1 DEF Next, Tick
  <2>2. /\ Requested /\ Taken /\ Stores /\ RamHolds /\ FbHolds /\ VgaHolds
        /\ VgaReads /\ FbReads /\ RamReads /\ UnmappedReads /\ Answered /\ Latches
    BY DEF DataInv
  <2>3. Requested' /\ Taken' /\ Stores'
    BY <2>1, <2>2, RequestedStep, TakenStep, StoresStep
  <2>4. RamHolds' /\ FbHolds' /\ VgaHolds'
    BY <2>1, <2>2, RamHoldsStep, FbHoldsStep, VgaHoldsStep
  <2>5. VgaReads' /\ FbReads' /\ RamReads' /\ UnmappedReads'
    BY <2>1, <2>2, VgaReadsStep, FbReadsStep, RamReadsStep, UnmappedReadsStep
  <2>6. Answered' /\ Latches'
    BY <2>1, <2>2, AnsweredStep, LatchesStep
  <2>7. QED
    BY <2>3, <2>4, <2>5, <2>6 DEF DataInv
<1>2. CASE UNCHANGED vars
  <2>1. /\ state' = state /\ vga' = vga /\ vga_data' = vga_data /\ vga_dout' = vga_dout
        /\ vga_dout_ready' = vga_dout_ready /\ vga_accepted' = vga_accepted /\ fb' = fb
        /\ mem' = mem /\ ram' = ram /\ vga_mem' = vga_mem /\ ddr' = ddr /\ mode' = mode
        /\ cpu' = cpu /\ scenario' = scenario /\ world' = world /\ expected' = expected
    BY <1>2 DEF vars
  <2>2. req' = req /\ Planar' = Planar /\ WriteAccepted' = WriteAccepted
    BY <2>1 DEF req, Planar, WriteAccepted
  <2>3. Requested' /\ Taken' /\ Stores' /\ RamHolds'
    BY <2>1, <2>2 DEF DataInv, Requested, Taken, Stores, RamHolds
  <2>4. FbHolds'
    <3>1. Written' = Written
      BY <2>1, <2>2, Zenon DEF Written, Group, FbIndex
    <3>2. AcceptedFb' = AcceptedFb
      BY <2>1, <2>2, <3>1, Zenon DEF AcceptedFb
    <3>3. QED
      BY <2>1, <3>2 DEF DataInv, FbHolds
  <2>5. VgaHolds'
    <3>1. ASSUME NEW l \in Win, NEW i \in Lanes
          PROVE  AcceptedVga(l, i)' = AcceptedVga(l, i) /\ PendingVga(l, i)' = PendingVga(l, i)
      BY <2>1, <2>2, Zenon DEF AcceptedVga, PendingVga, StillToWrite
    <3>2. QED
      BY <2>1, <3>1 DEF DataInv, VgaHolds
  <2>6. VgaReads'
    <3>1. ReadBytes' = ReadBytes
      BY <2>1, <2>2, Zenon DEF ReadBytes
    <3>2. QED
      BY <2>1, <2>2, <3>1 DEF DataInv, VgaReads
  <2>7. FbReads'
    <3>1. FbIndex(mode.rd_bank)' = FbIndex(mode.rd_bank)
      BY <2>1, <2>2, Zenon DEF FbIndex
    <3>2. FbWord' = FbWord
      BY <2>1 DEF FbWord
    <3>3. QED
      BY <2>1, <2>2, <3>1, <3>2 DEF DataInv, FbReads
  <2>8. RamReads' /\ UnmappedReads' /\ Answered'
    BY <2>1 DEF DataInv, RamReads, UnmappedReads, Answered
  <2>9. Latches'
    <3>1. FbWord' = FbWord
      BY <2>1 DEF FbWord
    <3>2. QED
      BY <2>1, <3>1 DEF DataInv, Latches
  <2>10. QED
    BY <2>3, <2>4, <2>5, <2>6, <2>7, <2>8, <2>9 DEF DataInv
<1>3. QED
  BY <1>1, <1>2

\* A read is answered with what the memories held when it was accepted, in order and in the
\* bytes it enabled, whether the SDRAM, the VGA memory, the framebuffer or nothing answers
\* (main_memory.sv, cpu_resp_valid and cpu_dout).
THEOREM AnswersKept == ASSUME OneByte PROVE Spec => []AnswersAsPromised
<1>1. PathInv /\ DataInv => AnswersAsPromised
  <2> SUFFICES ASSUME PathInv, DataInv, cpu_resp_valid
               PROVE  /\ ~(mem_resp_valid /\ vga_dout_ready)
                      /\ expected # <<>>
                      /\ \A i \in DOMAIN Head(expected) : cpu_dout[i] = Head(expected)[i]
    BY DEF AnswersAsPromised
  <2>1. ~(mem_resp_valid /\ vga_dout_ready)
    BY DEF PathInv, MachineInv, mem_resp_valid
  <2>2. IsSeq(expected)
    BY DEF PathInv, CpuInv
  <2>3. expected # <<>> => Head(expected) = expected[1]
    BY <2>2, SeqFacts
  <2>4. CASE vga_dout_ready
    <3>1. expected # <<>> /\ \A i \in DOMAIN expected[1] : vga_dout[i] = expected[1][i]
      BY <2>4 DEF DataInv, Answered
    <3>2. cpu_dout = vga_dout
      BY <2>4 DEF cpu_dout
    <3>3. QED
      BY <2>1, <2>3, <3>1, <3>2
  <2>5. CASE ~vga_dout_ready
    <3>1. mem.phase = "answer"
      BY <2>5 DEF cpu_resp_valid, mem_resp_valid
    <3>2. mem.left \in Nat \ {0} /\ Len(expected) = mem.left
      BY <3>1 DEF PathInv, SdramInv
    <3>3. expected # <<>>
      BY <3>2
    <3>4. /\ mem.dout = ram[RamLoc(mem.loc)] /\ mem.loc \in Nat
          /\ \A j \in 1..mem.left : expected[j] = ram[RamLoc(mem.loc + j - 1)]
      BY <3>1 DEF DataInv, RamReads
    <3>5. expected[1] = mem.dout
      <4>1. 1 \in 1..mem.left /\ mem.loc + 1 - 1 = mem.loc
        BY <3>2, <3>4
      <4>2. QED
        BY <3>4, <4>1
    <3>6. cpu_dout = mem.dout
      BY <2>5 DEF cpu_dout
    <3>7. QED
      BY <2>1, <2>3, <3>3, <3>5, <3>6
  <2>6. QED
    BY <2>4, <2>5
<1>2. Init => PathInv /\ DataInv
  BY PathInit, DataInit
<1>3. PathInv /\ DataInv /\ [Next]_vars => PathInv' /\ DataInv'
  BY PathStep, DataStep
<1>4. QED
  BY <1>1, <1>2, <1>3, PTL DEF Spec

\* A posted write arrives in full and where it was addressed: when nothing is under way the
\* three memories hold what the accepted writes made of them (main_memory.sv, VGA_WRITE and
\* FB_WRITE).
THEOREM WritesKept == ASSUME OneByte PROVE Spec => []WritesArrive
<1>1. PathInv /\ DataInv => WritesArrive
  <2> SUFFICES ASSUME PathInv, DataInv, state = "IDLE"
               PROVE  world.ram = ram /\ world.vga = vga_mem.store /\ world.fb = ddr.store
    BY DEF WritesArrive
  <2>1. ~WriteAccepted
    BY DEF PathInv, MachineInv, vga_busy, WriteAccepted
  <2>2. QED
    BY <2>1, VgaMemoryIs, FbMemoryIs DEF DataInv, RamHolds
<1>2. Init => PathInv /\ DataInv
  BY PathInit, DataInit
<1>3. PathInv /\ DataInv /\ [Next]_vars => PathInv' /\ DataInv'
  BY PathStep, DataStep
<1>4. QED
  BY <1>1, <1>2, <1>3, PTL DEF Spec
=============================================================================
