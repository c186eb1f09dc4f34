---------------------------- MODULE DeviceProofs ----------------------------
(* The devices that the simulator serves, each side of them against the other: *)
(* the handshake of the keyboard's commands, for all commands and all timings *)
(* of the queues and of the serial line; the packets of the mouse, for motions *)
(* of any size; the disk's block buffer; and the commands of a disk, from the *)
(* task file to the image, for all geometries, commands and images.           *)
EXTENDS InputPorts, HpsIde, SequenceTheorems, WellFoundedInduction, TLAPS

Byte == 0..255

HostType == host \in [queue : Seq(Byte), since : Nat, busy : BOOLEAN, clear_pending : BOOLEAN,
                      cmd : Byte, arg : BOOLEAN, scan_set : Byte]
PortType == port \in [data : Byte, valid : BOOLEAN, clear : BOOLEAN]
DevType == dev \in [fifo : Seq(Byte), has_data : BOOLEAN, data : Byte, tx : Byte \cup {None},
                    rx : Byte \cup {None}, overrun : BOOLEAN]
Types == HostType /\ PortType /\ DevType /\ commands \in Seq(Byte) /\ handled \in Seq(Byte)

\* From the end of a command to the clock in which the program has seen the device forget it,
\* nothing moves on the serial line: the controller waits for an answer, and none is sent.
Settling == dev.has_data \/ host.busy
Quiet == Settling => full /\ dev.tx = None /\ dev.rx = None /\ dev.fifo = <<>>
Receiving == dev.rx # None => full /\ dev.tx = None
Phases == /\ at \in {"pre", "edge"} /\ dev.has_data => host.busy
          /\ at = "edge" /\ port.valid => ~host.busy
          /\ at = "pre" => ~port.valid

IInv == Types /\ Quiet /\ Receiving /\ Phases /\ CommandsHandledOnce

-----------------------------------------------------------------------------
\* The bytes of an answer are bytes.
LEMMA RepliesType ==
  ASSUME HostType, NEW c \in Byte
  PROVE  Replies(c) \in Seq(Byte)
<1>1. \A a, b, d \in Byte : <<a>> \in Seq(Byte) /\ <<a, b>> \in Seq(Byte) /\ <<a, b, d>> \in Seq(Byte)
  OBVIOUS
<1>2. 250 \in Byte /\ 170 \in Byte /\ 171 \in Byte /\ 131 \in Byte /\ 238 \in Byte /\ 254 \in Byte
      /\ host.scan_set \in Byte
  BY DEF Byte, HostType
<1>3. CASE host.arg
  BY <1>1, <1>2, <1>3 DEF Replies
<1>4. CASE ~host.arg
  BY <1>1, <1>2, <1>4 DEF Replies
<1>5. QED
  BY <1>3, <1>4

\* After a command was handled the program's record is one, and only what is named has changed.
LEMMA HandledType ==
  ASSUME HostType, NEW c \in Byte
  PROVE  /\ Handled(c) \in [queue : Seq(Byte), since : Nat, busy : BOOLEAN, clear_pending : BOOLEAN,
                            cmd : Byte, arg : BOOLEAN, scan_set : Byte]
         /\ Handled(c).busy = host.busy
<1>1. Replies(c) \in Seq(Byte)
  BY RepliesType
<1>2. ScanSet(c) \in Byte
  BY DEF ScanSet, Byte, HostType
<1>3. (IF ~host.arg /\ c \in TakesArgument THEN c ELSE 0) \in Byte
  BY DEF Byte
<1>4. host.queue \o Replies(c) \in Seq(Byte)
  BY <1>1 DEF HostType
<1>5. (~host.arg /\ c \in TakesArgument) \in BOOLEAN
  OBVIOUS
<1>6. QED
  BY <1>2, <1>3, <1>4, <1>5 DEF Handled, HostType

LEMMA AgedType ==
  ASSUME NEW h \in [queue : Seq(Byte), since : Nat, busy : BOOLEAN, clear_pending : BOOLEAN,
                    cmd : Byte, arg : BOOLEAN, scan_set : Byte]
  PROVE  /\ Aged(h) \in [queue : Seq(Byte), since : Nat, busy : BOOLEAN, clear_pending : BOOLEAN,
                         cmd : Byte, arg : BOOLEAN, scan_set : Byte]
         /\ Aged(h).busy = h.busy
<1>1. h.since \in Nat /\ KBD_GAP \in Nat
  BY InputPortsAssumption
<1>2. Later(h.since, KBD_GAP) \in Nat
  BY <1>1 DEF Later
<1>3. QED
  BY <1>2 DEF Aged

-----------------------------------------------------------------------------
\* The invariant holds at the start, and every action keeps it.
LEMMA InitInv == Init => IInv
<1>1. 0 \in Byte /\ 2 \in Byte /\ <<>> \in Seq(Byte)
  BY DEF Byte
<1>2. QED
  BY <1>1 DEF Init, IInv, Types, HostType, PortType, DevType, Quiet, Settling, Receiving, Phases,
              CommandsHandledOnce

LEMMA PreInv == IInv /\ Pre => IInv'
<1> SUFFICES ASSUME IInv, Pre PROVE IInv'
  OBVIOUS
<1> USE DEF IInv, Types
<1>1. at = "pre" /\ at' = "edge" /\ UNCHANGED <<dev, full, commands, handled>>
  BY DEF Pre
<1>2. (SendsKey => ~host.busy) /\ SendsKey \in BOOLEAN
  BY DEF SendsKey
<1>3. SendsKey => Head(host.queue) \in Byte /\ Tail(host.queue) \in Seq(Byte)
  BY DEF SendsKey, HostType
<1>4. HostType' /\ host'.busy = host.busy
  BY <1>3 DEF Pre, KeyboardSendPre, HostType
<1>5. PortType' /\ port'.valid = SendsKey
  BY <1>2, <1>3 DEF Pre, KeyboardSendPre, HostType, PortType
<1>6. QED
  BY <1>1, <1>2, <1>4, <1>5 DEF DevType, Quiet, Settling, Receiving, Phases, CommandsHandledOnce

LEMMA QueuesInv ==
  ASSUME IInv, (\E pressed \in BOOLEAN : QueueKey(pressed)) \/ (\E m \in Moves : QueueMouse(m))
  PROVE  IInv'
<1> USE DEF IInv, Types
<1>1. ASSUME NEW pressed \in BOOLEAN, QueueKey(pressed) PROVE IInv'
  <2> DEFINE codes == IF pressed THEN <<KeyCode>> ELSE <<240, KeyCode>>
  <2>1. codes \in Seq(Byte)
    <3>1. KeyCode \in Byte /\ 240 \in Byte
      BY DEF KeyCode, Byte
    <3>2. <<KeyCode>> \in Seq(Byte) /\ <<240, KeyCode>> \in Seq(Byte)
      BY <3>1
    <3>3. QED
      BY <3>2
  <2> HIDE DEF codes
  <2>2. HostType' /\ host'.busy = host.busy
    <3>1. host' = [host EXCEPT !.queue = host.queue \o codes]
      BY <1>1 DEF QueueKey, codes
    <3>2. host.queue \o codes \in Seq(Byte)
      BY <2>1 DEF HostType
    <3>3. QED
      BY <3>1, <3>2 DEF HostType
  <2>3. UNCHANGED <<at, port, dev, full, commands, handled>>
    BY <1>1 DEF QueueKey
  <2>4. QED
    BY <2>2, <2>3 DEF PortType, DevType, Quiet, Settling, Receiving, Phases, CommandsHandledOnce
<1>2. ASSUME NEW m \in Moves, QueueMouse(m) PROVE IInv'
  <2>1. UNCHANGED <<at, host, port, dev, full, commands, handled>>
    BY <1>2 DEF QueueMouse
  <2>2. QED
    BY <2>1 DEF HostType, PortType, DevType, Quiet, Settling, Receiving, Phases, CommandsHandledOnce
<1>3. QED
  BY <1>1, <1>2

\* What an edge does to the device whatever its serial side does: the command is there until
\* the program told it to be forgotten, and while one settles the FIFO takes nothing.
LEMMA EdgeFacts ==
  ASSUME IInv, at = "edge"
  PROVE  /\ Taken \in Seq(Byte) /\ Filled(dev.fifo \o Taken) \in Seq(Byte)
         /\ HasData \in BOOLEAN /\ (HasData => dev.has_data)
         /\ Settling => Taken = <<>> /\ Filled(dev.fifo \o Taken) = <<>>
<1> USE DEF IInv, Types
<1>1. Taken \in Seq(Byte)
  BY DEF Taken, PortType
<1>2. Filled(dev.fifo \o Taken) \in Seq(Byte)
  BY <1>1 DEF Filled, DevType
<1>3. HasData \in BOOLEAN /\ (HasData => dev.has_data)
  BY DEF HasData
<1>4. ASSUME Settling PROVE Taken = <<>> /\ Filled(dev.fifo \o Taken) = <<>>
  <2>1. ~port.valid
    BY <1>4 DEF Phases, Settling
  <2>2. Taken = <<>> /\ dev.fifo = <<>>
    BY <1>4, <2>1 DEF Taken, Quiet
  <2>3. QED
    BY <2>2 DEF Filled
<1>5. QED
  BY <1>1, <1>2, <1>3, <1>4

LEMMA EdgeInv ==
  ASSUME IInv, Edge(Idle) \/ Edge(Serial) \/ \E c \in Commands : Edge(StartCommand(c))
  PROVE  IInv'
<1> USE DEF IInv, Types
<1> DEFINE overrun == dev.overrun \/ Len(dev.fifo \o Taken) = FIFO_SIZE
<1>1. at = "edge" /\ at' = "post" /\ UNCHANGED <<host, port, handled>>
  BY DEF Edge
<1>2. HostType' /\ PortType' /\ Phases' /\ handled' \in Seq(Byte)
  BY <1>1 DEF HostType, PortType, Phases
<1>3. /\ Taken \in Seq(Byte) /\ Filled(dev.fifo \o Taken) \in Seq(Byte)
      /\ HasData \in BOOLEAN /\ (HasData => dev.has_data)
      /\ Settling => Taken = <<>> /\ Filled(dev.fifo \o Taken) = <<>>
  BY <1>1, EdgeFacts
<1>4. overrun \in BOOLEAN
  BY DEF DevType
<1>5. None \notin Byte /\ Commands \subseteq Byte
  BY InputPortsAssumption DEF Byte
<1>6. dev.has_data => host.busy
  BY <1>1 DEF Phases
<1>7. CASE Idle
  <2>1. /\ dev' = [dev EXCEPT !.fifo = Filled(dev.fifo \o Taken), !.has_data = HasData,
                              !.overrun = overrun]
        /\ UNCHANGED <<full, commands>>
    BY <1>7 DEF Idle
  <2>2. DevType' /\ dev'.tx = dev.tx /\ dev'.rx = dev.rx /\ dev'.data = dev.data
        /\ dev'.has_data = HasData /\ dev'.fifo = Filled(dev.fifo \o Taken)
    BY <2>1, <1>3, <1>4 DEF DevType
  <2>3. QED
    BY <1>1, <1>2, <1>3, <1>6, <2>1, <2>2 DEF Quiet, Settling, Receiving, CommandsHandledOnce
<1>8. CASE StartByte
  <2>1. ~Settling
    BY <1>8 DEF StartByte, Quiet
  <2>2. Head(dev.fifo) \in Byte /\ Tail(dev.fifo) \o Taken \in Seq(Byte)
    BY <1>3, <1>8 DEF StartByte, DevType
  <2>3. /\ dev' = [dev EXCEPT !.fifo = Tail(dev.fifo) \o Taken, !.has_data = HasData,
                              !.tx = Head(dev.fifo)]
        /\ UNCHANGED <<full, commands>> /\ dev.rx = None
    BY <1>8 DEF StartByte
  <2>4. DevType' /\ dev'.rx = None /\ ~dev'.has_data /\ dev'.data = dev.data
    BY <1>3, <2>1, <2>2, <2>3 DEF DevType, Settling
  <2>5. QED
    BY <1>1, <1>2, <2>1, <2>3, <2>4 DEF Quiet, Settling, Receiving, CommandsHandledOnce
<1>9. CASE EndByte
  <2>1. ~Settling /\ dev.rx = None
    BY <1>9 DEF EndByte, Quiet, Receiving
  <2>2. /\ dev' = [dev EXCEPT !.fifo = Filled(dev.fifo \o Taken), !.has_data = HasData,
                              !.tx = None, !.overrun = overrun]
        /\ UNCHANGED commands
    BY <1>9 DEF EndByte
  <2>3. DevType' /\ dev'.rx = None /\ ~dev'.has_data /\ dev'.data = dev.data
    BY <1>3, <1>4, <2>1, <2>2 DEF DevType, Settling
  <2>4. QED
    BY <1>1, <1>2, <2>1, <2>2, <2>3 DEF Quiet, Settling, Receiving, CommandsHandledOnce
<1>10. ASSUME NEW c \in Commands, StartCommand(c) PROVE IInv'
  <2>1. ~Settling
    BY <1>10 DEF StartCommand, Quiet
  <2>2. /\ dev' = [dev EXCEPT !.fifo = Filled(dev.fifo \o Taken), !.has_data = HasData,
                              !.rx = c, !.overrun = overrun]
        /\ dev.tx = None /\ full' = TRUE /\ UNCHANGED commands
    BY <1>10 DEF StartCommand
  <2>3. DevType' /\ dev'.tx = None /\ ~dev'.has_data /\ dev'.data = dev.data
    BY <1>3, <1>4, <1>5, <2>1, <2>2 DEF DevType, Settling
  <2>4. QED
    BY <1>1, <1>2, <2>1, <2>2, <2>3 DEF Quiet, Settling, Receiving, CommandsHandledOnce
<1>11. CASE EndCommand
  <2>1. ~Settling /\ full /\ dev.tx = None /\ dev.rx \in Byte
    BY <1>11 DEF EndCommand, Quiet, Receiving, DevType
  <2>2. /\ dev' = [dev EXCEPT !.fifo = <<>>, !.has_data = TRUE, !.data = dev.rx, !.rx = None]
        /\ commands' = Append(commands, dev.rx) /\ UNCHANGED full
    BY <1>11 DEF EndCommand
  <2>3. /\ DevType' /\ dev'.tx = None /\ dev'.rx = None /\ dev'.has_data /\ dev'.fifo = <<>>
        /\ dev'.data = dev.rx
    <3>1. <<>> \in Seq(Byte)
      OBVIOUS
    <3>2. QED
      BY <2>1, <2>2, <3>1 DEF DevType
  <2>4. commands' = Append(handled, dev.rx) /\ commands' \in Seq(Byte)
    BY <2>1, <2>2 DEF Settling, CommandsHandledOnce
  <2>5. QED
    BY <1>1, <1>2, <2>1, <2>2, <2>3, <2>4 DEF Quiet, Settling, Receiving, CommandsHandledOnce
<1>12. QED
  BY <1>7, <1>8, <1>9, <1>10, <1>11 DEF Edge, Serial

LEMMA PostInv == IInv /\ KeyboardObservePost => IInv'
<1> SUFFICES ASSUME IInv, KeyboardObservePost PROVE IInv'
  OBVIOUS
<1> USE DEF IInv, Types
<1>1. /\ at = "post" /\ at' = "pre" /\ UNCHANGED <<dev, full, commands>>
      /\ port' = [port EXCEPT !.valid = FALSE]
  BY DEF KeyboardObservePost
<1>2. PortType' /\ ~port'.valid /\ DevType'
  BY <1>1 DEF PortType, DevType
<1>3. CASE dev.has_data /\ ~host.busy
  <2>1. /\ host' = [Aged(Handled(dev.data)) EXCEPT !.busy = TRUE, !.clear_pending = TRUE]
        /\ handled' = Append(handled, dev.data)
    BY <1>3 DEF KeyboardObservePost
  <2>2. HostType' /\ host'.busy
    <3>1. dev.data \in Byte
      BY DEF DevType
    <3>2. QED
      BY <2>1, <3>1, HandledType, AgedType DEF HostType
  <2>3. handled' = commands /\ handled' \in Seq(Byte)
    BY <1>3, <2>1 DEF CommandsHandledOnce
  <2>4. QED
    BY <1>1, <1>2, <1>3, <2>2, <2>3 DEF Quiet, Settling, Receiving, Phases, CommandsHandledOnce
<1>4. CASE ~(dev.has_data /\ ~host.busy)
  <2>1. handled' = handled
    BY <1>4 DEF KeyboardObservePost
  <2>2. HostType' /\ host'.busy = (dev.has_data /\ host.busy)
    <3>1. host' = IF ~dev.has_data /\ host.busy
                  THEN [Aged(host) EXCEPT !.busy = FALSE, !.clear_pending = FALSE]
                  ELSE Aged(host)
      BY <1>4 DEF KeyboardObservePost
    <3>2. QED
      BY <1>4, <3>1, AgedType DEF HostType, DevType
  <2>3. QED
    BY <1>1, <1>2, <1>4, <2>1, <2>2 DEF Quiet, Settling, Receiving, Phases, CommandsHandledOnce
<1>5. QED
  BY <1>3, <1>4

-----------------------------------------------------------------------------
LEMMA StepInv == IInv /\ [Next]_vars => IInv'
<1> SUFFICES ASSUME IInv, [Next]_vars PROVE IInv'
  OBVIOUS
<1>1. CASE (\E pressed \in BOOLEAN : QueueKey(pressed)) \/ (\E m \in Moves : QueueMouse(m))
  BY <1>1, QueuesInv
<1>2. CASE Pre
  BY <1>2, PreInv
<1>3. CASE Edge(Idle) \/ Edge(Serial) \/ \E c \in Commands : Edge(StartCommand(c))
  BY <1>3, EdgeInv
<1>4. CASE KeyboardObservePost
  BY <1>4, PostInv
<1>5. CASE UNCHANGED vars
  BY <1>5 DEF vars, IInv, Types, HostType, PortType, DevType, Quiet, Settling, Receiving, Phases,
              CommandsHandledOnce
<1>6. QED
  BY <1>1, <1>2, <1>3, <1>4, <1>5 DEF Next

\* Every command of the machine is handled once and in order, for every set of commands, gaps
\* between bytes, FIFO size and timing of the serial line.
THEOREM HandledOnce == Spec => []CommandsHandledOnce
<1>1. IInv => CommandsHandledOnce
  BY DEF IInv
<1>2. QED
  BY <1>1, InitInv, StepInv, PTL DEF Spec

\* No byte of the program is presented while the device would drop it.
THEOREM NoneRefused == Spec => []NoByteRefused
<1>1. IInv => NoByteRefused
  BY DEF IInv, Phases, NoByteRefused
<1>2. QED
  BY <1>1, InitInv, StepInv, PTL DEF Spec

-----------------------------------------------------------------------------
(* Induction and recursion over the natural numbers.                         *)

Less == OpToRel(<, Nat)

LEMMA Minimal ==
  ASSUME NEW T \in SUBSET Nat, T # {}
  PROVE  \E c \in T : \A d \in T : c <= d
<1>1. IsWellFoundedOn(Less, Nat)
  BY NatLessThanWellFounded DEF Less
<1>2. \A x, y \in Nat : <<y, x>> \in Less <=> y < x
  BY DEF OpToRel, Less
<1>3. \E x \in T : \A y \in T : ~ (<<y, x>> \in Less)
  BY <1>1, WFMin, Zenon
<1>4. PICK x \in T : \A y \in T : ~ (<<y, x>> \in Less)
  BY <1>3
<1>5. ASSUME NEW y \in T PROVE x <= y
  <2>1. x \in Nat /\ y \in Nat
    OBVIOUS
  <2>2. ~ (y < x)
    BY <1>2, <1>4, <2>1, Zenon
  <2>3. QED
    BY <2>1, <2>2
<1>6. QED
  BY <1>5

LEMMA Induction ==
  ASSUME NEW S \in SUBSET Nat, 0 \in S, \A n \in S : n + 1 \in S
  PROVE  S = Nat
<1> SUFFICES ASSUME Nat \ S # {} PROVE FALSE
  OBVIOUS
<1>1. PICK c \in Nat \ S : \A d \in Nat \ S : c <= d
  BY Minimal
<1>2. c # 0 /\ c - 1 \in Nat
  BY <1>1
<1>3. c - 1 \in S
  BY <1>1, <1>2
<1>4. QED
  BY <1>1, <1>2, <1>3

Iterates(f, V, zero, step) ==
  f \in [Nat -> V] /\ f[0] = zero /\ \A n \in Nat : f[n + 1] = step[<<n, f[n]>>]

LEMMA Recursion ==
  ASSUME NEW V, NEW zero \in V, NEW step \in [Nat \X V -> V]
  PROVE  \E f : Iterates(f, V, zero, step)
<1> DEFINE Upto(f, k) == /\ f \in [Nat -> V] /\ f[0] = zero
                         /\ \A n \in Nat : n < k => f[n + 1] = step[<<n, f[n]>>]
           S == {k \in Nat : \E f : Upto(f, k)}
           G(k) == CHOOSE f : Upto(f, k)
           F == [k \in Nat |-> G(k)[k]]
<1>1. S = Nat
  <2>1. Upto([n \in Nat |-> zero], 0)
    OBVIOUS
  <2>2. 0 \in S
    BY <2>1
  <2>3. ASSUME NEW k \in S PROVE k + 1 \in S
    <3>1. PICK f : Upto(f, k)
      OBVIOUS
    <3> DEFINE g == [f EXCEPT ![k + 1] = step[<<k, f[k]>>]]
    <3>2. Upto(g, k + 1)
      <4>1. k \in Nat /\ f \in [Nat -> V] /\ step[<<k, f[k]>>] \in V
        BY <3>1
      <4>2. g \in [Nat -> V] /\ g[0] = zero /\ g[k + 1] = step[<<k, f[k]>>]
        BY <3>1, <4>1
      <4>3. \A n \in Nat : n < k + 1 => g[n] = f[n]
        BY <4>1
      <4> HIDE DEF g
      <4>4. ASSUME NEW n \in Nat, n < k + 1 PROVE g[n + 1] = step[<<n, g[n]>>]
        <5>1. CASE n = k
          BY <4>1, <4>2, <4>3, <5>1
        <5>2. CASE n < k
          <6>1. g[n + 1] = f[n + 1] /\ g[n] = f[n]
            BY <4>1, <4>3, <5>2
          <6>2. QED
            BY <3>1, <5>2, <6>1
        <5>3. n = k \/ n < k
          BY <4>1, <4>4
        <5>4. QED
          BY <5>1, <5>2, <5>3
      <4>5. QED
        BY <4>2, <4>4
    <3>3. k + 1 \in Nat
      OBVIOUS
    <3> HIDE DEF g, Upto
    <3>4. QED
      BY <3>2, <3>3
  <2>4. S \in SUBSET Nat
    OBVIOUS
  <2> HIDE DEF S
  <2>5. QED
    BY <2>2, <2>3, <2>4, Induction
<1>2. \A k \in Nat : Upto(G(k), k)
  <2> HIDE DEF Upto
  <2>1. \A k \in Nat : \E f : Upto(f, k)
    BY <1>1
  <2>2. QED
    BY <2>1, Zenon
<1> HIDE DEF G, S
<1>3. ASSUME NEW k \in Nat PROVE G(k)[k] = G(k + 1)[k]
  <2> DEFINE T == {n \in Nat : n <= k => G(k)[n] = G(k + 1)[n]}
  <2>1. Upto(G(k), k) /\ Upto(G(k + 1), k + 1)
    BY <1>2
  <2>2. 0 \in T
    BY <2>1
  <2>3. ASSUME NEW n \in T PROVE n + 1 \in T
    <3>1. n \in Nat /\ n + 1 \in Nat
      OBVIOUS
    <3>2. ASSUME n + 1 <= k PROVE G(k)[n + 1] = G(k + 1)[n + 1]
      <4>1. n < k /\ n < k + 1 /\ n <= k
        BY <3>1, <3>2
      <4>2. G(k)[n] = G(k + 1)[n]
        BY <4>1
      <4>3. G(k)[n + 1] = step[<<n, G(k)[n]>>] /\ G(k + 1)[n + 1] = step[<<n, G(k + 1)[n]>>]
        BY <2>1, <3>1, <4>1
      <4>4. QED
        BY <4>2, <4>3
    <3>3. QED
      BY <3>1, <3>2
  <2>4. T = Nat
    BY <2>2, <2>3, Induction
  <2>5. QED
    BY <2>4
<1>4. F \in [Nat -> V] /\ F[0] = zero
  BY <1>2
<1>5. ASSUME NEW n \in Nat PROVE F[n + 1] = step[<<n, F[n]>>]
  <2>1. Upto(G(n + 1), n + 1)
    BY <1>2
  <2>2. G(n + 1)[n + 1] = step[<<n, G(n + 1)[n]>>]
    BY <2>1
  <2>3. F[n] = G(n)[n] /\ F[n + 1] = G(n + 1)[n + 1]
    OBVIOUS
  <2>4. G(n)[n] = G(n + 1)[n]
    BY <1>3
  <2> HIDE DEF F
  <2>5. QED
    BY <2>2, <2>3, <2>4
<1> HIDE DEF F
<1>6. Iterates(F, V, zero, step)
  BY <1>4, <1>5 DEF Iterates
<1>7. QED
  BY <1>6

-----------------------------------------------------------------------------
(* The sum of the motions of a sequence.                                     *)

Axes == {"x", "y"}

LEMMA AmountIsInt ==
  ASSUME NEW motions \in Seq(Motions), NEW axis \in Axes, NEW b, NEW i
  PROVE  Amount(motions, i, axis, b) \in Int
<1>1. CASE i \in DOMAIN motions
  <2>1. motions[i] \in Motions
    BY <1>1
  <2>2. motions[i]["x"] \in Int /\ motions[i]["y"] \in Int
    BY <2>1 DEF Motions
  <2>3. QED
    BY <2>2 DEF Amount, Axes
<1>2. CASE i \notin DOMAIN motions
  BY <1>2 DEF Amount
<1>3. QED
  BY <1>1, <1>2

LEMMA SumsIs ==
  ASSUME NEW motions \in Seq(Motions), NEW axis \in Axes, NEW b
  PROVE  /\ Sums(motions, axis, b) \in [Nat -> Int]
         /\ Sums(motions, axis, b)[0] = 0
         /\ \A n \in Nat : Sums(motions, axis, b)[n + 1] =
              Sums(motions, axis, b)[n] + Amount(motions, n + 1, axis, b)
<1> DEFINE am(i) == Amount(motions, i, axis, b)
           Term(sum, i) == IF i = 0 THEN 0 ELSE sum[i - 1] + am(i)
           step == [p \in Nat \X Int |-> p[2] + am(p[1] + 1)]
<1>1. \A i : am(i) \in Int
  BY AmountIsInt
<1> HIDE DEF am
<1>2. step \in [Nat \X Int -> Int]
  BY <1>1
<1>3. PICK f \in [Nat -> Int] : f[0] = 0 /\ \A n \in Nat : f[n + 1] = step[<<n, f[n]>>]
  <2> HIDE DEF step
  <2>1. 0 \in Int
    OBVIOUS
  <2>2. \E f : Iterates(f, Int, 0, step)
    BY <1>2, <2>1, Recursion
  <2>3. QED
    BY <2>2 DEF Iterates
<1>4. \A n \in Nat : f[n + 1] = f[n] + am(n + 1)
  <2>1. \A n \in Nat : \A m \in Int : step[<<n, m>>] = m + am(n + 1)
    OBVIOUS
  <2> HIDE DEF step
  <2>2. QED
    BY <1>3, <2>1
<1>5. f = [i \in Nat |-> Term(f, i)]
  <2>1. ASSUME NEW i \in Nat PROVE f[i] = Term(f, i)
    <3>1. CASE i = 0
      BY <1>3, <3>1
    <3>2. CASE i # 0
      <4>1. i - 1 \in Nat /\ (i - 1) + 1 = i
        BY <3>2
      <4>2. f[(i - 1) + 1] = f[i - 1] + am((i - 1) + 1)
        BY <1>4, <4>1
      <4>3. QED
        BY <3>2, <4>1, <4>2
    <3>3. QED
      BY <3>1, <3>2
  <2>2. QED
    BY <1>3, <2>1
<1>6. Sums(motions, axis, b) = CHOOSE sum : sum = [i \in Nat |-> Term(sum, i)]
  BY DEF Sums, am
<1> DEFINE L == Sums(motions, axis, b)
<1>7. L = [i \in Nat |-> Term(L, i)]
  BY <1>5, <1>6, Zenon
<1>8. \A i \in Nat : L[i] = Term(L, i)
  <2> HIDE DEF L
  <2>1. QED
    BY <1>7
<1>9. L = [i \in Nat |-> L[i]]
  <2> HIDE DEF L
  <2>1. \A x, y : x = [i \in Nat |-> Term(y, i)] => x = [i \in Nat |-> x[i]]
    OBVIOUS
  <2>2. QED
    BY <1>7, <2>1
<1> HIDE DEF L
<1>10. L[0] = 0
  BY <1>8
<1>11. ASSUME NEW n \in Nat PROVE L[n + 1] = L[n] + am(n + 1)
  <2>1. n + 1 \in Nat /\ n + 1 # 0 /\ (n + 1) - 1 = n
    OBVIOUS
  <2>2. L[n + 1] = Term(L, n + 1)
    BY <1>8, <2>1
  <2>3. QED
    BY <2>1, <2>2
<1>12. \A n \in Nat : L[n] \in Int
  <2> DEFINE S == {n \in Nat : L[n] \in Int}
  <2>1. 0 \in S
    BY <1>10
  <2>2. ASSUME NEW n \in S PROVE n + 1 \in S
    <3>1. n \in Nat /\ n + 1 \in Nat /\ L[n] \in Int
      OBVIOUS
    <3>2. L[n + 1] = L[n] + am(n + 1) /\ am(n + 1) \in Int
      BY <1>1, <1>11, <3>1
    <3>3. QED
      BY <3>1, <3>2
  <2>3. S \in SUBSET Nat
    OBVIOUS
  <2>4. S = Nat
    <3> HIDE DEF S
    <3>1. QED
      BY <2>1, <2>2, <2>3, Induction
  <2>5. QED
    BY <2>4
<1>13. L \in [Nat -> Int]
  BY <1>9, <1>12
<1>14. QED
  BY <1>10, <1>11, <1>13 DEF L, am

\* One motion more adds its own part.
LEMMA SumAppend ==
  ASSUME NEW motions \in Seq(Motions), NEW m \in Motions, NEW axis \in Axes, NEW b
  PROVE  /\ Sum(motions, axis, b) \in Int
         /\ Sum(Append(motions, m), axis, b) =
              Sum(motions, axis, b) + (IF m.buttons = b THEN m[axis] ELSE 0)
<1> DEFINE more == Append(motions, m)
           s == Sums(motions, axis, b)
           t == Sums(more, axis, b)
           len == Len(motions)
<1>1. more \in Seq(Motions) /\ len \in Nat /\ Len(more) = len + 1
  OBVIOUS
<1>2. \A i \in 1..len : i \in DOMAIN more /\ i \in DOMAIN motions /\ more[i] = motions[i]
  OBVIOUS
<1>3. len + 1 \in DOMAIN more /\ more[len + 1] = m
  OBVIOUS
<1> HIDE DEF more
<1>4. s \in [Nat -> Int] /\ s[0] = 0 /\ \A n \in Nat : s[n + 1] = s[n] + Amount(motions, n + 1, axis, b)
  BY SumsIs
<1>5. t \in [Nat -> Int] /\ t[0] = 0 /\ \A n \in Nat : t[n + 1] = t[n] + Amount(more, n + 1, axis, b)
  BY <1>1, SumsIs
<1>6. \A i \in 1..len : Amount(more, i, axis, b) = Amount(motions, i, axis, b)
  BY <1>2 DEF Amount
<1>7. Amount(more, len + 1, axis, b) = (IF m.buttons = b THEN m[axis] ELSE 0)
  BY <1>3 DEF Amount
<1>8. Sum(motions, axis, b) = s[len] /\ Sum(more, axis, b) = t[len + 1]
  BY <1>1 DEF Sum
<1> HIDE DEF s, t, len
<1>9. t[len] = s[len]
  <2> DEFINE S == {n \in Nat : n <= len => t[n] = s[n]}
  <2>1. 0 \in S
    BY <1>4, <1>5
  <2>2. ASSUME NEW n \in S PROVE n + 1 \in S
    <3>1. n \in Nat /\ n + 1 \in Nat
      OBVIOUS
    <3>2. ASSUME n + 1 <= len PROVE t[n + 1] = s[n + 1]
      <4>1. n <= len /\ n + 1 \in 1..len
        BY <1>1, <3>1, <3>2
      <4>2. t[n] = s[n]
        BY <4>1
      <4>3. Amount(more, n + 1, axis, b) = Amount(motions, n + 1, axis, b)
        BY <1>6, <4>1
      <4>4. QED
        BY <1>4, <1>5, <3>1, <4>2, <4>3
    <3>3. QED
      BY <3>1, <3>2
  <2>3. S \in SUBSET Nat
    OBVIOUS
  <2>4. S = Nat
    <3> HIDE DEF S
    <3>1. QED
      BY <2>1, <2>2, <2>3, Induction
  <2>5. QED
    BY <1>1, <2>4
<1>10. t[len + 1] = t[len] + Amount(more, len + 1, axis, b)
  BY <1>1, <1>5
<1>11. s[len] \in Int
  BY <1>1, <1>4
<1>12. QED
  BY <1>7, <1>8, <1>9, <1>10, <1>11 DEF more

-----------------------------------------------------------------------------
(* The packets of a motion.                                                  *)

Symbols == [buttons : 0..7, x_sign : BOOLEAN, y_sign : BOOLEAN] \cup (0..255)

LEMMA ClampFacts ==
  ASSUME NEW d \in Int
  PROVE  /\ Clamp(d) \in -LIMIT..LIMIT /\ Clamp(d) \in -127..127
         /\ d = 0 => d - Clamp(d) = 0
         /\ d > 0 => d - Clamp(d) >= 0 /\ d - Clamp(d) < d
         /\ d < 0 => d - Clamp(d) <= 0 /\ d - Clamp(d) > d
  BY InputPortsAssumption DEF Clamp

LEMMA PacketType ==
  ASSUME NEW x \in -127..127, NEW y \in -127..127, NEW b \in 0..7
  PROVE  Packet(x, y, b) \in Seq(Symbols) /\ Len(Packet(x, y, b)) = 3
<1> DEFINE flags == [buttons |-> b, x_sign |-> x < 0, y_sign |-> y < 0]
<1>1. flags \in Symbols
  <2>1. (x < 0) \in BOOLEAN /\ (y < 0) \in BOOLEAN
    OBVIOUS
  <2>2. QED
    BY <2>1 DEF Symbols
<1>2. x % 256 \in Symbols /\ y % 256 \in Symbols
  BY DEF Symbols
<1> HIDE DEF flags
<1>3. <<flags, x % 256, y % 256>> \in Seq(Symbols)
  BY <1>1, <1>2
<1>4. QED
  BY <1>3 DEF Packet, flags

\* How far a motion still has to go.
Dist(d) == IF d < 0 THEN -d ELSE d
Size(m) == Dist(m.x) + Dist(m.y)
LeftOver(m) == [x |-> m.x - Clamp(m.x), y |-> m.y - Clamp(m.y), buttons |-> m.buttons]
Over(m) == LeftOver(m).x = 0 /\ LeftOver(m).y = 0
Step(m) == Packet(Clamp(m.x), Clamp(m.y), m.buttons)

LEMMA RestFacts ==
  ASSUME NEW m \in Motions
  PROVE  /\ LeftOver(m) \in Motions /\ LeftOver(m).buttons = m.buttons
         /\ LeftOver(m).x = m.x - Clamp(m.x) /\ LeftOver(m).y = m.y - Clamp(m.y)
         /\ Size(m) \in Nat /\ Size(LeftOver(m)) \in Nat
         /\ ~ Over(m) => Size(LeftOver(m)) < Size(m)
         /\ Step(m) \in Seq(Symbols)
<1>1. m.x \in Int /\ m.y \in Int /\ m.buttons \in 0..7
  BY DEF Motions
<1>2. Clamp(m.x) \in Int /\ Clamp(m.y) \in Int
  BY <1>1, ClampFacts
<1>3. /\ LeftOver(m) \in Motions /\ LeftOver(m).buttons = m.buttons
      /\ LeftOver(m).x = m.x - Clamp(m.x) /\ LeftOver(m).y = m.y - Clamp(m.y)
  BY <1>1, <1>2 DEF LeftOver, Motions
<1>4. Size(m) \in Nat /\ Size(LeftOver(m)) \in Nat
  BY <1>1, <1>2, <1>3 DEF Size, Dist
<1>5. Dist(m.x - Clamp(m.x)) <= Dist(m.x) /\ (m.x # 0 => Dist(m.x - Clamp(m.x)) < Dist(m.x))
  BY <1>1, <1>2, ClampFacts DEF Dist
<1>6. Dist(m.y - Clamp(m.y)) <= Dist(m.y) /\ (m.y # 0 => Dist(m.y - Clamp(m.y)) < Dist(m.y))
  BY <1>1, <1>2, ClampFacts DEF Dist
<1>7. ASSUME ~ Over(m) PROVE Size(LeftOver(m)) < Size(m)
  <2>1. m.x # 0 \/ m.y # 0
    BY <1>1, <1>3, <1>7, ClampFacts DEF Over
  <2>2. Dist(m.x) \in Int /\ Dist(m.y) \in Int /\ Dist(m.x - Clamp(m.x)) \in Int /\ Dist(m.y - Clamp(m.y)) \in Int
    BY <1>1, <1>2 DEF Dist
  <2>3. QED
    BY <1>3, <1>5, <1>6, <2>1, <2>2 DEF Size
<1>8. Step(m) \in Seq(Symbols)
  BY <1>1, ClampFacts, PacketType DEF Step
<1>9. QED
  BY <1>3, <1>4, <1>7, <1>8

Encodes(g, m) == Step(m) \o (IF Over(m) THEN <<>> ELSE g[LeftOver(m)])

LEMMA EncodingExists ==
  \E g : g \in [Motions -> Seq(Symbols)] /\ \A m \in Motions : g[m] = Encodes(g, m)
<1> DEFINE V == [Motions -> Seq(Symbols)]
           zero == [m \in Motions |-> <<>>]
           step == [p \in Nat \X V |-> [m \in Motions |-> Encodes(p[2], m)]]
<1>1. ASSUME NEW g \in V, NEW m \in Motions PROVE Encodes(g, m) \in Seq(Symbols)
  <2>1. LeftOver(m) \in Motions /\ Step(m) \in Seq(Symbols)
    BY RestFacts
  <2>2. (IF Over(m) THEN <<>> ELSE g[LeftOver(m)]) \in Seq(Symbols)
    BY <2>1
  <2>3. QED
    BY <2>1, <2>2 DEF Encodes
<1>2. zero \in V
  OBVIOUS
<1>3. step \in [Nat \X V -> V]
  BY <1>1
<1>4. \A n \in Nat : \A g \in V : step[<<n, g>>] = [m \in Motions |-> Encodes(g, m)]
  OBVIOUS
<1> HIDE DEF zero, step, V
<1>5. PICK f : Iterates(f, V, zero, step)
  BY <1>2, <1>3, Recursion
<1>6. f \in [Nat -> V] /\ \A n \in Nat : f[n + 1] = [m \in Motions |-> Encodes(f[n], m)]
  BY <1>4, <1>5 DEF Iterates
<1>7. \A n \in Nat : \A m \in Motions : f[n + 1][m] = Encodes(f[n], m)
  BY <1>6
<1> DEFINE Same(n) == \A m \in Motions : Size(m) < n => f[n + 1][m] = f[n][m]
           S == {n \in Nat : Same(n)}
<1>8. S = Nat
  <2>1. 0 \in S
    BY RestFacts
  <2>2. ASSUME NEW n \in S PROVE n + 1 \in S
    <3>1. n \in Nat /\ n + 1 \in Nat
      OBVIOUS
    <3>2. ASSUME NEW m \in Motions, Size(m) < n + 1 PROVE f[(n + 1) + 1][m] = f[n + 1][m]
      <4>1. f[(n + 1) + 1][m] = Encodes(f[n + 1], m) /\ f[n + 1][m] = Encodes(f[n], m)
        BY <1>7, <3>1
      <4>2. CASE Over(m)
        BY <4>1, <4>2 DEF Encodes
      <4>3. CASE ~ Over(m)
        <5>1. LeftOver(m) \in Motions /\ Size(LeftOver(m)) < n
          BY <3>1, <3>2, <4>3, RestFacts
        <5>2. f[n + 1][LeftOver(m)] = f[n][LeftOver(m)]
          BY <5>1
        <5>3. QED
          BY <4>1, <4>3, <5>2 DEF Encodes
      <4>4. QED
        BY <4>2, <4>3
    <3>3. QED
      BY <3>1, <3>2
  <2>3. S \in SUBSET Nat
    OBVIOUS
  <2> HIDE DEF S
  <2>4. QED
    BY <2>1, <2>2, <2>3, Induction
<1>9. \A n \in Nat : \A m \in Motions : Size(m) < n => f[n + 1][m] = f[n][m]
  BY <1>8
<1> HIDE DEF Same, S
<1>10. ASSUME NEW r \in Motions, NEW k \in Nat, Size(r) + 1 <= k
       PROVE  f[k][r] = f[Size(r) + 1][r]
  <2> DEFINE W == {n \in Nat : Size(r) + 1 <= n => f[n][r] = f[Size(r) + 1][r]}
  <2>1. Size(r) \in Nat
    BY RestFacts
  <2>2. 0 \in W
    BY <2>1
  <2>3. ASSUME NEW n \in W PROVE n + 1 \in W
    <3>1. n \in Nat /\ n + 1 \in Nat
      OBVIOUS
    <3>2. CASE Size(r) + 1 <= n
      <4>1. f[n][r] = f[Size(r) + 1][r]
        BY <3>2
      <4>2. f[n + 1][r] = f[n][r]
        BY <1>9, <2>1, <3>1, <3>2
      <4>3. QED
        BY <3>1, <4>1, <4>2
    <3>3. CASE n + 1 = Size(r) + 1
      BY <3>1, <3>3
    <3>4. CASE n + 1 < Size(r) + 1
      BY <2>1, <3>1, <3>4
    <3>5. QED
      BY <2>1, <3>1, <3>2, <3>3, <3>4
  <2>4. W \in SUBSET Nat
    OBVIOUS
  <2>5. W = Nat
    <3> HIDE DEF W
    <3>1. QED
      BY <2>2, <2>3, <2>4, Induction
  <2>6. QED
    BY <1>10, <2>5
<1> DEFINE F == [m \in Motions |-> f[Size(m) + 1][m]]
<1>11. F \in [Motions -> Seq(Symbols)]
  <2>1. ASSUME NEW m \in Motions PROVE f[Size(m) + 1][m] \in Seq(Symbols)
    <3>1. Size(m) + 1 \in Nat
      BY RestFacts
    <3>2. f[Size(m) + 1] \in V
      BY <1>6, <3>1
    <3>3. QED
      BY <3>2 DEF V
  <2>2. QED
    BY <2>1
<1>12. ASSUME NEW m \in Motions PROVE F[m] = Encodes(F, m)
  <2>1. Size(m) \in Nat
    BY RestFacts
  <2>2. F[m] = Encodes(f[Size(m)], m)
    BY <1>7, <2>1
  <2>3. CASE Over(m)
    BY <2>2, <2>3 DEF Encodes
  <2>4. CASE ~ Over(m)
    <3>1. LeftOver(m) \in Motions /\ Size(LeftOver(m)) \in Nat /\ Size(LeftOver(m)) + 1 <= Size(m)
      BY <2>1, <2>4, RestFacts
    <3>2. f[Size(m)][LeftOver(m)] = f[Size(LeftOver(m)) + 1][LeftOver(m)]
      BY <1>10, <2>1, <3>1
    <3>3. F[LeftOver(m)] = f[Size(LeftOver(m)) + 1][LeftOver(m)]
      BY <3>1
    <3> HIDE DEF F
    <3>4. QED
      BY <2>2, <2>4, <3>2, <3>3 DEF Encodes
  <2>5. QED
    BY <2>3, <2>4
<1> HIDE DEF F
<1>13. QED
  BY <1>11, <1>12

LEMMA EncodeIs ==
  /\ encode_mouse_packets \in [Motions -> Seq(Symbols)]
  /\ \A m \in Motions : encode_mouse_packets[m] = Encodes(encode_mouse_packets, m)
<1>1. PICK g : g \in [Motions -> Seq(Symbols)] /\ \A m \in Motions : g[m] = Encodes(g, m)
  BY EncodingExists
<1>2. g = [m \in Motions |-> Encodes(g, m)]
  BY <1>1
<1>3. encode_mouse_packets = CHOOSE e : e = [m \in Motions |-> Encodes(e, m)]
  BY DEF encode_mouse_packets, Encodes, Step, Over, LeftOver
<1> DEFINE E == encode_mouse_packets
<1>4. E = [m \in Motions |-> Encodes(E, m)]
  BY <1>2, <1>3, Zenon
<1> HIDE DEF E
<1>5. \A m \in Motions : E[m] = Encodes(E, m)
  BY <1>4
<1>6. E = [m \in Motions |-> E[m]]
  <2>1. \A x, y : x = [m \in Motions |-> Encodes(y, m)] => x = [m \in Motions |-> x[m]]
    OBVIOUS
  <2>2. QED
    BY <1>4, <2>1
<1> DEFINE T == {n \in Nat : \A m \in Motions : Size(m) < n => E[m] \in Seq(Symbols)}
<1>7. T = Nat
  <2>1. 0 \in T
    BY RestFacts
  <2>2. ASSUME NEW n \in T PROVE n + 1 \in T
    <3>1. n \in Nat /\ n + 1 \in Nat
      OBVIOUS
    <3>2. ASSUME NEW m \in Motions, Size(m) < n + 1 PROVE E[m] \in Seq(Symbols)
      <4>1. Step(m) \in Seq(Symbols) /\ E[m] = Encodes(E, m)
        BY <1>5, RestFacts
      <4>2. CASE Over(m)
        BY <4>1, <4>2 DEF Encodes
      <4>3. CASE ~ Over(m)
        <5>1. LeftOver(m) \in Motions /\ Size(LeftOver(m)) < n
          BY <3>1, <3>2, <4>3, RestFacts
        <5>2. E[LeftOver(m)] \in Seq(Symbols)
          BY <5>1
        <5>3. QED
          BY <4>1, <4>3, <5>2 DEF Encodes
      <4>4. QED
        BY <4>2, <4>3
    <3>3. QED
      BY <3>1, <3>2
  <2>3. T \in SUBSET Nat
    OBVIOUS
  <2> HIDE DEF T
  <2>4. QED
    BY <2>1, <2>2, <2>3, Induction
<1>8. ASSUME NEW m \in Motions PROVE E[m] \in Seq(Symbols)
  <2>1. Size(m) + 1 \in Nat /\ Size(m) < Size(m) + 1
    BY RestFacts
  <2>2. Size(m) + 1 \in T
    BY <1>7, <2>1
  <2>3. QED
    BY <2>1, <2>2
<1>9. E \in [Motions -> Seq(Symbols)]
  BY <1>6, <1>8
<1>10. QED
  BY <1>5, <1>9 DEF E

-----------------------------------------------------------------------------
(* What the packets of a stream say.                                         *)

Decoded(x, y, b) == [buttons |-> b, x |-> x, y |-> y]

\* A stream of whole packets, n of them.
Whole(stream, n) ==
  /\ stream \in Seq(Symbols) /\ Len(stream) = 3 * n
  /\ PacketsOf(stream) \in Seq(Motions) /\ Len(PacketsOf(stream)) = n
  /\ \A i \in 1..n, axis \in Axes : PacketsOf(stream)[i][axis] \in -LIMIT..LIMIT

Adds(stream, more, m) ==
  \A b \in 0..7, axis \in Axes :
    Sum(PacketsOf(more), axis, b) =
      Sum(PacketsOf(stream), axis, b) + (IF m.buttons = b THEN m[axis] ELSE 0)

LEMMA ByteOfMotion ==
  ASSUME NEW x \in -127..127
  PROVE  Signed(x % 256, x < 0) = x
<1>1. CASE x < 0
  <2>1. x % 256 = x + 256
    BY <1>1
  <2>2. QED
    BY <1>1, <2>1 DEF Signed
<1>2. CASE ~ (x < 0)
  <2>1. x % 256 = x
    BY <1>2
  <2>2. QED
    BY <1>2, <2>1 DEF Signed
<1>3. QED
  BY <1>1, <1>2

LEMMA ConcatAt ==
  ASSUME NEW s \in Seq(Symbols), NEW t \in Seq(Symbols)
  PROVE  /\ \A i \in 1..Len(s) : (s \o t)[i] = s[i]
         /\ \A i \in 1..Len(t) : (s \o t)[Len(s) + i] = t[i]
<1>1. Len(s) \in Nat /\ Len(t) \in Nat
  OBVIOUS
<1>2. \A i \in 1..Len(s) + Len(t) : (s \o t)[i] = IF i <= Len(s) THEN s[i] ELSE t[i - Len(s)]
  BY ConcatProperties
<1> DEFINE st == s \o t
           j == Len(s)
           k == Len(t)
<1> HIDE DEF st, j, k
<1>3. \A i \in 1..j + k : st[i] = IF i <= j THEN s[i] ELSE t[i - j]
  BY <1>2 DEF st, j, k
<1>4. j \in Nat /\ k \in Nat
  BY <1>1 DEF j, k
<1>5. ASSUME NEW i \in 1..j PROVE st[i] = s[i]
  BY <1>3, <1>4
<1>6. ASSUME NEW i \in 1..k PROVE st[j + i] = t[i]
  <2>1. j + i \in 1..j + k /\ ~ (j + i <= j) /\ (j + i) - j = i
    BY <1>4
  <2>2. QED
    BY <1>3, <2>1
<1>7. QED
  BY <1>5, <1>6 DEF st, j, k

LEMMA AppendIs ==
  ASSUME NEW s \in Seq(Motions), NEW m \in Motions
  PROVE  Append(s, m) = [i \in 1..(Len(s) + 1) |-> IF i = Len(s) + 1 THEN m ELSE s[i]]
<1> DEFINE q == Append(s, m)
           n == Len(s)
<1>1. n \in Nat /\ Len(q) = n + 1 /\ q[n + 1] = m /\ \A i \in 1..n : q[i] = s[i]
  BY AppendProperties
<1>2. q = [i \in 1..Len(q) |-> q[i]]
  <2>1. q \in Seq(Motions)
    OBVIOUS
  <2> HIDE DEF q
  <2>2. QED
    BY <2>1
<1> HIDE DEF q, n
<1>3. \A i \in 1..(n + 1) : q[i] = IF i = n + 1 THEN m ELSE s[i]
  BY <1>1
<1>4. q = [i \in 1..(n + 1) |-> q[i]]
  BY <1>1, <1>2, Zenon
<1>5. q = [i \in 1..(n + 1) |-> IF i = n + 1 THEN m ELSE s[i]]
  BY <1>3, <1>4, Zenon
<1>6. QED
  BY <1>5 DEF q, n

\* A packet at the end of the stream says one motion more.
LEMMA PacketSays ==
  ASSUME NEW stream, NEW n \in Nat, Whole(stream, n),
         NEW x \in -LIMIT..LIMIT, NEW y \in -LIMIT..LIMIT, NEW b \in 0..7
  PROVE  /\ PacketsOf(stream \o Packet(x, y, b)) = Append(PacketsOf(stream), Decoded(x, y, b))
         /\ Whole(stream \o Packet(x, y, b), n + 1)
<1> DEFINE P == Packet(x, y, b)
           more == stream \o P
           flags == [buttons |-> b, x_sign |-> x < 0, y_sign |-> y < 0]
           ps == PacketsOf(stream)
           d == Decoded(x, y, b)
<1>1. x \in -127..127 /\ y \in -127..127
  BY InputPortsAssumption
<1>2. P \in Seq(Symbols) /\ Len(P) = 3
  BY <1>1, PacketType
<1>3. P[1] = flags /\ P[2] = x % 256 /\ P[3] = y % 256
  BY DEF Packet
<1>4. flags.buttons = b /\ flags.x_sign = (x < 0) /\ flags.y_sign = (y < 0)
  OBVIOUS
<1>5. stream \in Seq(Symbols) /\ Len(stream) = 3 * n /\ ps \in Seq(Motions) /\ Len(ps) = n
  BY DEF Whole
<1> HIDE DEF P, flags
<1>6. more \in Seq(Symbols) /\ Len(more) = 3 * (n + 1)
  <2>1. more \in Seq(Symbols) /\ Len(more) = Len(stream) + Len(P)
    BY <1>2, <1>5, ConcatProperties
  <2> HIDE DEF more
  <2>2. QED
    BY <1>2, <1>5, <2>1
<1>7. more[3 * n + 1] = flags /\ more[3 * n + 2] = x % 256 /\ more[3 * n + 3] = y % 256
  <2>1. \A i \in 1..3 : more[3 * n + i] = P[i]
    <3>1. \A i \in 1..Len(P) : (stream \o P)[Len(stream) + i] = P[i]
      BY <1>2, <1>5, ConcatAt
    <3>2. QED
      BY <1>2, <1>5, <3>1
  <2> HIDE DEF more
  <2>2. QED
    BY <1>3, <2>1
<1>8. \A i \in 1..(3 * n) : more[i] = stream[i]
  <2>1. \A i \in 1..Len(stream) : (stream \o P)[i] = stream[i]
    BY <1>2, <1>5, ConcatAt
  <2>2. QED
    BY <1>5, <2>1
<1> HIDE DEF more
<1>9. \A s : Len(s) = 3 * n => Len(s) \div 3 = n
  BY SMT
<1>10. Len(more) \div 3 = n + 1
  BY <1>6
<1> DEFINE Entry(s, i) ==
             [buttons |-> s[3 * i - 2].buttons,
              x |-> Signed(s[3 * i - 1], s[3 * i - 2].x_sign),
              y |-> Signed(s[3 * i], s[3 * i - 2].y_sign)]
<1>11. ps = [i \in 1..n |-> Entry(stream, i)]
  BY <1>5, <1>9 DEF PacketsOf
<1>12. PacketsOf(more) = [i \in 1..(n + 1) |-> Entry(more, i)]
  BY <1>10 DEF PacketsOf
<1>13. ASSUME NEW i \in 1..n PROVE Entry(more, i) = Entry(stream, i)
  <2>1. 3 * i - 2 \in 1..(3 * n) /\ 3 * i - 1 \in 1..(3 * n) /\ 3 * i \in 1..(3 * n)
    OBVIOUS
  <2>2. QED
    BY <1>8, <2>1
<1>14. Entry(more, n + 1) = d
  <2>1. 3 * (n + 1) - 2 = 3 * n + 1 /\ 3 * (n + 1) - 1 = 3 * n + 2 /\ 3 * (n + 1) = 3 * n + 3
    OBVIOUS
  <2>2. Signed(x % 256, x < 0) = x /\ Signed(y % 256, y < 0) = y
    BY <1>1, ByteOfMotion
  <2>3. QED
    BY <1>4, <1>7, <2>1, <2>2, Zenon DEF Decoded
<1>15. d \in Motions /\ d.x = x /\ d.y = y
  BY <1>1 DEF Decoded, Motions
<1> HIDE DEF ps, d, Entry
<1>16. Append(ps, d) = [i \in 1..(n + 1) |-> IF i = n + 1 THEN d ELSE ps[i]]
  BY <1>5, <1>15, AppendIs
<1>17. \A i \in 1..(n + 1) : Entry(more, i) = IF i = n + 1 THEN d ELSE ps[i]
  <2>1. TAKE i \in 1..(n + 1)
  <2>2. CASE i = n + 1
    BY <1>14, <2>2
  <2>3. CASE i # n + 1
    <3>1. i \in 1..n
      BY <2>3
    <3>2. ps[i] = Entry(stream, i)
      BY <1>11, <3>1
    <3>3. QED
      BY <1>13, <2>3, <3>1, <3>2
  <2>4. QED
    BY <2>2, <2>3
<1>18. PacketsOf(more) = Append(ps, d)
  BY <1>12, <1>16, <1>17
<1>19. Append(ps, d) \in Seq(Motions) /\ Len(Append(ps, d)) = n + 1
  BY <1>5, <1>15
<1>20. ASSUME NEW i \in 1..(n + 1), NEW axis \in Axes PROVE Append(ps, d)[i][axis] \in -LIMIT..LIMIT
  <2>1. CASE i = n + 1
    <3>1. Append(ps, d)[i] = d
      BY <1>5, <2>1
    <3>2. d["x"] = x /\ d["y"] = y
      BY <1>15
    <3>3. QED
      BY <3>1, <3>2 DEF Axes
  <2>2. CASE i # n + 1
    <3>1. i \in 1..n
      BY <2>2
    <3>2. Append(ps, d)[i] = ps[i]
      BY <1>5, <3>1
    <3>3. ps[i][axis] \in -LIMIT..LIMIT
      BY <3>1 DEF Whole, ps
    <3>4. QED
      BY <3>2, <3>3
  <2>3. QED
    BY <2>1, <2>2
<1>21. Whole(more, n + 1)
  BY <1>6, <1>18, <1>19, <1>20 DEF Whole
<1>22. QED
  BY <1>18, <1>21 DEF more, P, ps, d

\* The packets of a motion add up to it.
EncodesWell(m) ==
  \A stream : \A n \in Nat : Whole(stream, n) =>
    \E k \in Nat : /\ Whole(stream \o encode_mouse_packets[m], k)
                   /\ Adds(stream, stream \o encode_mouse_packets[m], m)

LEMMA MotionEncoded == \A m \in Motions : EncodesWell(m)
<1> DEFINE E == encode_mouse_packets
           S == {n \in Nat : \A m \in Motions : Size(m) < n => EncodesWell(m)}
<1>1. E \in [Motions -> Seq(Symbols)] /\ \A m \in Motions : E[m] = Encodes(E, m)
  BY EncodeIs
<1>2. 0 \in S
  BY RestFacts
<1>3. ASSUME NEW n \in S PROVE n + 1 \in S
  <2>1. n \in Nat /\ n + 1 \in Nat
    OBVIOUS
  <2>2. ASSUME NEW m \in Motions, Size(m) < n + 1 PROVE EncodesWell(m)
    <3> SUFFICES ASSUME NEW stream, NEW j \in Nat, Whole(stream, j)
                 PROVE  \E k \in Nat : /\ Whole(stream \o E[m], k)
                                       /\ Adds(stream, stream \o E[m], m)
      BY DEF EncodesWell
    <3> DEFINE x == Clamp(m.x)
               y == Clamp(m.y)
               s1 == stream \o Step(m)
               d == Decoded(x, y, m.buttons)
    <3>1. m.x \in Int /\ m.y \in Int /\ m.buttons \in 0..7
      BY DEF Motions
    <3>2. x \in -LIMIT..LIMIT /\ y \in -LIMIT..LIMIT /\ x \in -127..127 /\ y \in -127..127
      BY <3>1, ClampFacts
    <3>3. PacketsOf(s1) = Append(PacketsOf(stream), d) /\ Whole(s1, j + 1)
      BY <3>1, <3>2, PacketSays DEF Step
    <3>4. d \in Motions /\ d.x = x /\ d.y = y /\ d.buttons = m.buttons
      BY <3>1, <3>2 DEF Decoded, Motions
    <3>5. PacketsOf(stream) \in Seq(Motions) /\ stream \in Seq(Symbols)
      BY DEF Whole
    <3>6. Step(m) \in Seq(Symbols) /\ LeftOver(m) \in Motions
      BY RestFacts
    <3> HIDE DEF d, s1
    <3>7. ASSUME NEW axis \in Axes, NEW b \in 0..7
          PROVE  /\ Sum(PacketsOf(stream), axis, b) \in Int
                 /\ Sum(PacketsOf(s1), axis, b) =
                      Sum(PacketsOf(stream), axis, b) + (IF m.buttons = b THEN d[axis] ELSE 0)
      BY <3>3, <3>4, <3>5, SumAppend
    <3>8. CASE Over(m)
      <4>1. E[m] = Step(m) \o <<>>
        BY <1>1, <3>8 DEF Encodes
      <4>2. E[m] = Step(m)
        BY <3>6, <4>1
      <4>3. d["x"] = m["x"] /\ d["y"] = m["y"]
        BY <3>1, <3>2, <3>4, <3>8, RestFacts DEF Over
      <4>4. Adds(stream, s1, m)
        BY <3>7, <4>3 DEF Adds, Axes
      <4>5. Whole(s1, j + 1) /\ j + 1 \in Nat
        BY <3>3
      <4>6. stream \o E[m] = s1
        BY <4>2 DEF s1
      <4>7. QED
        BY <4>4, <4>5, <4>6
    <3>9. CASE ~ Over(m)
      <4>1. E[m] = Step(m) \o E[LeftOver(m)]
        BY <1>1, <3>9 DEF Encodes
      <4>2. E[LeftOver(m)] \in Seq(Symbols)
        BY <1>1, <3>6
      <4>3. stream \o E[m] = s1 \o E[LeftOver(m)]
        <5> DEFINE A == stream  B == Step(m)  C == E[LeftOver(m)]
        <5>1. A \in Seq(Symbols) /\ B \in Seq(Symbols) /\ C \in Seq(Symbols)
          BY <3>5, <3>6, <4>2
        <5> HIDE DEF A, B, C
        <5>2. A \o (B \o C) = (A \o B) \o C
          BY <5>1
        <5>3. QED
          BY <4>1, <5>2 DEF A, B, C, s1
      <4>4. Size(LeftOver(m)) < n
        BY <2>1, <2>2, <3>9, RestFacts
      <4>5. EncodesWell(LeftOver(m))
        BY <3>6, <4>4
      <4>6. Whole(s1, j + 1) /\ j + 1 \in Nat
        BY <3>3
      <4>7. PICK k \in Nat : /\ Whole(s1 \o E[LeftOver(m)], k)
                             /\ Adds(s1, s1 \o E[LeftOver(m)], LeftOver(m))
        BY <4>5, <4>6 DEF EncodesWell
      <4> DEFINE s2 == s1 \o E[LeftOver(m)]
      <4> HIDE DEF s2
      <4>8. LeftOver(m).x + d.x = m.x /\ LeftOver(m).y + d.y = m.y /\ LeftOver(m).buttons = m.buttons
        BY <3>1, <3>2, <3>4, RestFacts
      <4>9. ASSUME NEW axis \in Axes, NEW b \in 0..7
            PROVE  Sum(PacketsOf(s2), axis, b) =
                     Sum(PacketsOf(stream), axis, b) + (IF m.buttons = b THEN m[axis] ELSE 0)
        <5>1. Sum(PacketsOf(s2), axis, b) =
                Sum(PacketsOf(s1), axis, b) + (IF m.buttons = b THEN LeftOver(m)[axis] ELSE 0)
          BY <4>7, <4>8 DEF Adds, s2
        <5>2. /\ LeftOver(m)[axis] \in Int /\ d[axis] \in Int /\ m[axis] \in Int
              /\ LeftOver(m)[axis] + d[axis] = m[axis]
          <6>1. /\ LeftOver(m)["x"] \in Int /\ d["x"] \in Int /\ m["x"] \in Int
                /\ LeftOver(m)["x"] + d["x"] = m["x"]
            BY <3>1, <3>2, <3>4, <3>6, <4>8 DEF Motions
          <6>2. /\ LeftOver(m)["y"] \in Int /\ d["y"] \in Int /\ m["y"] \in Int
                /\ LeftOver(m)["y"] + d["y"] = m["y"]
            BY <3>1, <3>2, <3>4, <3>6, <4>8 DEF Motions
          <6>3. QED
            BY <6>1, <6>2 DEF Axes
        <5>3. /\ Sum(PacketsOf(stream), axis, b) \in Int
              /\ Sum(PacketsOf(s1), axis, b) =
                   Sum(PacketsOf(stream), axis, b) + (IF m.buttons = b THEN d[axis] ELSE 0)
          BY <3>7
        <5>4. QED
          BY <5>1, <5>2, <5>3
      <4>10. Adds(stream, s2, m)
        BY <4>9 DEF Adds
      <4>11. Whole(s2, k) /\ stream \o E[m] = s2
        BY <4>3, <4>7 DEF s2
      <4>12. QED
        BY <4>10, <4>11
    <3>10. QED
      BY <3>8, <3>9
  <2>3. QED
    BY <2>1, <2>2
<1>4. S \in SUBSET Nat
  OBVIOUS
<1>5. S = Nat
  <2> HIDE DEF S
  <2>1. QED
    BY <1>2, <1>3, <1>4, Induction
<1>6. ASSUME NEW m \in Motions PROVE EncodesWell(m)
  <2>1. Size(m) + 1 \in Nat /\ Size(m) < Size(m) + 1
    BY RestFacts
  <2>2. Size(m) + 1 \in S
    BY <1>5, <2>1
  <2>3. QED
    BY <2>1, <2>2
<1>7. QED
  BY <1>6

-----------------------------------------------------------------------------
(* What the mouse's port was given and what is still queued.                 *)

MouseInv ==
  /\ mouse \in [queue : Seq(Symbols), since : Nat, got : Seq(Symbols)]
  /\ moved \in Seq(Motions)
  /\ \E n \in Nat : Whole(Stream, n)
  /\ \A b \in 0..7, axis \in Axes : Sum(PacketsOf(Stream), axis, b) = Sum(moved, axis, b)

LEMMA MouseInit == Init => MouseInv
<1> SUFFICES ASSUME Init PROVE MouseInv
  OBVIOUS
<1>1. mouse = [queue |-> <<>>, since |-> 0, got |-> <<>>] /\ moved = <<>>
  BY DEF Init
<1>2. mouse \in [queue : Seq(Symbols), since : Nat, got : Seq(Symbols)] /\ moved \in Seq(Motions)
  BY <1>1
<1>3. Stream = <<>>
  BY <1>1 DEF Stream
<1>4. PacketsOf(<<>>) = <<>>
  <2>1. Len(<<>>) \div 3 = 0 /\ 1..0 = {}
    OBVIOUS
  <2>2. QED
    BY <2>1 DEF PacketsOf
<1>5. Whole(<<>>, 0)
  <2>1. /\ <<>> \in Seq(Symbols) /\ Len(<<>>) = 3 * 0 /\ <<>> \in Seq(Motions) /\ Len(<<>>) = 0
        /\ 1..0 = {}
    OBVIOUS
  <2>2. QED
    BY <1>4, <2>1 DEF Whole
<1>6. QED
  BY <1>1, <1>2, <1>3, <1>4, <1>5 DEF MouseInv

\* The bytes go from the queue to the port one by one, in order.
LEMMA MouseMoves ==
  ASSUME MouseInv, UNCHANGED moved, Stream' = Stream,
         mouse' \in [queue : Seq(Symbols), since : Nat, got : Seq(Symbols)]
  PROVE  MouseInv'
<1>1. (\E n \in Nat : Whole(Stream, n))'
  BY DEF MouseInv, Whole
<1>2. (\A b \in 0..7, axis \in Axes : Sum(PacketsOf(Stream), axis, b) = Sum(moved, axis, b))'
  BY DEF MouseInv
<1>3. QED
  BY <1>1, <1>2 DEF MouseInv

LEMMA HeadThenTail ==
  ASSUME NEW got \in Seq(Symbols), NEW queue \in Seq(Symbols), queue # <<>>
  PROVE  /\ Append(got, Head(queue)) \o Tail(queue) = got \o queue
         /\ Append(got, Head(queue)) \in Seq(Symbols) /\ Tail(queue) \in Seq(Symbols)
<1>1. Head(queue) \in Symbols /\ Tail(queue) \in Seq(Symbols) /\ queue = <<Head(queue)>> \o Tail(queue)
  OBVIOUS
<1> DEFINE h == Head(queue)  t == Tail(queue)
<1>2. Append(got, h) = got \o <<h>>
  BY <1>1
<1> HIDE DEF h, t
<1>3. h \in Symbols /\ t \in Seq(Symbols) /\ queue = <<h>> \o t
  BY <1>1 DEF h, t
<1>4. (got \o <<h>>) \o t = got \o (<<h>> \o t)
  BY <1>3
<1>5. QED
  BY <1>2, <1>3, <1>4 DEF h, t

LEMMA MousePre == MouseInv /\ Pre => MouseInv'
<1> SUFFICES ASSUME MouseInv, Pre PROVE MouseInv'
  OBVIOUS
<1>1. mouse.queue \in Seq(Symbols) /\ mouse.got \in Seq(Symbols) /\ mouse.since \in Nat
  BY DEF MouseInv
<1>2. MouseSendPre /\ UNCHANGED moved
  BY DEF Pre
<1>3. CASE mouse.since > MOUSE_GAP /\ mouse.queue # <<>>
  <2>1. mouse' = [queue |-> Tail(mouse.queue), since |-> 0,
                  got |-> Append(mouse.got, Head(mouse.queue))]
    BY <1>2, <1>3 DEF MouseSendPre
  <2>2. mouse' \in [queue : Seq(Symbols), since : Nat, got : Seq(Symbols)]
    BY <1>1, <1>3, <2>1, HeadThenTail
  <2>3. Stream' = Stream
    BY <1>1, <1>3, <2>1, HeadThenTail DEF Stream
  <2>4. QED
    BY <1>2, <2>2, <2>3, MouseMoves
<1>4. CASE ~ (mouse.since > MOUSE_GAP /\ mouse.queue # <<>>)
  <2>1. mouse' = mouse
    BY <1>2, <1>4 DEF MouseSendPre
  <2>2. mouse' \in [queue : Seq(Symbols), since : Nat, got : Seq(Symbols)]
    BY <2>1 DEF MouseInv
  <2>3. Stream' = Stream
    BY <2>1 DEF Stream
  <2>4. QED
    BY <1>2, <2>2, <2>3, MouseMoves
<1>5. QED
  BY <1>3, <1>4

LEMMA MousePost == MouseInv /\ KeyboardObservePost => MouseInv'
<1> SUFFICES ASSUME MouseInv, KeyboardObservePost PROVE MouseInv'
  OBVIOUS
<1>1. mouse' = [mouse EXCEPT !.since = Later(@, MOUSE_GAP)] /\ UNCHANGED moved
  BY DEF KeyboardObservePost
<1>2. mouse.since \in Nat /\ MOUSE_GAP \in Nat
  BY InputPortsAssumption DEF MouseInv
<1>3. Later(mouse.since, MOUSE_GAP) \in Nat
  BY <1>2 DEF Later
<1>4. mouse' \in [queue : Seq(Symbols), since : Nat, got : Seq(Symbols)]
  BY <1>1, <1>3 DEF MouseInv
<1>5. Stream' = Stream
  BY <1>1 DEF Stream, MouseInv
<1>6. QED
  BY <1>1, <1>4, <1>5, MouseMoves

LEMMA MouseQueued ==
  ASSUME MouseInv, NEW m \in Moves, QueueMouse(m)
  PROVE  MouseInv'
<1> DEFINE E == encode_mouse_packets[m]
<1>1. m \in Motions
  BY InputPortsAssumption DEF Motions
<1>2. E \in Seq(Symbols)
  BY <1>1, EncodeIs
<1>3. moved' = Append(moved, m) /\ mouse' = [mouse EXCEPT !.queue = @ \o E]
  BY DEF QueueMouse
<1>4. /\ mouse.queue \in Seq(Symbols) /\ mouse.got \in Seq(Symbols) /\ mouse.since \in Nat
      /\ moved \in Seq(Motions)
  BY DEF MouseInv
<1>5. EncodesWell(m)
  BY <1>1, MotionEncoded
<1>6. PICK n \in Nat : Whole(Stream, n)
  BY DEF MouseInv
<1>7. PICK k \in Nat : Whole(Stream \o E, k) /\ Adds(Stream, Stream \o E, m)
  BY <1>5, <1>6 DEF EncodesWell
<1> HIDE DEF E
<1>8. Stream' = Stream \o E
  <2>1. mouse'.got = mouse.got /\ mouse'.queue = mouse.queue \o E
    BY <1>3 DEF MouseInv
  <2> DEFINE g == mouse.got  q == mouse.queue
  <2>2. g \in Seq(Symbols) /\ q \in Seq(Symbols)
    BY <1>4
  <2>3. Stream' = g \o (q \o E) /\ Stream = g \o q
    BY <2>1 DEF Stream
  <2> HIDE DEF g, q
  <2>4. g \o (q \o E) = (g \o q) \o E
    BY <1>2, <2>2
  <2>5. QED
    BY <2>3, <2>4
<1>9. mouse' \in [queue : Seq(Symbols), since : Nat, got : Seq(Symbols)]
  <2>1. mouse.queue \o E \in Seq(Symbols)
    BY <1>2, <1>4
  <2>2. QED
    BY <1>3, <2>1 DEF MouseInv
<1>10. moved' \in Seq(Motions)
  BY <1>1, <1>3, <1>4
<1>11. (\E j \in Nat : Whole(Stream, j))'
  <2>1. Whole(Stream', k)
    BY <1>7, <1>8
  <2>2. QED
    BY <2>1 DEF Whole
<1>12. ASSUME NEW b \in 0..7, NEW axis \in Axes
       PROVE  Sum(PacketsOf(Stream'), axis, b) = Sum(moved', axis, b)
  <2>1. Sum(PacketsOf(Stream'), axis, b) =
          Sum(PacketsOf(Stream), axis, b) + (IF m.buttons = b THEN m[axis] ELSE 0)
    BY <1>7, <1>8 DEF Adds
  <2>2. Sum(moved', axis, b) = Sum(moved, axis, b) + (IF m.buttons = b THEN m[axis] ELSE 0)
    BY <1>1, <1>3, <1>4, SumAppend
  <2>3. Sum(PacketsOf(Stream), axis, b) = Sum(moved, axis, b)
    BY DEF MouseInv
  <2>4. QED
    BY <2>1, <2>2, <2>3
<1>13. (\A b \in 0..7, axis \in Axes : Sum(PacketsOf(Stream), axis, b) = Sum(moved, axis, b))'
  BY <1>12 DEF Sum, Sums, Amount, PacketsOf
<1>14. QED
  BY <1>9, <1>10, <1>11, <1>13 DEF MouseInv

LEMMA MouseInductive == MouseInv /\ [Next]_vars => MouseInv'
<1> SUFFICES ASSUME MouseInv, [Next]_vars PROVE MouseInv'
  OBVIOUS
<1>1. CASE \E m \in Moves : QueueMouse(m)
  BY <1>1, MouseQueued
<1>2. CASE Pre
  BY <1>2, MousePre
<1>3. CASE KeyboardObservePost
  BY <1>3, MousePost
<1>4. CASE UNCHANGED <<mouse, moved>>
  <2>1. Stream' = Stream /\ mouse' \in [queue : Seq(Symbols), since : Nat, got : Seq(Symbols)]
    BY <1>4 DEF Stream, MouseInv
  <2>2. QED
    BY <1>4, <2>1, MouseMoves
<1>5. QED
  BY <1>1, <1>2, <1>3, <1>4 DEF Next, vars, QueueKey, Edge

\* The packets that the mouse's port was given and those still queued add up to the motions asked
\* for, button state by button state, and none is larger than a packet can tell, for motions of
\* any size, any number of them, any largest step and any pace (encode_mouse_packets and
\* mouse_send_pre in main.cpp).
THEOREM NoMotionLost == Spec => []MotionConserved
<1>1. MouseInv => MotionConserved
  <2> SUFFICES ASSUME MouseInv PROVE MotionConserved
    OBVIOUS
  <2>1. PICK n \in Nat : Whole(Stream, n)
    BY DEF MouseInv
  <2>2. Len(Stream) = 3 * n /\ PacketsOf(Stream) \in Seq(Motions) /\ Len(PacketsOf(Stream)) = n
    BY <2>1 DEF Whole
  <2>3. Len(Stream) % 3 = 0
    BY <2>2
  <2>4. DOMAIN PacketsOf(Stream) = 1..n
    BY <2>2
  <2>5. \A i \in DOMAIN PacketsOf(Stream), axis \in {"x", "y"} :
          PacketsOf(Stream)[i][axis] \in -LIMIT..LIMIT
    BY <2>1, <2>4 DEF Whole, Axes
  <2>6. \A b \in 0..7, axis \in {"x", "y"} : Sum(PacketsOf(Stream), axis, b) = Sum(moved, axis, b)
    BY DEF MouseInv, Axes
  <2>7. QED
    BY <2>3, <2>5, <2>6 DEF MotionConserved
<1>2. QED
  BY <1>1, MouseInit, MouseInductive, PTL DEF Spec

-----------------------------------------------------------------------------
(* The disk's software and the controller, which share the block buffer.      *)

\* The states in which the software works on what it has been asked for: it has the
\* buffer and has not yet written a status.
Working == {"GET_CMD", "DO_CMD", "SEND_ID", "READ", "READ_REGS", "READ_SEND", "WRITE", "WRITE_REGS",
            "WRITE_RECV", "PACKET_RECV", "PACKET_HANDLE", "PACKET_SEND"}
Sending == {"SET_REGS", "SET_REGS_SEND"}

\* What is asked for, and whoever works on it, excludes the data request; after a
\* status the software waits.
BufferInv ==
  /\ {"state", "next"} \subseteq DOMAIN hps /\ DOMAIN bus = {"op", "addr", "data"}
  /\ ide.request # "none" => ~drq
  /\ hps.state \in Working => ~drq
  /\ hps.state \in Sending => hps.next \notin Working \cup Sending
  /\ hps.state = "GET_CMD" => bus.addr \in 0..5

\* What a tick does to the members that BufferInv is about.
Orderly ==
  /\ {"state", "next"} \subseteq DOMAIN hps' /\ DOMAIN bus' = {"op", "addr", "data"}
  /\ hps'.state \in Working => ~drq /\ ~mgmt_wr(5)
  /\ hps'.state \in Sending => hps'.next \notin Working \cup Sending
  /\ hps'.state = "GET_CMD" => bus'.addr \in 0..5
  /\ bus'.op # "none" /\ bus'.addr = 15 => ~drq

\* Only the status that the software writes raises the data request, and it takes the
\* request back.
LEMMA PortKeeps ==
  ASSUME ide' = NextIde, ide.request # "none" => ~drq
  PROVE  /\ ide'.request # "none" => ~drq'
         /\ ~drq /\ ~mgmt_wr(5) => ~drq'
<1>1. ide'.request = NextRequest /\ ide'.status = NextStatus
  BY DEF NextIde
<1>2. "DRQ" \notin {"BSY"} /\ "DRQ" \notin {"RDY"}
  OBVIOUS
<1> DEFINE free == ide.request = "none"
<1>3. CASE reset
  BY <1>1, <1>2, <1>3 DEF NextStatus, drq
<1>4. CASE ~reset /\ mgmt_wr(5)
  BY <1>1, <1>4 DEF NextRequest
<1>5. CASE ~reset /\ ~mgmt_wr(5) /\ io_wr(7)
  BY <1>1, <1>2, <1>5 DEF NextStatus, drq
<1>6. CASE ~reset /\ ~mgmt_wr(5) /\ ~io_wr(7) /\ BlockEnds
  BY <1>1, <1>2, <1>6 DEF NextStatus, drq
<1>7. CASE ~reset /\ ~mgmt_wr(5) /\ ~io_wr(7) /\ ~BlockEnds
  BY <1>1, <1>7 DEF NextStatus, NextRequest, drq
<1>8. QED
  BY <1>3, <1>4, <1>5, <1>6, <1>7

\* What a command makes of the software.
Proceeds(h) ==
  /\ {"state", "next"} \subseteq DOMAIN h
  /\ h.state \in Working \cup Sending /\ h.state # "GET_CMD"
  /\ h.state \in Sending => h.next \notin Working \cup Sending

LEMMA Ending ==
  ASSUME NEW h, {"state", "next"} \subseteq DOMAIN h, NEW regs, NEW bits
  PROVE  Proceeds(Ends(h, regs, bits))
  BY DEF Ends, Proceeds, Working, Sending

LEMMA Refusing ==
  ASSUME NEW h, {"state", "next"} \subseteq DOMAIN h, NEW regs
  PROVE  Proceeds(Fails(h, regs))
  BY Ending DEF Fails

LEMMA Identifying ==
  ASSUME NEW h, {"state", "next"} \subseteq DOMAIN h, NEW regs
  PROVE  Proceeds(Identifies(h, regs))
  BY DEF Identifies, Proceeds, Working, Sending

LEMMA Finishing ==
  ASSUME NEW h, {"state", "next"} \subseteq DOMAIN h, NEW key
  PROVE  Proceeds(finish_packet(h, key))
<1> DEFINE g == [h EXCEPT !.sense = key]
<1>1. {"state", "next"} \subseteq DOMAIN g
  OBVIOUS
<1> HIDE DEF g
<1>2. QED
  BY <1>1, Ending DEF finish_packet, g

LEMMA SendingData ==
  ASSUME NEW h, {"state", "next"} \subseteq DOMAIN h, NEW data
  PROVE  /\ Proceeds(send_packet_data(h, data))
         /\ DOMAIN send_packet_data(h, data) = DOMAIN h
  BY DEF send_packet_data, Proceeds, Working, Sending

LEMMA Preparing ==
  ASSUME NEW h, {"state", "next"} \subseteq DOMAIN h
  PROVE  Proceeds(prepare_cdrom_read(h))
<1> DEFINE n == Least({h.pleft, Burst} \cup IF h.plimit >= Words THEN {h.plimit \div Words} ELSE {})
           g == [h EXCEPT !.plba = @ + n, !.pleft = @ - n]
           data == [i \in 1..(n * Words) |-> image[h.plba + (i - 1) \div Words][1 + ((i - 1) % Words)]]
<1>1. {"state", "next"} \subseteq DOMAIN g
  OBVIOUS
<1>2. prepare_cdrom_read(h) \in
        {finish_packet(h, 0), finish_packet(h, 5), send_packet_data(g, data)}
  BY DEF prepare_cdrom_read
<1> HIDE DEF n, g, data
<1>3. QED
  BY <1>1, <1>2, Finishing, SendingData

LEMMA HandlingPacket ==
  ASSUME NEW h, {"state", "next"} \subseteq DOMAIN h
  PROVE  Proceeds(handle_packet(h))
<1> DEFINE p == h.packet
           op == IF p[1][1] = "op" THEN p[1][2] ELSE "OTHER"
           sense == send_packet_data(h, Answer(h, op, p[3][2]))
           answered == [sense EXCEPT !.sense = 0]
           g == [h EXCEPT !.plba = p[2][2], !.pleft = p[3][2]]
<1>1. {"state", "next"} \subseteq DOMAIN g
  OBVIOUS
<1>2. handle_packet(h) \in
        {finish_packet(h, 0), finish_packet(h, 5), sense, answered, prepare_cdrom_read(g)}
  BY DEF handle_packet
<1>3. Proceeds(sense) /\ DOMAIN sense = DOMAIN h
  BY SendingData
<1> HIDE DEF sense, g
<1>4. Proceeds(answered)
  BY <1>3 DEF Proceeds
<1> HIDE DEF answered
<1>5. QED
  BY <1>1, <1>2, <1>3, <1>4, Finishing, Preparing

LEMMA HandlingCd ==
  ASSUME NEW h, {"state", "next"} \subseteq DOMAIN h
  PROVE  Proceeds(handle_cdrom_cmd(h))
<1> DEFINE fresh == [h EXCEPT !.state = "SET_REGS", !.next = "IDLE",
                   !.regs = [h.regs EXCEPT !.error = 1, !.count = 1, !.sector = 1, !.head = 0,
                                           !.cylinder = Signature, !.psize = 0, !.status = {}]]
           packet == [h EXCEPT !.state = "SET_REGS", !.next = "PACKET_WAIT_REQ",
                   !.plimit = IF h.regs.cylinder = 0 THEN Burst * Words ELSE h.regs.cylinder,
                   !.regs = [h.regs EXCEPT !.psize = PacketWords, !.count = 1, !.error = 0,
                                           !.status = {"RDY", "DRQ"}]]
           blank == [PowerOnRegs EXCEPT !.drv = h.regs.drv]
           r1 == [blank EXCEPT !.psize = Words]
           r2 == [h.regs EXCEPT !.error = 0]
           r3 == [h.regs EXCEPT !.count = 1, !.sector = 1, !.cylinder = Signature]
<1>1. Proceeds(fresh) /\ Proceeds(packet)
  BY DEF Proceeds, Working, Sending
<1>2. handle_cdrom_cmd(h) \in
        {Identifies(h, r1), finish_packet(h, 5), packet, fresh, Ends(h, r2, {"IRQ"}),
         Fails(h, r3)}
  <2> HIDE DEF packet, fresh
  <2> QED BY Zenon DEF handle_cdrom_cmd, packet, fresh
<1> HIDE DEF fresh, packet, r1, r2, r3
<1>3. QED
  BY <1>1, <1>2, Identifying, Finishing, Ending, Refusing

LEMMA HandlingAta ==
  ASSUME NEW h, {"state", "next"} \subseteq DOMAIN h
  PROVE  Proceeds(handle_ata_cmd(h))
<1> DEFINE regs == IF h.cmd \in {"READ", "WRITE"} /\ h.regs.count = 0
              THEN [h.regs EXCEPT !.count = Radix] ELSE h.regs
           begins == [h EXCEPT !.state = h.cmd, !.regs = regs]
           r1 == [PowerOnRegs EXCEPT !.drv = regs.drv, !.size = 1]
           g == [h EXCEPT !.geometry = SetGeometry(regs.count, regs.head + 1)]
           r2 == [regs EXCEPT !.cylinder = 0]
<1>1. h.cmd \in {"READ", "WRITE"} => Proceeds(begins)
  BY DEF Proceeds, Working, Sending
<1>2. \/ handle_ata_cmd(h) \in
           {Identifies(h, r1), Ends(g, regs, {"IRQ"}), Ends(h, r2, {"IRQ"}),
                                Ends(h, regs, {"IRQ"}), Fails(h, regs)}
      \/ h.cmd \in {"READ", "WRITE"} /\ handle_ata_cmd(h) = begins
  BY Zenon DEF handle_ata_cmd
<1>3. {"state", "next"} \subseteq DOMAIN g
  OBVIOUS
<1> HIDE DEF regs, begins, r1, g, r2
<1>4. QED
  BY <1>1, <1>2, <1>3, Identifying, Ending, Refusing

LEMMA Handling ==
  ASSUME NEW h, {"state", "next"} \subseteq DOMAIN h
  PROVE  Proceeds(handle_cmd(h))
<1>1. handle_cmd(h) \in {Fails(h, h.regs), handle_cdrom_cmd(h), handle_ata_cmd(h)}
  BY DEF handle_cmd
<1>2. QED
  BY <1>1, Refusing, HandlingCd, HandlingAta

-----------------------------------------------------------------------------
LEMMA Cleaning ==
  ASSUME NEW h, {"state", "next"} \subseteq DOMAIN h
  PROVE  /\ {"state", "next"} \subseteq DOMAIN Cleared(h)
         /\ Cleared(h).state = h.state /\ Cleared(h).next = h.next
  BY DEF Cleared

\* A tick that leaves the bus alone and works on, or waits.
LEMMA Cleared_Bus ==
  ASSUME BufferInv, NEW h, clear_bus(h), {"state", "next"} \subseteq DOMAIN h,
         h.state \in Working => ~drq,
         h.state \in Sending => h.next \notin Working \cup Sending,
         h.state = "GET_CMD" => bus.addr \in 0..5
  PROVE  Orderly
<1>1. hps' = h /\ bus'.op = "none" /\ bus'.addr = bus.addr /\ DOMAIN bus' = {"op", "addr", "data"}
  BY DEF clear_bus, BufferInv
<1>2. QED
  BY <1>1 DEF Orderly, mgmt_wr

\* A tick that uses the bus.
LEMMA Used_Bus ==
  ASSUME BufferInv, NEW op, NEW addr, NEW data, NEW h, Uses(op, addr, data, h),
         {"state", "next"} \subseteq DOMAIN h,
         h.state \in Working => ~drq /\ ~(op = "write" /\ addr = 5),
         h.state \in Sending => h.next \notin Working \cup Sending,
         h.state = "GET_CMD" => addr \in 0..5,
         addr = 15 => ~drq
  PROVE  Orderly
<1> DEFINE g == [h EXCEPT !.rest = TRUE]
<1>1. hps' = g /\ bus' = [op |-> op, addr |-> addr, data |-> data]
  BY DEF Uses
<1>2. {"state", "next"} \subseteq DOMAIN g /\ g.state = h.state /\ g.next = h.next
  OBVIOUS
<1> HIDE DEF g
<1>3. bus'.op = op /\ bus'.addr = addr /\ DOMAIN bus' = {"op", "addr", "data"}
  BY <1>1
<1>4. QED
  BY <1>1, <1>2, <1>3 DEF Orderly, mgmt_wr

\* The case of a tick that does what the action of its state does.
LEMMA Proceeding ==
  ASSUME BufferInv, NEW h, Proceeds(h), ~drq, clear_bus(h)
  PROVE  Orderly
  BY Cleared_Bus DEF Proceeds

LEMMA Waiting ==
  ASSUME BufferInv, NEW state, state \notin Working \cup Sending, NEW next, Waits(state, next),
         {"state", "next"} \subseteq DOMAIN next,
         next.state \in Sending => next.next \notin Working \cup Sending,
         next.state # "GET_CMD"
  PROVE  Orderly
<1>1. hps.state = state
  BY DEF Waits, In
<1>2. CASE ide.request = "data"
  <2>1. clear_bus(next) /\ ~drq
    BY <1>2, Zenon DEF Waits, BufferInv
  <2>2. QED
    BY <2>1, Cleared_Bus
<1>3. CASE ide.request = "none"
  <2>1. clear_bus(hps)
    BY <1>3 DEF Waits
  <2>2. QED
    BY <1>1, <2>1, Cleared_Bus DEF BufferInv, Working
<1>4. CASE ide.request \notin {"data", "none"}
  <2> DEFINE idle == [hps EXCEPT !.state = "IDLE"]
  <2>1. clear_bus(Cleared(idle))
    BY <1>4 DEF Waits
  <2>2. {"state", "next"} \subseteq DOMAIN idle /\ idle.state = "IDLE"
    BY DEF BufferInv
  <2> HIDE DEF idle
  <2>3. QED
    BY <2>1, <2>2, Cleaning, Cleared_Bus DEF Working, Sending
<1>5. QED
  BY <1>2, <1>3, <1>4

LEMMA OrderlyStep == BufferInv /\ DiskNext => Orderly
<1> SUFFICES ASSUME BufferInv, DiskNext PROVE Orderly
  OBVIOUS
<1> USE DEF Working, Sending
<1>f. {"state", "next"} \subseteq DOMAIN hps
  BY DEF BufferInv
<1>1. CASE Rest
  <2>1. PICK more \in BOOLEAN : clear_bus([hps EXCEPT !.rest = more])
    BY <1>1 DEF Rest
  <2>2. QED
    BY <2>1, <1>f, Cleared_Bus DEF BufferInv
<1>2. CASE INITIAL
  <2> DEFINE g == [hps EXCEPT !.state = "IDLE"]
  <2>1. Uses("write", 6, <<"present", TRUE, 0>>, g)
    BY <1>2 DEF INITIAL, pulse_write
  <2>2. {"state", "next"} \subseteq DOMAIN g /\ g.state = "IDLE"
    BY <1>f
  <2> HIDE DEF g
  <2>3. QED
    BY <2>1, <2>2, Used_Bus
<1>3. CASE IDLE
  <2>1. CASE ide.request = "command"
    <3> DEFINE g == [hps EXCEPT !.state = "GET_CMD"]
    <3>1. Uses("read", 0, Nothing, g)
      BY <1>3, <2>1 DEF IDLE, pulse_read
    <3>2. {"state", "next"} \subseteq DOMAIN g /\ g.state = "GET_CMD" /\ ~drq
      BY <1>f, <2>1 DEF BufferInv
    <3> HIDE DEF g
    <3>3. QED
      BY <3>1, <3>2, Used_Bus
  <2>2. CASE ide.request = "reset"
    <3> DEFINE g == [hps EXCEPT !.state = "GET_RESET_DRIVE"]
    <3>1. Uses("read", 5, Nothing, g)
      BY <1>3, <2>2 DEF IDLE, pulse_read
    <3>2. {"state", "next"} \subseteq DOMAIN g /\ g.state = "GET_RESET_DRIVE"
      BY <1>f
    <3> HIDE DEF g
    <3>3. QED
      BY <3>1, <3>2, Used_Bus
  <2>3. CASE ide.request \notin {"command", "reset"}
    <3>1. clear_bus(hps) /\ hps.state = "IDLE"
      BY <1>3, <2>3 DEF IDLE, In
    <3>2. QED
      BY <3>1, <1>f, Cleared_Bus
  <2>4. QED
    BY <2>1, <2>2, <2>3
<1>4. CASE GET_RESET_DRIVE
  <2> DEFINE addr == mgmt_readdata[3]
             g == [hps EXCEPT !.state = "SET_REGS", !.next = "RESET_SET",
       !.regs = [@ EXCEPT !.drv = addr.drv, !.lba = addr.lba, !.head = 0, !.sector = 1, !.count = 1,
                          !.error = IF scenario.cdrom THEN 1 ELSE 0,
                          !.cylinder = IF addr.drv # 0 THEN Absent
                                       ELSE IF scenario.cdrom THEN Signature ELSE 0,
                          !.status = IF scenario.cdrom THEN {} ELSE {"RDY"}]]
  <2>1. clear_bus(g)
    BY <1>4 DEF GET_RESET_DRIVE
  <2>2. {"state", "next"} \subseteq DOMAIN g /\ g.state = "SET_REGS" /\ g.next = "RESET_SET"
    BY <1>f
  <2> HIDE DEF g
  <2>3. QED
    BY <2>1, <2>2, Cleared_Bus
<1>5. CASE RESET_SET
  <2> DEFINE g == [hps EXCEPT !.state = "IDLE"]
  <2>1. clear_bus(Cleared(g))
    BY <1>5 DEF RESET_SET
  <2>2. {"state", "next"} \subseteq DOMAIN g /\ g.state = "IDLE"
    BY <1>f
  <2> HIDE DEF g
  <2>3. QED
    BY <2>1, <2>2, Cleaning, Cleared_Bus
<1>6. CASE GET_CMD
  <2> DEFINE d == mgmt_readdata
             g0 == [hps EXCEPT !.features = d[2]]
             g1 == [hps EXCEPT !.args.count = d[2], !.args.sector = d[3]]
             g2 == [hps EXCEPT !.args.cylinder = d[2]]
             g5 == [hps EXCEPT !.state = "DO_CMD", !.cmd = d[2],
              !.regs = [@ EXCEPT !.count = hps.args.count, !.sector = hps.args.sector,
                                 !.cylinder = hps.args.cylinder, !.head = d[3].head,
                                 !.drv = d[3].drv, !.lba = d[3].lba]]
  <2>1. hps.state = "GET_CMD" /\ bus.addr \in {0, 1, 2, 3, 4, 5} /\ ~drq
    BY <1>6 DEF GET_CMD, In, BufferInv
  <2>2. \A g \in {g0, g1, g2} : {"state", "next"} \subseteq DOMAIN g /\ g.state = "GET_CMD"
    BY <2>1, <1>f
  <2>3. {"state", "next"} \subseteq DOMAIN g5 /\ g5.state = "DO_CMD"
    BY <1>f
  <2>4. \/ clear_bus(g5)
        \/ Uses("read", 1, Nothing, g0) \/ Uses("read", 2, Nothing, g1)
        \/ Uses("read", 3, Nothing, g2)
        \/ Uses("read", 4, Nothing, hps) \/ Uses("read", 5, Nothing, hps)
    <3> HIDE DEF g0, g1, g2, g5
    <3>0. CASE bus.addr = 0
      BY <1>6, <3>0 DEF GET_CMD, pulse_read, g0
    <3>1. CASE bus.addr = 1
      BY <1>6, <3>1 DEF GET_CMD, pulse_read, g1
    <3>2. CASE bus.addr = 2
      BY <1>6, <3>2 DEF GET_CMD, pulse_read, g2
    <3>3. CASE bus.addr = 3
      BY <1>6, <3>3 DEF GET_CMD, pulse_read
    <3>4. CASE bus.addr = 4
      BY <1>6, <3>4 DEF GET_CMD, pulse_read
    <3>5. CASE bus.addr = 5
      BY <1>6, <3>5 DEF GET_CMD, g5
    <3>6. QED
      BY <2>1, <3>0, <3>1, <3>2, <3>3, <3>4, <3>5
  <2> HIDE DEF g0, g1, g2, g5
  <2>5. CASE clear_bus(g5)
    BY <2>1, <2>3, <2>5, Cleared_Bus
  <2>6. CASE Uses("read", 1, Nothing, g0)
    BY <2>1, <2>2, <2>6, Used_Bus
  <2>7. CASE Uses("read", 2, Nothing, g1)
    BY <2>1, <2>2, <2>7, Used_Bus
  <2>8. CASE Uses("read", 3, Nothing, g2)
    BY <2>1, <2>2, <2>8, Used_Bus
  <2>9. CASE Uses("read", 4, Nothing, hps)
    BY <2>1, <1>f, <2>9, Used_Bus
  <2>10. CASE Uses("read", 5, Nothing, hps)
    BY <2>1, <1>f, <2>10, Used_Bus
  <2>11. QED
    BY <2>4, <2>5, <2>6, <2>7, <2>8, <2>9, <2>10
<1>7. CASE DO_CMD
  <2>1. clear_bus(handle_cmd(hps)) /\ hps.state = "DO_CMD"
    BY <1>7 DEF DO_CMD, In
  <2>2. QED
    BY <2>1, <1>f, Handling, Proceeding DEF BufferInv
<1>8. CASE SEND_ID
  <2> DEFINE g == [hps EXCEPT !.cnt = @ + 1]
             e == [hps EXCEPT !.state = "SET_REGS", !.next = "IDLE"]
  <2>1. /\ hps.state = "SEND_ID" /\ ~drq
        /\ Uses("write", 15, <<"identity", hps.cnt + 1, 0>>, g) \/ clear_bus(e)
    BY <1>8 DEF SEND_ID, In, pulse_write, BufferInv
  <2>2. /\ {"state", "next"} \subseteq DOMAIN g /\ g.state = "SEND_ID"
        /\ {"state", "next"} \subseteq DOMAIN e /\ e.state = "SET_REGS" /\ e.next = "IDLE"
    BY <1>f, <2>1
  <2> HIDE DEF g, e
  <2>3. QED
    BY <2>1, <2>2, Cleared_Bus, Used_Bus
<1>9. CASE SET_REGS
  <2> DEFINE g == [hps EXCEPT !.state = "SET_REGS_SEND", !.cnt = 0,
       !.regs.status = IF scenario.cdrom \/ "DRQ" \in @ THEN @ ELSE @ \cup {"DSC"}]
  <2>1. clear_bus(g) /\ hps.state = "SET_REGS"
    BY <1>9 DEF SET_REGS, In
  <2>2. {"state", "next"} \subseteq DOMAIN g /\ g.state = "SET_REGS_SEND" /\ g.next = hps.next
    BY <1>f
  <2> HIDE DEF g
  <2>3. QED
    BY <2>1, <2>2, Cleared_Bus DEF BufferInv
<1>10. CASE SET_REGS_SEND
  <2> DEFINE g == [hps EXCEPT !.cnt = @ + 1]
             e == [hps EXCEPT !.cnt = 0, !.state = hps.next]
  <2>1. hps.state = "SET_REGS_SEND" /\ hps.next \notin Working \cup Sending
    BY <1>10 DEF SET_REGS_SEND, In, BufferInv
  <2>2. \/ hps.cnt < 6 /\ Uses("write", hps.cnt, RegValue(hps.regs, hps.cnt), g)
        \/ clear_bus(Cleared(e)) \/ clear_bus(e)
    BY <1>10 DEF SET_REGS_SEND, pulse_write
  <2>3. /\ {"state", "next"} \subseteq DOMAIN g /\ g.state = "SET_REGS_SEND" /\ g.next = hps.next
        /\ {"state", "next"} \subseteq DOMAIN e /\ e.state = hps.next
    BY <1>f, <2>1
  <2>4. hps.cnt < 6 => hps.cnt # 15
    OBVIOUS
  <2> HIDE DEF g, e
  <2>5. CASE clear_bus(e)
    BY <2>1, <2>3, <2>5, Cleared_Bus
  <2>6. CASE clear_bus(Cleared(e))
    BY <2>1, <2>3, <2>6, Cleaning, Cleared_Bus
  <2>7. CASE hps.cnt < 6 /\ Uses("write", hps.cnt, RegValue(hps.regs, hps.cnt), g)
    BY <2>1, <2>3, <2>4, <2>7, Used_Bus
  <2>8. QED
    BY <2>2, <2>5, <2>6, <2>7
<1>11. CASE READ
  <2> DEFINE g == [hps EXCEPT !.state = "READ_REGS"]
  <2>1. clear_bus(g) /\ hps.state = "READ" /\ ~drq
    BY <1>11 DEF READ, In, BufferInv
  <2>2. {"state", "next"} \subseteq DOMAIN g /\ g.state = "READ_REGS"
    BY <1>f
  <2> HIDE DEF g
  <2>3. QED
    BY <2>1, <2>2, Cleared_Bus
<1>12. CASE READ_REGS
  <2> DEFINE count == hps.regs.count - 1
             g == [hps EXCEPT !.lba = SectorAt(hps), !.cnt = 0, !.state = "READ_SEND",
       !.regs = [NextSector(hps) EXCEPT !.count = count, !.size = 1,
                                             !.status = ReadStatus(count)]]
  <2>1. clear_bus(g) /\ hps.state = "READ_REGS" /\ ~drq
    BY <1>12 DEF READ_REGS, In, BufferInv
  <2>2. {"state", "next"} \subseteq DOMAIN g /\ g.state = "READ_SEND"
    BY <1>f
  <2> HIDE DEF g
  <2>3. QED
    BY <2>1, <2>2, Cleared_Bus
<1>13. CASE READ_SEND
  <2> DEFINE g == [hps EXCEPT !.cnt = @ + 1]
             data == IF hps.lba = NoSector THEN <<"zero", 0, 0>> ELSE image[hps.lba][hps.cnt + 1]
             e == [hps EXCEPT !.cnt = 0, !.state = "SET_REGS",
                       !.next = IF hps.regs.count # 0 THEN "READ_WAIT_REQ" ELSE "IDLE"]
  <2>1. hps.state = "READ_SEND" /\ ~drq /\ (Uses("write", 15, data, g) \/ clear_bus(e))
    BY <1>13 DEF READ_SEND, In, pulse_write, BufferInv
  <2>2. /\ {"state", "next"} \subseteq DOMAIN g /\ g.state = "READ_SEND"
        /\ {"state", "next"} \subseteq DOMAIN e /\ e.state = "SET_REGS"
        /\ e.next \in {"READ_WAIT_REQ", "IDLE"}
    BY <1>f, <2>1
  <2> HIDE DEF g, e, data
  <2>3. QED
    BY <2>1, <2>2, Cleared_Bus, Used_Bus
<1>14. CASE READ_WAIT_REQ
  <2> DEFINE g == [hps EXCEPT !.state = "READ_REGS"]
  <2>1. {"state", "next"} \subseteq DOMAIN g /\ g.state = "READ_REGS"
    BY <1>f
  <2>2. Waits("READ_WAIT_REQ", g)
    BY <1>14 DEF READ_WAIT_REQ
  <2> HIDE DEF g
  <2>3. QED
    BY <2>1, <2>2, Waiting
<1>15. CASE WRITE
  <2> DEFINE g == [hps EXCEPT !.irq_pending = FALSE, !.state = "WRITE_REGS"]
  <2>1. clear_bus(g) /\ hps.state = "WRITE" /\ ~drq
    BY <1>15 DEF WRITE, In, BufferInv
  <2>2. {"state", "next"} \subseteq DOMAIN g /\ g.state = "WRITE_REGS"
    BY <1>f
  <2> HIDE DEF g
  <2>3. QED
    BY <2>1, <2>2, Cleared_Bus
<1>16. CASE WRITE_REGS
  <2> DEFINE g == [hps EXCEPT !.lba = SectorAt(hps), !.irq_pending = TRUE,
       !.state = "SET_REGS", !.next = "WRITE_WAIT_REQ",
       !.regs = [@ EXCEPT !.size = 1,
                          !.status = {"RDY", "DRQ"} \cup IF hps.irq_pending THEN {"IRQ"} ELSE {}]]
  <2>1. clear_bus(g)
    BY <1>16 DEF WRITE_REGS
  <2>2. {"state", "next"} \subseteq DOMAIN g /\ g.state = "SET_REGS" /\ g.next = "WRITE_WAIT_REQ"
    BY <1>f
  <2> HIDE DEF g
  <2>3. QED
    BY <2>1, <2>2, Cleared_Bus
<1>17. CASE WRITE_WAIT_REQ
  <2> DEFINE g == [hps EXCEPT !.cnt = 0, !.state = "WRITE_RECV"]
  <2>1. {"state", "next"} \subseteq DOMAIN g /\ g.state = "WRITE_RECV"
    BY <1>f
  <2>2. Waits("WRITE_WAIT_REQ", g)
    BY <1>17 DEF WRITE_WAIT_REQ
  <2> HIDE DEF g
  <2>3. QED
    BY <2>1, <2>2, Waiting
<1>18. CASE WRITE_RECV
  <2> DEFINE regs == [NextSector(hps) EXCEPT !.count = hps.regs.count - 1]
             g == [hps EXCEPT !.cnt = @ + 1]
             e == [hps EXCEPT !.cnt = 0, !.regs = regs, !.state = "WRITE_REGS"]
             z == [hps EXCEPT !.cnt = 0]
  <2>1. /\ hps.state = "WRITE_RECV" /\ ~drq
        /\ \/ Uses("read", 15, Nothing, g) \/ clear_bus(e)
           \/ clear_bus(Ends(z, regs, {"IRQ"}))
    BY <1>18 DEF WRITE_RECV, In, pulse_read, BufferInv
  <2>2. /\ {"state", "next"} \subseteq DOMAIN g /\ g.state = "WRITE_RECV"
        /\ {"state", "next"} \subseteq DOMAIN e /\ e.state = "WRITE_REGS"
        /\ {"state", "next"} \subseteq DOMAIN z
    BY <1>f, <2>1
  <2> HIDE DEF g, e, z, regs
  <2>3. Proceeds(Ends(z, regs, {"IRQ"}))
    BY <2>2, Ending
  <2>4. QED
    BY <2>1, <2>2, <2>3, Cleared_Bus, Used_Bus, Proceeding
<1>19. CASE PACKET_WAIT_REQ
  <2> DEFINE g == [hps EXCEPT !.cnt = 0, !.packet = <<>>, !.state = "PACKET_RECV"]
  <2>1. {"state", "next"} \subseteq DOMAIN g /\ g.state = "PACKET_RECV"
    BY <1>f
  <2>2. Waits("PACKET_WAIT_REQ", g)
    BY <1>19 DEF PACKET_WAIT_REQ
  <2> HIDE DEF g
  <2>3. QED
    BY <2>1, <2>2, Waiting
<1>20. CASE PACKET_RECV
  <2> DEFINE g == [hps EXCEPT !.cnt = @ + 1, !.packet = Received]
             e == [hps EXCEPT !.cnt = 0, !.packet = Received, !.state = "PACKET_HANDLE"]
  <2>1. /\ hps.state = "PACKET_RECV" /\ ~drq
        /\ Uses("read", 15, Nothing, g) \/ Uses("write", 7, Nothing, e)
    BY <1>20 DEF PACKET_RECV, In, pulse_read, pulse_write, BufferInv
  <2>2. /\ {"state", "next"} \subseteq DOMAIN g /\ g.state = "PACKET_RECV"
        /\ {"state", "next"} \subseteq DOMAIN e /\ e.state = "PACKET_HANDLE"
    BY <1>f, <2>1
  <2> HIDE DEF g, e
  <2>3. QED
    BY <2>1, <2>2, Used_Bus
<1>21. CASE PACKET_HANDLE
  <2>1. clear_bus(handle_packet(hps)) /\ hps.state = "PACKET_HANDLE"
    BY <1>21 DEF PACKET_HANDLE, In
  <2>2. QED
    BY <2>1, <1>f, HandlingPacket, Proceeding DEF BufferInv
<1>22. CASE PACKET_SEND
  <2> DEFINE g == [hps EXCEPT !.cnt = @ + 1]
             e == [hps EXCEPT !.cnt = 0, !.state = "SET_REGS", !.next = "PACKET_READ_WAIT_REQ"]
  <2>1. /\ hps.state = "PACKET_SEND" /\ ~drq
        /\ Uses("write", 15, hps.data[hps.cnt + 1], g) \/ clear_bus(e)
    BY <1>22 DEF PACKET_SEND, In, pulse_write, BufferInv
  <2>2. /\ {"state", "next"} \subseteq DOMAIN g /\ g.state = "PACKET_SEND"
        /\ {"state", "next"} \subseteq DOMAIN e /\ e.state = "SET_REGS"
        /\ e.next = "PACKET_READ_WAIT_REQ"
    BY <1>f, <2>1
  <2> HIDE DEF g, e
  <2>3. QED
    BY <2>1, <2>2, Cleared_Bus, Used_Bus
<1>23. CASE PACKET_READ_WAIT_REQ
  <2> DEFINE g == IF hps.pleft > 0 THEN prepare_cdrom_read(hps) ELSE finish_packet(hps, 0)
  <2>1. Proceeds(g)
    BY <1>f, Preparing, Finishing
  <2>2. Waits("PACKET_READ_WAIT_REQ", g)
    BY <1>23 DEF PACKET_READ_WAIT_REQ
  <2> HIDE DEF g
  <2>3. QED
    BY <2>1, <2>2, Waiting DEF Proceeds
<1>24. QED
  BY <1>1, <1>2, <1>3, <1>4, <1>5, <1>6, <1>7, <1>8, <1>9, <1>10, <1>11, <1>12, <1>13, <1>14, <1>15,
     <1>16, <1>17, <1>18, <1>19, <1>20, <1>21, <1>22, <1>23 DEF DiskNext

LEMMA PortMoves == DiskNext => ide' = NextIde
  BY DEF DiskNext, Rest, INITIAL, IDLE, GET_RESET_DRIVE, RESET_SET,
     GET_CMD, DO_CMD, SEND_ID, SET_REGS, SET_REGS_SEND, READ,
     READ_REGS, READ_SEND, READ_WAIT_REQ, WRITE, WRITE_REGS,
     WRITE_WAIT_REQ, WRITE_RECV, PACKET_WAIT_REQ, PACKET_RECV,
     PACKET_HANDLE, PACKET_SEND, PACKET_READ_WAIT_REQ, Waits, ClockEdge,
     Port

LEMMA BufferStep == BufferInv /\ [DiskNext]_(disk_vars) => BufferInv'
<1> SUFFICES ASSUME BufferInv, [DiskNext]_(disk_vars) PROVE BufferInv'
  OBVIOUS
<1>1. CASE DiskNext
  <2>1. Orderly /\ ide' = NextIde
    BY <1>1, OrderlyStep, PortMoves
  <2>2. (ide'.request # "none" => ~drq') /\ (~drq /\ ~mgmt_wr(5) => ~drq')
    BY <2>1, PortKeeps DEF BufferInv
  <2>3. QED
    BY <2>1, <2>2 DEF Orderly, BufferInv
<1>2. CASE UNCHANGED disk_vars
  BY <1>2 DEF disk_vars, ide_vars, BufferInv, drq
<1>3. QED
  BY <1>1, <1>2

LEMMA BufferInit == DiskInit => BufferInv
  BY DEF DiskInit, PortInit, BufferInv, Working, Sending, drq

\* The software moves words through the block buffer only while the driver may not, whatever
\* commands the driver gives, resets included, and however long the software rests
\* (ide.v: the status is BSY from a command or a complete block to the status write).
THEOREM BufferShared == DiskSpec => OneUserOfTheBuffer
<1>1. BufferInv /\ [DiskNext]_(disk_vars)
        => [bus'.op # "none" /\ bus'.addr = 15 => ~drq]_(disk_vars)
  BY OrderlyStep DEF Orderly
<1>2. QED
  BY <1>1, BufferInit, BufferStep, PTL DEF DiskSpec, OneUserOfTheBuffer

-----------------------------------------------------------------------------
(* The commands of a disk.  DInv, below, says for each of the four things the  *)
(* status can say of the drive (free, or with a block for or from the driver,  *)
(* or busy with a reset, or busy with a command) where the software is, which  *)
(* registers have been written, which sector it is at, what is in the buffer   *)
(* and what is in the image.  A clock is one step of all of them: the software *)
(* ticks, the driver goes on, and the controller sees the edge.  The lemmas go *)
(* by these four cases, and in the last by the state of the software.          *)
-----------------------------------------------------------------------------
(* Sector numbers.                                                          *)

\* What the driver sets with GEOMETRY, and the drive has at first.
Geometries == [spt : Nat \ {0}, heads : Nat \ {0}]

\* A quotient and a remainder are determined by their sum.
LEMMA Quotient ==
  ASSUME NEW b \in Nat \ {0}, NEW q \in Int, NEW r \in 0..(b - 1), NEW n \in Int, n = b * q + r
  PROVE  n \div b = q /\ n % b = r
<1> DEFINE p == n \div b  s == n % b
<1>1. p \in Int /\ s \in 0..(b - 1) /\ n = b * p + s
  OBVIOUS
<1> HIDE DEF p, s
<1>2. b * (p - q) = r - s
  BY <1>1
<1>3. CASE p - q >= 1
  <2>1. b * (p - q) >= b
    BY <1>1, <1>3
  <2>2. QED
    BY <1>1, <1>2, <2>1
<1>4. CASE p - q <= -1
  <2>1. b * (p - q) <= -b
    BY <1>1, <1>4
  <2>2. QED
    BY <1>1, <1>2, <2>1
<1>5. CASE p = q
  BY <1>1, <1>5 DEF p, s
<1>6. QED
  BY <1>1, <1>3, <1>4, <1>5

LEMMA Division ==
  ASSUME NEW b \in Nat \ {0}, NEW n \in Nat
  PROVE  /\ n \div b \in Nat /\ n % b \in 0..(b - 1) /\ n = b * (n \div b) + (n % b)
  OBVIOUS

\* Dividing twice.
Twice(a, b, n) ==
  /\ n \div (a * b) = (n \div a) \div b
  /\ (n % (a * b)) \div a = (n \div a) % b
  /\ (n % (a * b)) % a = n % a
LEMMA TwoDivisions ==
  ASSUME NEW a \in Nat \ {0}, NEW b \in Nat \ {0}, NEW n \in Nat
  PROVE  Twice(a, b, n)
<1> DEFINE q == n \div a  r == n % a  u == q \div b  v == q % b  m == a * v + r
<1>1. q \in Nat /\ r \in 0..(a - 1) /\ n = a * q + r
  BY Division
<1>2. u \in Nat /\ v \in 0..(b - 1) /\ q = b * u + v
  BY <1>1, Division
<1> HIDE DEF q, r, u, v
<1>3. a * b \in Nat \ {0} /\ a * v \in Nat /\ a * (b - 1) = a * b - a /\ a * v <= a * (b - 1)
  BY <1>2
<1>4. m \in 0..(a * b - 1)
  BY <1>1, <1>3
<1>5. n = (a * b) * u + m
  <2>1. a * q = a * (b * u) + a * v
    BY <1>2
  <2>2. a * (b * u) = (a * b) * u
    BY <1>2
  <2>3. a * q \in Nat /\ (a * b) * u \in Nat
    BY <1>1, <1>2
  <2>4. QED
    BY <1>1, <1>3, <2>1, <2>2, <2>3
<1> HIDE DEF m
<1> DEFINE ab == a * b
<1>6. ab \in Nat \ {0} /\ m \in 0..(ab - 1) /\ n = ab * u + m
  BY <1>3, <1>4, <1>5
<1> HIDE DEF ab
<1>7. n \div ab = u /\ n % ab = m
  BY <1>2, <1>6, Quotient
<1>8. m \div a = v /\ m % a = r
  <2>1. m \in Int /\ m = a * v + r /\ v \in Int
    BY <1>2, <1>6 DEF m
  <2>2. QED
    BY <1>1, <2>1, Quotient
<1>9. QED
  BY <1>7, <1>8 DEF q, r, u, v, ab, Twice

LEMMA Cylinders ==
  ASSUME NEW s \in Nat \ {0}, NEW h \in Nat \ {0}, NEW n \in Nat
  PROVE  LET q == n \div s  r == n % s  u == q \div h  v == q % h IN
         /\ q \in Nat /\ r \in Nat /\ n = s * q + r /\ u \in Nat /\ v \in Nat /\ q = h * u + v
         /\ n \div (h * s) = u /\ (n % (h * s)) \div s = v
<1> DEFINE q == n \div s  r == n % s
<1>1. q \in Nat /\ r \in Nat /\ n = s * q + r
  BY Division
<1>2. n \div (s * h) = q \div h /\ (n % (s * h)) \div s = q % h /\ s * h = h * s
  <2>1. Twice(s, h, n)
    BY TwoDivisions
  <2>2. s * h = h * s
    OBVIOUS
  <2>3. QED
    BY <2>1, <2>2, Zenon DEF Twice
<1> HIDE DEF q
<1>3. q \div h \in Nat /\ q % h \in Nat /\ q = h * (q \div h) + (q % h)
  BY <1>1
<1>4. QED
  BY <1>1, <1>2, <1>3 DEF q

SpanFacts == Span \in Nat \ {0} /\ Span >= 4 /\ Radix \in Nat \ {0, 1} /\ Span * Radix \in Nat \ {0}
LEMMA SpanType == SpanFacts
<1>1. Radix \in Nat /\ Radix >= 2
  BY SizesAssumption
<1>2. Radix * Radix \in Nat /\ Radix * Radix >= 4
  BY <1>1
<1>3. (Radix * Radix) * Radix \in Nat /\ (Radix * Radix) * Radix >= 1
  BY <1>1, <1>2
<1>4. QED
  BY <1>1, <1>2, <1>3 DEF SpanFacts, Span

\* What put_lba writes, get_lba reads back: by LBA up to 28 bits, by cylinder, head and
\* sector for every geometry and every number (put_lba, get_lba in ide_hps.cpp), so that
\* the sector after a sector is the next one.
THEOREM SectorNumbers ==
  ASSUME NEW regs, DOMAIN regs = DOMAIN PowerOnRegs, NEW g \in Geometries, NEW n \in Nat,
         regs.lba = TRUE => n < 16 * (Span * Radix), regs.lba \in BOOLEAN
  PROVE  /\ get_lba(put_lba(regs, g, n), g) = n
         /\ DOMAIN put_lba(regs, g, n) = DOMAIN PowerOnRegs
         /\ put_lba(regs, g, n).sector \in Nat /\ put_lba(regs, g, n).cylinder \in Nat
         /\ put_lba(regs, g, n).head \in Nat
         /\ put_lba(regs, g, n).lba = regs.lba
<1> USE SpanType DEF SpanFacts
<1>f. {"sector", "cylinder", "head", "lba"} \subseteq DOMAIN regs
  BY DEF PowerOnRegs
<1>1. CASE regs.lba
  <2> DEFINE q == n \div Radix  r == n % Radix  u == q \div Span  v == q % Span
             k == n \div (Span * Radix)
             new == [regs EXCEPT !.sector = r, !.cylinder = v, !.head = k % 16]
  <2>1. q \in Nat /\ r \in Nat /\ n = Radix * q + r
    BY Division
  <2>2. u \in Nat /\ v \in Nat /\ q = Span * u + v
    <3> HIDE DEF q
    <3> QED BY <2>1
  <2>3. k = u
    <3>1. n \div (Radix * Span) = u
      BY TwoDivisions DEF Twice
    <3>2. Radix * Span = Span * Radix
      OBVIOUS
    <3>3. QED
      BY <3>1, <3>2
  <2>4. n = r + Radix * v + (Span * Radix) * u
    <3> HIDE DEF q, r, u, v
    <3>1. Radix * q = Radix * (Span * u) + Radix * v
      BY <2>2
    <3>2. Radix * (Span * u) = (Span * Radix) * u
      BY <2>2
    <3>3. Radix * q \in Nat /\ Radix * v \in Nat /\ (Span * Radix) * u \in Nat
      BY <2>1, <2>2
    <3>4. QED
      BY <2>1, <3>1, <3>2, <3>3
  <2>5. u < 16
    <3> SUFFICES ASSUME u >= 16 PROVE FALSE
      BY <2>2
    <3> HIDE DEF q, r, u, v, k
    <3>1. (Span * Radix) * u >= (Span * Radix) * 16
      <4> DEFINE w == Span * Radix
      <4>1. w \in Nat
        OBVIOUS
      <4> HIDE DEF w
      <4>2. w * u >= w * 16
        BY <2>2, <4>1
      <4>3. QED
        BY <4>2 DEF w
    <3>2. (Span * Radix) * u \in Nat /\ Radix * v \in Nat /\ 16 * (Span * Radix) = (Span * Radix) * 16
      BY <2>2
    <3>3. n < 16 * (Span * Radix)
      BY <1>1
    <3>4. QED
      BY <2>1, <2>4, <3>1, <3>2, <3>3
  <2>6. k % 16 = u
    <3> HIDE DEF u, k, q
    <3> QED BY <2>2, <2>3, <2>5
  <2>7. put_lba(regs, g, n) = new
    BY <1>1 DEF put_lba
  <2> HIDE DEF k
  <2>8. new.sector = r /\ new.cylinder = v /\ new.head = u /\ new.lba = regs.lba
        /\ DOMAIN new = DOMAIN regs
    BY <1>f, <2>6
  <2> HIDE DEF new, q, r, u, v
  <2>9. get_lba(new, g) = r + Radix * v + (Span * Radix) * u
    BY <1>1, <2>8 DEF get_lba
  <2>10. QED
    BY <2>1, <2>2, <2>4, <2>7, <2>8, <2>9
<1>2. CASE ~regs.lba
  <2>0. g.spt \in Nat \ {0} /\ g.heads \in Nat \ {0}
    BY DEF Geometries
  <2> DEFINE s == g.spt  h == g.heads
             q == n \div s  r == n % s  u == q \div h  v == q % h
             new == [regs EXCEPT !.cylinder = n \div (h * s), !.head = (n % (h * s)) \div s,
                                 !.sector = (n % s) + 1]
  <2>1. /\ q \in Nat /\ r \in Nat /\ n = s * q + r /\ u \in Nat /\ v \in Nat /\ q = h * u + v
        /\ n \div (h * s) = u /\ (n % (h * s)) \div s = v
    <3> HIDE DEF s, h
    <3> QED BY <2>0, Cylinders DEF s, h
  <2>2. u \in Nat /\ v \in Nat /\ q = h * u + v
    BY <2>1
  <2>3. n \div (h * s) = u /\ (n % (h * s)) \div s = v
    BY <2>1
  <2>4. put_lba(regs, g, n) = new
    BY <1>2 DEF put_lba
  <2>5. new.sector = r + 1 /\ new.cylinder = u /\ new.head = v /\ new.lba = regs.lba
        /\ DOMAIN new = DOMAIN regs
    BY <1>f, <2>3
  <2>6. get_lba(new, g) = (u * h + v) * s + (r + 1) - 1
    <3> HIDE DEF new, q, r, u, v
    <3> QED BY <1>2, <2>5 DEF get_lba
  <2>7. (u * h + v) * s = s * q
    <3> HIDE DEF q, r, u, v
    <3>1. u * h + v = q
      BY <2>0, <2>2
    <3>2. q * s = s * q
      BY <2>0, <2>1
    <3>3. QED
      BY <3>1, <3>2
  <2> HIDE DEF new, q, r, u, v
  <2>8. get_lba(new, g) = n
    <3> DEFINE a == s * q
    <3>1. a \in Nat /\ get_lba(new, g) = a + (r + 1) - 1 /\ n = a + r
      BY <2>0, <2>1, <2>6, <2>7
    <3> HIDE DEF a
    <3>2. QED
      BY <2>1, <3>1
  <2>9. QED
    BY <2>1, <2>2, <2>4, <2>5, <2>8
<1>3. QED
  BY <1>1, <1>2

\* The drive is a disk: its driver gives it the commands of a disk or resets it, and asks
\* for sectors whose numbers its registers hold.  Where the software rests for more than a
\* clock (scenario.jitter) it does not write: WRITE_RECV then takes a word too late.
DiskOps == {"READ", "WRITE", "IDENTIFY", "GEOMETRY", "RECALIBRATE", "VERIFY", "OTHER"}
OfADisk ==
  /\ scenario.cdrom = FALSE /\ scenario.jitter \in BOOLEAN
  /\ \A c \in scenario.commands :
       /\ c \in Command
       /\ c.op \in DiskOps \/ c = Srst
       /\ scenario.jitter => c.op # "WRITE"
       /\ c.lba => c.sector + Radix * c.cylinder + Span * Radix * c.head + Blocks(c) <= 16 * (Span * Radix)

-----------------------------------------------------------------------------
(* Types.                                                                   *)

Cmd == driver.cmd
DriverType ==
  /\ DOMAIN driver = {"phase", "cmd", "step", "moved", "left", "sent", "gap", "sense", "geometry"}
  /\ driver.phase \in {"params", "wait", "data", "reset", "release", "free"}
  /\ driver.cmd \in scenario.commands \cup {Srst}
  /\ driver.step \in Nat /\ driver.moved \in Nat /\ driver.left \in Nat /\ driver.gap \in 0..2
  /\ driver.sent = FALSE /\ driver.geometry \in Geometries
States ==
  {"INITIAL", "IDLE", "GET_RESET_DRIVE", "RESET_SET", "GET_CMD", "DO_CMD", "SEND_ID", "SET_REGS",
   "SET_REGS_SEND", "READ", "READ_REGS", "READ_SEND", "READ_WAIT_REQ", "WRITE", "WRITE_REGS",
   "WRITE_WAIT_REQ", "WRITE_RECV"}
RegsType(r) ==
  /\ DOMAIN r = DOMAIN PowerOnRegs
  /\ r.count \in Int /\ r.sector \in Int /\ r.cylinder \in Int /\ r.head \in Int
  /\ r.drv \in 0..1 /\ r.lba \in BOOLEAN
HpsType ==
  /\ DOMAIN hps = {"state", "next", "rest", "geometry", "sense", "regs", "args", "cmd", "features", "cnt",
                   "packet", "data", "lba", "irq_pending", "plba", "pleft", "plimit"}
  /\ hps.state \in States /\ hps.next \in {"IDLE", "RESET_SET", "READ_WAIT_REQ", "WRITE_WAIT_REQ"}
  /\ hps.rest \in BOOLEAN /\ hps.geometry \in Geometries /\ hps.cnt \in Nat
  /\ RegsType(hps.regs) /\ DOMAIN hps.args = {"count", "sector", "cylinder"}
  /\ hps.state = "SET_REGS_SEND" => hps.cnt \in 0..6
BusType ==
  /\ DOMAIN bus = {"op", "addr", "data"} /\ bus.op \in {"none", "read", "write"} /\ bus.addr \in 0..15
  /\ bus.op # "none" => hps.rest
  /\ scenario.jitter = FALSE /\ hps.rest => bus.op # "none"
  /\ ide.old_wr = (bus.op = "write") /\ ide.old_rd = (bus.op = "read")
ControllerType ==
  /\ ide.io_cnt \in 0..(CountLimit - 1) /\ ide.mgmt_cnt \in 0..(CountLimit - 1)
  /\ "BSY" \in ide.status => ide.status = {"BSY"}
  /\ ide.status \in SUBSET StatusBits
  /\ ide.present = (hps.state # "INITIAL")
  /\ ide.sw_reset = (driver.phase = "release")
  /\ ide.old_stb \in BOOLEAN /\ ide.r_32 \in BOOLEAN /\ ide.last_read \in BOOLEAN
  /\ tf.drv_addr.drv \in 0..1 /\ tf.drv_addr.lba \in BOOLEAN
Image(im) == im = [s \in Sectors |-> [i \in 1..Words |-> im[s][i]]]
Images == Image(image) /\ Image(intended)

-----------------------------------------------------------------------------
(* The two counters.                                                        *)

Movers == {"SEND_ID", "READ_SEND", "WRITE_RECV"}
CounterInv ==
  /\ bus.op = "none" /\ bus.addr # 15 => ide.mgmt_cnt = 0
  /\ hps.state \notin Movers \cup {"SET_REGS", "WRITE_REGS", "SET_REGS_SEND"} => bus.addr # 15
  /\ hps.state = "SET_REGS_SEND" /\ hps.cnt > 0 => bus.addr # 15
  /\ hps.state \in Movers =>
       /\ hps.cnt \in 0..Words
       /\ hps.cnt = 0 => bus.addr # 15 /\ bus.op = "none"
       /\ hps.cnt > 0 => /\ bus.addr = 15
                         /\ ide.mgmt_cnt = IF bus.op = "none" THEN hps.cnt ELSE hps.cnt - 1

\* The strobe of an access of data is the first of the clocks that the adapter then waits.
StrobeInv ==
  /\ driver.gap = 2 <=> ide.old_stb
  /\ ide.old_stb => "DRQ" \in ide.status
  /\ driver.gap > 0 => io.op = "none" /\ driver.phase \in {"data", "wait", "free"}

-----------------------------------------------------------------------------
(* The driver's accesses and the task file.                                 *)

NewWord(c, g, n) == <<"new", get_lba(c, g) + n \div Words, (n % Words) + 1>>
IsData ==
  /\ io.op = (IF Cmd.op = "WRITE" THEN "write" ELSE "read") /\ io.addr = 0
  /\ io.wide = (Cmd.wide /\ driver.left > 1)
  /\ io.op = "write" => \A i \in 1..(IF io.wide THEN 2 ELSE 1) :
                          io.data[i] = NewWord(Cmd, driver.geometry, driver.moved + i - 1)
IoInv ==
  /\ io.op = "none" \/
       CASE driver.phase = "params" ->
              LET p == Params(Cmd)[driver.step] IN io = Access("write", p[1], <<p[2]>>, FALSE)
         [] driver.phase = "wait" -> io.op = "read" /\ io.addr \in {7, 14} /\ io.wide = FALSE
         [] driver.phase = "data" -> IsData
         [] driver.phase = "reset" -> io = Access("write", 14, << <<"control", TRUE, FALSE>> >>, FALSE)
         [] driver.phase = "release" -> io = Access("write", 14, << <<"control", FALSE, FALSE>> >>, FALSE)
         [] OTHER -> FALSE
  /\ driver.phase \in {"reset", "release"} => Cmd = Srst
  /\ driver.phase \in {"params", "data"} => Cmd # Srst
  /\ driver.phase = "data" => driver.left \in 1..Words
  /\ driver.phase = "params" => driver.step \in 1..7
  /\ driver.phase \in {"params", "reset", "release"} => driver.moved = 0

Held(step) ==
  /\ step > 2 => tf.features = Cmd.features
  /\ step > 3 => tf.sector_count = Cmd.count
  /\ step > 4 => tf.sector = Cmd.sector
  /\ step > 5 => tf.cylinder = Cmd.cylinder
  /\ step > 6 => tf.drv_addr = Address(Cmd.lba, Cmd.drv, Cmd.head)
  /\ step > 7 => tf.cmd = Cmd.op
TaskFile == driver.phase = "params" => Held(driver.step)

-----------------------------------------------------------------------------
(* Where the software is, and where a transfer is.                          *)

After == IF hps.state = "SET_REGS_SEND" /\ hps.cnt = 6 THEN hps.next ELSE hps.state
Down == After \in {"IDLE", "RESET_SET"}
Sends == hps.state = "SET_REGS" \/ (hps.state = "SET_REGS_SEND" /\ hps.cnt < 6)
Begun(n) == hps.state = "SET_REGS_SEND" /\ hps.cnt > n

Start == First(Cmd)
SectorOf(n) == IF n \in Sectors THEN n ELSE NoSector
Position == Blocks(Cmd) - hps.regs.count
Located ==
  /\ Cmd.op \in {"READ", "WRITE"} /\ Cmd.drv = 0
  /\ hps.regs.lba = Cmd.lba /\ hps.regs.drv = 0 /\ hps.regs.count \in 0..Blocks(Cmd)
  /\ hps.regs.count > 0 => get_lba(hps.regs, hps.geometry) = Start + Position
At(k) == Words * k
Content(im, s, i) == IF s \in Sectors THEN im[s][i + 1] ELSE <<"zero", 0, 0>>
Wanted(k, i) == IF Cmd.op = "READ" THEN Content(intended, Start + k, i) ELSE <<"identity", i + 1, 0>>
Loaded(k, n) == \A i \in 0..(Words - 1) : i < n => buf.word[i] = Wanted(k, i)
NewBlock(k, n) == \A i \in 0..(Words - 1) : i < n => buf.word[i] = <<"new", Start + k, i + 1>>

Obeyed == driver.phase = "wait" /\ (ide.request = "none" \/ (ide.request = "command" /\ Sends))
GeometryInv ==
  hps.geometry = IF Cmd.op = "GEOMETRY" /\ ~Refused(Cmd) /\ Obeyed THEN SetGeometry(Cmd.count, Cmd.head + 1)
                 ELSE driver.geometry

\* The image but for sector n, which is meant to have been written.
Pending(n) ==
  /\ \A s \in Sectors : s # n => image[s] = intended[s]
  /\ n \in Sectors => \A i \in 1..Words : intended[n][i] = <<"new", n, i>>

-----------------------------------------------------------------------------
(* The drive is free.                                                       *)

Free == ide.status \cap {"BSY", "DRQ"} = {}
Answered ==
  /\ "ERR" \in ide.status <=> Refused(Cmd)
  /\ Refused(Cmd) => ide.error # 0
  /\ ~Refused(Cmd) => driver.moved = Due(Cmd)
  /\ Cmd.op = "SRST" =>
         /\ tf.sector_count = 1 /\ tf.sector = 1
         /\ tf.cylinder = IF tf.drv_addr.drv # 0 THEN Absent ELSE 0
FreeInv == Free =>
  /\ ide.request = "none" /\ Down /\ image = intended /\ ide.last_read = FALSE
  /\ driver.phase # "data"
  /\ driver.phase \in {"wait", "free"} => Answered

-----------------------------------------------------------------------------
(* The drive has, or wants, a block.                                        *)

Unit == IF ide.old_stb THEN IF ide.r_32 THEN 2 ELSE 1 ELSE 0
Block == IF Cmd.op = "IDENTIFY" THEN 0
         ELSE IF ide.last_read THEN Blocks(Cmd) - 1
         ELSE IF Cmd.op = "READ" THEN Position - 1 ELSE Position
Left == At(Block) + Words - driver.moved

Interrupted ==
  /\ driver.phase \in {"reset", "release"}
  /\ image = intended /\ ide.io_cnt < Words
  /\ After \in {"IDLE", "RESET_SET", "READ_WAIT_REQ", "WRITE_WAIT_REQ"}
Software ==
  IF ide.last_read THEN Down /\ Cmd.op # "WRITE"
  ELSE /\ Located /\ hps.regs.count > 0 /\ Cmd.op # "IDENTIFY"
       /\ After = IF Cmd.op = "READ" THEN "READ_WAIT_REQ" ELSE "WRITE_WAIT_REQ"
BlockRead ==
  /\ Cmd.op # "WRITE" /\ image = intended /\ Loaded(Block, Words)
  /\ driver.phase = "data" /\ driver.gap = 0 => buf.q = [i \in 1..2 |-> buf.word[Pair(ide.io_cnt) + i - 1]]
BlockWritten ==
  /\ Cmd.op = "WRITE" /\ NewBlock(Block, Words - Left) /\ hps.lba = SectorOf(Start + Block)
  /\ IF Left = 0 THEN Pending(hps.lba) ELSE image = intended
Transfer ==
  /\ driver.phase \in {"wait", "data"}
  /\ Cmd.op \in {"READ", "WRITE", "IDENTIFY"} /\ Cmd.drv = 0 /\ Block \in Nat
  /\ Left \in 0..Words /\ ide.io_cnt + Unit = Words - Left
  /\ driver.phase = "data" => driver.left = Left
  /\ driver.phase = "wait" => Left = Words \/ (Left = 0 /\ driver.gap > 0)
  /\ Cmd.wide /\ Left > 0 => ide.io_cnt % 2 = 0 /\ Unit # 1
  /\ Software /\ (BlockRead \/ BlockWritten)
DataInv == "DRQ" \in ide.status => ide.request = "none" /\ ide.blk_size = Words /\ (Interrupted \/ Transfer)

-----------------------------------------------------------------------------
(* The software is busy with a reset.                                       *)

Resets ==
  \/ After \in {"INITIAL", "IDLE", "RESET_SET", "READ_WAIT_REQ", "WRITE_WAIT_REQ"}
  \/ hps.state = "GET_RESET_DRIVE" /\ bus.addr = 5 /\ mgmt_readdata[3] = tf.drv_addr
  \/ /\ Sends
     /\ hps.next = "RESET_SET" /\ hps.regs.status \cap {"BSY", "DRQ", "ERR", "END"} = {}
     /\ hps.regs.count = 1 /\ hps.regs.sector = 1 /\ hps.regs.drv = tf.drv_addr.drv
     /\ hps.regs.cylinder = IF tf.drv_addr.drv # 0 THEN Absent ELSE 0
     /\ Begun(1) => tf.sector_count = 1 /\ tf.sector = 1
     /\ Begun(2) => tf.cylinder = hps.regs.cylinder
ResetInv == "BSY" \in ide.status /\ ide.request = "reset" =>
  /\ Cmd = Srst /\ driver.phase \in {"wait", "release"} /\ driver.moved = 0
  /\ image = intended /\ ide.last_read = FALSE /\ Resets

-----------------------------------------------------------------------------
(* The software is busy with a command.                                     *)

AtRest == Down /\ ide.request = "command" /\ driver.moved = 0 /\ image = intended /\ Held(8)
Reading(addr) ==
  CASE addr = 0 -> mgmt_readdata[2] = Cmd.features
    [] addr = 1 -> mgmt_readdata[2] = Cmd.count /\ mgmt_readdata[3] = Cmd.sector
    [] addr = 2 -> mgmt_readdata[2] = Cmd.cylinder
    [] addr = 5 -> mgmt_readdata[2] = Cmd.op /\ mgmt_readdata[3] = Address(Cmd.lba, Cmd.drv, Cmd.head)
    [] OTHER -> TRUE
AtGetCmd ==
  /\ hps.state = "GET_CMD" /\ ide.request = "command" /\ driver.moved = 0 /\ image = intended /\ Held(8)
  /\ bus.addr \in 0..5 /\ Reading(bus.addr)
  /\ bus.addr > 1 => hps.args.count = Cmd.count /\ hps.args.sector = Cmd.sector
  /\ bus.addr > 2 => hps.args.cylinder = Cmd.cylinder
AtDoCmd ==
  /\ hps.state = "DO_CMD" /\ ide.request = "command" /\ driver.moved = 0 /\ image = intended
  /\ hps.cmd = Cmd.op /\ hps.regs.count = Cmd.count /\ hps.regs.sector = Cmd.sector
  /\ hps.regs.cylinder = Cmd.cylinder /\ hps.regs.head = Cmd.head /\ hps.regs.drv = Cmd.drv
  /\ hps.regs.lba = Cmd.lba
AtSendId ==
  /\ hps.state = "SEND_ID" /\ ide.request = "command" /\ driver.moved = 0 /\ image = intended
  /\ Cmd.op = "IDENTIFY" /\ Cmd.drv = 0 /\ Loaded(0, hps.cnt)
  /\ hps.regs.size = 1 /\ hps.regs.status = {"RDY", "DRQ", "IRQ", "END"}
AtRead ==
  /\ hps.state \in {"READ", "READ_REGS"} \/ (After = "READ_WAIT_REQ" /\ ide.request = "data")
  /\ Cmd.op = "READ" /\ Located /\ hps.regs.count > 0 /\ driver.moved = At(Position) /\ image = intended
AtReadSend ==
  /\ hps.state = "READ_SEND" /\ Cmd.op = "READ" /\ Located /\ Position > 0
  /\ driver.moved = At(Position - 1) /\ image = intended
  /\ hps.lba = SectorOf(Start + Position - 1) /\ Loaded(Position - 1, hps.cnt)
  /\ hps.regs.size = 1 /\ hps.regs.status = ReadStatus(hps.regs.count)
AtWrite ==
  /\ hps.state \in {"WRITE", "WRITE_REGS"} /\ Cmd.op = "WRITE" /\ Located /\ hps.regs.count > 0
  /\ driver.moved = At(Position) /\ image = intended
AtWriteRecv ==
  /\ hps.state = "WRITE_RECV" \/ After = "WRITE_WAIT_REQ"
  /\ ide.request = "data" /\ Cmd.op = "WRITE" /\ Located /\ hps.regs.count > 0
  /\ driver.moved = At(Position + 1) /\ hps.lba = SectorOf(Start + Position) /\ Pending(hps.lba)
  /\ NewBlock(Position, Words)
  /\ hps.state = "WRITE_RECV" =>
       /\ hps.cnt > 0 => IF bus.op = "none" THEN mgmt_readdata = buf.word[hps.cnt - 1]
                         ELSE buf.readdata[1 + ((hps.cnt - 1) % 2)] = buf.word[hps.cnt - 1]
       /\ hps.lba \in Sectors => \A i \in 1..Words : i < hps.cnt => image[hps.lba][i] = <<"new", hps.lba, i>>
AnswersNow ==
  /\ "DRQ" \notin hps.regs.status /\ hps.next = "IDLE" /\ "END" \notin hps.regs.status
  /\ "ERR" \in hps.regs.status <=> Refused(Cmd)
  /\ ~Refused(Cmd) => driver.moved = Due(Cmd)
  /\ Refused(Cmd) => hps.regs.error = 4 /\ (Begun(0) => ide.error = 4)
BlockNow ==
  /\ "DRQ" \in hps.regs.status /\ Cmd.op \in {"READ", "WRITE", "IDENTIFY"} /\ Cmd.drv = 0
  /\ hps.regs.size = 1 /\ (Begun(0) => ide.blk_size = Words)
  /\ CASE Cmd.op = "IDENTIFY" ->
            /\ "END" \in hps.regs.status /\ hps.next = "IDLE" /\ driver.moved = 0 /\ Loaded(0, Words)
       [] Cmd.op = "READ" ->
            /\ Located /\ Position > 0 /\ driver.moved = At(Position - 1) /\ Loaded(Position - 1, Words)
            /\ "END" \in hps.regs.status <=> hps.regs.count = 0
            /\ hps.next = IF hps.regs.count = 0 THEN "IDLE" ELSE "READ_WAIT_REQ"
       [] Cmd.op = "WRITE" ->
            /\ Located /\ hps.regs.count > 0 /\ driver.moved = At(Position)
            /\ "END" \notin hps.regs.status /\ hps.next = "WRITE_WAIT_REQ"
            /\ hps.lba = SectorOf(Start + Position)
AtSends == Sends /\ image = intended /\ "BSY" \notin hps.regs.status /\ (AnswersNow \/ BlockNow)
           /\ (ide.request = "command" \/ Cmd.op \in {"READ", "WRITE"})

WorkInv == "BSY" \in ide.status /\ ide.request # "reset" =>
  /\ ide.request \in {"command", "data"}
  /\ driver.phase = "wait" /\ Cmd.op \in DiskOps /\ ide.last_read = FALSE
  /\ \/ AtRest \/ AtGetCmd \/ AtDoCmd \/ AtSendId \/ AtRead \/ AtReadSend \/ AtWrite \/ AtWriteRecv
     \/ AtSends

\* Until the software has said that there is a drive, the controller is in its reset.
StartInv == hps.state = "INITIAL" => driver.phase = "wait" /\ "BSY" \in ide.status /\ ide.request = "reset"

TypeInv == OfADisk /\ DriverType /\ HpsType /\ BusType /\ ControllerType /\ Images
DInv == TypeInv /\ CounterInv /\ StrobeInv /\ StartInv /\ IoInv /\ TaskFile /\ GeometryInv /\ FreeInv /\ DataInv
        /\ ResetInv /\ WorkInv

LEMMA EdgeOfClock == DiskNext => Port /\ Host /\ scenario' = scenario
  BY DEF DiskNext, Rest, INITIAL, IDLE, GET_RESET_DRIVE, RESET_SET, GET_CMD, DO_CMD, SEND_ID, SET_REGS,
     SET_REGS_SEND, READ, READ_REGS, READ_SEND, READ_WAIT_REQ, WRITE, WRITE_REGS, WRITE_WAIT_REQ,
     WRITE_RECV, PACKET_WAIT_REQ, PACKET_RECV, PACKET_HANDLE, PACKET_SEND, PACKET_READ_WAIT_REQ, Waits,
     ClockEdge

-----------------------------------------------------------------------------
(* What a step of the driver does.                                          *)

Keeps == /\ driver'.cmd = driver.cmd /\ driver'.moved = driver.moved
         /\ driver'.geometry = driver.geometry /\ driver'.step = driver.step
Untouched == intended' = intended /\ expected' = <<>>

LEMMA CommandsOfADisk ==
  ASSUME OfADisk, DriverType
  PROVE  /\ scenario.cdrom = FALSE
         /\ Cmd \in Command /\ (Cmd.op \in DiskOps \/ Cmd = Srst)
         /\ \A c \in scenario.commands : c \in Command /\ (c.op \in DiskOps \/ c = Srst)
<1>1. Srst \in Command
  BY DEF Srst, Command
<1>2. scenario.cdrom = FALSE /\ \A c \in scenario.commands : c \in Command /\ (c.op \in DiskOps \/ c = Srst)
  BY DEF OfADisk
<1>3. QED
  BY <1>1, <1>2 DEF DriverType, Cmd

\* It waits, or puts its next access on the bus.
LEMMA DriverIdles ==
  ASSUME OfADisk, DriverType, IoInv, scenario' = scenario, HostQuiet \/ HostAccesses
  PROVE  /\ Keeps /\ Untouched /\ driver'.phase = driver.phase /\ driver'.left = driver.left
         /\ io.op = "none" /\ driver'.gap = (IF driver.gap > 0 THEN driver.gap - 1 ELSE 0)
         /\ io'.op # "none" => driver.gap = 0
         /\ DriverType' /\ IoInv'
<1>1. /\ Keeps /\ Untouched /\ driver'.phase = driver.phase /\ driver'.left = driver.left
      /\ io.op = "none" /\ driver'.gap = (IF driver.gap > 0 THEN driver.gap - 1 ELSE 0)
      /\ io'.op # "none" => driver.gap = 0
      /\ DriverType'
  BY DEF HostQuiet, HostAccesses, Keeps, Untouched, DriverType, IoSilent
<1>2. CASE HostQuiet
  BY <1>1, <1>2 DEF HostQuiet, IoSilent, IoInv, Keeps, Cmd
<1>3. ASSUME HostAccesses PROVE IoInv'
  <2>1. io' \in Accesses /\ driver' = driver
    BY <1>3 DEF HostAccesses
  <2>2. Cmd' = Cmd
    BY <2>1 DEF Cmd
  <2>3. CASE driver.phase = "params"
    BY <2>1, <2>2, <2>3, Zenon DEF IoInv, Accesses, Cmd
  <2>4. CASE driver.phase = "wait"
    BY <2>1, <2>2, <2>4 DEF IoInv, Accesses, Access
  <2>5. CASE driver.phase = "data"
    <3>1. Cmd.op \in DiskOps /\ Cmd.wide \in BOOLEAN
      BY <2>5, CommandsOfADisk DEF IoInv, Command
    <3>2. Writes = (Cmd.op = "WRITE")
      BY <3>1 DEF Writes, DiskOps, Cmd
    <3>3. Cmd.op = "WRITE" => \A n : WrittenWord(n) = NewWord(Cmd, driver.geometry, n)
      BY DEF WrittenWord, NewWord, First, Cmd
    <3> DEFINE wide == driver.cmd.wide /\ driver.left > 1
               data == IF Writes THEN [i \in 1..(IF wide THEN 2 ELSE 1) |-> WrittenWord(driver.moved + i - 1)]
                       ELSE <<>>
    <3>4. io' = Access(IF Writes THEN "write" ELSE "read", 0, data, wide)
      BY <2>1, <2>5 DEF Accesses
    <3>5. IsData'
      BY <2>1, <3>1, <3>2, <3>3, <3>4 DEF IsData, Access, Cmd
    <3>6. QED
      BY <2>1, <2>5, <3>5 DEF IoInv, Cmd
  <2>6. CASE driver.phase = "reset"
    BY <2>1, <2>2, <2>6 DEF IoInv, Accesses
  <2>7. CASE driver.phase = "release"
    BY <2>1, <2>2, <2>7 DEF IoInv, Accesses
  <2>8. CASE driver.phase = "free"
    BY <2>1, <2>8 DEF Accesses
  <2>9. QED
    BY <2>3, <2>4, <2>5, <2>6, <2>7, <2>8 DEF DriverType
<1>4. QED
  BY <1>1, <1>2, <1>3

\* The status that a poll reads.
Polled == IF ide.present THEN ide.status ELSE StatusBits
LEMMA DriverPolls ==
  ASSUME OfADisk, DriverType, IoInv, scenario' = scenario, Port, HostServed, driver.phase = "wait"
  PROVE  /\ io.op = "read" /\ io.addr \in {7, 14} /\ driver'.gap = 1 /\ io'.op = "none" /\ Untouched
         /\ driver'.cmd = driver.cmd /\ driver'.moved = driver.moved
         /\ "BSY" \in Polled => Keeps /\ driver'.phase = "wait" /\ driver'.left = driver.left
         /\ "BSY" \notin Polled /\ "DRQ" \in Polled => Keeps /\ driver'.phase = "data" /\ driver'.left = Words
         /\ "BSY" \notin Polled /\ "DRQ" \notin Polled =>
              /\ driver'.phase = "free" /\ driver'.left = driver.left
              /\ driver'.geometry = IF Cmd.op = "GEOMETRY" /\ ~Refused(Cmd)
                                    THEN SetGeometry(Cmd.count, Cmd.head + 1) ELSE driver.geometry
         /\ DriverType'
<1>1. io.op = "read" /\ io.addr \in {7, 14} /\ io.wide = FALSE
  BY DEF IoInv, HostServed
<1>2. io_readdata'[1][2] = Polled
  BY <1>1 DEF Port, NextIoReaddata, Polled, Floating
<1>3. driver' = [Learns(Polled) EXCEPT !.gap = 1] /\ io' = IoSilent
  BY <1>1, <1>2 DEF HostServed, Served, Gap, ReadGap
<1>4. Untouched
  BY <1>1 DEF HostServed, Untouched, Meant
<1>c. Cmd.op # "PACKET" /\ scenario.cdrom = FALSE /\ Cmd \in Command
  <2>1. scenario.cdrom = FALSE /\ Cmd \in Command /\ (Cmd.op \in DiskOps \/ Cmd = Srst)
    BY CommandsOfADisk
  <2>2. Srst.op = "SRST"
    BY DEF Srst
  <2>3. QED
    BY <2>1, <2>2 DEF DiskOps
<1>5. Cmd.count \in Nat /\ Cmd.head \in Nat
  BY <1>c DEF Command
<1>g. SetGeometry(Cmd.count, Cmd.head + 1) \in Geometries
  BY <1>5, SizesAssumption DEF SetGeometry, Geometries
<1>6. CASE "BSY" \in Polled
  BY <1>1, <1>3, <1>4, <1>6 DEF Learns, Keeps, DriverType, IoSilent
<1>7. CASE "BSY" \notin Polled /\ "DRQ" \in Polled
  <2>1. driver' = [driver EXCEPT !.phase = "data", !.left = Words, !.gap = 1]
    BY <1>3, <1>7, <1>c DEF Learns, Cmd
  <2>2. Words \in Nat
    BY SizesAssumption
  <2>3. Keeps /\ driver'.phase = "data" /\ driver'.left = Words /\ driver'.gap = 1 /\ DriverType'
    BY <2>1, <2>2 DEF Keeps, DriverType
  <2>4. QED
    BY <1>1, <1>3, <1>4, <1>7, <2>3 DEF IoSilent, Keeps
<1>8. CASE "BSY" \notin Polled /\ "DRQ" \notin Polled
  <2> DEFINE g == IF Cmd.op = "GEOMETRY" /\ ~Refused(Cmd) THEN SetGeometry(Cmd.count, Cmd.head + 1)
                  ELSE driver.geometry
  <2>1. driver' = [driver EXCEPT !.phase = "free", !.sense = driver.sense, !.geometry = g, !.gap = 1]
    BY <1>3, <1>8, <1>c DEF Learns, Cmd
  <2>2. g \in Geometries
    BY <1>g DEF DriverType
  <2> HIDE DEF g
  <2>3. driver'.phase = "free" /\ driver'.geometry = g /\ driver'.gap = 1 /\ driver'.left = driver.left
        /\ driver'.cmd = driver.cmd /\ driver'.moved = driver.moved /\ DriverType'
    BY <2>1, <2>2 DEF DriverType
  <2>4. QED
    BY <1>1, <1>3, <1>4, <1>8, <2>3 DEF IoSilent, g
<1>9. QED
  BY <1>6, <1>7, <1>8

\* It writes the next register of the task file, the command last.
LEMMA DriverWrites ==
  ASSUME OfADisk, DriverType, IoInv, scenario' = scenario, HostServed, driver.phase = "params"
  PROVE  /\ io = Access("write", Params(Cmd)[driver.step][1], <<Params(Cmd)[driver.step][2]>>, FALSE)
         /\ driver.step \in 1..7 /\ driver'.gap = 0 /\ io'.op = "none" /\ Untouched
         /\ driver'.cmd = driver.cmd /\ driver'.moved = driver.moved /\ driver'.geometry = driver.geometry
         /\ driver.step < 7 => driver'.phase = "params" /\ driver'.step = driver.step + 1
         /\ driver.step = 7 => driver'.phase = "wait"
         /\ DriverType'
<1>1. io = Access("write", Params(Cmd)[driver.step][1], <<Params(Cmd)[driver.step][2]>>, FALSE)
      /\ driver.step \in 1..7
  BY Zenon DEF IoInv, HostServed
<1>2. Params(Cmd)[driver.step][1] \in {14, 1, 2, 3, 4, 6, 7}
  BY <1>1 DEF Params
<1>3. io.op = "write" /\ io.addr # 0
  BY <1>1, <1>2 DEF Access
<1>4. io' = IoSilent /\ Untouched
  BY <1>3 DEF HostServed, Untouched, Meant
<1>5. driver' = [(IF driver.step = 7 THEN [driver EXCEPT !.phase = "wait", !.step = 0]
                  ELSE [driver EXCEPT !.step = @ + 1]) EXCEPT !.gap = 0]
  BY <1>3 DEF HostServed, Served, Gap
<1>6. QED
  BY <1>1, <1>4, <1>5 DEF DriverType, IoSilent

\* It moves a word or two.
LEMMA DriverMoves ==
  ASSUME OfADisk, DriverType, IoInv, scenario' = scenario, HostServed, driver.phase = "data"
  PROVE  LET n == IF io.wide THEN 2 ELSE 1 IN
         /\ IsData /\ io.op # "none" /\ Cmd.op \in DiskOps /\ Cmd # Srst /\ n <= driver.left
         /\ driver'.gap = 2 /\ io'.op = "none"
         /\ driver'.cmd = driver.cmd /\ driver'.geometry = driver.geometry
         /\ driver'.moved = driver.moved + n /\ driver'.left = driver.left - n
         /\ driver'.phase = IF driver.left = n THEN "wait" ELSE "data"
         /\ expected' = IF Cmd.op # "WRITE" THEN [i \in 1..n |-> ReadWord(driver.moved + i - 1)] ELSE <<>>
         /\ intended' = IF Cmd.op = "WRITE" /\ driver.left = n /\ BlockOf(driver.moved) \in Sectors
                        THEN [intended EXCEPT ![BlockOf(driver.moved)] =
                                [i \in 1..Words |-> <<"new", BlockOf(driver.moved), i>>]]
                        ELSE intended
         /\ DriverType'
<1> DEFINE n == IF io.wide THEN 2 ELSE 1
<1>1. IsData /\ io.op # "none" /\ Cmd # Srst /\ driver.left \in 1..Words
  BY Zenon DEF IoInv, HostServed
<1>c. Cmd \in Command /\ Cmd.op \in DiskOps /\ Cmd.op # "PACKET"
  BY <1>1, CommandsOfADisk DEF DiskOps
<1>2. n \in 1..2 /\ n <= driver.left
  <2>1. io.wide => driver.left > 1
    BY <1>1 DEF IsData
  <2>2. driver.left \in Nat /\ driver.left >= 1
    BY <1>1, SizesAssumption
  <2>3. QED
    BY <2>1, <2>2
<1>3. io.op = (IF Cmd.op = "WRITE" THEN "write" ELSE "read") /\ io.addr = 0
  BY <1>1 DEF IsData
<1> HIDE DEF n
<1>4. driver' = [driver EXCEPT !.moved = @ + n, !.left = @ - n, !.sent = FALSE,
                   !.phase = IF driver.left = n THEN "wait" ELSE @, !.gap = 2]
  BY <1>3, <1>c DEF HostServed, Served, Gap, DataGap, MovesWords, n, DriverType, Cmd
<1>5. io' = IoSilent
  BY DEF HostServed
<1>6. /\ driver'.moved = driver.moved + n /\ driver'.left = driver.left - n /\ driver'.gap = 2
      /\ driver'.phase = (IF driver.left = n THEN "wait" ELSE "data")
      /\ driver'.cmd = driver.cmd /\ driver'.geometry = driver.geometry /\ DriverType'
  BY <1>1, <1>2, <1>4 DEF DriverType
<1>7. expected' = IF Cmd.op # "WRITE" THEN [i \in 1..n |-> ReadWord(driver.moved + i - 1)] ELSE <<>>
  BY <1>3 DEF HostServed, n
<1>8. intended' = IF Cmd.op = "WRITE" /\ driver.left = n /\ BlockOf(driver.moved) \in Sectors
                  THEN [intended EXCEPT ![BlockOf(driver.moved)] =
                          [i \in 1..Words |-> <<"new", BlockOf(driver.moved), i>>]]
                  ELSE intended
  BY <1>3, <1>6 DEF HostServed, Meant, Cmd
<1>9. QED
  BY <1>1, <1>c, <1>2, <1>5, <1>6, <1>7, <1>8 DEF IoSilent, n

\* It resets the drive.
LEMMA DriverResets ==
  ASSUME OfADisk, DriverType, IoInv, scenario' = scenario, HostServed,
         driver.phase \in {"reset", "release"}
  PROVE  /\ io = Access("write", 14, << <<"control", driver.phase = "reset", FALSE>> >>, FALSE)
         /\ driver'.gap = 0 /\ io'.op = "none" /\ Keeps /\ Untouched /\ driver'.left = driver.left
         /\ driver'.phase = IF driver.phase = "reset" THEN "release" ELSE "wait"
         /\ DriverType'
<1>1. io = Access("write", 14, << <<"control", driver.phase = "reset", FALSE>> >>, FALSE)
  <2>1. CASE driver.phase = "reset"
    BY <2>1, Zenon DEF IoInv, HostServed
  <2>2. CASE driver.phase = "release"
    <3>1. (driver.phase = "reset") = FALSE
      BY <2>2
    <3>2. io = Access("write", 14, << <<"control", FALSE, FALSE>> >>, FALSE)
      BY <2>2, Zenon DEF IoInv, HostServed
    <3>3. QED
      BY <3>1, <3>2, Zenon
  <2>3. QED
    BY <2>1, <2>2
<1>2. io.op = "write" /\ io.addr = 14
  BY <1>1 DEF Access
<1>3. io' = IoSilent /\ Untouched
  BY <1>2 DEF HostServed, Untouched, Meant
<1>4. driver' = [driver EXCEPT !.phase = IF driver.phase = "reset" THEN "release" ELSE "wait", !.gap = 0]
  <2>1. Gap = 0 /\ driver' = [Served EXCEPT !.gap = 0]
    BY <1>2 DEF HostServed, Gap
  <2>2. CASE driver.phase = "reset"
    <3>1. Served = [driver EXCEPT !.phase = "release"]
      BY <2>2 DEF Served
    <3>2. QED
      BY <2>1, <2>2, <3>1
  <2>3. CASE driver.phase = "release"
    <3>1. Served = [driver EXCEPT !.phase = "wait"]
      BY <2>3 DEF Served
    <3>2. QED
      BY <2>1, <2>3, <3>1
  <2>4. QED
    BY <2>2, <2>3
<1>5. QED
  BY <1>1, <1>3, <1>4 DEF DriverType, IoSilent, Keeps

\* It starts a command or a reset.
LEMMA DriverBegins ==
  ASSUME OfADisk, DriverType, IoInv, scenario' = scenario, HostBegins
  PROVE  /\ io.op = "none" /\ io'.op = "none" /\ driver.gap = 0 /\ driver'.gap = 0 /\ Untouched
         /\ driver.phase \in {"free", "data"} /\ driver'.geometry = driver.geometry
         /\ driver'.phase = (IF driver'.cmd = Srst THEN "reset" ELSE "params")
         /\ driver.phase = "data" => driver'.cmd = Srst
         /\ driver'.moved = 0 /\ driver'.step = (IF driver'.cmd = Srst THEN 0 ELSE 1)
         /\ DriverType'
<1>1. PICK c \in scenario.commands : driver' = Begins(c) /\ (driver.phase = "data" => c = Srst)
  BY DEF HostBegins
<1> DEFINE sense == IF driver.phase = "data" /\ driver.sent /\ driver.cmd.packet[1][2] = "SENSE" THEN 0
                    ELSE driver.sense
<1>2. driver' = [driver EXCEPT !.phase = IF c = Srst THEN "reset" ELSE "params", !.cmd = c,
                   !.step = IF c = Srst THEN 0 ELSE 1, !.moved = 0, !.left = 0, !.sent = FALSE,
                   !.sense = sense]
  BY <1>1 DEF Begins, DriverType
<1> HIDE DEF sense
<1>3. io.op = "none" /\ io' = IoSilent /\ driver.gap = 0 /\ Untouched /\ driver.phase \in {"free", "data"}
  BY DEF HostBegins, Untouched
<1>4. driver'.cmd = c /\ driver'.phase = (IF c = Srst THEN "reset" ELSE "params") /\ driver'.moved = 0
      /\ driver'.step = (IF c = Srst THEN 0 ELSE 1) /\ driver'.gap = driver.gap
      /\ driver'.geometry = driver.geometry /\ DriverType'
  BY <1>2 DEF DriverType
<1>5. QED
  BY <1>1, <1>3, <1>4 DEF IoSilent

-----------------------------------------------------------------------------
(* What an edge of the clock does to the controller.                        *)

EdgeOfController ==
  /\ ide'.status = NextStatus /\ ide'.last_read = NextLastRead /\ ide'.request = NextRequest
  /\ ide'.blk_size = NextBlkSize /\ ide'.sw_reset = NextSwReset /\ ide'.io_cnt = NextIoCnt
  /\ ide'.mgmt_cnt = NextMgmtCnt /\ ide'.old_stb = io_stb
  /\ ide'.error = (IF mgmt_wr(0) THEN bus'.data[3] ELSE ide.error)
  /\ ide'.present = (IF mgmt_wr(6) THEN bus'.data[2] ELSE ide.present)
  /\ ide'.r_32 = (IF io_stb THEN io.wide ELSE ide.r_32)
  /\ ide'.old_wr = (bus'.op = "write") /\ ide'.old_rd = (bus'.op = "read")
EdgeOfTaskFile ==
  /\ tf'.features = (IF io_wr(1) THEN io.data[1][2] ELSE tf.features)
  /\ tf'.sector_count = (IF mgmt_wr(1) THEN bus'.data[2] ELSE IF io_wr(2) THEN io.data[1][2] ELSE tf.sector_count)
  /\ tf'.sector = (IF mgmt_wr(1) THEN bus'.data[3] ELSE IF io_wr(3) THEN io.data[1][2] ELSE tf.sector)
  /\ tf'.cylinder = (IF mgmt_wr(2) THEN bus'.data[2] ELSE IF io_wr(4) THEN io.data[1][2] ELSE tf.cylinder)
  /\ tf'.drv_addr = (IF mgmt_wr(5) THEN bus'.data[2] ELSE IF io_wr(6) THEN io.data[1][2] ELSE tf.drv_addr)
  /\ tf'.cmd = (IF io_wr(7) THEN io.data[1][2] ELSE tf.cmd)
EdgeOfBuffer ==
  /\ \A w \in 0..(BufWords - 1) : buf'.word[w] = Stored(w)
  /\ \A i \in 1..2 : buf'.readdata[i] = IF MgmtWrites(i - 1) THEN buf.readdata[i]
                                        ELSE buf.word[Pair(ide.mgmt_cnt) + i - 1]
  /\ buf'.q = [i \in 1..2 |-> IF IoWrites(i - 1) THEN buf.q[i] ELSE buf.word[Pair(ide.io_cnt) + i - 1]]

LEMMA EdgeOfPort == Port => EdgeOfController /\ EdgeOfTaskFile /\ EdgeOfBuffer /\ mgmt_readdata' = NextMgmtReaddata
<1>1. Port => EdgeOfController /\ mgmt_readdata' = NextMgmtReaddata
  BY DEF Port, NextIde, EdgeOfController
<1>2. Port => EdgeOfTaskFile
  BY DEF Port, NextTf, EdgeOfTaskFile
<1>3. Port => EdgeOfBuffer
  BY DEF Port, NextBuf, EdgeOfBuffer
<1>4. QED
  BY <1>1, <1>2, <1>3

\* Nothing is written on either side, and no block is over.
LEMMA SilentEdge ==
  ASSUME ControllerType, EdgeOfController, EdgeOfTaskFile, bus'.op # "write", io.op # "write", ~reset
  PROVE  /\ tf'.features = tf.features /\ tf'.sector_count = tf.sector_count /\ tf'.sector = tf.sector
         /\ tf'.cylinder = tf.cylinder /\ tf'.drv_addr = tf.drv_addr /\ tf'.cmd = tf.cmd
         /\ ide'.blk_size = ide.blk_size /\ ide'.error = ide.error /\ ide'.present = ide.present
         /\ ide'.sw_reset = ide.sw_reset
         /\ ~BlockEnds => /\ ide'.status = ide.status /\ ide'.request = ide.request
                          /\ ide'.last_read = ide.last_read
<1>1. /\ tf'.features = tf.features /\ tf'.sector_count = tf.sector_count /\ tf'.sector = tf.sector
      /\ tf'.cylinder = tf.cylinder /\ tf'.drv_addr = tf.drv_addr /\ tf'.cmd = tf.cmd
  BY DEF EdgeOfTaskFile, mgmt_wr, io_wr
<1>2. QED
  BY <1>1 DEF EdgeOfController, ControllerType, reset, mgmt_wr, io_wr, NextBlkSize, NextSwReset, NextStatus, NextRequest, NextLastRead

-----------------------------------------------------------------------------
(* The management bus.                                                      *)

Clears == bus' = [bus EXCEPT !.op = "none"]
LEMMA BusClears ==
  ASSUME BusType, ControllerType, CounterInv, EdgeOfController, Clears, scenario' = scenario,
         scenario.jitter = FALSE => hps'.rest = FALSE
  PROVE  /\ BusType' /\ bus'.op = "none" /\ bus'.addr = bus.addr /\ ide'.mgmt_cnt \in 0..(CountLimit - 1)
         /\ bus.op = "none" => ide'.mgmt_cnt = ide.mgmt_cnt
         /\ bus.op # "none" /\ bus.addr = 15 => ide'.mgmt_cnt = (ide.mgmt_cnt + 1) % CountLimit
         /\ bus.addr # 15 => ide'.mgmt_cnt = 0
<1>1. bus'.op = "none" /\ bus'.addr = bus.addr /\ DOMAIN bus' = {"op", "addr", "data"}
  BY DEF Clears, BusType
<1>2. ide'.old_wr = (bus'.op = "write") /\ ide'.old_rd = (bus'.op = "read")
  BY DEF EdgeOfController
<1>3. BusType'
  BY <1>1, <1>2 DEF BusType
<1>4. ide'.mgmt_cnt = NextMgmtCnt
  BY DEF EdgeOfController
<1>5. /\ bus.op = "none" => ide'.mgmt_cnt = ide.mgmt_cnt
      /\ bus.op # "none" => ide'.mgmt_cnt = IF bus.addr = 15 THEN (ide.mgmt_cnt + 1) % CountLimit ELSE 0
  BY <1>1, <1>4 DEF NextMgmtCnt, BusType
<1>6. bus.addr # 15 /\ bus.op = "none" => ide.mgmt_cnt = 0
  BY DEF CounterInv
<1>7. ide.mgmt_cnt \in 0..(CountLimit - 1) /\ 0 \in 0..(CountLimit - 1)
      /\ (ide.mgmt_cnt + 1) % CountLimit \in 0..(CountLimit - 1)
  BY BufferAssumption DEF ControllerType
<1>8. ide'.mgmt_cnt \in 0..(CountLimit - 1)
  BY <1>5, <1>7
<1>9. QED
  BY <1>1, <1>3, <1>5, <1>6, <1>8

LEMMA BusUses ==
  ASSUME BusType, EdgeOfController, scenario' = scenario, ~hps.rest, hps'.rest = TRUE,
         NEW op \in {"read", "write"}, NEW addr \in 0..15, NEW data, bus' = [op |-> op, addr |-> addr, data |-> data]
  PROVE  BusType' /\ ide'.mgmt_cnt = ide.mgmt_cnt /\ bus'.op = op /\ bus'.addr = addr /\ bus'.data = data
         /\ bus.op = "none"
<1>1. ide'.old_wr = (bus'.op = "write") /\ ide'.old_rd = (bus'.op = "read") /\ ide'.mgmt_cnt = NextMgmtCnt
  BY DEF EdgeOfController
<1>2. bus.op = "none" /\ ide.old_wr = FALSE /\ ide.old_rd = FALSE
  BY DEF BusType
<1>3. BusType'
  BY <1>1 DEF BusType
<1>4. QED
  BY <1>1, <1>2, <1>3 DEF NextMgmtCnt

-----------------------------------------------------------------------------
(* The software waits.                                                      *)

LEMMA Members ==
  ASSUME NEW h, DOMAIN h = DOMAIN hps, HpsType
  PROVE  LET c == Cleared(h) IN
         /\ DOMAIN c = DOMAIN hps /\ c.state = h.state /\ c.next = h.next /\ c.rest = h.rest
         /\ c.geometry = h.geometry /\ c.cnt = 0 /\ RegsType(c.regs) /\ DOMAIN c.args = {"count", "sector", "cylinder"}
<1> DEFINE r == [PowerOnRegs EXCEPT !.error = h.regs.error, !.size = h.regs.size, !.psize = h.regs.psize]
<1>1. RegsType(r)
  BY DEF RegsType, PowerOnRegs
<1>2. DOMAIN NoArgs = {"count", "sector", "cylinder"}
  BY DEF NoArgs
<1> HIDE DEF r
<1> DEFINE c == [h EXCEPT !.args = NoArgs, !.cmd = "none", !.features = 0, !.cnt = 0, !.packet = <<>>, !.data = <<>>,
            !.lba = NoSector, !.irq_pending = FALSE, !.plimit = 0, !.plba = IF h.pleft = 0 THEN 0 ELSE @,
            !.regs = r]
<1>3. Cleared(h) = c
  BY DEF Cleared, r
<1>4. DOMAIN c = DOMAIN hps /\ c.state = h.state /\ c.next = h.next /\ c.rest = h.rest
      /\ c.geometry = h.geometry /\ c.cnt = 0 /\ c.regs = r /\ c.args = NoArgs
  BY DEF HpsType
<1> HIDE DEF c
<1>5. QED
  BY <1>1, <1>2, <1>3, <1>4

LEMMA TypeOfHps ==
  ASSUME HpsType, DOMAIN hps' = DOMAIN hps, hps'.state \in States,
         hps'.next \in {"IDLE", "RESET_SET", "READ_WAIT_REQ", "WRITE_WAIT_REQ"}, hps'.rest = FALSE \/ hps'.rest = TRUE,
         hps'.geometry \in Geometries, hps'.cnt \in Nat, RegsType(hps'.regs),
         DOMAIN hps'.args = {"count", "sector", "cylinder"}, hps'.state = "SET_REGS_SEND" => hps'.cnt \in 0..6
  PROVE  HpsType'
<1>1. DOMAIN hps' = {"state", "next", "rest", "geometry", "sense", "regs", "args", "cmd", "features", "cnt",
                     "packet", "data", "lba", "irq_pending", "plba", "pleft", "plimit"}
  BY DEF HpsType
<1>2. hps'.rest \in BOOLEAN
  BY Zenon
<1>3. QED
  BY <1>1, <1>2 DEF HpsType

\* It stays where it waits, or ends the command.
Waitings == {"IDLE", "RESET_SET", "READ_WAIT_REQ", "WRITE_WAIT_REQ"}
Quiets ==
  /\ bus'.op = "none" /\ bus'.addr = bus.addr /\ image' = image /\ hps'.geometry = hps.geometry
  /\ hps.state # "INITIAL" /\ hps'.state # "INITIAL" /\ ~Sends' /\ After \in Waitings
  /\ After \in {"READ_WAIT_REQ", "WRITE_WAIT_REQ"} => After' = After /\ hps'.regs = hps.regs /\ hps'.lba = hps.lba
  /\ After \in {"IDLE", "RESET_SET"} => After' \in {"IDLE", "RESET_SET"}
  /\ HpsType' /\ BusType' /\ CounterInv' /\ ide'.mgmt_cnt \in 0..(CountLimit - 1)
  /\ hps'.state \in {"IDLE", "RESET_SET", "READ_WAIT_REQ", "WRITE_WAIT_REQ", "SET_REGS_SEND"}
LEMMA QuietSoftware ==
  ASSUME OfADisk, HpsType, BusType, ControllerType, CounterInv, EdgeOfController, DiskNext,
         ide.request = "none", After \in Waitings
  PROVE  Quiets
<1>0. /\ hps.state \in Waitings \/ (hps.state = "SET_REGS_SEND" /\ hps.cnt = 6 /\ hps.next \in {"IDLE", "RESET_SET", "READ_WAIT_REQ", "WRITE_WAIT_REQ"})
      /\ scenario' = scenario /\ bus.addr # 15
  BY EdgeOfClock, SizesAssumption DEF After, HpsType, CounterInv, Movers, Waitings
<1>1. CASE Rest
  <2>1. PICK more \in IF scenario.jitter THEN BOOLEAN ELSE {FALSE} : hps' = [hps EXCEPT !.rest = more]
    BY <1>1 DEF Rest, clear_bus
  <2>2. Clears /\ image' = image
    BY <1>1 DEF Rest, clear_bus, Clears
  <2>3. HpsType' /\ hps'.rest = more /\ hps'.state = hps.state /\ hps'.next = hps.next /\ hps'.cnt = hps.cnt
        /\ hps'.geometry = hps.geometry /\ hps'.regs = hps.regs /\ hps'.lba = hps.lba
    BY <2>1 DEF HpsType, OfADisk
  <2>4. BusType' /\ bus'.op = "none" /\ bus'.addr = bus.addr /\ ide'.mgmt_cnt \in 0..(CountLimit - 1)
        /\ ide'.mgmt_cnt = 0
    <3>1. scenario.jitter = FALSE => hps'.rest = FALSE
      BY <2>1, <2>3
    <3>2. QED
      BY <1>0, <2>2, <3>1, BusClears
  <2>5. CounterInv'
    BY <1>0, <2>3, <2>4 DEF CounterInv, Movers, Waitings
  <2>6. QED
    BY <1>0, <2>2, <2>3, <2>4, <2>5 DEF Quiets, After, Sends, Waitings
<1>2. ASSUME ~hps.rest, Clears, image' = image, HpsType', hps'.rest = FALSE, hps'.geometry = hps.geometry,
             hps'.state \in Waitings, After \in {"READ_WAIT_REQ", "WRITE_WAIT_REQ"} => After' = After /\ hps'.regs = hps.regs /\ hps'.lba = hps.lba,
             After \in {"IDLE", "RESET_SET"} => After' \in {"IDLE", "RESET_SET"}
      PROVE  Quiets
  <2>1. bus.op = "none"
    BY <1>2 DEF BusType
  <2>2. BusType' /\ bus'.op = "none" /\ bus'.addr = bus.addr /\ ide'.mgmt_cnt \in 0..(CountLimit - 1)
        /\ ide'.mgmt_cnt = 0
    BY <1>0, <1>2, BusClears
  <2>3. CounterInv'
    BY <1>0, <1>2, <2>2 DEF CounterInv, Movers, Waitings
  <2>4. QED
    BY <1>0, <1>2, <2>2, <2>3 DEF Quiets, After, Sends, Waitings
<1>3. CASE IDLE \/ READ_WAIT_REQ \/ WRITE_WAIT_REQ
  <2>1. ~hps.rest /\ hps' = hps /\ image' = image /\ Clears /\ hps.state \in {"IDLE", "READ_WAIT_REQ", "WRITE_WAIT_REQ"}
    <3>1. CASE IDLE
      BY <3>1 DEF IDLE, In, clear_bus, Clears
    <3>2. CASE READ_WAIT_REQ
      BY <3>2 DEF READ_WAIT_REQ, Waits, In, clear_bus, Clears
    <3>3. CASE WRITE_WAIT_REQ
      BY <3>3 DEF WRITE_WAIT_REQ, Waits, In, clear_bus, Clears
    <3>4. QED
      BY <1>3, <3>1, <3>2, <3>3
  <2>2. After = hps.state /\ After' = After /\ hps'.rest = FALSE /\ HpsType'
    BY <2>1 DEF After, HpsType
  <2>3. QED
    BY <1>2, <2>1, <2>2 DEF Waitings
<1>4. CASE RESET_SET
  <2> DEFINE h == [hps EXCEPT !.state = "IDLE"]
  <2>1. ~hps.rest /\ hps' = Cleared(h) /\ image' = image /\ Clears /\ hps.state = "RESET_SET"
    BY <1>4 DEF RESET_SET, In, clear_bus, Clears
  <2>2. DOMAIN h = DOMAIN hps /\ h.state = "IDLE" /\ h.next = hps.next /\ h.rest = hps.rest /\ h.geometry = hps.geometry
    BY DEF HpsType
  <2> HIDE DEF h
  <2>3. /\ DOMAIN hps' = DOMAIN hps /\ hps'.state = "IDLE" /\ hps'.next = hps.next /\ hps'.rest = FALSE
        /\ hps'.geometry = hps.geometry /\ hps'.cnt = 0 /\ RegsType(hps'.regs)
        /\ DOMAIN hps'.args = {"count", "sector", "cylinder"}
    <3>1. hps.rest = FALSE
      BY <2>1 DEF HpsType
    <3>2. QED
      BY <2>1, <2>2, <3>1, Members
  <2>4. HpsType'
    <3>1. hps'.state \in States /\ hps'.geometry \in Geometries /\ hps'.state # "SET_REGS_SEND" /\ hps'.cnt \in Nat
          /\ hps'.next \in {"IDLE", "RESET_SET", "READ_WAIT_REQ", "WRITE_WAIT_REQ"}
      BY <2>3 DEF HpsType, States
    <3>2. QED
      BY <2>3, <3>1, TypeOfHps, Zenon
  <2>5. After = "RESET_SET" /\ After' = "IDLE"
    BY <2>1, <2>3 DEF After
  <2>6. QED
    BY <1>2, <2>1, <2>3, <2>4, <2>5 DEF Waitings
<1>5. CASE SET_REGS_SEND
  <2> DEFINE h == [hps EXCEPT !.cnt = 0, !.state = hps.next]
  <2>1. ~hps.rest /\ hps' = (IF hps.next = "IDLE" THEN Cleared(h) ELSE h) /\ image' = image /\ Clears
        /\ hps.state = "SET_REGS_SEND" /\ hps.cnt = 6
    <3>1. hps.state = "SET_REGS_SEND" /\ hps.cnt = 6 /\ ~hps.rest
      BY <1>0, <1>5 DEF SET_REGS_SEND, In, Waitings
    <3>2. clear_bus(IF hps.next = "IDLE" THEN Cleared(h) ELSE h) /\ image' = image
      BY <1>5, <3>1 DEF SET_REGS_SEND
    <3>3. QED
      BY <3>1, <3>2 DEF clear_bus, Clears
  <2>2. DOMAIN h = DOMAIN hps /\ h.state = hps.next /\ h.next = hps.next /\ h.rest = FALSE /\ h.geometry = hps.geometry
        /\ h.regs = hps.regs /\ h.lba = hps.lba /\ h.cnt = 0 /\ h.args = hps.args
    BY <2>1 DEF HpsType
  <2> HIDE DEF h
  <2>3. /\ DOMAIN hps' = DOMAIN hps /\ hps'.state = hps.next /\ hps'.next = hps.next /\ hps'.rest = FALSE
        /\ hps'.geometry = hps.geometry /\ hps'.cnt = 0 /\ RegsType(hps'.regs)
        /\ DOMAIN hps'.args = {"count", "sector", "cylinder"}
    <3>1. CASE hps.next = "IDLE"
      BY <2>1, <2>2, <3>1, Members
    <3>2. CASE hps.next # "IDLE"
      BY <2>1, <2>2, <3>2 DEF HpsType
    <3>3. QED
      BY <3>1, <3>2
  <2>4. HpsType'
    <3>1. hps'.state \in States /\ hps'.geometry \in Geometries /\ hps'.state # "SET_REGS_SEND" /\ hps'.cnt \in Nat
          /\ hps'.next \in {"IDLE", "RESET_SET", "READ_WAIT_REQ", "WRITE_WAIT_REQ"}
      BY <1>0, <2>1, <2>3 DEF HpsType, States, Waitings
    <3>2. QED
      BY <2>3, <3>1, TypeOfHps, Zenon
  <2>5. After = hps.next /\ After' = hps.next
    BY <1>0, <2>1, <2>3 DEF After, Waitings
  <2>6. hps.next # "IDLE" => hps'.regs = hps.regs /\ hps'.lba = hps.lba
    BY <2>1, <2>2
  <2>7. QED
    BY <1>0, <1>2, <2>1, <2>3, <2>4, <2>5, <2>6 DEF Waitings
<1>6. Rest \/ IDLE \/ READ_WAIT_REQ \/ WRITE_WAIT_REQ \/ RESET_SET \/ SET_REGS_SEND
  BY <1>0 DEF DiskNext, In, INITIAL, GET_RESET_DRIVE, GET_CMD, DO_CMD, SEND_ID, SET_REGS, READ, READ_REGS, READ_SEND,
     WRITE, WRITE_REGS, WRITE_RECV, PACKET_WAIT_REQ, PACKET_RECV, PACKET_HANDLE, PACKET_SEND,
     PACKET_READ_WAIT_REQ, Waits, Waitings
<1>7. QED
  BY <1>1, <1>3, <1>4, <1>5, <1>6

-----------------------------------------------------------------------------
(* The driver and the reset line.                                           *)

Idles == HostQuiet \/ HostAccesses
LEMMA DriverCases ==
  ASSUME DriverType, IoInv, Host
  PROVE  \/ Idles \/ HostBegins
         \/ HostServed /\ driver.phase \in {"wait", "params", "data", "reset", "release"}
<1>1. HostServed => driver.phase # "free"
  BY DEF HostServed, IoInv
<1>2. QED
  BY <1>1 DEF Host, Idles, DriverType

\* What may be on the bus.
LEMMA Buses ==
  ASSUME IoInv, DriverType, OfADisk
  PROVE  /\ driver.phase \in {"wait", "free"} => io.op # "write"
         /\ io.op # "none" /\ io.addr = 0 => driver.phase = "data"
         /\ io.op = "write" /\ io.addr = 7 => driver.phase = "params" /\ driver.step = 7
         /\ io.op = "write" /\ io.addr = 14 => driver.phase \in {"params", "reset", "release"}
<1>1. CASE io.op = "none"
  BY <1>1
<1>2. CASE io.op # "none" /\ driver.phase = "wait"
  BY <1>2 DEF IoInv
<1>3. CASE io.op # "none" /\ driver.phase = "params"
  <2>1. io = Access("write", Params(Cmd)[driver.step][1], <<Params(Cmd)[driver.step][2]>>, FALSE)
        /\ driver.step \in 1..7
    BY <1>3, Zenon DEF IoInv
  <2>2. Params(Cmd)[driver.step][1] \in {14, 1, 2, 3, 4, 6, 7}
        /\ (Params(Cmd)[driver.step][1] = 7 => driver.step = 7)
    BY <2>1 DEF Params
  <2>3. QED
    BY <1>3, <2>1, <2>2 DEF Access
<1>4. CASE io.op # "none" /\ driver.phase = "data"
  BY <1>4 DEF IoInv, IsData
<1>5. CASE io.op # "none" /\ driver.phase \in {"reset", "release"}
  <2>1. io.op = "write" /\ io.addr = 14
    <3>1. CASE driver.phase = "reset"
      <4>1. io = Access("write", 14, << <<"control", TRUE, FALSE>> >>, FALSE)
        BY <1>5, <3>1, Zenon DEF IoInv
      <4>2. QED
        BY <4>1 DEF Access
    <3>2. CASE driver.phase = "release"
      <4>1. io = Access("write", 14, << <<"control", FALSE, FALSE>> >>, FALSE)
        BY <1>5, <3>2, Zenon DEF IoInv
      <4>2. QED
        BY <4>1 DEF Access
    <3>3. QED
      BY <1>5, <3>1, <3>2
  <2>2. QED
    BY <1>5, <2>1
<1>6. QED
  BY <1>1, <1>2, <1>3, <1>4, <1>5 DEF DriverType, IoInv

LEMMA DriverSide ==
  ASSUME OfADisk, DriverType, IoInv, ControllerType, StartInv, Port, Host, scenario' = scenario
  PROVE  OfADisk' /\ DriverType' /\ ide'.sw_reset = (driver'.phase = "release")
<1>0. ide'.sw_reset = NextSwReset /\ ide.sw_reset = (driver.phase = "release") /\ ide.present = (hps.state # "INITIAL")
  BY EdgeOfPort DEF EdgeOfController, ControllerType
<1>1. OfADisk'
  BY DEF OfADisk
<1>2. CASE Idles
  <2>1. driver'.phase = driver.phase /\ io.op = "none" /\ DriverType'
    BY <1>2, DriverIdles DEF Idles
  <2>2. QED
    BY <1>0, <1>1, <2>1 DEF NextSwReset, io_wr
<1>3. CASE HostBegins
  <2>1. driver.phase \in {"free", "data"} /\ driver'.phase \in {"reset", "params"} /\ io.op = "none" /\ DriverType'
    BY <1>3, DriverBegins
  <2>2. QED
    BY <1>0, <1>1, <2>1 DEF NextSwReset, io_wr
<1>4. CASE HostServed /\ driver.phase = "wait"
  <2>1. io.op = "read" /\ driver'.phase # "release" /\ DriverType'
    BY <1>4, DriverPolls
  <2>2. QED
    BY <1>0, <1>1, <1>4, <2>1 DEF NextSwReset, io_wr
<1>5. CASE HostServed /\ driver.phase = "data"
  <2>1. io.addr = 0 /\ driver'.phase # "release" /\ DriverType'
    BY <1>5, DriverMoves DEF IsData
  <2>2. QED
    BY <1>0, <1>1, <1>5, <2>1 DEF NextSwReset, io_wr
<1>6. CASE HostServed /\ driver.phase = "params"
  <2>1. /\ io = Access("write", Params(Cmd)[driver.step][1], <<Params(Cmd)[driver.step][2]>>, FALSE)
        /\ driver.step \in 1..7 /\ driver'.phase # "release" /\ DriverType'
    BY <1>6, DriverWrites
  <2>2. io.addr = 14 => io.data[1][2] = FALSE
    <3>1. io.addr = Params(Cmd)[driver.step][1] /\ io.data = <<Params(Cmd)[driver.step][2]>>
      BY <2>1 DEF Access
    <3>s. driver.step \in 1..7
      BY <2>1
    <3>p. Params(Cmd)[driver.step][1] = 14 => driver.step = 1
      BY <3>s DEF Params
    <3>2. io.addr = 14 => driver.step = 1
      BY <3>1, <3>p
    <3>3. Params(Cmd)[1][2] = <<"control", FALSE, ~Cmd.irq>>
      BY DEF Params, Cmd
    <3>4. io.addr = 14 => io.data = << <<"control", FALSE, ~Cmd.irq>> >>
      BY <3>1, <3>2, <3>3
    <3> DEFINE w == <<"control", FALSE, ~Cmd.irq>>
    <3>5. w[2] = FALSE
      BY Zenon
    <3> HIDE DEF w
    <3>6. io.addr = 14 => io.data = <<w>>
      BY <3>4 DEF w
    <3>7. QED
      BY <3>5, <3>6
  <2>3. QED
    BY <1>0, <1>1, <1>6, <2>1, <2>2 DEF NextSwReset, io_wr
<1>7. CASE HostServed /\ driver.phase \in {"reset", "release"}
  <2>1. /\ io = Access("write", 14, << <<"control", driver.phase = "reset", FALSE>> >>, FALSE)
        /\ driver'.phase = (IF driver.phase = "reset" THEN "release" ELSE "wait") /\ DriverType'
    BY <1>7, DriverResets
  <2>2. ide.present
    BY <1>0, <1>7 DEF StartInv
  <2>3. io_wr(14) /\ io.data[1][2] = (driver.phase = "reset")
    BY <2>1, <2>2 DEF io_wr, Access
  <2>4. QED
    BY <1>0, <1>1, <1>7, <2>1, <2>3 DEF NextSwReset
<1>8. QED
  BY <1>2, <1>3, <1>4, <1>5, <1>6, <1>7, DriverCases

-----------------------------------------------------------------------------
(* The drive is free.                                                       *)

LEMMA FreeEdge ==
  ASSUME ControllerType, StrobeInv, EdgeOfController, Free, bus'.op # "write"
  PROVE  /\ ide'.old_stb = FALSE /\ ide'.error = ide.error /\ ide'.present = ide.present
         /\ ide'.r_32 = ide.r_32 /\ ide'.io_cnt \in 0..(CountLimit - 1)
         /\ ide'.status = (IF driver.phase = "release" \/ io_wr(7) THEN {"BSY"} ELSE ide.status)
         /\ ide'.request = (IF driver.phase = "release" THEN "reset" ELSE IF io_wr(7) THEN "command" ELSE ide.request)
         /\ ide'.last_read = (IF driver.phase = "release" THEN FALSE ELSE ide.last_read)
<1>1. ~drq /\ ~BlockEnds /\ ~io_stb /\ ide.old_stb = FALSE
  BY DEF Free, drq, BlockEnds, io_stb, read_data_io, write_data_io, StrobeInv, ControllerType
<1>2. ide'.io_cnt \in 0..(CountLimit - 1)
  <2>1. ide'.io_cnt = IF reset THEN 0 ELSE ide.io_cnt
    BY <1>1 DEF EdgeOfController, NextIoCnt, mgmt_wr
  <2>2. 0 \in 0..(CountLimit - 1) /\ ide.io_cnt \in 0..(CountLimit - 1)
    BY BufferAssumption DEF ControllerType
  <2>3. QED
    BY <2>1, <2>2
<1>3. reset = (driver.phase = "release")
  BY DEF reset, ControllerType
<1>4. /\ ide'.status = NextStatus /\ ide'.last_read = NextLastRead /\ ide'.request = NextRequest
      /\ ide'.old_stb = io_stb /\ ide'.error = ide.error /\ ide'.present = ide.present
      /\ ide'.r_32 = ide.r_32
  BY <1>1 DEF EdgeOfController, mgmt_wr
<1>5. ide'.last_read = (IF driver.phase = "release" THEN FALSE ELSE ide.last_read)
  BY <1>1, <1>3, <1>4 DEF NextLastRead, mgmt_wr, ControllerType
<1>6. ide'.old_stb = FALSE
  BY <1>1, <1>4
<1>7. QED
  BY <1>1, <1>2, <1>3, <1>4, <1>5, <1>6 DEF NextStatus, NextRequest, mgmt_wr

SameTaskFile ==
  /\ tf'.features = tf.features /\ tf'.sector_count = tf.sector_count /\ tf'.sector = tf.sector
  /\ tf'.cylinder = tf.cylinder /\ tf'.drv_addr = tf.drv_addr /\ tf'.cmd = tf.cmd
LEMMA SilentTaskFile ==
  ASSUME EdgeOfTaskFile, bus'.op # "write", io.op # "write" \/ io.addr = 14 \/ io.addr = 0
  PROVE  SameTaskFile
  BY DEF EdgeOfTaskFile, SameTaskFile, mgmt_wr, io_wr

\* What a command of a disk is refused for and how much it moves.
LEMMA DiskCommands ==
  ASSUME OfADisk, DriverType
  PROVE  /\ Refused(Cmd) <=> Cmd.drv # 0 \/ Cmd.op = "OTHER"
         /\ Due(Cmd) = IF Cmd.op \in {"READ", "WRITE"} THEN Blocks(Cmd) * Words
                       ELSE IF Cmd.op = "IDENTIFY" THEN Words ELSE 0
         /\ Cmd.op \notin {"IDENTIFY_PACKET", "PACKET", "DEVICE_RESET"}
         /\ Cmd = Srst => Cmd.drv = 0 /\ Cmd.op = "SRST"
         /\ Cmd.op = "SRST" => Cmd = Srst
         /\ Cmd \in Command /\ (Cmd.op \in DiskOps \/ Cmd = Srst) /\ Blocks(Cmd) \in Nat \ {0}
<1>1. scenario.cdrom = FALSE /\ Cmd \in Command /\ (Cmd.op \in DiskOps \/ Cmd = Srst)
  BY CommandsOfADisk
<1>2. Srst.op = "SRST" /\ Srst.drv = 0
  BY DEF Srst
<1>3. Cmd.op \in DiskOps \cup {"SRST"} /\ (Cmd.op = "SRST" => Cmd = Srst)
  BY <1>1, <1>2 DEF DiskOps
<1>4. Cmd.count \in Nat
  BY <1>1 DEF Command
<1>5. Blocks(Cmd) \in Nat \ {0}
  BY <1>4, SizesAssumption DEF Blocks
<1>6. Refused(Cmd) <=> Cmd.drv # 0 \/ Cmd.op = "OTHER"
  BY <1>1, <1>3 DEF Refused, DiskOps
<1>7. Due(Cmd) = IF Cmd.op \in {"READ", "WRITE"} THEN Blocks(Cmd) * Words
                 ELSE IF Cmd.op = "IDENTIFY" THEN Words ELSE 0
  BY <1>3 DEF Due, DiskOps
<1>8. QED
  BY <1>1, <1>2, <1>3, <1>5, <1>6, <1>7 DEF DiskOps

LEMMA DiskCommandsNext ==
  ASSUME OfADisk', DriverType'
  PROVE  /\ Refused(Cmd)' <=> Cmd'.drv # 0 \/ Cmd'.op = "OTHER"
         /\ Due(Cmd)' = IF Cmd'.op \in {"READ", "WRITE"} THEN Blocks(Cmd') * Words
                        ELSE IF Cmd'.op = "IDENTIFY" THEN Words ELSE 0
<1>1. (OfADisk /\ DriverType =>
         /\ Refused(Cmd) <=> Cmd.drv # 0 \/ Cmd.op = "OTHER"
         /\ Due(Cmd) = IF Cmd.op \in {"READ", "WRITE"} THEN Blocks(Cmd) * Words
                       ELSE IF Cmd.op = "IDENTIFY" THEN Words ELSE 0)'
  BY DiskCommands, PTL
<1>2. QED
  BY <1>1

LEMMA StaysAnswered ==
  ASSUME OfADisk, DriverType, OfADisk', DriverType', Answered, driver'.cmd = driver.cmd, driver'.moved = driver.moved,
         SameTaskFile, ide'.status = ide.status, ide'.error = ide.error
  PROVE  Answered'
<1>1. Cmd' = Cmd
  BY DEF Cmd
<1>2. Refused(Cmd)' <=> Refused(Cmd)
  BY <1>1, DiskCommands, DiskCommandsNext
<1>3. Due(Cmd)' = Due(Cmd)
  BY <1>1, Zenon DEF Due, Blocks
<1>4. QED
  BY <1>1, <1>2, <1>3 DEF Answered, SameTaskFile

\* The registers that a command is written to, in this order.
ParamOf(c, i) ==
  LET p == Params(c)[i] IN
  /\ (i = 1) = (p[1] = 14) /\ (i = 2) = (p[1] = 1) /\ (i = 3) = (p[1] = 2) /\ (i = 4) = (p[1] = 3)
  /\ (i = 5) = (p[1] = 4) /\ (i = 6) = (p[1] = 6) /\ (i = 7) = (p[1] = 7)
  /\ i = 2 => p[2][2] = c.features
  /\ i = 3 => p[2][2] = c.count
  /\ i = 4 => p[2][2] = c.sector
  /\ i = 5 => p[2][2] = c.cylinder
  /\ i = 6 => p[2][2] = Address(c.lba, c.drv, c.head)
  /\ i = 7 => p[2][2] = c.op
LEMMA ParamsOf == \A c : \A i \in 1..7 : ParamOf(c, i)
<1> TAKE c
<1> TAKE i \in 1..7
<1> DEFINE p == Params(c)[i]
<1>1. /\ (i = 1) = (p[1] = 14) /\ (i = 2) = (p[1] = 1) /\ (i = 3) = (p[1] = 2) /\ (i = 4) = (p[1] = 3)
      /\ (i = 5) = (p[1] = 4) /\ (i = 6) = (p[1] = 6) /\ (i = 7) = (p[1] = 7)
  BY DEF Params
<1>2. /\ i = 2 => p[2][2] = c.features
      /\ i = 3 => p[2][2] = c.count
      /\ i = 4 => p[2][2] = c.sector
      /\ i = 5 => p[2][2] = c.cylinder
      /\ i = 6 => p[2][2] = Address(c.lba, c.drv, c.head)
      /\ i = 7 => p[2][2] = c.op
  BY DEF Params
<1>3. QED
  BY <1>1, <1>2 DEF ParamOf

LEMMA TaskFileWritten ==
  ASSUME OfADisk, DriverType, ControllerType, EdgeOfTaskFile, bus'.op # "write", ide.present,
         NEW i \in 1..7, Held(i), Cmd' = Cmd,
         io = Access("write", Params(Cmd)[i][1], <<Params(Cmd)[i][2]>>, FALSE)
  PROVE  Held(i + 1)' /\ tf'.drv_addr.drv \in 0..1 /\ tf'.drv_addr.lba \in BOOLEAN
<1>1. io.op = "write" /\ io.addr = Params(Cmd)[i][1] /\ io.data[1] = Params(Cmd)[i][2]
  BY DEF Access
<1>2. ParamOf(Cmd, i)
  BY ParamsOf
<1> DEFINE a == io.addr  d == io.data[1][2]
<1>3. /\ (i = 1) = (a = 14) /\ (i = 2) = (a = 1) /\ (i = 3) = (a = 2) /\ (i = 4) = (a = 3)
      /\ (i = 5) = (a = 4) /\ (i = 6) = (a = 6) /\ (i = 7) = (a = 7)
  BY <1>1, <1>2 DEF ParamOf
<1>4. /\ i = 2 => d = Cmd.features
      /\ i = 3 => d = Cmd.count
      /\ i = 4 => d = Cmd.sector
      /\ i = 5 => d = Cmd.cylinder
      /\ i = 6 => d = Address(Cmd.lba, Cmd.drv, Cmd.head)
      /\ i = 7 => d = Cmd.op
  BY <1>1, <1>2 DEF ParamOf
<1>5. /\ tf'.features = (IF i = 2 THEN d ELSE tf.features)
      /\ tf'.sector_count = (IF i = 3 THEN d ELSE tf.sector_count)
      /\ tf'.sector = (IF i = 4 THEN d ELSE tf.sector)
      /\ tf'.cylinder = (IF i = 5 THEN d ELSE tf.cylinder)
      /\ tf'.drv_addr = (IF i = 6 THEN d ELSE tf.drv_addr)
      /\ tf'.cmd = (IF i = 7 THEN d ELSE tf.cmd)
  BY <1>1, <1>3 DEF EdgeOfTaskFile, mgmt_wr, io_wr
<1> HIDE DEF a, d
<1>6. tf'.drv_addr.drv \in 0..1 /\ tf'.drv_addr.lba \in BOOLEAN
  <2>1. Cmd.drv \in 0..1 /\ Cmd.lba \in BOOLEAN
    BY DiskCommands DEF Command
  <2>2. QED
    BY <1>4, <1>5, <2>1 DEF ControllerType, Address
<1>7. Held(i + 1)'
  <2> DEFINE j == i + 1
  <2>1. /\ j > 2 => tf'.features = Cmd.features
        /\ j > 3 => tf'.sector_count = Cmd.count
        /\ j > 4 => tf'.sector = Cmd.sector
        /\ j > 5 => tf'.cylinder = Cmd.cylinder
        /\ j > 6 => tf'.drv_addr = Address(Cmd.lba, Cmd.drv, Cmd.head)
        /\ j > 7 => tf'.cmd = Cmd.op
    BY <1>4, <1>5 DEF Held
  <2>2. QED
    BY <2>1 DEF Held
<1>8. QED
  BY <1>6, <1>7

LEMMA FreeStays ==
  ASSUME Free, Quiets, Down, ide'.status = ide.status, ide'.request = "none", ide'.last_read = FALSE,
         image = intended, intended' = intended, driver'.phase # "data",
         driver'.phase \in {"wait", "free"} => Answered'
  PROVE  FreeInv' /\ DataInv' /\ ResetInv' /\ WorkInv'
<1>1. ide'.status \cap {"BSY", "DRQ"} = {} /\ "BSY" \notin ide'.status /\ "DRQ" \notin ide'.status
  BY DEF Free
<1>2. Down' /\ image' = intended'
  BY DEF Quiets, Down
<1>3. QED
  BY <1>1, <1>2 DEF FreeInv, DataInv, ResetInv, WorkInv

LEMMA FreeResets ==
  ASSUME Quiets, ide'.status = {"BSY"}, ide'.request = "reset", ide'.last_read = FALSE,
         image = intended, intended' = intended, Cmd' = Srst, driver'.moved = 0,
         driver'.phase \in {"wait", "release"}
  PROVE  FreeInv' /\ DataInv' /\ ResetInv' /\ WorkInv'
<1>1. "BSY" \in ide'.status /\ "DRQ" \notin ide'.status /\ ~Free'
  BY DEF Free
<1>2. image' = intended'
  BY DEF Quiets
<1>3. After' \in {"INITIAL", "IDLE", "RESET_SET", "READ_WAIT_REQ", "WRITE_WAIT_REQ"}
  BY DEF Quiets, Waitings
<1>4. QED
  BY <1>1, <1>2, <1>3 DEF FreeInv, DataInv, ResetInv, WorkInv, Resets

LEMMA FreeStep ==
  ASSUME DInv, DiskNext, Free
  PROVE  DInv'
<1>0. /\ OfADisk /\ DriverType /\ HpsType /\ BusType /\ ControllerType /\ Images /\ CounterInv /\ StrobeInv
      /\ StartInv /\ IoInv /\ TaskFile /\ GeometryInv /\ FreeInv
  BY DEF DInv, TypeInv
<1>1. /\ ide.request = "none" /\ Down /\ image = intended /\ ide.last_read = FALSE /\ driver.phase # "data"
      /\ driver.phase \in {"wait", "free"} => Answered
  BY <1>0 DEF FreeInv
<1>2. Port /\ Host /\ scenario' = scenario
  BY EdgeOfClock
<1>3. EdgeOfController /\ EdgeOfTaskFile
  BY <1>2, EdgeOfPort
<1>4. Quiets
  <2>1. After \in Waitings
    BY <1>1 DEF Down, Waitings
  <2>2. QED
    BY <1>0, <1>1, <1>3, <2>1, QuietSoftware
<1>5. bus'.op # "write" /\ hps.state # "INITIAL" /\ hps'.state # "INITIAL" /\ image' = image
      /\ hps'.geometry = hps.geometry /\ ~Sends' /\ HpsType' /\ BusType' /\ CounterInv'
      /\ ide'.mgmt_cnt \in 0..(CountLimit - 1) /\ StartInv'
  BY <1>4 DEF Quiets, StartInv
<1>6. OfADisk' /\ DriverType' /\ ide'.sw_reset = (driver'.phase = "release")
  BY <1>0, <1>2, DriverSide
<1>7. /\ ide'.old_stb = FALSE /\ ide'.error = ide.error /\ ide'.present = ide.present
      /\ ide'.r_32 = ide.r_32 /\ ide'.io_cnt \in 0..(CountLimit - 1)
      /\ ide'.status = (IF driver.phase = "release" \/ io_wr(7) THEN {"BSY"} ELSE ide.status)
      /\ ide'.request = (IF driver.phase = "release" THEN "reset" ELSE IF io_wr(7) THEN "command" ELSE "none")
      /\ ide'.last_read = FALSE
  BY <1>0, <1>1, <1>3, <1>5, FreeEdge
<1>8. ASSUME tf'.drv_addr.drv \in 0..1, tf'.drv_addr.lba \in BOOLEAN PROVE ControllerType'
  <2>1. ide'.status \in SUBSET StatusBits /\ ("BSY" \in ide'.status => ide'.status = {"BSY"})
    BY <1>0, <1>7 DEF ControllerType, StatusBits
  <2>2. ide.present = TRUE /\ ide'.present = (hps'.state # "INITIAL")
    BY <1>0, <1>5, <1>7 DEF ControllerType
  <2>3. QED
    BY <1>0, <1>5, <1>6, <1>7, <1>8, <2>1, <2>2 DEF ControllerType
<1>9. driver.gap \in 0..1 /\ ide.old_stb = FALSE
  BY <1>0 DEF StrobeInv, Free, DriverType, ControllerType
<1>10. ASSUME intended' = intended, driver'.gap # 2,
              driver'.gap > 0 => io'.op = "none" /\ driver'.phase \in {"data", "wait", "free"},
              IoInv', TaskFile', GeometryInv', FreeInv' /\ DataInv' /\ ResetInv' /\ WorkInv',
              tf'.drv_addr.drv \in 0..1, tf'.drv_addr.lba \in BOOLEAN
       PROVE  DInv'
  <2>1. Images'
    BY <1>0, <1>5, <1>10 DEF Images
  <2>2. StrobeInv'
    BY <1>7, <1>10 DEF StrobeInv
  <2>3. QED
    BY <1>5, <1>6, <1>8, <1>10, <2>1, <2>2 DEF DInv, TypeInv
<1>11. ASSUME SameTaskFile PROVE tf'.drv_addr.drv \in 0..1 /\ tf'.drv_addr.lba \in BOOLEAN
  BY <1>0, <1>11 DEF SameTaskFile, ControllerType
<1>12. CASE Idles
  <2>1. /\ Keeps /\ Untouched /\ driver'.phase = driver.phase /\ io.op = "none"
        /\ driver'.gap = (IF driver.gap > 0 THEN driver.gap - 1 ELSE 0) /\ IoInv'
    BY <1>0, <1>2, <1>12, DriverIdles DEF Idles
  <2>2. driver'.gap = 0
    BY <1>9, <2>1
  <2>3. SameTaskFile
    BY <1>3, <1>5, <2>1, SilentTaskFile
  <2>4. Cmd' = Cmd /\ intended' = intended /\ ~io_wr(7)
    BY <2>1 DEF Keeps, Untouched, Cmd, io_wr
  <2>5. TaskFile'
    BY <1>0, <2>1, <2>3, <2>4 DEF TaskFile, Held, Keeps, SameTaskFile
  <2>6. GeometryInv'
    <3>1. Obeyed <=> driver.phase = "wait"
      BY <1>1 DEF Obeyed
    <3>2. Obeyed' <=> driver.phase = "wait"
      BY <1>7, <2>1, <2>4 DEF Obeyed
    <3>3. Refused(Cmd)' <=> Refused(Cmd)
      BY <1>2, <2>4, Zenon DEF Refused
    <3>4. QED
      BY <1>0, <1>5, <2>1, <2>4, <3>1, <3>2, <3>3 DEF GeometryInv, Keeps
  <2>7. FreeInv' /\ DataInv' /\ ResetInv' /\ WorkInv'
    <3>1. CASE driver.phase = "release"
      <4>1. Cmd = Srst /\ driver.moved = 0
        BY <1>0, <3>1 DEF IoInv
      <4>2. QED
        BY <1>1, <1>4, <1>7, <2>1, <2>4, <3>1, <4>1, FreeResets DEF Keeps
    <3>2. CASE driver.phase # "release"
      <4>1. driver.phase \in {"wait", "free"} => Answered'
        BY <1>0, <1>1, <1>6, <1>7, <2>1, <2>3, <2>4, <3>2, StaysAnswered DEF Keeps
      <4>2. QED
        BY <1>1, <1>4, <1>7, <2>1, <2>4, <3>2, <4>1, FreeStays
    <3>3. QED
      BY <3>1, <3>2
  <2>8. QED
    BY <1>10, <1>11, <2>1, <2>2, <2>3, <2>4, <2>5, <2>6, <2>7
<1>13. CASE HostServed /\ driver.phase = "wait"
  <2>1. Polled = ide.status
    BY <1>0, <1>5 DEF Polled, ControllerType
  <2>2. "BSY" \notin Polled /\ "DRQ" \notin Polled
    BY <2>1 DEF Free
  <2>3. /\ io.op = "read" /\ driver'.gap = 1 /\ io'.op = "none" /\ Untouched
        /\ driver'.cmd = driver.cmd /\ driver'.moved = driver.moved /\ driver'.phase = "free"
        /\ driver'.geometry = IF Cmd.op = "GEOMETRY" /\ ~Refused(Cmd)
                              THEN SetGeometry(Cmd.count, Cmd.head + 1) ELSE driver.geometry
    BY <1>0, <1>2, <1>13, <2>2, DriverPolls
  <2>4. SameTaskFile
    BY <1>3, <1>5, <2>3, SilentTaskFile
  <2>5. intended' = intended /\ ~io_wr(7)
    BY <2>3 DEF Untouched, io_wr
  <2>6. TaskFile' /\ IoInv'
    BY <2>3 DEF TaskFile, IoInv
  <2>7. GeometryInv'
    <3>1. Obeyed /\ ~Obeyed'
      BY <1>1, <1>13, <2>3 DEF Obeyed
    <3>2. hps.geometry = driver'.geometry
      BY <1>0, <2>3, <3>1 DEF GeometryInv
    <3>3. QED
      BY <1>5, <3>1, <3>2 DEF GeometryInv
  <2>8. FreeInv' /\ DataInv' /\ ResetInv' /\ WorkInv'
    <3>1. ide'.status = ide.status /\ ide'.request = "none"
      BY <1>7, <1>13, <2>5
    <3>2. Answered'
      BY <1>0, <1>1, <1>6, <1>7, <1>13, <2>3, <2>4, <3>1, StaysAnswered
    <3>3. QED
      BY <1>1, <1>4, <1>7, <2>3, <2>5, <3>1, <3>2, FreeStays
  <2>9. QED
    BY <1>10, <1>11, <2>3, <2>4, <2>5, <2>6, <2>7, <2>8
<1>14. CASE HostServed /\ driver.phase \in {"reset", "release"}
  <2>1. /\ io = Access("write", 14, << <<"control", driver.phase = "reset", FALSE>> >>, FALSE)
        /\ driver'.gap = 0 /\ io'.op = "none" /\ Keeps /\ Untouched
        /\ driver'.phase = IF driver.phase = "reset" THEN "release" ELSE "wait"
    BY <1>0, <1>2, <1>14, DriverResets
  <2>2. Cmd' = Srst /\ Cmd = Srst /\ driver'.moved = 0 /\ intended' = intended
    BY <1>0, <1>14, <2>1 DEF IoInv, Keeps, Cmd, Untouched
  <2>3. ~io_wr(7) /\ SameTaskFile
    <3>1. io.addr = 14
      BY <2>1 DEF Access
    <3>2. QED
      BY <1>3, <1>5, <3>1, SilentTaskFile DEF io_wr
  <2>4. TaskFile' /\ IoInv'
    BY <2>1, <2>2 DEF TaskFile, IoInv
  <2>5. GeometryInv'
    <3>1. Cmd.op # "GEOMETRY"
      BY <2>2 DEF Srst
    <3>2. QED
      BY <1>0, <1>5, <2>1, <2>2, <3>1 DEF GeometryInv, Keeps
  <2>6. FreeInv' /\ DataInv' /\ ResetInv' /\ WorkInv'
    <3>1. CASE driver.phase = "reset"
      BY <1>1, <1>4, <1>7, <2>1, <2>2, <2>3, <3>1, FreeStays
    <3>2. CASE driver.phase = "release"
      BY <1>1, <1>4, <1>7, <2>1, <2>2, <3>2, FreeResets
    <3>3. QED
      BY <1>14, <3>1, <3>2
  <2>7. QED
    BY <1>10, <1>11, <2>1, <2>2, <2>3, <2>4, <2>5, <2>6
<1>15. CASE HostBegins
  <2>1. /\ io.op = "none" /\ io'.op = "none" /\ driver'.gap = 0 /\ Untouched
        /\ driver.phase = "free" /\ driver'.geometry = driver.geometry
        /\ driver'.phase = (IF driver'.cmd = Srst THEN "reset" ELSE "params")
        /\ driver'.moved = 0 /\ driver'.step = (IF driver'.cmd = Srst THEN 0 ELSE 1)
    BY <1>0, <1>1, <1>2, <1>15, DriverBegins
  <2>2. SameTaskFile /\ ~io_wr(7) /\ intended' = intended
    BY <1>3, <1>5, <2>1, SilentTaskFile DEF io_wr, Untouched
  <2>3. TaskFile' /\ IoInv'
    BY <2>1 DEF TaskFile, Held, IoInv, Cmd
  <2>4. GeometryInv'
    BY <1>0, <1>5, <2>1 DEF GeometryInv, Obeyed
  <2>5. FreeInv' /\ DataInv' /\ ResetInv' /\ WorkInv'
    BY <1>1, <1>4, <1>7, <2>1, <2>2, FreeStays
  <2>6. QED
    BY <1>10, <1>11, <2>1, <2>2, <2>3, <2>4, <2>5
<1>16. CASE HostServed /\ driver.phase = "params"
  <2>0. /\ io = Access("write", Params(Cmd)[driver.step][1], <<Params(Cmd)[driver.step][2]>>, FALSE)
        /\ driver.step \in 1..7 /\ driver'.gap = 0 /\ io'.op = "none" /\ Untouched
        /\ driver'.cmd = driver.cmd /\ driver'.moved = driver.moved /\ driver'.geometry = driver.geometry
        /\ driver.step < 7 => driver'.phase = "params" /\ driver'.step = driver.step + 1
        /\ driver.step = 7 => driver'.phase = "wait"
    BY <1>0, <1>2, <1>16, DriverWrites
  <2>i. PICK i \in 1..7 : i = driver.step
    BY <2>0
  <2>1. /\ io = Access("write", Params(Cmd)[i][1], <<Params(Cmd)[i][2]>>, FALSE)
        /\ driver'.gap = 0 /\ io'.op = "none" /\ Untouched
        /\ driver'.cmd = driver.cmd /\ driver'.moved = driver.moved /\ driver'.geometry = driver.geometry
        /\ i < 7 => driver'.phase = "params" /\ driver'.step = i + 1
        /\ i = 7 => driver'.phase = "wait"
    BY <2>0, <2>i
  <2>2. Cmd' = Cmd /\ intended' = intended /\ driver.moved = 0 /\ Cmd # Srst
    BY <1>0, <1>16, <2>1 DEF Cmd, Untouched, IoInv
  <2>3. io_wr(7) <=> i = 7
    <3>p. ParamOf(Cmd, i)
      BY ParamsOf
    <3>1. io.addr = 7 <=> i = 7
      BY <2>1, <3>p DEF ParamOf, Access
    <3>2. io.op = "write" /\ ide.present
      BY <1>0, <1>5, <2>1 DEF Access, ControllerType
    <3>3. QED
      BY <3>1, <3>2 DEF io_wr
  <2>4. Held(i + 1)' /\ tf'.drv_addr.drv \in 0..1 /\ tf'.drv_addr.lba \in BOOLEAN
    <3>1. Held(i) /\ ide.present
      BY <1>0, <1>5, <1>16, <2>i DEF TaskFile, ControllerType
    <3>2. QED
      BY <1>0, <1>3, <1>5, <2>1, <2>2, <3>1, TaskFileWritten
  <2>5. TaskFile' /\ IoInv'
    BY <2>1, <2>2, <2>4 DEF TaskFile, IoInv, Held
  <2>6. GeometryInv'
    <3>1. ~Obeyed
      BY <1>16 DEF Obeyed
    <3>2. ~Obeyed'
      BY <1>5, <1>7, <1>16, <2>1, <2>3 DEF Obeyed
    <3>3. QED
      BY <1>0, <1>5, <2>1, <3>1, <3>2 DEF GeometryInv
  <2>7. FreeInv' /\ DataInv' /\ ResetInv' /\ WorkInv'
    <3>1. CASE i # 7
      <4>1. driver'.phase = "params" /\ ide'.status = ide.status /\ ide'.request = "none"
        BY <1>7, <1>16, <2>1, <2>3, <3>1
      <4>2. QED
        BY <1>1, <1>4, <1>7, <2>2, <4>1, FreeStays
    <3>2. CASE i = 7
      <4>1. Held(8)'
        BY <2>4, <3>2 DEF Held
      <4>2. ide'.status = {"BSY"} /\ ide'.request = "command"
        BY <1>7, <1>16, <2>3, <3>2
      <4>3. "BSY" \in ide'.status /\ "DRQ" \notin ide'.status /\ ~Free'
        BY <4>2 DEF Free
      <4>4. AtRest'
        BY <1>1, <1>4, <1>5, <2>1, <2>2, <4>1, <4>2 DEF AtRest, Quiets, Down
      <4>5. Cmd.op \in DiskOps
        BY <1>0, <2>2, DiskCommands
      <4>6. QED
        BY <1>7, <2>1, <2>2, <3>2, <4>2, <4>3, <4>4, <4>5 DEF FreeInv, DataInv, ResetInv, WorkInv
    <3>3. QED
      BY <3>1, <3>2
  <2>8. QED
    BY <1>10, <2>1, <2>2, <2>4, <2>5, <2>6, <2>7
<1>17. QED
  BY <1>0, <1>1, <1>2, <1>12, <1>13, <1>14, <1>15, <1>16, DriverCases

-----------------------------------------------------------------------------
(* The drive has, or wants, a block.                                        *)

Wants == "DRQ" \in ide.status
Sides ==
  /\ Port /\ Host /\ scenario' = scenario /\ Quiets /\ OfADisk' /\ DriverType' /\ StartInv' /\ ControllerType'
  /\ SameTaskFile /\ ide'.error = ide.error /\ ide'.blk_size = Words /\ ide'.old_stb = io_stb
  /\ ide.request = "none" /\ (Interrupted \/ Transfer) /\ "BSY" \notin ide.status /\ ide.present = TRUE
  /\ bus'.op # "write"
  /\ ide'.status = (IF driver.phase = "release" THEN {"BSY"}
                    ELSE IF ide.io_cnt >= Words THEN IF ide.last_read THEN {"RDY"} ELSE {"BSY"} ELSE ide.status)
  /\ ide'.request = (IF driver.phase = "release" THEN "reset"
                     ELSE IF ide.io_cnt >= Words /\ ~ide.last_read THEN "data" ELSE "none")
  /\ ide'.last_read = (IF driver.phase = "release" \/ ide.io_cnt >= Words THEN FALSE ELSE ide.last_read)
  /\ ide'.io_cnt = (IF driver.phase = "release" THEN 0
                    ELSE IF ide.old_stb /\ ~io_stb THEN (ide.io_cnt + Unit) % CountLimit ELSE ide.io_cnt)
LEMMA DataSides ==
  ASSUME DInv, DiskNext, Wants
  PROVE  Sides
<1>0. /\ OfADisk /\ DriverType /\ HpsType /\ BusType /\ ControllerType /\ CounterInv /\ StrobeInv
      /\ StartInv /\ IoInv /\ DataInv
  BY DEF DInv, TypeInv
<1>1. /\ ide.request = "none" /\ ide.blk_size = Words /\ (Interrupted \/ Transfer) /\ Wants
  BY <1>0 DEF DataInv, Wants
<1>2. Port /\ Host /\ scenario' = scenario
  BY EdgeOfClock
<1>3. EdgeOfController /\ EdgeOfTaskFile
  BY <1>2, EdgeOfPort
<1>4. Quiets
  <2>1. After \in Waitings
    BY <1>1 DEF Interrupted, Transfer, Software, Down, Waitings
  <2>2. QED
    BY <1>0, <1>1, <1>3, <2>1, QuietSoftware
<1>5. bus'.op # "write" /\ hps.state # "INITIAL" /\ hps'.state # "INITIAL"
      /\ ide'.mgmt_cnt \in 0..(CountLimit - 1) /\ StartInv'
  BY <1>4 DEF Quiets, StartInv
<1>6. OfADisk' /\ DriverType' /\ ide'.sw_reset = (driver'.phase = "release")
  BY <1>0, <1>2, DriverSide
<1>7. driver.phase \in {"wait", "data", "reset", "release"}
  BY <1>1 DEF Interrupted, Transfer
<1>8. io.op = "write" => io.addr \in {0, 14}
  <2>1. driver.phase = "data" => io.op = "none" \/ io.addr = 0
    BY <1>0 DEF IoInv, IsData
  <2>2. driver.phase \in {"reset", "release"} => io.op = "none" \/ io.addr = 14
    <3>1. CASE driver.phase = "reset" /\ io.op # "none"
      <4>1. io = Access("write", 14, << <<"control", TRUE, FALSE>> >>, FALSE)
        BY <1>0, <3>1, Zenon DEF IoInv
      <4>2. QED
        BY <4>1 DEF Access
    <3>2. CASE driver.phase = "release" /\ io.op # "none"
      <4>1. io = Access("write", 14, << <<"control", FALSE, FALSE>> >>, FALSE)
        BY <1>0, <3>2, Zenon DEF IoInv
      <4>2. QED
        BY <4>1 DEF Access
    <3>3. QED
      BY <3>1, <3>2
  <2>3. driver.phase = "wait" => io.op # "write"
    BY <1>0, Buses
  <2>4. QED
    BY <1>7, <2>1, <2>2, <2>3
<1>9. SameTaskFile /\ ~io_wr(7)
  BY <1>3, <1>5, <1>8, SilentTaskFile DEF io_wr
<1>10. "BSY" \notin ide.status
  BY <1>0, <1>1 DEF ControllerType, Wants
<1>11. reset = (driver.phase = "release") /\ drq /\ Words \in Nat \ {0}
  BY <1>0, <1>1, SizesAssumption DEF reset, drq, ControllerType, Wants
<1>12. BlockEnds <=> ide.io_cnt >= Words
  BY <1>1, <1>11 DEF BlockEnds, io_done
<1>13. ide.present = TRUE /\ ide'.present = TRUE /\ ide'.error = ide.error /\ ide'.blk_size = Words
       /\ ide'.old_stb = io_stb
  BY <1>0, <1>1, <1>3, <1>5 DEF ControllerType, EdgeOfController, mgmt_wr, NextBlkSize
<1>14. ide'.status = (IF driver.phase = "release" THEN {"BSY"}
                      ELSE IF ide.io_cnt >= Words THEN IF ide.last_read THEN {"RDY"} ELSE {"BSY"} ELSE ide.status)
  BY <1>3, <1>5, <1>9, <1>11, <1>12 DEF EdgeOfController, NextStatus, mgmt_wr
<1>15. ide'.request = (IF driver.phase = "release" THEN "reset"
                       ELSE IF ide.io_cnt >= Words /\ ~ide.last_read THEN "data" ELSE "none")
  BY <1>1, <1>3, <1>5, <1>9, <1>11, <1>12 DEF EdgeOfController, NextRequest, mgmt_wr
<1>16. ide'.last_read = (IF driver.phase = "release" \/ ide.io_cnt >= Words THEN FALSE ELSE ide.last_read)
  <2>1. ide.last_read \in BOOLEAN
    BY <1>0 DEF ControllerType
  <2>2. ide'.last_read = IF reset THEN FALSE ELSE ide.last_read /\ ~BlockEnds
    BY <1>3, <1>5 DEF EdgeOfController, NextLastRead, mgmt_wr
  <2>3. QED
    BY <1>11, <1>12, <2>1, <2>2
<1>17. ide'.io_cnt = (IF driver.phase = "release" THEN 0
                      ELSE IF ide.old_stb /\ ~io_stb THEN (ide.io_cnt + Unit) % CountLimit ELSE ide.io_cnt)
  <2>1. ide'.io_cnt = NextIoCnt
    BY <1>3 DEF EdgeOfController
  <2>2. ide.old_stb => Unit = IF ide.r_32 THEN 2 ELSE 1
    BY DEF Unit
  <2>3. QED
    BY <1>5, <1>11, <2>1, <2>2 DEF NextIoCnt, mgmt_wr
<1>18. ControllerType'
  <2>1. ide'.io_cnt \in 0..(CountLimit - 1)
    <3>1. 0 \in 0..(CountLimit - 1) /\ ide.io_cnt \in 0..(CountLimit - 1) /\ Unit \in 0..2
      BY <1>0, BufferAssumption DEF ControllerType, Unit
    <3>2. (ide.io_cnt + Unit) % CountLimit \in 0..(CountLimit - 1)
      BY <3>1, BufferAssumption
    <3>3. QED
      BY <1>17, <3>1, <3>2
  <2>2. ide'.status \in SUBSET StatusBits /\ ("BSY" \in ide'.status => ide'.status = {"BSY"})
    BY <1>0, <1>14 DEF ControllerType, StatusBits
  <2>3. ide'.present = (hps'.state # "INITIAL")
    BY <1>5, <1>13
  <2>4. tf'.drv_addr = tf.drv_addr
    BY <1>9 DEF SameTaskFile
  <2>5. ide'.old_stb \in BOOLEAN /\ ide'.last_read \in BOOLEAN
    BY <1>0, <1>13, <1>16 DEF ControllerType, io_stb, read_data_io, write_data_io, io_rd, io_wr, drq
  <2>6. ide'.r_32 \in BOOLEAN
    <3>1. ide'.r_32 = IF io_stb THEN io.wide ELSE ide.r_32
      BY <1>3 DEF EdgeOfController
    <3>2. io_stb => driver.phase = "data" /\ io.op # "none"
      BY <1>0, Buses DEF io_stb, read_data_io, write_data_io, io_rd, io_wr
    <3>3. io_stb => io.wide \in BOOLEAN
      <4>1. Cmd.wide \in BOOLEAN
        BY <1>0, DiskCommands DEF Command
      <4>2. io_stb => IsData
        BY <1>0, <3>2 DEF IoInv
      <4>3. QED
        BY <4>1, <4>2 DEF IsData
    <3>4. QED
      BY <1>0, <3>1, <3>3 DEF ControllerType
  <2>7. QED
    BY <1>0, <1>5, <1>6, <2>1, <2>2, <2>3, <2>4, <2>5, <2>6 DEF ControllerType
<1>19. QED
  BY <1>1, <1>2, <1>4, <1>5, <1>6, <1>9, <1>10, <1>13, <1>14, <1>15, <1>16, <1>17, <1>18 DEF Sides

LEMMA DataStays ==
  ASSUME Sides, "DRQ" \in ide'.status, "BSY" \notin ide'.status, ide'.request = "none", Interrupted' \/ Transfer'
  PROVE  FreeInv' /\ DataInv' /\ ResetInv' /\ WorkInv'
<1>1. ~Free'
  BY DEF Free
<1>2. QED
  BY <1>1 DEF FreeInv, DataInv, ResetInv, WorkInv, Sides

LEMMA DataDone ==
  ASSUME DInv, Sides, Image(intended'), driver'.phase # "params", (driver'.gap = 2) <=> io_stb, io_stb => "DRQ" \in ide'.status,
         driver'.gap > 0 => io'.op = "none" /\ driver'.phase \in {"data", "wait", "free"},
         IoInv', GeometryInv', FreeInv' /\ DataInv' /\ ResetInv' /\ WorkInv'
  PROVE  DInv'
<1>1. Images'
  <2>1. Image(image) /\ image' = image
    BY DEF DInv, TypeInv, Images, Sides, Quiets
  <2>2. QED
    BY <2>1 DEF Images, Image
<1>2. StrobeInv'
  BY DEF StrobeInv, Sides
<1>3. TaskFile'
  BY DEF TaskFile
<1>4. QED
  BY <1>1, <1>2, <1>3 DEF DInv, TypeInv, Sides, Quiets

LEMMA InterruptedStep ==
  ASSUME DInv, Sides, DiskNext, Wants, Interrupted
  PROVE  DInv'
<1>0. /\ OfADisk /\ DriverType /\ ControllerType /\ StrobeInv /\ IoInv /\ GeometryInv /\ Image(intended)
  BY DEF DInv, TypeInv, Images
<1>1. /\ driver.phase \in {"reset", "release"} /\ image = intended /\ ide.io_cnt < Words
      /\ driver.moved = 0 /\ Cmd = Srst
  BY <1>0 DEF Interrupted, IoInv
<1>2. driver.gap = 0 /\ ide.old_stb = FALSE
  BY <1>0, <1>1 DEF StrobeInv, DriverType, ControllerType
<1>3. /\ Untouched /\ Cmd' = Srst /\ driver'.moved = 0 /\ IoInv' /\ driver'.gap = 0
      /\ driver'.geometry = driver.geometry /\ ~io_stb
      /\ driver'.phase = driver.phase \/ driver'.phase = (IF driver.phase = "reset" THEN "release" ELSE "wait")
  <2>1. CASE Idles
    <3>1. Keeps /\ Untouched /\ driver'.phase = driver.phase /\ io.op = "none"
          /\ driver'.gap = (IF driver.gap > 0 THEN driver.gap - 1 ELSE 0) /\ IoInv'
      BY <1>0, <2>1, DriverIdles DEF Idles, Sides
    <3>2. QED
      BY <1>1, <1>2, <3>1 DEF Keeps, Cmd, io_stb, read_data_io, write_data_io, io_rd, io_wr
  <2>2. CASE HostServed
    <3>1. /\ io = Access("write", 14, << <<"control", driver.phase = "reset", FALSE>> >>, FALSE)
          /\ driver'.gap = 0 /\ io'.op = "none" /\ Keeps /\ Untouched
          /\ driver'.phase = IF driver.phase = "reset" THEN "release" ELSE "wait"
      BY <1>0, <1>1, <2>2, DriverResets DEF Sides
    <3>2. io.addr = 14 /\ io.op = "write"
      BY <3>1 DEF Access
    <3>3. Cmd' = Srst /\ driver'.moved = 0
      BY <1>1, <3>1 DEF Keeps, Cmd
    <3>4. IoInv'
      BY <1>1, <3>1, <3>3 DEF IoInv
    <3>5. ~io_stb
      BY <3>2 DEF io_stb, read_data_io, write_data_io, io_rd, io_wr
    <3>6. QED
      BY <1>1, <3>1, <3>3, <3>4, <3>5 DEF Keeps
  <2>3. CASE HostBegins
    BY <1>1, <2>3 DEF HostBegins
  <2>4. QED
    BY <1>0, <1>1, <2>1, <2>2, <2>3, DriverCases DEF Sides
<1>4. Cmd.op # "GEOMETRY" /\ Cmd'.op # "GEOMETRY"
  BY <1>1, <1>3 DEF Srst
<1>5. GeometryInv'
  <2>1. hps.geometry = driver.geometry /\ hps'.geometry = hps.geometry
    BY <1>0, <1>4 DEF GeometryInv, Sides, Quiets
  <2>2. QED
    BY <1>3, <1>4, <2>1 DEF GeometryInv
<1>6. FreeInv' /\ DataInv' /\ ResetInv' /\ WorkInv'
  <2>1. ASSUME driver.phase = "reset" PROVE FreeInv' /\ DataInv' /\ ResetInv' /\ WorkInv'
    <3>1. ide'.status = ide.status /\ ide'.request = "none" /\ ide'.io_cnt = ide.io_cnt
      BY <1>1, <1>2, <2>1, SizesAssumption DEF Sides, ControllerType
    <3>2. After' \in Waitings /\ image' = intended'
      BY <1>1, <1>3 DEF Sides, Quiets, Untouched, Waitings
    <3>3. Interrupted'
      BY <1>1, <1>3, <2>1, <3>1, <3>2 DEF Interrupted, Waitings
    <3>4. QED
      BY <3>1, <3>3, DataStays DEF Sides, Wants
  <2>2. ASSUME driver.phase = "release" PROVE FreeInv' /\ DataInv' /\ ResetInv' /\ WorkInv'
    BY <1>1, <1>3, <2>2, FreeResets DEF Sides, Untouched
  <2>3. QED
    BY <1>1, <2>1, <2>2
<1>7. QED
  <2>1. driver'.phase # "params" /\ intended' = intended
    BY <1>1, <1>3 DEF Untouched
  <2>2. QED
    BY <1>0, <1>3, <1>5, <1>6, <2>1, DataDone

-----------------------------------------------------------------------------
(* A block is moved.                                                        *)

LEMMA Counts ==
  ASSUME DInv, Sides, Transfer
  PROVE  /\ Words \in Nat \ {0} /\ Words <= BufWords /\ Left \in 0..Words /\ Unit \in 0..2
         /\ ide.io_cnt \in Nat /\ ide.io_cnt + Unit = Words - Left
         /\ ~ide.old_stb => Unit = 0
         /\ ide.old_stb => Unit > 0 /\ driver.gap = 2 /\ io.op = "none" /\ ~io_stb
         /\ ide.io_cnt >= Words <=> (Left = 0 /\ ~ide.old_stb)
         /\ ide'.io_cnt = (IF io_stb THEN ide.io_cnt ELSE ide.io_cnt + Unit)
         /\ ide'.last_read = (IF ide.io_cnt >= Words THEN FALSE ELSE ide.last_read)
         /\ io_stb => driver.phase = "data" /\ io.op # "none"
         /\ driver.gap \in 0..2 /\ (io.op # "none" => driver.gap = 0)
         /\ driver.phase \in {"wait", "data"} /\ (driver.phase = "data" => Left > 0)
<1>0. /\ OfADisk /\ DriverType /\ ControllerType /\ StrobeInv /\ IoInv
  BY DEF DInv, TypeInv
<1>1. Words \in Nat \ {0} /\ Words <= BufWords /\ Words < CountLimit /\ CountLimit \in Nat
  BY SizesAssumption, BufferAssumption
<1>2. Left \in 0..Words /\ ide.io_cnt + Unit = Words - Left /\ driver.phase \in {"wait", "data"}
      /\ (driver.phase = "data" => driver.left = Left)
  BY DEF Transfer
<1>3. ide.io_cnt \in Nat /\ ide.old_stb \in BOOLEAN
  BY <1>0, <1>1 DEF ControllerType
<1>4. Unit \in 0..2 /\ (~ide.old_stb => Unit = 0) /\ (ide.old_stb => Unit > 0)
  BY DEF Unit
<1>5. ide.io_cnt >= Words <=> (Left = 0 /\ ~ide.old_stb)
  BY <1>1, <1>2, <1>3, <1>4
<1>6. /\ ide.old_stb => driver.gap = 2
      /\ driver.gap > 0 => io.op = "none"
      /\ driver.gap \in 0..2
  BY <1>0 DEF StrobeInv, DriverType
<1>7. io_stb => io.op # "none" /\ io.addr = 0
  BY DEF io_stb, read_data_io, write_data_io, io_rd, io_wr
<1>8. io_stb => driver.phase = "data"
  BY <1>0, <1>7, Buses
<1>9. ide'.io_cnt = (IF io_stb THEN ide.io_cnt ELSE ide.io_cnt + Unit)
  <2>1. ide'.io_cnt = (IF ide.old_stb /\ ~io_stb THEN (ide.io_cnt + Unit) % CountLimit ELSE ide.io_cnt)
    BY <1>2 DEF Sides
  <2>2. ide.io_cnt + Unit \in 0..(CountLimit - 1)
    BY <1>1, <1>2, <1>3, <1>4
  <2>3. (ide.io_cnt + Unit) % CountLimit = ide.io_cnt + Unit
    BY <1>1, <2>2
  <2>4. QED
    BY <1>3, <1>4, <1>6, <1>7, <2>1, <2>3
<1>10. driver.phase = "data" => Left > 0
  BY <1>0, <1>1, <1>2 DEF IoInv
<1>11. ide'.last_read = (IF ide.io_cnt >= Words THEN FALSE ELSE ide.last_read)
  BY <1>2 DEF Sides
<1>12. driver.gap = 2 => io.op = "none"
  BY <1>6
<1>13. io.op # "none" => driver.gap = 0
  BY <1>6
<1>14. ide.old_stb => io.op = "none" /\ ~io_stb
  BY <1>6, <1>7, <1>12
<1>15. QED
  BY <1>1, <1>2, <1>3, <1>4, <1>5, <1>6, <1>8, <1>9, <1>10, <1>11, <1>13, <1>14, <1>7

\* The software does not move while it has or wants the block.
LEMMA SoftwareStays ==
  ASSUME DInv, Sides, Transfer, Cmd' = Cmd, driver'.geometry = driver.geometry, ide'.last_read = ide.last_read
  PROVE  Software' /\ Block' = Block /\ Start' = Start /\ (Cmd.op = "WRITE" => hps'.lba = hps.lba)
         /\ (~ide.last_read => Located' /\ Position' = Position /\ After' = After /\ hps'.regs = hps.regs)
         /\ (ide.last_read => Down')
<1>1. Software
  BY DEF Transfer
<1>2. Start' = Start /\ Blocks(Cmd)' = Blocks(Cmd)
  BY DEF Start, First, Blocks, Cmd
<1>3. ASSUME ide.last_read PROVE Software' /\ Block' = Block /\ Cmd.op # "WRITE" /\ Down'
  <2>1. Down /\ Cmd.op # "WRITE"
    BY <1>1, <1>3 DEF Software
  <2>2. Down'
    BY <2>1 DEF Sides, Quiets, Down
  <2>3. QED
    BY <1>2, <1>3, <2>1, <2>2 DEF Software, Block
<1>4. ASSUME ~ide.last_read
      PROVE  Software' /\ Block' = Block /\ hps'.lba = hps.lba /\ Located' /\ Position' = Position /\ After' = After
             /\ hps'.regs = hps.regs
  <2>1. Located /\ hps.regs.count > 0 /\ Cmd.op # "IDENTIFY"
        /\ After = IF Cmd.op = "READ" THEN "READ_WAIT_REQ" ELSE "WRITE_WAIT_REQ"
    BY <1>1, <1>4 DEF Software
  <2>2. hps'.regs = hps.regs /\ hps'.lba = hps.lba /\ After' = After /\ hps'.geometry = hps.geometry
    BY <2>1 DEF Sides, Quiets
  <2>3. Position' = Position
    BY <1>2, <2>2 DEF Position
  <2>4. Located'
    BY <1>2, <2>1, <2>2, <2>3 DEF Located
  <2>5. QED
    BY <1>2, <1>4, <2>1, <2>2, <2>3, <2>4 DEF Software, Block
<1>5. QED
  BY <1>2, <1>3, <1>4

-----------------------------------------------------------------------------
(* The buffer.                                                              *)

PairOf(cnt) ==
  /\ Pair(cnt) \in 0..(BufWords - 2) /\ Pair(cnt) % 2 = 0
  /\ cnt < BufWords => Pair(cnt) = cnt - (cnt % 2)
LEMMA Pairs == \A cnt \in Nat : PairOf(cnt)
<1> TAKE cnt \in Nat
<1> DEFINE n == (cnt \div 2) * 2  q == n \div BufWords  r == n % BufWords  h == BufWords \div 2
<1>1. BufWords \in Nat \ {0} /\ BufWords = 2 * h /\ h \in Nat
  BY BufferAssumption
<1>2. n \in Nat /\ cnt \div 2 \in Nat /\ n = cnt - (cnt % 2) /\ cnt % 2 \in 0..1
  OBVIOUS
<1>3. q \in Nat /\ r \in 0..(BufWords - 1) /\ n = BufWords * q + r
  <2> HIDE DEF n
  <2>1. QED
    BY <1>1, <1>2
<1> DEFINE p == h * q
<1>4. p \in Int
  BY <1>1, <1>3
<1>5. BufWords * q = 2 * p
  <2> HIDE DEF q, n
  <2>1. QED
    BY <1>1, <1>3
<1>6. r = 2 * ((cnt \div 2) - p)
  <2> HIDE DEF p, q, r, h
  <2>1. n = 2 * p + r
    BY <1>3, <1>5
  <2>2. QED
    BY <1>2, <1>3, <1>4, <2>1
<1>7. r % 2 = 0 /\ r # BufWords - 1
  <2> DEFINE d == (cnt \div 2) - p
  <2>1. d \in Int /\ r = 2 * d
    BY <1>2, <1>4, <1>6
  <2> HIDE DEF d, r
  <2>2. QED
    BY <1>1, <2>1
<1>8. cnt < BufWords => r = n
  <2> HIDE DEF n
  <2>1. cnt < BufWords => n < BufWords
    BY <1>1, <1>2
  <2>2. QED
    BY <1>1, <1>2, <2>1
<1>9. Pair(cnt) = r
  BY DEF Pair
<1> HIDE DEF n, r, q, h, p
<1>10. r \in 0..(BufWords - 2)
  BY <1>1, <1>3, <1>7
<1>11. QED
  BY <1>2, <1>7, <1>8, <1>9, <1>10 DEF PairOf

LEMMA BufferStays ==
  ASSUME EdgeOfBuffer, bus'.op # "write", ~write_data_io, ide.io_cnt \in Nat
  PROVE  /\ \A w \in 0..(BufWords - 1) : buf'.word[w] = buf.word[w]
         /\ buf'.q = [i \in 1..2 |-> buf'.word[Pair(ide.io_cnt) + i - 1]]
<1>1. \A half : ~MgmtWrites(half) /\ ~IoWrites(half)
  BY DEF MgmtWrites, IoWrites, mgmt_wr
<1>2. \A w \in 0..(BufWords - 1) : buf'.word[w] = buf.word[w]
  BY <1>1 DEF EdgeOfBuffer, Stored
<1>3. buf'.q = [i \in 1..2 |-> buf.word[Pair(ide.io_cnt) + i - 1]]
  BY <1>1 DEF EdgeOfBuffer
<1>4. \A i \in 1..2 : Pair(ide.io_cnt) + i - 1 \in 0..(BufWords - 1)
  BY Pairs, BufferAssumption DEF PairOf
<1>5. QED
  BY <1>2, <1>3, <1>4

\* It waits, or learns that the block is there.
LEMMA TransferWaits ==
  ASSUME DInv, Sides, DiskNext, Wants, Transfer, Idles \/ (HostServed /\ driver.phase = "wait"), ide.io_cnt < Words
  PROVE  DInv'
<1>0. /\ OfADisk /\ DriverType /\ ControllerType /\ StrobeInv /\ IoInv /\ GeometryInv /\ Image(intended)
  BY DEF DInv, TypeInv, Images
<1>1. /\ Words \in Nat \ {0} /\ Words <= BufWords /\ Left \in 0..Words /\ Unit \in 0..2
      /\ ide.io_cnt \in Nat /\ ide.io_cnt + Unit = Words - Left
      /\ ~ide.old_stb => Unit = 0
      /\ ide.old_stb => Unit > 0 /\ driver.gap = 2 /\ io.op = "none" /\ ~io_stb
      /\ ide.io_cnt >= Words <=> (Left = 0 /\ ~ide.old_stb)
      /\ ide'.io_cnt = (IF io_stb THEN ide.io_cnt ELSE ide.io_cnt + Unit)
      /\ ide'.last_read = (IF ide.io_cnt >= Words THEN FALSE ELSE ide.last_read)
      /\ io_stb => driver.phase = "data" /\ io.op # "none"
      /\ driver.gap \in 0..2 /\ (io.op # "none" => driver.gap = 0)
      /\ driver.phase \in {"wait", "data"} /\ (driver.phase = "data" => Left > 0)
  BY <1>0, Counts
<1>2. ~io_stb /\ io.op # "write"
  <2>1. CASE Idles
    BY <1>1, <2>1 DEF Idles, HostQuiet, HostAccesses
  <2>2. CASE HostServed /\ driver.phase = "wait"
    BY <1>0, <1>1, <2>2, DriverPolls DEF Sides
  <2>3. QED
    BY <2>1, <2>2
<1>3. ide'.io_cnt = ide.io_cnt + Unit /\ ide'.old_stb = FALSE /\ ide'.last_read = ide.last_read
      /\ ide'.status = ide.status /\ ide'.request = "none" /\ Unit' = 0
  <2>1. ide'.old_stb = FALSE
    BY <1>2 DEF Sides
  <2>2. ide.io_cnt < Words /\ ~(ide.io_cnt >= Words)
    BY <1>1
  <2>3. Unit' = 0
    BY <2>1 DEF Unit
  <2>4. QED
    BY <1>1, <1>2, <2>1, <2>2, <2>3 DEF Sides
<1>4. /\ Untouched /\ driver'.cmd = driver.cmd /\ driver'.moved = driver.moved /\ driver'.geometry = driver.geometry
      /\ IoInv' /\ driver'.phase \in {"wait", "data"}
      /\ driver'.phase = "data" => driver'.left = Left
      /\ driver'.phase = "wait" => Left = Words \/ (Left = 0 /\ driver'.gap > 0)
      /\ driver'.gap < 2 /\ (driver'.gap > 0 => io'.op = "none")
      /\ driver'.phase = "data" /\ driver'.gap = 0 => ide'.io_cnt = ide.io_cnt
  <2>0. /\ driver.phase = "wait" => Left = Words \/ (Left = 0 /\ driver.gap > 0)
        /\ driver.phase = "data" => driver.left = Left
    BY DEF Transfer
  <2>1. CASE Idles
    <3>1. /\ Keeps /\ Untouched /\ driver'.phase = driver.phase /\ driver'.left = driver.left
          /\ io.op = "none" /\ driver'.gap = (IF driver.gap > 0 THEN driver.gap - 1 ELSE 0)
          /\ io'.op # "none" => driver.gap = 0
          /\ IoInv'
      BY <1>0, <2>1, DriverIdles DEF Idles, Sides
    <3>2. driver'.gap < 2 /\ (driver'.gap > 0 => io'.op = "none")
      BY <1>1, <3>1
    <3>3. Left = 0 => driver'.gap = 1
      BY <1>1, <3>1
    <3>4. driver'.gap = 0 => ~ide.old_stb
      BY <1>1, <3>1
    <3>5. driver'.gap = 0 => ide'.io_cnt = ide.io_cnt
      BY <1>1, <1>3, <3>4
    <3>6. QED
      BY <1>1, <2>0, <3>1, <3>2, <3>3, <3>5 DEF Keeps
  <2>2. ASSUME HostServed, driver.phase = "wait" 
        PROVE /\ Untouched /\ driver'.cmd = driver.cmd /\ driver'.moved = driver.moved /\ driver'.geometry = driver.geometry
              /\ IoInv' /\ driver'.phase = "data"
              /\ driver'.left = Left
              /\ driver'.gap = 1 /\ io'.op = "none"
    <3>1. Polled = ide.status
      BY DEF Polled, Sides
    <3>2. "BSY" \notin Polled /\ "DRQ" \in Polled
      BY <3>1 DEF Sides, Wants
    <3>3. driver.gap = 0
      BY <1>1, <2>2 DEF HostServed
    <3>4. Left = Words
      BY <1>1, <2>0, <2>2, <3>3
    <3>5. /\ driver'.gap = 1 /\ io'.op = "none" /\ Untouched /\ driver'.cmd = driver.cmd
          /\ driver'.moved = driver.moved /\ Keeps /\ driver'.phase = "data" /\ driver'.left = Words
      BY <1>0, <2>2, <3>2, DriverPolls DEF Sides
    <3>6. Cmd' # Srst
      <4>1. Cmd.op \in {"READ", "WRITE", "IDENTIFY"}
        BY DEF Transfer
      <4>2. QED
        BY <3>5, <4>1 DEF Srst, Cmd
    <3>7. IoInv'
      BY <1>1, <3>5, <3>6 DEF IoInv
    <3>8. QED
      BY <3>4, <3>5, <3>7 DEF Keeps
  <2>3. QED
    BY <2>1, <2>2
<1>5. Cmd' = Cmd /\ intended' = intended /\ image' = image
  BY <1>4 DEF Cmd, Untouched, Sides, Quiets
<1>6. Software' /\ Block' = Block /\ Start' = Start /\ (Cmd.op = "WRITE" => hps'.lba = hps.lba)
  BY <1>0, <1>3, <1>4, <1>5, SoftwareStays
<1>7. Left' = Left
  BY <1>4, <1>6 DEF Left, At
<1>8. /\ \A w \in 0..(BufWords - 1) : buf'.word[w] = buf.word[w]
      /\ buf'.q = [i \in 1..2 |-> buf'.word[Pair(ide.io_cnt) + i - 1]]
  <2>1. EdgeOfBuffer
    BY EdgeOfPort DEF Sides
  <2>2. ~write_data_io
    BY <1>2 DEF io_stb
  <2>3. QED
    BY <1>1, <2>1, <2>2, BufferStays DEF Sides
<1>9. \A i \in 0..(Words - 1) : buf'.word[i] = buf.word[i]
  BY <1>1, <1>8, BufferAssumption
<1>10. ASSUME BlockRead PROVE BlockRead'
  <2>1. Loaded(Block, Words)'
    <3>1. Wanted(Block, 0)' = Wanted(Block, 0) /\ \A i : Wanted(Block, i)' = Wanted(Block, i)
      BY <1>5, <1>6 DEF Wanted, Content
    <3>2. Loaded(Block, Words)
      BY <1>10 DEF BlockRead
    <3>3. QED
      BY <1>9, <3>1, <3>2 DEF Loaded
  <2>2. driver'.phase = "data" /\ driver'.gap = 0 => buf'.q = [i \in 1..2 |-> buf'.word[Pair(ide'.io_cnt) + i - 1]]
    BY <1>4, <1>8
  <2>3. QED
    BY <1>5, <1>10, <2>1, <2>2 DEF BlockRead
<1>11. ASSUME BlockWritten PROVE BlockWritten'
  <2>1. NewBlock(Block, Words - Left)'
    BY <1>6, <1>7, <1>9, <1>11 DEF BlockWritten, NewBlock
  <2>2. QED
    BY <1>5, <1>6, <1>7, <1>11, <2>1 DEF BlockWritten, SectorOf, Pending
<1>12. Transfer'
  <2>1. Cmd.wide /\ Left > 0 => ide'.io_cnt % 2 = 0
    <3>1. Cmd.wide /\ Left > 0 => ide.io_cnt % 2 = 0 /\ Unit # 1
      BY DEF Transfer
    <3>2. Unit \in {0, 2} => (ide.io_cnt + Unit) % 2 = ide.io_cnt % 2
      BY <1>1
    <3>3. QED
      BY <1>1, <1>3, <3>1, <3>2
  <2>2. Cmd.op \in {"READ", "WRITE", "IDENTIFY"} /\ Cmd.drv = 0 /\ Block \in Nat /\ (BlockRead \/ BlockWritten)
    BY DEF Transfer
  <2>3. BlockRead' \/ BlockWritten'
    BY <1>10, <1>11, <2>2
  <2>4. ide'.io_cnt + Unit' = Words - Left'
    BY <1>1, <1>3, <1>7
  <2>5. QED
    BY <1>1, <1>3, <1>4, <1>5, <1>6, <1>7, <2>1, <2>2, <2>3, <2>4 DEF Transfer
<1>13. GeometryInv'
  <2>1. Cmd.op # "GEOMETRY"
    BY DEF Transfer
  <2>2. QED
    BY <1>0, <1>4, <1>5, <2>1 DEF GeometryInv, Sides, Quiets
<1>14. FreeInv' /\ DataInv' /\ ResetInv' /\ WorkInv'
  BY <1>3, <1>12, DataStays DEF Sides, Wants
<1>15. QED
  <2>1. Image(intended') /\ driver'.phase # "params" /\ ((driver'.gap = 2) <=> io_stb)
        /\ (io_stb => "DRQ" \in ide'.status)
        /\ (driver'.gap > 0 => io'.op = "none" /\ driver'.phase \in {"data", "wait", "free"})
    BY <1>0, <1>2, <1>4, <1>5
  <2>2. QED
    BY <1>4, <1>13, <1>14, <2>1, DataDone

\* The words of a number of blocks.
LEMMA Blockwise ==
  ASSUME NEW k \in Int
  PROVE  At(k) \in Int /\ At(k - 1) + Words = At(k) /\ At(k + 1) = At(k) + Words /\ k * Words = At(k) /\ At(0) = 0
<1>1. Words \in Nat \ {0}
  BY SizesAssumption
<1>2. QED
  BY <1>1 DEF At

\* The block is over.
LEMMA TransferEnds ==
  ASSUME DInv, Sides, DiskNext, Wants, Transfer, Idles, ide.io_cnt >= Words
  PROVE  DInv'
<1>0. /\ OfADisk /\ DriverType /\ ControllerType /\ StrobeInv /\ IoInv /\ GeometryInv /\ Image(intended)
  BY DEF DInv, TypeInv, Images
<1>1. /\ Words \in Nat \ {0} /\ Words <= BufWords /\ Left = 0 /\ ~ide.old_stb /\ ide.io_cnt \in Nat
      /\ ide'.last_read = FALSE /\ driver.gap \in 0..2 /\ driver.phase = "wait"
  <2>1. ide.io_cnt >= Words <=> (Left = 0 /\ ~ide.old_stb)
    BY <1>0, Counts
  <2>2. Words \in Nat \ {0} /\ Words <= BufWords /\ ide.io_cnt \in Nat /\ driver.gap \in 0..2
    BY <1>0, Counts
  <2>3. driver.phase \in {"wait", "data"} /\ (driver.phase = "data" => Left > 0)
    BY <1>0, Counts
  <2>4. ide'.last_read = (IF ide.io_cnt >= Words THEN FALSE ELSE ide.last_read)
    BY <1>0, Counts
  <2>5. ide'.last_read = FALSE
    BY <2>4
  <2>6. Left = 0 /\ ~ide.old_stb
    BY <2>1
  <2>7. QED
    BY <2>2, <2>3, <2>5, <2>6
<1>2. /\ Keeps /\ Untouched /\ driver'.phase = "wait" /\ io.op = "none"
      /\ driver'.gap = (IF driver.gap > 0 THEN driver.gap - 1 ELSE 0)
      /\ io'.op # "none" => driver.gap = 0
      /\ IoInv'
  BY <1>0, <1>1, DriverIdles DEF Idles, Sides
<1>3. ~io_stb /\ ~write_data_io
  BY <1>2 DEF io_stb, read_data_io, write_data_io, io_rd, io_wr
<1>4. driver.gap # 2 /\ driver'.gap = 0
  <2>1. driver.gap # 2
    BY <1>0, <1>1 DEF StrobeInv
  <2>2. QED
    BY <1>1, <1>2, <2>1
<1>5. Cmd' = Cmd /\ intended' = intended /\ image' = image /\ driver'.moved = driver.moved
      /\ driver'.geometry = driver.geometry
  BY <1>2 DEF Cmd, Untouched, Keeps, Sides, Quiets
<1>6. ide'.status = (IF ide.last_read THEN {"RDY"} ELSE {"BSY"})
      /\ ide'.request = (IF ide.last_read THEN "none" ELSE "data")
  BY <1>1 DEF Sides
<1>7. /\ Cmd.op \in {"READ", "WRITE", "IDENTIFY"} /\ Cmd.drv = 0 /\ Block \in Nat
      /\ Software /\ (BlockRead \/ BlockWritten)
  BY DEF Transfer
<1>8. driver.moved = At(Block) + Words
  <2>1. Left = At(Block) + Words - driver.moved
    BY DEF Left
  <2>2. At(Block) \in Int /\ driver.moved \in Nat
    BY <1>0, <1>7, Blockwise DEF DriverType
  <2>3. QED
    BY <1>1, <2>1, <2>2
<1>9. driver.moved = At(Block + 1)
  BY <1>7, <1>8, Blockwise
<1>10. ASSUME ide.last_read PROVE FreeInv' /\ DataInv' /\ ResetInv' /\ WorkInv'
  <2>1. Down /\ Cmd.op # "WRITE"
    BY <1>7, <1>10 DEF Software
  <2>2. image = intended
    BY <1>7, <2>1 DEF BlockRead, BlockWritten
  <2>3. Down'
    BY <2>1 DEF Sides, Quiets, Down
  <2>4. ~Refused(Cmd)'
    BY <1>5, <1>7, <2>1, DiskCommandsNext DEF Sides
  <2>5. driver'.moved = Due(Cmd)'
    <3>1. Due(Cmd)' = IF Cmd.op = "READ" THEN Blocks(Cmd) * Words ELSE Words
      BY <1>5, <1>7, <2>1, DiskCommandsNext DEF Sides
    <3>2. Blocks(Cmd) \in Nat
      BY <1>0, DiskCommands
    <3>3. Block + 1 = IF Cmd.op = "READ" THEN Blocks(Cmd) ELSE 1
      BY <1>7, <1>10, <2>1, <3>2 DEF Block
    <3>4. At(Blocks(Cmd)) = Blocks(Cmd) * Words /\ At(1) = Words
      BY <1>1, <3>2, Blockwise DEF At
    <3>5. QED
      BY <1>5, <1>7, <1>9, <3>1, <3>3, <3>4
  <2>6. Answered'
    <3>1. "ERR" \notin ide'.status /\ Cmd'.op # "SRST"
      BY <1>5, <1>6, <1>7, <1>10
    <3>2. QED
      BY <2>4, <2>5, <3>1 DEF Answered
  <2>7. ide'.status = {"RDY"} /\ "BSY" \notin ide'.status /\ "DRQ" \notin ide'.status /\ ide'.request = "none"
    BY <1>6, <1>10
  <2>8. FreeInv'
    BY <1>1, <1>2, <1>5, <2>2, <2>3, <2>6, <2>7 DEF FreeInv
  <2>9. QED
    BY <2>7, <2>8 DEF DataInv, ResetInv, WorkInv
<1>11. ASSUME ~ide.last_read PROVE FreeInv' /\ DataInv' /\ ResetInv' /\ WorkInv'
  <2>1. /\ Block' = Block /\ Start' = Start /\ (Cmd.op = "WRITE" => hps'.lba = hps.lba)
        /\ Located' /\ Position' = Position /\ After' = After /\ hps'.regs = hps.regs
    <3>1. ide'.last_read = ide.last_read
      BY <1>0, <1>1, <1>11 DEF ControllerType
    <3>2. QED
      BY <1>0, <1>5, <1>11, <3>1, SoftwareStays
  <2>2. Located /\ hps.regs.count > 0 /\ Cmd.op # "IDENTIFY"
        /\ After = IF Cmd.op = "READ" THEN "READ_WAIT_REQ" ELSE "WRITE_WAIT_REQ"
    BY <1>7, <1>11 DEF Software
  <2>3. "BSY" \in ide'.status /\ "DRQ" \notin ide'.status /\ ide'.request = "data" /\ ~Free'
    BY <1>6, <1>11 DEF Free
  <2>4. Position \in Int
    BY <1>0, <2>2, DiskCommands DEF Located, Position
  <2>5. ASSUME Cmd.op = "READ" PROVE AtRead'
    <3>1. Block + 1 = Position
      BY <1>11, <2>4, <2>5 DEF Block
    <3>2. image = intended
      BY <1>7, <2>5 DEF BlockRead, BlockWritten
    <3>3. driver'.moved = At(Position)'
      BY <1>5, <1>9, <2>1, <3>1 DEF At
    <3>4. QED
      BY <1>5, <2>1, <2>2, <2>3, <2>5, <3>2, <3>3 DEF AtRead
  <2>6. ASSUME Cmd.op = "WRITE" PROVE AtWriteRecv'
    <3>1. Block = Position
      BY <1>11, <2>6 DEF Block
    <3>2. NewBlock(Block, Words - Left) /\ hps.lba = SectorOf(Start + Block) /\ Pending(hps.lba)
      BY <1>1, <1>7, <2>6 DEF BlockRead, BlockWritten
    <3>3. \A i \in 0..(Words - 1) : buf'.word[i] = buf.word[i]
      <4>1. \A w \in 0..(BufWords - 1) : buf'.word[w] = buf.word[w]
        BY <1>1, <1>3, EdgeOfPort, BufferStays DEF Sides
      <4>2. QED
        BY <1>1, <4>1, BufferAssumption
    <3>4. NewBlock(Position, Words)'
      BY <1>1, <2>1, <3>1, <3>2, <3>3 DEF NewBlock
    <3>5. hps'.lba = SectorOf(Start' + Position')
      BY <2>1, <2>6, <3>1, <3>2 
    <3>6. Pending(hps.lba)'
      BY <1>5, <2>1, <2>6, <3>2 DEF Pending
    <3>7. driver'.moved = At(Position + 1)'
      BY <1>5, <1>9, <2>1, <3>1 DEF At
    <3>8. hps'.state # "WRITE_RECV"
      BY DEF Sides, Quiets
    <3>9. QED
      BY <1>5, <2>1, <2>2, <2>3, <2>6, <3>4, <3>5, <3>6, <3>7, <3>8 DEF AtWriteRecv, SectorOf
  <2>7. Cmd.op \in {"READ", "WRITE"} /\ Cmd.op \in DiskOps
    BY <1>7, <2>2 DEF DiskOps
  <2>8. QED
    BY <1>1, <1>2, <1>5, <2>3, <2>5, <2>6, <2>7 DEF FreeInv, DataInv, ResetInv, WorkInv
<1>12. GeometryInv'
  <2>1. Cmd.op # "GEOMETRY"
    BY <1>7
  <2>2. QED
    BY <1>0, <1>5, <2>1 DEF GeometryInv, Sides, Quiets
<1>13. QED
  <2>1. Image(intended') /\ driver'.phase # "params" /\ ((driver'.gap = 2) <=> io_stb)
        /\ (io_stb => "DRQ" \in ide'.status)
        /\ (driver'.gap > 0 => io'.op = "none" /\ driver'.phase \in {"data", "wait", "free"})
    BY <1>0, <1>2, <1>3, <1>4, <1>5
  <2>2. QED
    BY <1>2, <1>10, <1>11, <1>12, <2>1, DataDone

\* A word of a block, by its number in the command.
LEMMA MovedWord ==
  ASSUME NEW k \in Nat, NEW j \in 0..(Words - 1)
  PROVE  (At(k) + j) \div Words = k /\ (At(k) + j) % Words = j
<1>1. Words \in Nat \ {0}
  BY SizesAssumption
<1>2. At(k) \in Int /\ At(k) = Words * k
  BY <1>1 DEF At
<1>3. QED
  BY <1>1, <1>2, Quotient

\* A reset interrupts the transfer.
LEMMA TransferStops ==
  ASSUME DInv, Sides, DiskNext, Wants, Transfer, HostBegins
  PROVE  DInv'
<1>0. /\ OfADisk /\ DriverType /\ ControllerType /\ StrobeInv /\ IoInv /\ GeometryInv /\ Image(intended)
  BY DEF DInv, TypeInv, Images
<1>1. /\ io.op = "none" /\ io'.op = "none" /\ driver.gap = 0 /\ driver'.gap = 0 /\ Untouched
      /\ driver.phase \in {"free", "data"} /\ driver'.geometry = driver.geometry
      /\ driver'.phase = (IF driver'.cmd = Srst THEN "reset" ELSE "params")
      /\ driver.phase = "data" => driver'.cmd = Srst
      /\ driver'.moved = 0
  BY <1>0, DriverBegins DEF Sides
<1>2. driver.phase = "data" /\ driver'.cmd = Srst /\ driver'.phase = "reset"
  BY <1>1 DEF Transfer
<1>3. ~io_stb
  BY <1>1 DEF io_stb, read_data_io, write_data_io, io_rd, io_wr
<1>4. Left > 0 /\ ide.io_cnt < Words /\ ide'.io_cnt = ide.io_cnt
  <2>1. driver.phase = "data" => Left > 0
    BY <1>0, Counts
  <2>2. ide.old_stb = FALSE
    BY <1>0, <1>1 DEF StrobeInv, ControllerType
  <2>3. Unit = 0 /\ ide.io_cnt + Unit = Words - Left /\ ide.io_cnt \in Nat /\ Words \in Nat /\ Left \in 0..Words
    BY <1>0, <2>2, Counts
  <2>4. ide'.io_cnt = (IF io_stb THEN ide.io_cnt ELSE ide.io_cnt + Unit)
    BY <1>0, Counts
  <2>5. QED
    BY <1>2, <1>3, <2>1, <2>3, <2>4
<1>5. ide'.status = ide.status /\ ide'.request = "none"
  <2>1. ~(ide.io_cnt >= Words)
    BY <1>4, SizesAssumption, <1>0, BufferAssumption DEF ControllerType
  <2>2. QED
    BY <1>2, <2>1 DEF Sides
<1>6. Interrupted'
  <2>1. image = intended
    BY <1>4 DEF Transfer, BlockRead, BlockWritten
  <2>2. image' = intended'
    BY <1>1, <2>1 DEF Untouched, Sides, Quiets
  <2>3. After' \in Waitings
    BY DEF Sides, Quiets, Waitings
  <2>4. QED
    BY <1>2, <1>4, <2>2, <2>3 DEF Interrupted, Waitings
<1>7. IoInv'
  BY <1>1, <1>2 DEF IoInv, Cmd
<1>8. GeometryInv'
  <2>1. Cmd.op # "GEOMETRY" /\ ~Obeyed'
    BY <1>2 DEF Transfer, Obeyed
  <2>2. QED
    BY <1>0, <1>1, <2>1 DEF GeometryInv, Sides, Quiets
<1>9. FreeInv' /\ DataInv' /\ ResetInv' /\ WorkInv'
  BY <1>5, <1>6, DataStays DEF Sides, Wants
<1>10. QED
  <2>1. Image(intended') /\ driver'.phase # "params" /\ ((driver'.gap = 2) <=> io_stb)
        /\ (io_stb => "DRQ" \in ide'.status)
        /\ (driver'.gap > 0 => io'.op = "none" /\ driver'.phase \in {"data", "wait", "free"})
    BY <1>0, <1>1, <1>2, <1>3 DEF Untouched
  <2>2. QED
    BY <1>7, <1>8, <1>9, <2>1, DataDone

\* The words of one access.
Units == IF io.wide THEN 2 ELSE 1

\* What it reads.
LEMMA WordsRead ==
  ASSUME DInv, Sides, Wants, Transfer, IsData, driver.phase = "data", Cmd.op # "WRITE", driver.gap = 0, ~ide.old_stb,
         Units <= Left, expected' = [i \in 1..Units |-> ReadWord(driver.moved + i - 1)]
  PROVE  io_readdata' = expected' /\ BlockRead
<1>0. /\ Words \in Nat \ {0} /\ Words <= BufWords /\ Left \in 0..Words /\ ide.io_cnt \in Nat
      /\ ide.io_cnt + Unit = Words - Left /\ Unit = 0
  BY Counts
<1> DEFINE c == ide.io_cnt
<1>1. BlockRead /\ Loaded(Block, Words) /\ Block \in Nat /\ Cmd.op \in {"READ", "IDENTIFY"}
      /\ buf.q = [i \in 1..2 |-> buf.word[Pair(c) + i - 1]] /\ (Cmd.wide => c % 2 = 0)
  <2>1. Left > 0
    BY <1>0 DEF Units
  <2>2. QED
    BY <2>1 DEF Transfer, BlockRead, BlockWritten
<1>2. io.op = "read" /\ io.addr = 0 /\ drq /\ ide.present
  BY DEF IsData, Sides, Wants, drq
<1>3. io_readdata' = IF io.wide THEN buf.q ELSE <<buf.q[1 + (c % 2)]>>
  <2>1. io_readdata' = NextIoReaddata
    BY DEF Sides, Port
  <2>2. QED
    BY <1>2, <2>1 DEF NextIoReaddata
<1>4. c < Words /\ c < BufWords /\ BufWords \in Nat /\ c % 2 \in 0..1
  BY <1>0, BufferAssumption DEF Units
<1>5. PairOf(c)
  BY <1>0, Pairs
<1>6. driver.moved = At(Block) + c
  <2>1. Left = At(Block) + Words - driver.moved
    BY DEF Left
  <2>2. At(Block) \in Int /\ driver.moved \in Nat
    BY <1>1, Blockwise DEF DInv, TypeInv, DriverType
  <2>3. QED
    BY <1>0, <2>1, <2>2
<1>b. At(Block) \in Int /\ At(0) = 0 /\ c \in Nat /\ c = Words - Left
  <2>1. At(Block) \in Int
    BY <1>1, Blockwise
  <2>2. At(0) = 0
    BY Blockwise
  <2>3. QED
    BY <1>0, <2>1, <2>2
<1> HIDE DEF c
<1>7. ASSUME NEW j \in 0..1, c + j < Words PROVE ReadWord(driver.moved + j) = buf.word[c + j]
  <2>1. c + j \in 0..(Words - 1)
    BY <1>0, <1>7, <1>b
  <2>2. buf.word[c + j] = Wanted(Block, c + j)
    BY <1>0, <1>1, <2>1 DEF Loaded
  <2>3. driver.moved + j = At(Block) + (c + j)
    BY <1>6, <1>b
  <2>4. (driver.moved + j) \div Words = Block /\ (driver.moved + j) % Words = c + j
    BY <1>1, <2>1, <2>3, MovedWord
  <2>5. CASE Cmd.op = "READ"
    <3>1. ReadWord(driver.moved + j) = SectorWord(First(Cmd) + Block, c + j)
      BY <2>4, <2>5 DEF ReadWord, Cmd
    <3>2. Wanted(Block, c + j) = Content(intended, First(Cmd) + Block, c + j)
      BY <2>5 DEF Wanted, Start
    <3>3. QED
      BY <2>2, <3>1, <3>2 DEF SectorWord, Content
  <2>6. CASE Cmd.op = "IDENTIFY"
    <3>1. Block = 0
      BY <2>6 DEF Block
    <3>2. driver.moved = c
      BY <1>6, <1>b, <3>1
    <3>3. ReadWord(driver.moved + j) = <<"identity", c + j + 1, 0>>
      BY <2>6, <3>2 DEF ReadWord, Cmd
    <3>4. Wanted(Block, c + j) = <<"identity", c + j + 1, 0>>
      BY <2>6 DEF Wanted
    <3>5. QED
      BY <2>2, <3>3, <3>4
  <2>7. QED
    BY <1>1, <2>5, <2>6
<1>8. driver.moved \in Nat /\ driver.moved + 0 = driver.moved
  BY DEF DInv, TypeInv, DriverType
<1>9. CASE io.wide
  <2>1. Units = 2 /\ c + 1 < Words
    BY <1>0, <1>9, <1>b DEF Units
  <2>2. Pair(c) = c
    <3>1. Cmd.wide
      BY <1>9 DEF IsData
    <3>2. c % 2 = 0
      BY <1>1, <3>1
    <3>3. Pair(c) = c - (c % 2)
      BY <1>4, <1>5 DEF PairOf
    <3>4. QED
      BY <1>b, <3>2, <3>3
  <2>3. buf.q = [i \in 1..2 |-> buf.word[c + i - 1]]
    BY <1>1, <2>2
  <2>4. \A i \in 1..2 : ReadWord(driver.moved + i - 1) = buf.word[c + i - 1]
    <3>1. TAKE i \in 1..2
    <3>2. CASE i = 1
      <4>1. driver.moved + i - 1 = driver.moved + 0 /\ c + i - 1 = c + 0 /\ c + 0 < Words
        BY <1>b, <1>4, <1>8, <3>2
      <4>2. QED
        BY <1>7, <4>1
    <3>3. CASE i = 2
      <4>1. driver.moved + i - 1 = driver.moved + 1 /\ c + i - 1 = c + 1
        BY <1>0, <1>8, <3>3
      <4>2. QED
        BY <1>7, <2>1, <4>1
    <3>4. QED
      BY <3>2, <3>3
  <2>5. io_readdata' = buf.q
    BY <1>3, <1>9
  <2>6. QED
    BY <1>1, <2>1, <2>3, <2>4, <2>5
<1>10. CASE ~io.wide
  <2>1. Units = 1
    BY <1>10 DEF Units
  <2>2. 1 + (c % 2) \in 1..2 /\ Pair(c) + (1 + (c % 2)) - 1 = c
    <3>1. Pair(c) = c - (c % 2)
      BY <1>4, <1>5 DEF PairOf
    <3>2. QED
      BY <1>4, <1>b, <3>1
  <2>3. buf.q[1 + (c % 2)] = buf.word[c]
    BY <1>1, <2>2
  <2>4. \A i \in 1..1 : ReadWord(driver.moved + i - 1) = buf.word[c]
    <3>1. TAKE i \in 1..1
    <3>2. driver.moved + i - 1 = driver.moved + 0 /\ c + 0 = c /\ c + 0 < Words
      BY <1>b, <1>4, <1>8
    <3>3. QED
      BY <1>7, <3>2
  <2>5. io_readdata' = <<buf.q[1 + (c % 2)]>>
    BY <1>3, <1>10
  <2>6. expected' = [i \in 1..1 |-> buf.word[c]]
    BY <2>1, <2>4
  <2>7. expected' = <<buf.word[c]>>
    <3>1. \A x : [i \in 1..1 |-> x] = <<x>>
      OBVIOUS
    <3>2. QED
      BY <2>6, <3>1
  <2>8. QED
    BY <1>1, <2>3, <2>5, <2>7
<1>11. QED
  BY <1>9, <1>10

\* What it writes.
LEMMA WordsWritten ==
  ASSUME DInv, Sides, Wants, Transfer, IsData, io.op # "none", driver.phase = "data", Cmd.op = "WRITE", ~ide.old_stb,
         NEW n \in 1..2, n = Units, n <= Left, Block' = Block, Start' = Start, NEW c \in Nat, c = ide.io_cnt
  PROVE  NewBlock(Block, c + n)'
<1>0. /\ Words \in Nat \ {0} /\ Words <= BufWords /\ Left \in 0..Words /\ ide.io_cnt \in Nat
      /\ ide.io_cnt + Unit = Words - Left /\ Unit = 0
  BY Counts
<1>a. driver.moved \in Nat
  BY DEF DInv, TypeInv, DriverType
<1>1. BlockWritten /\ NewBlock(Block, Words - Left) /\ Block \in Nat /\ (Cmd.wide => ide.io_cnt % 2 = 0)
  <2>1. Left > 0
    BY <1>0
  <2>2. QED
    BY <2>1 DEF Transfer, BlockRead, BlockWritten
<1>2. c = ide.io_cnt
  OBVIOUS
<1>3. io.op = "write" /\ io.addr = 0 /\ write_data_io /\ (io.wide => c % 2 = 0)
  BY <1>1, <1>2 DEF IsData, Sides, Wants, drq, write_data_io, io_wr
<1>4. c + n <= Words /\ BufWords \in Nat /\ c < BufWords /\ c = Words - Left
  BY <1>0, <1>2, BufferAssumption
<1>5. Pair(c) = c - (c % 2)
  BY <1>2, <1>4, Pairs DEF PairOf
<1>6. driver.moved = At(Block) + c
  <2>1. Left = At(Block) + Words - driver.moved
    BY DEF Left
  <2>2. At(Block) \in Int
    BY <1>1, Blockwise
  <2>3. QED
    BY <1>0, <1>4, <1>a, <2>1, <2>2
<1>7. \A i \in 1..n : io.data[i] = NewWord(Cmd, driver.geometry, driver.moved + i - 1)
  BY <1>3 DEF IsData, Units
<1>8. \A w \in 0..(BufWords - 1) :
        buf'.word[w] = IF IoWrites(w % 2) /\ w - (w % 2) = Pair(c)
                       THEN io.data[IF io.wide THEN 1 + (w % 2) ELSE 1] ELSE buf.word[w]
  <2>1. \A half : ~MgmtWrites(half)
    BY DEF MgmtWrites, mgmt_wr, Sides
  <2>2. EdgeOfBuffer
    BY EdgeOfPort DEF Sides
  <2>3. QED
    BY <1>2, <2>1, <2>2 DEF EdgeOfBuffer, Stored
<1>9. \A half \in 0..1 : IoWrites(half) <=> (io.wide \/ c % 2 = half)
  BY <1>2, <1>3 DEF IoWrites
<1>10. ASSUME NEW i \in 0..(Words - 1), i < c PROVE buf'.word[i] = buf.word[i]
  <2>1. i \in 0..(BufWords - 1) /\ i % 2 \in 0..1
    BY <1>0, <1>4, <1>10
  <2>2. ~(IoWrites(i % 2) /\ i - (i % 2) = Pair(c))
    <3>1. CASE io.wide
      <4>1. Pair(c) = c
        BY <1>3, <1>5, <3>1
      <4>2. i - (i % 2) < c
        BY <1>10, <2>1
      <4>3. QED
        BY <4>1, <4>2
    <3>2. CASE ~io.wide
      BY <1>5, <1>9, <1>10, <2>1, <3>2
    <3>3. QED
      BY <3>1, <3>2
  <2>3. QED
    BY <1>8, <2>1, <2>2
<1>11. ASSUME NEW j \in 0..1, j < n PROVE buf'.word[c + j] = <<"new", Start + Block, c + j + 1>>
  <2>1. c + j \in 0..(Words - 1) /\ c + j \in 0..(BufWords - 1)
    BY <1>0, <1>4, <1>11
  <2>2. buf'.word[c + j] = io.data[j + 1]
    <3>1. CASE io.wide
      <4>1. c % 2 = 0 /\ (c + j) % 2 = j
        BY <1>3, <3>1
      <4>2. IoWrites(j) /\ (c + j) - j = Pair(c)
        BY <1>5, <1>9, <3>1, <4>1
      <4>3. buf'.word[c + j] = io.data[1 + j]
        BY <1>8, <2>1, <3>1, <4>1, <4>2
      <4>4. QED
        BY <4>3
    <3>2. CASE ~io.wide
      <4>1. j = 0 /\ c + j = c
        BY <1>11, <3>2 DEF Units
      <4>2. IoWrites(c % 2) /\ c - (c % 2) = Pair(c)
        BY <1>5, <1>9, <3>2
      <4>3. buf'.word[c] = io.data[1]
        BY <1>8, <2>1, <3>2, <4>1, <4>2
      <4>4. QED
        BY <4>1, <4>3
    <3>3. QED
      BY <3>1, <3>2
  <2>3. io.data[j + 1] = NewWord(Cmd, driver.geometry, driver.moved + j)
    <3>1. j + 1 \in 1..n /\ driver.moved + (j + 1) - 1 = driver.moved + j
      BY <1>a, <1>11
    <3>2. QED
      BY <1>7, <3>1
  <2>4. driver.moved + j = At(Block) + (c + j)
    <3>1. At(Block) \in Int
      BY <1>1, Blockwise
    <3>2. QED
      BY <1>6, <3>1
  <2>5. (driver.moved + j) \div Words = Block /\ (driver.moved + j) % Words = c + j
    BY <1>1, <2>1, <2>4, MovedWord
  <2>6. NewWord(Cmd, driver.geometry, driver.moved + j) = <<"new", Start + Block, c + j + 1>>
    BY <2>5 DEF NewWord, Start, First
  <2>7. QED
    BY <2>2, <2>3, <2>6
<1>12. ASSUME NEW i \in 0..(Words - 1), i < c + n PROVE buf'.word[i] = <<"new", Start + Block, i + 1>>
  <2>1. CASE i < c
    BY <1>1, <1>4, <1>10, <2>1 DEF NewBlock
  <2>2. CASE i >= c
    <3>1. PICK j \in 0..1 : i = c + j /\ j < n
      <4>1. i - c \in 0..1 /\ i = c + (i - c) /\ i - c < n
        BY <1>12, <2>2
      <4>2. QED
        BY <4>1
    <3>2. QED
      BY <1>11, <3>1
  <2>3. QED
    BY <2>1, <2>2
<1>13. QED
  <2>1. \A i \in 0..(Words - 1) : i < c + n => buf'.word[i] = <<"new", Start' + Block', i + 1>>
    BY <1>12
  <2>2. QED
    BY <2>1 DEF NewBlock

LEMMA TransferMoves ==
  ASSUME DInv, Sides, DiskNext, Wants, Transfer, HostServed, driver.phase = "data"
  PROVE  DInv' /\ ReadsWhatItAskedFor'
<1>0. /\ OfADisk /\ DriverType /\ ControllerType /\ StrobeInv /\ IoInv /\ GeometryInv /\ Images
  BY DEF DInv, TypeInv
<1> DEFINE n0 == Units
<1>1. /\ IsData /\ io.op # "none" /\ Cmd.op \in DiskOps /\ Cmd # Srst /\ n0 <= driver.left
      /\ driver'.gap = 2 /\ io'.op = "none"
      /\ driver'.cmd = driver.cmd /\ driver'.geometry = driver.geometry
      /\ driver'.moved = driver.moved + n0 /\ driver'.left = driver.left - n0
      /\ driver'.phase = (IF driver.left = n0 THEN "wait" ELSE "data")
      /\ expected' = (IF Cmd.op # "WRITE" THEN [i \in 1..n0 |-> ReadWord(driver.moved + i - 1)] ELSE <<>>)
      /\ intended' = IF Cmd.op = "WRITE" /\ driver.left = n0 /\ BlockOf(driver.moved) \in Sectors
                     THEN [intended EXCEPT ![BlockOf(driver.moved)] =
                             [i \in 1..Words |-> <<"new", BlockOf(driver.moved), i>>]]
                     ELSE intended
  BY <1>0, DriverMoves DEF Sides, Units
<1>2. PICK n \in 1..2 : n = Units
  BY DEF Units
<1> HIDE DEF n0
<1>n. n = n0
  BY <1>2 DEF n0
<1>3. /\ Words \in Nat \ {0} /\ Left \in 0..Words /\ ide.io_cnt \in Nat /\ ide.io_cnt + Unit = Words - Left
      /\ driver.gap = 0 /\ driver.left = Left /\ driver.moved \in Nat
  <2>1. driver.left = Left
    BY DEF Transfer
  <2>2. driver.moved \in Nat
    BY <1>0 DEF DriverType
  <2>3. QED
    BY <1>0, <1>1, <2>1, <2>2, Counts
<1>4. ide.old_stb = FALSE /\ ~ide.old_stb /\ Unit = 0
  BY <1>0, <1>3 DEF StrobeInv, ControllerType, Unit
<1>5. PICK c \in Nat : c = ide.io_cnt
  BY <1>3
<1>6. c = Words - Left /\ n <= Left /\ ~(ide.io_cnt >= Words)
  BY <1>1, <1>3, <1>4, <1>5, <1>n, <1>2
<1>7. io_stb
  BY <1>1 DEF io_stb, read_data_io, write_data_io, io_rd, io_wr, IsData, Sides, Wants, drq
<1>8. ide'.io_cnt = c /\ ide'.status = ide.status /\ ide'.request = "none" /\ ide'.last_read = ide.last_read
  BY <1>0, <1>1, <1>4, <1>5, <1>6, <1>7 DEF Sides
<1>9. ide'.old_stb /\ ide'.r_32 = io.wide
  BY <1>7, EdgeOfPort DEF Sides, EdgeOfController
<1>10. Unit' = n
  BY <1>2, <1>9 DEF Unit, Units
<1>11. Cmd' = Cmd
  BY <1>1 DEF Cmd
<1>12. Software' /\ Block' = Block /\ Start' = Start /\ (Cmd.op = "WRITE" => hps'.lba = hps.lba)
  BY <1>0, <1>1, <1>8, <1>11, SoftwareStays
<1>13. Left' = Left - n
  <2>1. Left = At(Block) + Words - driver.moved
    BY DEF Left
  <2>2. At(Block) \in Int
    BY Blockwise DEF Transfer
  <2>3. Left' = At(Block) + Words - (driver.moved + n)
    BY <1>1, <1>12, <1>n DEF Left, At
  <2>4. QED
    BY <1>2, <1>3, <2>1, <2>2, <2>3
<1>14. /\ Cmd.op \in {"READ", "WRITE", "IDENTIFY"} /\ Cmd.drv = 0 /\ Block \in Nat
       /\ (BlockRead \/ BlockWritten) /\ (Cmd.wide /\ Left > 0 => ide.io_cnt % 2 = 0)
  BY DEF Transfer
<1>15. ASSUME Cmd.op # "WRITE" PROVE BlockRead' /\ ReadsWhatItAskedFor' /\ intended' = intended
  <2>1. expected' = [i \in 1..Units |-> ReadWord(driver.moved + i - 1)] /\ intended' = intended
    BY <1>1, <1>15 DEF n0
  <2>2. io_readdata' = expected' /\ BlockRead
    BY <1>1, <1>2, <1>3, <1>4, <1>6, <1>15, <2>1, WordsRead
  <2>3. \A w \in 0..(BufWords - 1) : buf'.word[w] = buf.word[w]
    <3>1. io.op = "read"
      BY <1>1, <1>15 DEF IsData
    <3>2. QED
      BY <1>3, <3>1, EdgeOfPort, BufferStays DEF Sides, write_data_io, io_wr
  <2>4. \A i \in 0..(Words - 1) : buf'.word[i] = buf.word[i]
    BY <2>3, BufferAssumption, SizesAssumption
  <2>5. \A i : Wanted(Block, i)' = Wanted(Block, i)
    BY <1>11, <1>12, <2>1 DEF Wanted, Content
  <2>6. Loaded(Block, Words)'
    BY <1>12, <2>2, <2>4, <2>5 DEF BlockRead, Loaded
  <2>7. image' = intended'
    BY <2>1, <2>2 DEF BlockRead, Sides, Quiets
  <2>8. BlockRead'
    BY <1>1, <1>11, <1>15, <2>6, <2>7 DEF BlockRead
  <2>9. QED
    BY <2>1, <2>2, <2>8 DEF ReadsWhatItAskedFor
<1>16. ASSUME Cmd.op = "WRITE" PROVE BlockWritten' /\ ReadsWhatItAskedFor' /\ Image(intended')
  <2>1. expected' = <<>>
    BY <1>1, <1>16
  <2>2. NewBlock(Block, c + n)'
    BY <1>1, <1>2, <1>4, <1>5, <1>6, <1>12, <1>16, WordsWritten
  <2>3. NewBlock(Block, Words - Left)'
    <3>1. Words - Left' = c + n
      BY <1>3, <1>5, <1>6, <1>13
    <3>2. QED
      BY <2>2, <3>1 DEF NewBlock
  <2>4. hps.lba = SectorOf(Start + Block) /\ image = intended
    <3>1. Left > 0 /\ ~BlockRead
      BY <1>3, <1>6, <1>16 DEF BlockRead
    <3>2. QED
      BY <1>14, <3>1 DEF BlockWritten
  <2>5. BlockOf(driver.moved) = Start + Block
    <3>1. c \in 0..(Words - 1)
      BY <1>3, <1>5, <1>6
    <3>2. driver.moved = At(Block) + c
      <4>1. At(Block) \in Int
        BY <1>14, Blockwise
      <4>2. QED
        BY <1>3, <1>6, <4>1 DEF Left
    <3>3. driver.moved \div Words = Block
      BY <1>14, <3>1, <3>2, MovedWord
    <3>4. QED
      BY <3>3 DEF BlockOf, Start, Cmd
  <2> DEFINE b == Start + Block
             new == [i \in 1..Words |-> <<"new", b, i>>]
  <2>6. intended' = IF Left = n /\ b \in Sectors THEN [intended EXCEPT ![b] = new] ELSE intended
    BY <1>1, <1>3, <1>16, <1>n, <2>5
  <2>7. image' = image
    BY DEF Sides, Quiets
  <2>8. IF Left' = 0 THEN Pending(hps.lba)' ELSE image' = intended'
    <3>1. CASE Left # n
      <4>1. Left' # 0
        BY <1>3, <1>13, <3>1
      <4>2. QED
        BY <2>4, <2>6, <2>7, <3>1, <4>1
    <3>2. CASE Left = n
      <4>1. Left' = 0
        BY <1>3, <1>13, <3>2
      <4>2. hps'.lba = IF b \in Sectors THEN b ELSE NoSector
        BY <1>12, <1>16, <2>4 DEF SectorOf
      <4>3. CASE b \in Sectors
        <5>1. Image(intended)
          BY <1>0 DEF Images
        <5>2. \A s \in Sectors : intended'[s] = IF s = b THEN new ELSE intended[s]
          BY <2>6, <3>2, <4>3, <5>1 DEF Image
        <5>3. Pending(hps.lba)'
          <6>1. hps'.lba = b /\ b \in Int
            BY <4>2, <4>3, SizesAssumption DEF Sectors
          <6>2. \A i \in 1..Words : new[i] = <<"new", b, i>>
            OBVIOUS
          <6> HIDE DEF new, b
          <6>3. \A i \in 1..Words : intended'[b][i] = <<"new", b, i>>
            BY <4>3, <5>2, <6>2
          <6>4. \A s \in Sectors : s # b => image'[s] = intended'[s]
            BY <2>4, <2>7, <5>2
          <6>5. QED
            BY <6>1, <6>3, <6>4 DEF Pending
        <5>4. QED
          BY <4>1, <5>3
      <4>4. CASE b \notin Sectors
        <5>1. NoSector \notin Sectors
          BY SizesAssumption DEF NoSector, Sectors
        <5>2. Pending(hps.lba)'
          BY <2>4, <2>6, <2>7, <4>2, <4>4, <5>1 DEF Pending
        <5>3. QED
          BY <4>1, <5>2
      <4>5. QED
        BY <4>3, <4>4
    <3>3. QED
      BY <3>1, <3>2
  <2>9. BlockWritten'
    <3>1. hps'.lba = SectorOf(Start' + Block')
      BY <1>12, <1>16, <2>4
    <3>2. QED
      BY <1>11, <1>16, <2>3, <2>8, <3>1 DEF BlockWritten, SectorOf
  <2>10. Image(intended')
    <3>1. Image(intended)
      BY <1>0 DEF Images
    <3>2. CASE Left = n /\ b \in Sectors
      <4>1. intended' = [s \in Sectors |-> IF s = b THEN new ELSE intended[s]]
        BY <2>6, <3>1, <3>2 DEF Image
      <4>2. \A s \in Sectors : intended[s] = [i \in 1..Words |-> intended[s][i]]
        BY <3>1 DEF Image
      <4>3. \A s \in Sectors : intended'[s] = [i \in 1..Words |-> intended'[s][i]]
        BY <4>1, <4>2
      <4>4. QED
        BY <4>1, <4>3 DEF Image
    <3>3. CASE ~(Left = n /\ b \in Sectors)
      BY <2>6, <3>1, <3>3
    <3>4. QED
      BY <3>2, <3>3
  <2>11. QED
    BY <2>1, <2>9, <2>10 DEF ReadsWhatItAskedFor
<1>17. Transfer'
  <2>1. Cmd.wide /\ Left' > 0 => Unit' # 1
    <3>1. Cmd.wide /\ n = 1 => driver.left <= 1
      <4>1. io.wide = (Cmd.wide /\ driver.left > 1)
        BY <1>1 DEF IsData
      <4>2. n = 1 => ~io.wide
        BY <1>2 DEF Units
      <4>3. driver.left > 1 \/ driver.left <= 1
        BY <1>3
      <4>4. QED
        BY <4>1, <4>2, <4>3, Zenon
    <3>2. QED
      BY <1>2, <1>3, <1>6, <1>10, <1>13, <3>1
  <2>2. Cmd.wide /\ Left' > 0 => ide'.io_cnt % 2 = 0
    BY <1>2, <1>3, <1>5, <1>8, <1>13, <1>14
  <2>3. ide'.io_cnt + Unit' = Words - Left' /\ Left' \in 0..Words
    BY <1>2, <1>3, <1>5, <1>6, <1>8, <1>10, <1>13
  <2>4. driver'.phase \in {"wait", "data"} /\ (driver'.phase = "data" => driver'.left = Left')
        /\ (driver'.phase = "wait" => Left' = 0)
    BY <1>1, <1>2, <1>3, <1>13, <1>n
  <2>5. BlockRead' \/ BlockWritten'
    BY <1>15, <1>16
  <2>6. QED
    BY <1>1, <1>11, <1>12, <1>14, <2>1, <2>2, <2>3, <2>4, <2>5 DEF Transfer
<1>18. IoInv'
  <2>1. Cmd' # Srst
    BY <1>1, <1>11
  <2>2. driver'.phase = "data" => driver'.left \in 1..Words
    BY <1>1, <1>2, <1>3, <1>6, <1>n
  <2>3. driver'.phase \in {"wait", "data"}
    BY <1>1
  <2>4. QED
    BY <1>1, <2>1, <2>2, <2>3 DEF IoInv
<1>19. GeometryInv'
  <2>1. Cmd.op # "GEOMETRY"
    BY <1>14
  <2>2. QED
    BY <1>0, <1>1, <1>11, <2>1 DEF GeometryInv, Sides, Quiets
<1>20. FreeInv' /\ DataInv' /\ ResetInv' /\ WorkInv'
  BY <1>8, <1>17, DataStays DEF Sides, Wants
<1>21. QED
  <2>1. Image(intended')
    BY <1>0, <1>15, <1>16 DEF Images
  <2>2. driver'.phase # "params" /\ ((driver'.gap = 2) <=> io_stb) /\ (io_stb => "DRQ" \in ide'.status)
        /\ (driver'.gap > 0 => io'.op = "none" /\ driver'.phase \in {"data", "wait", "free"})
    BY <1>1, <1>7, <1>8 DEF Wants
  <2>3. DInv'
    BY <1>18, <1>19, <1>20, <2>1, <2>2, DataDone
  <2>4. QED
    BY <1>15, <1>16, <2>3

LEMMA DataStep ==
  ASSUME DInv, DiskNext, Wants
  PROVE  DInv'
<1>0. Sides /\ DriverType /\ IoInv
  BY DataSides DEF DInv, TypeInv
<1>1. CASE Interrupted
  BY <1>0, <1>1, InterruptedStep
<1>2. CASE Transfer
  <2>1. CASE Idles /\ ide.io_cnt < Words
    BY <1>0, <1>2, <2>1, TransferWaits
  <2>2. CASE Idles /\ ~(ide.io_cnt < Words)
    <3>1. Words \in Nat /\ ide.io_cnt \in Nat
      BY <1>0, <1>2, Counts
    <3>2. ide.io_cnt >= Words
      BY <2>2, <3>1
    <3>3. QED
      BY <1>0, <1>2, <2>2, <3>2, TransferEnds
  <2>3. CASE HostServed /\ driver.phase = "wait"
    <3>1. io.op # "none" => driver.gap = 0
      BY <1>0, <1>2, Counts
    <3>2. Left = Words
      BY <1>2, <2>3, <3>1 DEF HostServed, Transfer
    <3>3. Words \in Nat \ {0} /\ ide.io_cnt \in Nat /\ (ide.io_cnt >= Words <=> (Left = 0 /\ ~ide.old_stb))
      BY <1>0, <1>2, Counts
    <3>4. ide.io_cnt < Words
      BY <3>2, <3>3
    <3>5. QED
      BY <1>0, <1>2, <2>3, <3>4, TransferWaits
  <2>4. CASE HostServed /\ driver.phase = "data"
    BY <1>0, <1>2, <2>4, TransferMoves
  <2>5. CASE HostBegins
    BY <1>0, <1>2, <2>5, TransferStops
  <2>6. driver.phase \in {"wait", "data"}
    BY <1>2 DEF Transfer
  <2>7. QED
    BY <1>0, <2>1, <2>2, <2>3, <2>4, <2>5, <2>6, DriverCases DEF Sides
<1>3. QED
  BY <1>0, <1>1, <1>2 DEF Sides

-----------------------------------------------------------------------------
(* The software is busy.                                                    *)

\* What the driver and the controller do meanwhile.
Works == "BSY" \in ide.status
Ready(bits) == IF driver.phase = "release" \/ ~mgmt_wr(5) THEN {"BSY"} ELSE bits \cap StatusBits
BusyDriver ==
  /\ Port /\ scenario' = scenario /\ OfADisk' /\ DriverType' /\ IoInv' /\ Keeps /\ Untouched
  /\ driver.phase \in {"wait", "release"} /\ ide.last_read = FALSE /\ driver.geometry \in Geometries
  /\ driver'.phase = driver.phase \/ (driver.phase = "release" /\ driver'.phase = "wait")
  /\ driver'.gap < 2 /\ (driver'.gap > 0 => io'.op = "none" /\ driver'.phase \in {"data", "wait", "free"})
  /\ io.op = "write" => io.addr = 14
  /\ ide'.sw_reset = (driver'.phase = "release")
BusyController ==
  /\ ide'.old_stb = FALSE /\ ide'.r_32 = ide.r_32 /\ ~write_data_io
  /\ ide'.status = Ready(bus'.data[3])
  /\ ide'.request = (IF driver.phase = "release" THEN "reset" ELSE IF mgmt_wr(5) THEN "none" ELSE ide.request)
  /\ ide'.last_read = (IF driver.phase = "release" \/ ~mgmt_wr(5) THEN FALSE ELSE "END" \in bus'.data[3])
  /\ ide'.io_cnt = (IF driver.phase = "release" \/ mgmt_wr(5) THEN 0 ELSE ide.io_cnt)
  /\ ide'.error = (IF mgmt_wr(0) THEN bus'.data[3] ELSE ide.error)
  /\ ide'.present = (IF mgmt_wr(6) THEN bus'.data[2] ELSE ide.present)
  /\ ide'.blk_size = NextBlkSize
BusyTaskFile ==
  /\ tf'.features = tf.features /\ tf'.cmd = tf.cmd
  /\ tf'.sector_count = (IF mgmt_wr(1) THEN bus'.data[2] ELSE tf.sector_count)
  /\ tf'.sector = (IF mgmt_wr(1) THEN bus'.data[3] ELSE tf.sector)
  /\ tf'.cylinder = (IF mgmt_wr(2) THEN bus'.data[2] ELSE tf.cylinder)
  /\ tf'.drv_addr = (IF mgmt_wr(5) THEN bus'.data[2] ELSE tf.drv_addr)

LEMMA BusySide ==
  ASSUME DInv, DiskNext, Works
  PROVE  BusyDriver /\ BusyController /\ BusyTaskFile /\ ide.status = {"BSY"} /\ driver.gap \in 0..1
<1>0. /\ OfADisk /\ DriverType /\ ControllerType /\ StrobeInv /\ StartInv /\ IoInv /\ ResetInv /\ WorkInv
  BY DEF DInv, TypeInv
<1>1. Port /\ Host /\ scenario' = scenario
  BY EdgeOfClock
<1>2. EdgeOfController /\ EdgeOfTaskFile
  BY <1>1, EdgeOfPort
<1>3. ide.status = {"BSY"}
  BY <1>0 DEF ControllerType, Works
<1>4. driver.phase \in {"wait", "release"} /\ ide.last_read = FALSE /\ (driver.phase = "release" => ide.request = "reset")
  BY <1>0 DEF ResetInv, WorkInv, Works
<1>5. ~drq /\ ~io_stb /\ ~write_data_io /\ ide.old_stb = FALSE /\ ~BlockEnds
  BY <1>0, <1>3 DEF drq, io_stb, read_data_io, write_data_io, BlockEnds, StrobeInv, ControllerType
<1>6. driver.gap \in 0..1
  BY <1>0, <1>5 DEF StrobeInv, DriverType
<1>7. OfADisk' /\ DriverType' /\ ide'.sw_reset = (driver'.phase = "release")
  BY <1>0, <1>1, DriverSide
<1>8. /\ IoInv' /\ Keeps /\ Untouched /\ driver'.gap < 2
      /\ (driver'.gap > 0 => io'.op = "none" /\ driver'.phase \in {"data", "wait", "free"})
      /\ driver'.phase = driver.phase \/ (driver.phase = "release" /\ driver'.phase = "wait")
      /\ io.op = "write" => io.addr = 14
  <2>1. CASE Idles
    <3>1. /\ Keeps /\ Untouched /\ driver'.phase = driver.phase /\ io.op = "none"
          /\ driver'.gap = (IF driver.gap > 0 THEN driver.gap - 1 ELSE 0) /\ IoInv'
      BY <1>0, <1>1, <2>1, DriverIdles DEF Idles
    <3>2. driver'.gap = 0
      BY <1>6, <3>1
    <3>3. QED
      BY <3>1, <3>2
  <2>2. CASE HostServed /\ driver.phase = "wait"
    <3>1. "BSY" \in Polled
      BY <1>3 DEF Polled, StatusBits
    <3>2. io.op = "read" /\ driver'.gap = 1 /\ io'.op = "none" /\ Untouched /\ Keeps /\ driver'.phase = "wait"
      BY <1>0, <1>1, <2>2, <3>1, DriverPolls
    <3>3. IoInv'
      BY <3>2 DEF IoInv
    <3>4. QED
      BY <2>2, <3>2, <3>3
  <2>3. CASE HostServed /\ driver.phase = "release"
    <3>1. /\ io = Access("write", 14, << <<"control", driver.phase = "reset", FALSE>> >>, FALSE)
          /\ driver'.gap = 0 /\ io'.op = "none" /\ Keeps /\ Untouched /\ driver'.phase = "wait"
      BY <1>0, <1>1, <2>3, DriverResets
    <3>2. io.addr = 14
      BY <3>1 DEF Access
    <3>3. IoInv'
      BY <3>1 DEF IoInv
    <3>4. Keeps /\ Untouched /\ driver'.phase = "wait" /\ driver'.gap < 2 /\ ~(driver'.gap > 0)
      BY <3>1
    <3>5. QED
      BY <2>3, <3>2, <3>3, <3>4
  <2>4. CASE HostBegins
    BY <1>4, <2>4 DEF HostBegins
  <2>5. QED
    BY <1>0, <1>1, <1>4, <2>1, <2>2, <2>3, <2>4, DriverCases
<1>9. reset = (driver.phase = "release")
  BY <1>0 DEF reset, ControllerType
<1>10. ~io_wr(0) /\ ~io_wr(1) /\ ~io_wr(2) /\ ~io_wr(3) /\ ~io_wr(4) /\ ~io_wr(6) /\ ~io_wr(7)
  BY <1>8 DEF io_wr
<1>11. BusyDriver
  BY <1>0, <1>1, <1>4, <1>7, <1>8 DEF BusyDriver, DriverType
<1>12. BusyTaskFile
  BY <1>2, <1>10 DEF BusyTaskFile, EdgeOfTaskFile
<1>13. BusyController
  <2>1. ide'.status = Ready(bus'.data[3])
    BY <1>2, <1>3, <1>5, <1>9, <1>10 DEF EdgeOfController, NextStatus, Ready
  <2>2. ide'.request = (IF driver.phase = "release" THEN "reset" ELSE IF mgmt_wr(5) THEN "none" ELSE ide.request)
    BY <1>2, <1>5, <1>9, <1>10 DEF EdgeOfController, NextRequest
  <2>3. ide'.last_read = (IF driver.phase = "release" \/ ~mgmt_wr(5) THEN FALSE ELSE "END" \in bus'.data[3])
    <3>1. ide'.last_read = IF reset THEN FALSE ELSE IF mgmt_wr(5) THEN "END" \in bus'.data[3] ELSE FALSE
      <4>1. (ide.last_read /\ ~BlockEnds) = FALSE
        BY <1>4
      <4>2. QED
        BY <1>2, <4>1 DEF EdgeOfController, NextLastRead
    <3>2. QED
      BY <1>9, <3>1
  <2>4. ide'.io_cnt = (IF driver.phase = "release" \/ mgmt_wr(5) THEN 0 ELSE ide.io_cnt)
    BY <1>2, <1>5, <1>9 DEF EdgeOfController, NextIoCnt
  <2>5. ide'.old_stb = FALSE /\ ide'.r_32 = ide.r_32
    BY <1>2, <1>5 DEF EdgeOfController, io_stb, read_data_io, write_data_io
  <2>6. QED
    BY <1>2, <1>5, <2>1, <2>2, <2>3, <2>4, <2>5 DEF BusyController, EdgeOfController
<1>14. QED
  BY <1>3, <1>6, <1>11, <1>12, <1>13

\* What the software has to see to.
Calm == bus'.op # "write" \/ bus'.addr = 15
LEMMA CalmEdge ==
  ASSUME BusyDriver, BusyController, BusyTaskFile, Calm, driver.phase = "release" => ide.request = "reset"
  PROVE  /\ SameTaskFile /\ ide'.status = {"BSY"} /\ ide'.request = ide.request /\ ide'.last_read = FALSE
         /\ ide'.error = ide.error /\ ide'.present = ide.present /\ ide'.blk_size = ide.blk_size
<1>1. ~mgmt_wr(0) /\ ~mgmt_wr(1) /\ ~mgmt_wr(2) /\ ~mgmt_wr(4) /\ ~mgmt_wr(5) /\ ~mgmt_wr(6)
  BY DEF Calm, mgmt_wr
<1>2. SameTaskFile
  BY <1>1 DEF BusyTaskFile, SameTaskFile
<1>3. QED
  BY <1>1, <1>2 DEF BusyController, Ready, NextBlkSize

LEMMA BusyDone ==
  ASSUME DInv, BusyDriver, BusyController, BusyTaskFile, HpsType', BusType', CounterInv',
         ide'.mgmt_cnt \in 0..(CountLimit - 1), Image(image'), ide'.present = (hps'.state # "INITIAL"),
         mgmt_wr(5) => "BSY" \notin bus'.data[3] /\ bus'.data[2].drv \in 0..1 /\ bus'.data[2].lba \in BOOLEAN,
         StartInv', GeometryInv', FreeInv' /\ DataInv' /\ ResetInv' /\ WorkInv'
  PROVE  DInv'
<1>0. ControllerType /\ Image(intended)
  BY DEF DInv, TypeInv, Images
<1>1. Images'
  BY <1>0 DEF Images, BusyDriver, Untouched
<1>2. StrobeInv' /\ TaskFile'
  <2>1. driver'.gap # 2 /\ ide'.old_stb = FALSE
    BY DEF BusyDriver, BusyController
  <2>2. driver'.phase # "params"
    BY DEF BusyDriver
  <2>3. QED
    BY <2>1, <2>2 DEF StrobeInv, TaskFile, BusyDriver
<1>3. ControllerType'
  <2>1. ide'.io_cnt \in 0..(CountLimit - 1)
    <3>1. 0 \in 0..(CountLimit - 1) /\ ide.io_cnt \in 0..(CountLimit - 1)
      BY <1>0, BufferAssumption DEF ControllerType
    <3>2. QED
      BY <3>1 DEF BusyController
  <2>2. ide'.status \in SUBSET StatusBits /\ ("BSY" \in ide'.status => ide'.status = {"BSY"})
    <3>1. ide'.status = Ready(bus'.data[3])
      BY DEF BusyController
    <3>2. "BSY" \in StatusBits
      BY DEF StatusBits
    <3>3. CASE driver.phase = "release" \/ ~mgmt_wr(5)
      BY <3>1, <3>2, <3>3 DEF Ready
    <3>4. CASE ~(driver.phase = "release" \/ ~mgmt_wr(5))
      <4>1. "BSY" \notin bus'.data[3]
        BY <3>4
      <4>2. ide'.status = bus'.data[3] \cap StatusBits
        BY <3>1, <3>4 DEF Ready
      <4>3. QED
        BY <4>1, <4>2
    <3>5. QED
      BY <3>3, <3>4
  <2>3. tf'.drv_addr.drv \in 0..1 /\ tf'.drv_addr.lba \in BOOLEAN
    BY <1>0 DEF BusyTaskFile, ControllerType
  <2>4. ide'.old_stb \in BOOLEAN /\ ide'.r_32 \in BOOLEAN /\ ide'.last_read \in BOOLEAN
    <3>1. ide'.old_stb = FALSE /\ ide'.r_32 = ide.r_32
          /\ ide'.last_read = (IF driver.phase = "release" \/ ~mgmt_wr(5) THEN FALSE ELSE "END" \in bus'.data[3])
      BY DEF BusyController
    <3>2. ide.r_32 \in BOOLEAN
      BY <1>0 DEF ControllerType
    <3>3. ("END" \in bus'.data[3]) \in BOOLEAN
      OBVIOUS
    <3>4. ide'.last_read \in BOOLEAN
      BY <3>1, <3>3, Zenon
    <3>5. QED
      BY <3>1, <3>2, <3>4
  <2>5. ide'.sw_reset = (driver'.phase = "release")
    BY DEF BusyDriver
  <2>6. QED
    BY <2>1, <2>2, <2>3, <2>4, <2>5 DEF ControllerType
<1>4. QED
  BY <1>1, <1>2, <1>3 DEF DInv, TypeInv, BusyDriver

-----------------------------------------------------------------------------
(* The software and the management bus.                                     *)

\* It leaves the bus.
LEMMA ClearStep ==
  ASSUME HpsType, BusType, ControllerType, CounterInv, EdgeOfController, scenario' = scenario,
         ~hps.rest, Clears, hps'.rest = FALSE,
         bus.addr = 15 => hps'.state \in {"SET_REGS", "WRITE_REGS"} \/ (hps'.state = "SET_REGS_SEND" /\ hps'.cnt = 0),
         hps'.state \in Movers => hps'.cnt = 0
  PROVE  BusType' /\ CounterInv' /\ ide'.mgmt_cnt \in 0..(CountLimit - 1) /\ bus'.op = "none" /\ bus'.addr = bus.addr
         /\ Calm /\ \A a : ~mgmt_wr(a)
<1>1. bus.op = "none"
  BY DEF BusType
<1>2. BusType' /\ bus'.op = "none" /\ bus'.addr = bus.addr /\ ide'.mgmt_cnt \in 0..(CountLimit - 1)
      /\ (bus.addr # 15 => ide'.mgmt_cnt = 0)
  BY BusClears
<1>3. 0 \in 0..Words
  BY SizesAssumption
<1>4. CounterInv'
  BY <1>2, <1>3 DEF CounterInv, Movers
<1>5. QED
  BY <1>2, <1>4 DEF Calm, mgmt_wr

\* It uses a register.
LEMMA UseStep ==
  ASSUME HpsType, BusType, ControllerType, EdgeOfController, scenario' = scenario,
         ~hps.rest, hps'.rest = TRUE, hps'.state \notin Movers,
         NEW op \in {"read", "write"}, NEW addr \in 0..14, NEW data, bus' = [op |-> op, addr |-> addr, data |-> data]
  PROVE  BusType' /\ CounterInv' /\ ide'.mgmt_cnt \in 0..(CountLimit - 1) /\ bus'.op = op /\ bus'.addr = addr
         /\ bus'.data = data /\ (\A a : mgmt_wr(a) <=> op = "write" /\ a = addr) /\ (op = "read" => Calm)
<1>1. addr \in 0..15 /\ addr # 15
  OBVIOUS
<1>2. BusType' /\ ide'.mgmt_cnt = ide.mgmt_cnt /\ bus'.op = op /\ bus'.addr = addr /\ bus'.data = data
  BY <1>1, BusUses
<1>3. CounterInv'
  BY <1>1, <1>2 DEF CounterInv
<1>4. QED
  BY <1>2, <1>3 DEF ControllerType, Calm, mgmt_wr

\* It moves a word.
LEMMA MoveStep ==
  ASSUME HpsType, BusType, ControllerType, CounterInv, EdgeOfController, scenario' = scenario,
         ~hps.rest, hps'.rest = TRUE, hps.state \in Movers, hps'.state = hps.state, hps.cnt < Words, hps'.cnt = hps.cnt + 1,
         NEW op \in {"read", "write"}, NEW data, bus' = [op |-> op, addr |-> 15, data |-> data]
  PROVE  BusType' /\ CounterInv' /\ ide'.mgmt_cnt \in 0..(CountLimit - 1) /\ bus'.op = op /\ bus'.addr = 15
         /\ bus'.data = data /\ Calm /\ ide.mgmt_cnt = hps.cnt /\ bus.op = "none"
<1>1. 15 \in 0..15
  OBVIOUS
<1>2. BusType' /\ ide'.mgmt_cnt = ide.mgmt_cnt /\ bus'.op = op /\ bus'.addr = 15 /\ bus'.data = data /\ bus.op = "none"
  BY <1>1, BusUses
<1>3. hps.cnt \in 0..Words /\ Words \in Nat
  BY SizesAssumption DEF CounterInv
<1>4. ide.mgmt_cnt = hps.cnt
  <2>1. hps.cnt = 0 => ide.mgmt_cnt = 0
    BY <1>2 DEF CounterInv
  <2>2. hps.cnt > 0 => ide.mgmt_cnt = hps.cnt
    BY <1>2 DEF CounterInv
  <2>3. QED
    BY <1>3, <2>1, <2>2
<1>5. CounterInv'
  <2>1. hps'.cnt \in 0..Words /\ hps'.cnt > 0 /\ ide'.mgmt_cnt = hps'.cnt - 1
    BY <1>2, <1>3, <1>4
  <2>2. bus'.op # "none" /\ hps'.state \in Movers
    BY <1>2
  <2>3. QED
    BY <1>2, <2>1, <2>2 DEF CounterInv, Movers
<1>6. QED
  BY <1>2, <1>4, <1>5 DEF ControllerType, Calm

\* It rests.
LEMMA RestStep ==
  ASSUME OfADisk, HpsType, BusType, ControllerType, CounterInv, EdgeOfController, scenario' = scenario, Rest
  PROVE  /\ BusType' /\ CounterInv' /\ ide'.mgmt_cnt \in 0..(CountLimit - 1) /\ bus'.op = "none" /\ bus'.addr = bus.addr
         /\ Calm /\ HpsType' /\ image' = image /\ hps.rest = TRUE
         /\ hps'.state = hps.state /\ hps'.next = hps.next /\ hps'.cnt = hps.cnt /\ hps'.lba = hps.lba
         /\ hps'.geometry = hps.geometry /\ hps'.regs = hps.regs /\ hps'.args = hps.args /\ hps'.cmd = hps.cmd
         /\ hps'.rest \in BOOLEAN /\ (scenario.jitter = FALSE => hps'.rest = FALSE)
<1>1. PICK more \in IF scenario.jitter THEN BOOLEAN ELSE {FALSE} : hps' = [hps EXCEPT !.rest = more]
  BY DEF Rest, clear_bus
<1>2. Clears /\ image' = image /\ hps.rest = TRUE
  BY DEF Rest, clear_bus, Clears, HpsType
<1>m. more \in BOOLEAN /\ (scenario.jitter = FALSE => more = FALSE)
  BY DEF OfADisk
<1>3. /\ hps'.rest = more /\ hps'.state = hps.state /\ hps'.next = hps.next /\ hps'.cnt = hps.cnt
      /\ hps'.lba = hps.lba /\ hps'.geometry = hps.geometry /\ hps'.regs = hps.regs /\ hps'.args = hps.args
      /\ hps'.cmd = hps.cmd /\ DOMAIN hps' = DOMAIN hps
  BY <1>1 DEF HpsType
<1>4. HpsType'
  BY <1>m, <1>3 DEF HpsType
<1>5. /\ BusType' /\ bus'.op = "none" /\ bus'.addr = bus.addr /\ ide'.mgmt_cnt \in 0..(CountLimit - 1)
      /\ bus.op = "none" => ide'.mgmt_cnt = ide.mgmt_cnt
      /\ bus.op # "none" /\ bus.addr = 15 => ide'.mgmt_cnt = (ide.mgmt_cnt + 1) % CountLimit
      /\ bus.addr # 15 => ide'.mgmt_cnt = 0
  BY <1>2, <1>m, <1>3, BusClears
<1>6. CounterInv'
  <2>1. hps.state \in Movers /\ hps.cnt > 0 => ide'.mgmt_cnt = hps.cnt
    <3>1. Words \in Nat /\ Words < CountLimit /\ CountLimit \in Nat
      BY SizesAssumption, BufferAssumption
    <3>2. ASSUME hps.state \in Movers, hps.cnt > 0 PROVE ide'.mgmt_cnt = hps.cnt
      <4>1. hps.cnt \in 0..Words /\ bus.addr = 15
            /\ ide.mgmt_cnt = IF bus.op = "none" THEN hps.cnt ELSE hps.cnt - 1
        BY <3>2 DEF CounterInv
      <4>2. hps.cnt % CountLimit = hps.cnt
        BY <3>1, <3>2, <4>1
      <4>3. bus.op # "none" => ide.mgmt_cnt + 1 = hps.cnt
        BY <3>1, <4>1
      <4>4. QED
        BY <1>5, <4>1, <4>2, <4>3
    <3>3. QED
      BY <3>2
  <2>2. QED
    BY <1>3, <1>5, <2>1 DEF CounterInv
<1>7. QED
  BY <1>2, <1>m, <1>3, <1>4, <1>5, <1>6 DEF Calm

-----------------------------------------------------------------------------
(* The registers are sent.                                                  *)

SameRegs(r, q) ==
  /\ r.count = q.count /\ r.sector = q.sector /\ r.cylinder = q.cylinder /\ r.head = q.head
  /\ r.drv = q.drv /\ r.lba = q.lba /\ r.error = q.error /\ r.size = q.size
  /\ \A b : b # "DSC" => (b \in r.status <=> b \in q.status)

LEMMA SetsRegs ==
  ASSUME OfADisk, HpsType, SET_REGS
  PROVE  /\ ~hps.rest /\ hps.state = "SET_REGS" /\ Clears /\ image' = image
         /\ hps'.rest = FALSE /\ hps'.state = "SET_REGS_SEND" /\ hps'.cnt = 0 /\ hps'.next = hps.next
         /\ hps'.geometry = hps.geometry /\ hps'.lba = hps.lba /\ SameRegs(hps'.regs, hps.regs) /\ HpsType'
<1> DEFINE status == IF scenario.cdrom \/ "DRQ" \in hps.regs.status THEN hps.regs.status
                     ELSE hps.regs.status \cup {"DSC"}
           regs == [hps.regs EXCEPT !.status = status]
<1>1. ~hps.rest /\ hps.state = "SET_REGS" /\ Clears /\ image' = image
      /\ hps' = [hps EXCEPT !.state = "SET_REGS_SEND", !.cnt = 0, !.regs.status = status]
  BY DEF SET_REGS, In, clear_bus, Clears
<1>2. \A b : b # "DSC" => (b \in status <=> b \in hps.regs.status)
  OBVIOUS
<1> HIDE DEF status
<1>3. hps' = [hps EXCEPT !.state = "SET_REGS_SEND", !.cnt = 0, !.regs = regs]
  BY <1>1 DEF HpsType
<1>4. DOMAIN hps.regs = DOMAIN PowerOnRegs
  BY DEF HpsType, RegsType
<1>5. DOMAIN PowerOnRegs = {"size", "error", "count", "sector", "cylinder", "head", "drv", "lba", "psize", "status"}
  BY DEF PowerOnRegs
<1>6. /\ regs.count = hps.regs.count /\ regs.sector = hps.regs.sector /\ regs.cylinder = hps.regs.cylinder
      /\ regs.head = hps.regs.head /\ regs.drv = hps.regs.drv /\ regs.lba = hps.regs.lba
      /\ regs.error = hps.regs.error /\ regs.size = hps.regs.size /\ regs.status = status
      /\ DOMAIN regs = DOMAIN PowerOnRegs
  BY <1>4, <1>5
<1> HIDE DEF regs
<1>7. SameRegs(regs, hps.regs)
  BY <1>2, <1>6 DEF SameRegs
<1>8. RegsType(regs)
  BY <1>6 DEF RegsType, HpsType
<1>9. /\ hps'.state = "SET_REGS_SEND" /\ hps'.cnt = 0 /\ hps'.next = hps.next /\ hps'.rest = hps.rest
      /\ hps'.geometry = hps.geometry /\ hps'.lba = hps.lba /\ hps'.regs = regs /\ hps'.args = hps.args
      /\ DOMAIN hps' = DOMAIN hps
  BY <1>3 DEF HpsType
<1>10. hps.rest = FALSE
  BY <1>1 DEF HpsType
<1>11. HpsType'
  <2>1. hps'.state \in States /\ hps'.cnt \in Nat /\ hps'.cnt \in 0..6
    BY <1>9 DEF States
  <2>2. QED
    BY <1>8, <1>9, <1>10, <2>1, TypeOfHps DEF HpsType
<1>12. QED
  BY <1>1, <1>7, <1>9, <1>10, <1>11

Sent(r, n, d) ==
  /\ n = 0 => d[2] = r.size * Words /\ d[3] = r.error
  /\ n = 1 => d[2] = r.count % Radix /\ d[3] = r.sector % Radix
  /\ n = 2 => d[2] = r.cylinder % Span
  /\ n = 5 => d[2] = Address(r.lba, r.drv, r.head) /\ d[3] = r.status
LEMMA SendsReg ==
  ASSUME OfADisk, HpsType, SET_REGS_SEND, hps.cnt < 6
  PROVE  /\ ~hps.rest /\ hps.state = "SET_REGS_SEND" /\ image' = image /\ hps.cnt \in 0..5
         /\ bus' = [op |-> "write", addr |-> hps.cnt, data |-> RegValue(hps.regs, hps.cnt)]
         /\ Sent(hps.regs, hps.cnt, RegValue(hps.regs, hps.cnt))
         /\ hps'.rest = TRUE /\ hps'.state = "SET_REGS_SEND" /\ hps'.cnt = hps.cnt + 1 /\ hps'.next = hps.next
         /\ hps'.geometry = hps.geometry /\ hps'.lba = hps.lba /\ hps'.regs = hps.regs /\ HpsType'
<1>1. /\ ~hps.rest /\ hps.state = "SET_REGS_SEND" /\ image' = image
      /\ bus' = [op |-> "write", addr |-> hps.cnt, data |-> RegValue(hps.regs, hps.cnt)]
      /\ hps' = [[hps EXCEPT !.cnt = @ + 1] EXCEPT !.rest = TRUE]
  BY DEF SET_REGS_SEND, In, pulse_write, Uses
<1>2. hps.cnt \in 0..5
  BY <1>1 DEF HpsType
<1>3. /\ hps'.state = hps.state /\ hps'.cnt = hps.cnt + 1 /\ hps'.next = hps.next /\ hps'.rest = TRUE
      /\ hps'.geometry = hps.geometry /\ hps'.lba = hps.lba /\ hps'.regs = hps.regs /\ hps'.args = hps.args
      /\ DOMAIN hps' = DOMAIN hps
  BY <1>1 DEF HpsType
<1>4. HpsType'
  BY <1>1, <1>2, <1>3, TypeOfHps DEF HpsType
<1>5. Sent(hps.regs, hps.cnt, RegValue(hps.regs, hps.cnt))
  <2>1. scenario.cdrom = FALSE
    BY DEF OfADisk
  <2>2. QED
    BY <1>2, <2>1 DEF Sent, RegValue
<1>6. QED
  BY <1>1, <1>2, <1>3, <1>4, <1>5

\* What one of them does to the controller.
LEMMA RegSent ==
  ASSUME DInv, BusyDriver, BusyController, BusyTaskFile, EdgeOfController, SET_REGS_SEND, hps.cnt < 6,
         ide.present = TRUE
  PROVE  /\ BusType' /\ CounterInv' /\ ide'.mgmt_cnt \in 0..(CountLimit - 1)
         /\ ide'.present = TRUE /\ hps'.state = "SET_REGS_SEND" /\ StartInv' /\ Sends
         /\ mgmt_wr(5) => hps.cnt = 5
         /\ hps.cnt # 5 => /\ ide'.status = {"BSY"} /\ ide'.last_read = FALSE /\ Sends'
                           /\ ide'.request = IF driver.phase = "release" THEN "reset" ELSE ide.request
         /\ hps.cnt = 5 => /\ ~Sends' /\ After' = hps.next
                           /\ tf'.drv_addr = Address(hps.regs.lba, hps.regs.drv, hps.regs.head)
                           /\ ide'.status = Ready(hps.regs.status) /\ bus'.data[3] = hps.regs.status
                           /\ bus'.data[2] = Address(hps.regs.lba, hps.regs.drv, hps.regs.head)
                           /\ ide'.request = IF driver.phase = "release" THEN "reset" ELSE "none"
                           /\ driver.phase = "wait" => ide'.last_read = ("END" \in hps.regs.status)
                           /\ driver.phase = "release" => ide'.last_read = FALSE
                           /\ ide'.io_cnt = 0
         /\ tf'.sector_count = (IF hps.cnt = 1 THEN hps.regs.count % Radix ELSE tf.sector_count)
         /\ tf'.sector = (IF hps.cnt = 1 THEN hps.regs.sector % Radix ELSE tf.sector)
         /\ tf'.cylinder = (IF hps.cnt = 2 THEN hps.regs.cylinder % Span ELSE tf.cylinder)
         /\ hps.cnt # 5 => tf'.drv_addr = tf.drv_addr
         /\ ide'.error = (IF hps.cnt = 0 THEN hps.regs.error ELSE ide.error)
         /\ hps.cnt = 0 => ide'.blk_size = hps.regs.size * Words
         /\ ide.blk_size = Words /\ hps.cnt # 0 => ide'.blk_size = Words
<1>0. OfADisk /\ HpsType /\ BusType /\ ControllerType /\ CounterInv
  BY DEF DInv, TypeInv
<1> DEFINE d == RegValue(hps.regs, hps.cnt)
<1>1. /\ ~hps.rest /\ hps.state = "SET_REGS_SEND" /\ hps.cnt \in 0..5
      /\ bus' = [op |-> "write", addr |-> hps.cnt, data |-> d] /\ Sent(hps.regs, hps.cnt, d)
      /\ hps'.rest = TRUE /\ hps'.state = "SET_REGS_SEND" /\ hps'.cnt = hps.cnt + 1 /\ hps'.next = hps.next
  BY <1>0, SendsReg
<1> HIDE DEF d
<1>2. PICK n \in 0..5 : n = hps.cnt
  BY <1>1
<1>3. /\ BusType' /\ CounterInv' /\ ide'.mgmt_cnt \in 0..(CountLimit - 1) /\ bus'.data = d
      /\ \A a : mgmt_wr(a) <=> a = n
  <2>1. n \in 0..14 /\ bus' = [op |-> "write", addr |-> n, data |-> d] /\ hps'.state \notin Movers
    BY <1>1, <1>2 DEF Movers
  <2>2. QED
    BY <1>0, <1>1, <2>1, UseStep DEF BusyDriver
<1>4. Sent(hps.regs, n, d)
  BY <1>1, <1>2
<1>5. /\ tf'.sector_count = (IF n = 1 THEN hps.regs.count % Radix ELSE tf.sector_count)
      /\ tf'.sector = (IF n = 1 THEN hps.regs.sector % Radix ELSE tf.sector)
      /\ tf'.cylinder = (IF n = 2 THEN hps.regs.cylinder % Span ELSE tf.cylinder)
      /\ tf'.drv_addr = (IF n = 5 THEN Address(hps.regs.lba, hps.regs.drv, hps.regs.head) ELSE tf.drv_addr)
  BY <1>3, <1>4 DEF BusyTaskFile, Sent
<1>6. /\ ide'.error = (IF n = 0 THEN hps.regs.error ELSE ide.error) /\ ide'.present = TRUE
      /\ n = 0 => ide'.blk_size = hps.regs.size * Words
      /\ ide.blk_size = Words /\ n # 0 => ide'.blk_size = Words
  <2>1. Words # BySize
    BY SizesAssumption, BufferAssumption DEF BySize
  <2>2. QED
    BY <1>3, <1>4, <2>1 DEF BusyController, NextBlkSize, Sent
<1>7. n # 5 => /\ ide'.status = {"BSY"} /\ ide'.last_read = FALSE
               /\ ide'.request = IF driver.phase = "release" THEN "reset" ELSE ide.request
  BY <1>3 DEF BusyController, Ready
<1>8. n = 5 => /\ ide'.status = Ready(hps.regs.status) /\ bus'.data[3] = hps.regs.status
               /\ bus'.data[2] = Address(hps.regs.lba, hps.regs.drv, hps.regs.head)
               /\ ide'.request = IF driver.phase = "release" THEN "reset" ELSE "none"
               /\ ide'.io_cnt = 0
  BY <1>3, <1>4 DEF BusyController, Sent
<1>9. n = 5 => /\ driver.phase = "wait" => ide'.last_read = ("END" \in hps.regs.status)
               /\ driver.phase = "release" => ide'.last_read = FALSE
  <2>1. n = 5 => mgmt_wr(5) /\ bus'.data[3] = hps.regs.status
    BY <1>3, <1>8
  <2>2. ide'.last_read = (IF driver.phase = "release" \/ ~mgmt_wr(5) THEN FALSE ELSE "END" \in bus'.data[3])
    BY DEF BusyController
  <2>3. QED
    BY <2>1, <2>2, Zenon
<1>10. Sends /\ (n # 5 => Sends') /\ (n = 5 => ~Sends' /\ After' = hps.next) /\ StartInv'
  BY <1>1, <1>2 DEF Sends, After, StartInv
<1>11. QED
  BY <1>1, <1>2, <1>3, <1>5, <1>6, <1>7, <1>8, <1>9, <1>10

\* They have been sent.
LEMMA RegsSent ==
  ASSUME HpsType, SET_REGS_SEND, ~(hps.cnt < 6)
  PROVE  /\ ~hps.rest /\ hps.state = "SET_REGS_SEND" /\ hps.cnt = 6 /\ image' = image /\ Clears
         /\ hps'.rest = FALSE /\ hps'.state = hps.next /\ hps'.cnt = 0 /\ hps'.geometry = hps.geometry /\ HpsType'
         /\ hps.next # "IDLE" => hps'.regs = hps.regs /\ hps'.lba = hps.lba
<1> DEFINE h == [hps EXCEPT !.cnt = 0, !.state = hps.next]
<1>1. ~hps.rest /\ hps' = (IF hps.next = "IDLE" THEN Cleared(h) ELSE h) /\ image' = image /\ Clears
      /\ hps.state = "SET_REGS_SEND" /\ hps.cnt = 6
  <2>1. hps.state = "SET_REGS_SEND" /\ ~hps.rest
    BY DEF SET_REGS_SEND, In
  <2>2. hps.cnt = 6
    BY <2>1 DEF HpsType
  <2>3. clear_bus(IF hps.next = "IDLE" THEN Cleared(h) ELSE h) /\ image' = image
    BY DEF SET_REGS_SEND
  <2>4. QED
    BY <2>1, <2>2, <2>3 DEF clear_bus, Clears
<1>2. DOMAIN h = DOMAIN hps /\ h.state = hps.next /\ h.next = hps.next /\ h.rest = FALSE /\ h.geometry = hps.geometry
      /\ h.regs = hps.regs /\ h.lba = hps.lba /\ h.cnt = 0 /\ h.args = hps.args
  BY <1>1 DEF HpsType
<1> HIDE DEF h
<1>3. /\ DOMAIN hps' = DOMAIN hps /\ hps'.state = hps.next /\ hps'.next = hps.next /\ hps'.rest = FALSE
      /\ hps'.geometry = hps.geometry /\ hps'.cnt = 0 /\ RegsType(hps'.regs)
      /\ DOMAIN hps'.args = {"count", "sector", "cylinder"}
  <2>1. CASE hps.next = "IDLE"
    BY <1>1, <1>2, <2>1, Members
  <2>2. CASE hps.next # "IDLE"
    BY <1>1, <1>2, <2>2 DEF HpsType
  <2>3. QED
    BY <2>1, <2>2
<1>4. HpsType'
  <2>1. hps'.state \in States /\ hps'.geometry \in Geometries /\ hps'.state # "SET_REGS_SEND" /\ hps'.cnt \in Nat
        /\ hps'.next \in {"IDLE", "RESET_SET", "READ_WAIT_REQ", "WRITE_WAIT_REQ"}
    BY <1>3 DEF HpsType, States
  <2>2. QED
    BY <1>3, <2>1, TypeOfHps, Zenon
<1>5. hps.next # "IDLE" => hps'.regs = hps.regs /\ hps'.lba = hps.lba
  BY <1>1, <1>2
<1>6. QED
  BY <1>1, <1>3, <1>4, <1>5

-----------------------------------------------------------------------------
(* The software is busy with a reset.                                       *)

ResetSide ==
  /\ Works /\ ide.request = "reset" /\ Cmd = Srst /\ Cmd' = Srst /\ driver'.moved = 0
  /\ driver.phase \in {"wait", "release"} /\ driver'.phase \in {"wait", "release"}
  /\ driver.phase = "wait" => driver'.phase = "wait"
  /\ image = intended /\ intended' = intended /\ Image(image) /\ Resets
  /\ OfADisk /\ HpsType /\ BusType /\ ControllerType /\ CounterInv /\ StartInv /\ GeometryInv
  /\ BusyDriver /\ BusyController /\ BusyTaskFile /\ EdgeOfController /\ mgmt_readdata' = NextMgmtReaddata
LEMMA ResetSides ==
  ASSUME DInv, DiskNext, Works, ide.request = "reset"
  PROVE  ResetSide
<1>0. /\ OfADisk /\ HpsType /\ BusType /\ ControllerType /\ CounterInv /\ StartInv /\ GeometryInv
      /\ ResetInv /\ Image(image)
  BY DEF DInv, TypeInv, Images
<1>1. BusyDriver /\ BusyController /\ BusyTaskFile
  BY BusySide
<1>2. EdgeOfController /\ mgmt_readdata' = NextMgmtReaddata
  BY <1>1, EdgeOfPort DEF BusyDriver
<1>3. Cmd = Srst /\ driver.phase \in {"wait", "release"} /\ driver.moved = 0 /\ image = intended /\ Resets
  BY <1>0 DEF ResetInv, Works
<1>4. Cmd' = Srst /\ driver'.moved = 0 /\ intended' = intended
      /\ (driver'.phase = driver.phase \/ (driver.phase = "release" /\ driver'.phase = "wait"))
  BY <1>1, <1>3 DEF BusyDriver, Keeps, Untouched, Cmd
<1>5. QED
  BY <1>0, <1>1, <1>2, <1>3, <1>4 DEF ResetSide

LEMMA ResetGoesOn ==
  ASSUME DInv, ResetSide, HpsType', BusType', CounterInv', ide'.mgmt_cnt \in 0..(CountLimit - 1),
         image' = image, hps'.geometry = hps.geometry, ide'.present = (hps'.state # "INITIAL"),
         hps'.state = "INITIAL" => hps.state = "INITIAL",
         ide'.status = {"BSY"}, ide'.request = "reset", ide'.last_read = FALSE, Resets',
         mgmt_wr(5) => "BSY" \notin bus'.data[3] /\ bus'.data[2].drv \in 0..1 /\ bus'.data[2].lba \in BOOLEAN
  PROVE  DInv'
<1>1. "BSY" \in ide'.status /\ "DRQ" \notin ide'.status /\ ~Free'
  BY DEF Free
<1>2. image' = intended'
  BY DEF ResetSide
<1>3. ResetInv' /\ FreeInv' /\ DataInv' /\ WorkInv'
  BY <1>1, <1>2 DEF ResetSide, ResetInv, FreeInv, DataInv, WorkInv
<1>4. GeometryInv'
  <2>1. Cmd.op # "GEOMETRY" /\ Cmd'.op # "GEOMETRY"
    BY DEF ResetSide, Srst
  <2>2. driver'.geometry = driver.geometry
    BY DEF ResetSide, BusyDriver, Keeps
  <2>3. hps.geometry = driver.geometry
    BY <2>1 DEF ResetSide, GeometryInv
  <2>4. QED
    BY <2>1, <2>2, <2>3 DEF GeometryInv
<1>5. StartInv'
  BY <1>1 DEF StartInv, ResetSide
<1>6. Image(image')
  BY DEF ResetSide
<1>7. QED
  BY <1>3, <1>4, <1>5, <1>6, BusyDone DEF ResetSide

\* Nothing is written.
LEMMA ResetCalm ==
  ASSUME DInv, ResetSide, Calm, HpsType', BusType', CounterInv', ide'.mgmt_cnt \in 0..(CountLimit - 1),
         image' = image, hps'.geometry = hps.geometry, hps.state = "INITIAL" <=> hps'.state = "INITIAL",
         SameTaskFile => Resets'
  PROVE  DInv'
<1>1. /\ SameTaskFile /\ ide'.status = {"BSY"} /\ ide'.request = "reset" /\ ide'.last_read = FALSE
      /\ ide'.present = ide.present
  BY CalmEdge DEF ResetSide
<1>2. ide'.present = (hps'.state # "INITIAL")
  <2>1. ide.present = (hps.state # "INITIAL")
    BY DEF ResetSide, ControllerType
  <2>2. QED
    BY <1>1, <2>1
<1>3. ~mgmt_wr(5)
  BY DEF Calm, mgmt_wr
<1>4. QED
  BY <1>1, <1>2, <1>3, ResetGoesOn

\* It leaves a state for another that is over.
LEMMA ResetLeaves ==
  ASSUME DInv, ResetSide, NEW state \in {"IDLE", "RESET_SET", "READ_WAIT_REQ", "WRITE_WAIT_REQ"},
         ~hps.rest, Clears, HpsType', hps'.rest = FALSE, bus.addr # 15, hps.state # "INITIAL",
         image' = image, hps'.geometry = hps.geometry, hps'.state = state
  PROVE  DInv'
<1>1. BusType' /\ CounterInv' /\ ide'.mgmt_cnt \in 0..(CountLimit - 1) /\ Calm
  <2>1. hps'.state \notin Movers
    BY DEF Movers
  <2>2. QED
    BY <2>1, ClearStep DEF ResetSide, BusyDriver
<1>2. Resets'
  BY DEF Resets, After
<1>3. hps'.state # "INITIAL"
  OBVIOUS
<1>4. QED
  BY <1>1, <1>2, <1>3, ResetCalm

LEMMA ResetRests ==
  ASSUME DInv, ResetSide, Rest
  PROVE  DInv'
<1>1. /\ BusType' /\ CounterInv' /\ ide'.mgmt_cnt \in 0..(CountLimit - 1) /\ bus'.addr = bus.addr
      /\ Calm /\ HpsType' /\ image' = image
      /\ hps'.state = hps.state /\ hps'.next = hps.next /\ hps'.cnt = hps.cnt
      /\ hps'.geometry = hps.geometry /\ hps'.regs = hps.regs
  BY RestStep DEF ResetSide, BusyDriver
<1>2. ASSUME SameTaskFile PROVE Resets'
  <2>1. Resets
    BY DEF ResetSide
  <2>2. After' = After /\ (Sends' <=> Sends) /\ \A n : Begun(n)' <=> Begun(n)
    BY <1>1 DEF After, Sends, Begun
  <2>3. bus.addr = 5 => mgmt_readdata'[3] = tf.drv_addr
    BY <1>1 DEF ResetSide, NextMgmtReaddata
  <2>4. tf'.drv_addr = tf.drv_addr /\ tf'.sector_count = tf.sector_count /\ tf'.sector = tf.sector
        /\ tf'.cylinder = tf.cylinder
    BY <1>2 DEF SameTaskFile
  <2>5. QED
    BY <1>1, <2>1, <2>2, <2>3, <2>4 DEF Resets, Begun
<1>3. QED
  BY <1>1, <1>2, ResetCalm

LEMMA ResetIdles ==
  ASSUME DInv, ResetSide, IDLE
  PROVE  DInv'
<1> DEFINE h == [hps EXCEPT !.state = "GET_RESET_DRIVE"]
<1>1. /\ ~hps.rest /\ hps.state = "IDLE" /\ image' = image
      /\ bus' = [op |-> "read", addr |-> 5, data |-> Nothing] /\ hps' = [h EXCEPT !.rest = TRUE]
  BY DEF IDLE, In, pulse_read, Uses, ResetSide
<1>2. /\ hps'.state = "GET_RESET_DRIVE" /\ hps'.cnt = hps.cnt /\ hps'.next = hps.next /\ hps'.rest = TRUE
      /\ hps'.geometry = hps.geometry /\ hps'.regs = hps.regs /\ hps'.args = hps.args /\ DOMAIN hps' = DOMAIN hps
  BY <1>1 DEF ResetSide, HpsType
<1>3. HpsType'
  <2>1. hps'.state \in States
    BY <1>2 DEF States
  <2>2. QED
    BY <1>2, <2>1, TypeOfHps DEF HpsType, ResetSide
<1>4. BusType' /\ CounterInv' /\ ide'.mgmt_cnt \in 0..(CountLimit - 1) /\ bus'.addr = 5 /\ Calm
  <2>1. 5 \in 0..14 /\ hps'.state \notin Movers
    BY <1>2 DEF Movers
  <2>2. QED
    BY <1>1, <1>2, <2>1, UseStep DEF ResetSide, BusyDriver
<1>5. mgmt_readdata'[3] = tf.drv_addr
  BY <1>4 DEF ResetSide, NextMgmtReaddata
<1>6. SameTaskFile => Resets'
  BY <1>2, <1>4, <1>5 DEF Resets, SameTaskFile
<1>7. QED
  BY <1>1, <1>2, <1>3, <1>4, <1>6, ResetCalm

LEMMA ResetReads ==
  ASSUME DInv, ResetSide, GET_RESET_DRIVE
  PROVE  DInv'
<1> DEFINE addr == mgmt_readdata[3]
           cylinder == IF addr.drv # 0 THEN Absent ELSE 0
           regs == [hps.regs EXCEPT !.drv = addr.drv, !.lba = addr.lba, !.head = 0, !.sector = 1, !.count = 1,
                                    !.error = 0, !.cylinder = cylinder, !.status = {"RDY"}]
<1>0. OfADisk /\ HpsType /\ ControllerType /\ Resets
  BY DEF ResetSide
<1>1. ~hps.rest /\ hps.state = "GET_RESET_DRIVE" /\ image' = image /\ Clears
      /\ hps' = [hps EXCEPT !.state = "SET_REGS", !.next = "RESET_SET", !.regs = regs]
  <2>1. scenario.cdrom = FALSE
    BY <1>0 DEF OfADisk
  <2>2. QED
    BY <2>1 DEF GET_RESET_DRIVE, In, clear_bus, Clears
<1>2. bus.addr = 5 /\ addr = tf.drv_addr
  BY <1>0, <1>1 DEF Resets, After, Sends
<1>3. cylinder \in Int
  BY SpanType DEF SpanFacts, Absent
<1>4. DOMAIN hps.regs = DOMAIN PowerOnRegs
  BY <1>0 DEF HpsType, RegsType
<1>5. DOMAIN PowerOnRegs = {"size", "error", "count", "sector", "cylinder", "head", "drv", "lba", "psize", "status"}
  BY DEF PowerOnRegs
<1> HIDE DEF cylinder, addr
<1>6. /\ regs.count = 1 /\ regs.sector = 1 /\ regs.drv = addr.drv /\ regs.lba = addr.lba /\ regs.head = 0
      /\ regs.cylinder = cylinder /\ regs.status = {"RDY"} /\ DOMAIN regs = DOMAIN PowerOnRegs
  BY <1>4, <1>5
<1> HIDE DEF regs
<1>7. RegsType(regs)
  BY <1>0, <1>2, <1>3, <1>6 DEF RegsType, ControllerType
<1>8. /\ hps'.state = "SET_REGS" /\ hps'.next = "RESET_SET" /\ hps'.regs = regs /\ hps'.rest = hps.rest
      /\ hps'.cnt = hps.cnt /\ hps'.geometry = hps.geometry /\ hps'.args = hps.args /\ DOMAIN hps' = DOMAIN hps
  BY <1>0, <1>1 DEF HpsType
<1>9. HpsType' /\ hps'.rest = FALSE
  <2>1. hps'.state \in States /\ hps'.rest = FALSE
    BY <1>0, <1>1, <1>8 DEF States, HpsType
  <2>2. QED
    BY <1>0, <1>7, <1>8, <2>1, TypeOfHps DEF HpsType
<1>10. BusType' /\ CounterInv' /\ ide'.mgmt_cnt \in 0..(CountLimit - 1) /\ Calm
  <2>1. hps'.state \notin Movers
    BY <1>8 DEF Movers
  <2>2. QED
    BY <1>1, <1>8, <1>9, <2>1, ClearStep DEF ResetSide, BusyDriver
<1>11. ASSUME SameTaskFile PROVE Resets'
  <2>1. Sends' /\ ~Begun(1)' /\ ~Begun(2)'
    BY <1>8 DEF Sends, Begun
  <2>2. tf'.drv_addr = addr
    BY <1>2, <1>11 DEF SameTaskFile
  <2>3. hps'.regs.cylinder = IF tf'.drv_addr.drv # 0 THEN Absent ELSE 0
    BY <1>6, <1>8, <2>2 DEF cylinder
  <2>4. hps'.regs.status \cap {"BSY", "DRQ", "ERR", "END"} = {}
    BY <1>6, <1>8
  <2>5. QED
    BY <1>6, <1>8, <2>1, <2>2, <2>3, <2>4 DEF Resets
<1>12. QED
  BY <1>1, <1>8, <1>9, <1>10, <1>11, ResetCalm

LEMMA ResetSets ==
  ASSUME DInv, ResetSide, SET_REGS
  PROVE  DInv'
<1>1. /\ ~hps.rest /\ hps.state = "SET_REGS" /\ Clears /\ image' = image
      /\ hps'.rest = FALSE /\ hps'.state = "SET_REGS_SEND" /\ hps'.cnt = 0 /\ hps'.next = hps.next
      /\ hps'.geometry = hps.geometry /\ SameRegs(hps'.regs, hps.regs) /\ HpsType'
  BY SetsRegs DEF ResetSide
<1>2. BusType' /\ CounterInv' /\ ide'.mgmt_cnt \in 0..(CountLimit - 1) /\ Calm
  <2>1. hps'.state \notin Movers
    BY <1>1 DEF Movers
  <2>2. QED
    BY <1>1, <2>1, ClearStep DEF ResetSide, BusyDriver
<1>3. ASSUME SameTaskFile PROVE Resets'
  <2>1. Sends' /\ ~Begun(1)' /\ ~Begun(2)'
    BY <1>1 DEF Sends, Begun
  <2>2. /\ hps.next = "RESET_SET" /\ hps.regs.status \cap {"BSY", "DRQ", "ERR", "END"} = {}
        /\ hps.regs.count = 1 /\ hps.regs.sector = 1 /\ hps.regs.drv = tf.drv_addr.drv
        /\ hps.regs.cylinder = IF tf.drv_addr.drv # 0 THEN Absent ELSE 0
    BY <1>1 DEF ResetSide, Resets, After
  <2>3. hps'.regs.status \cap {"BSY", "DRQ", "ERR", "END"} = {}
    <3>1. \A b \in {"BSY", "DRQ", "ERR", "END"} : b # "DSC" /\ b \notin hps.regs.status
      BY <2>2
    <3>2. QED
      BY <1>1, <3>1 DEF SameRegs
  <2>4. QED
    BY <1>1, <1>3, <2>1, <2>2, <2>3 DEF Resets, SameRegs, SameTaskFile
<1>4. QED
  BY <1>1, <1>2, <1>3, ResetCalm

LEMMA ResetSends ==
  ASSUME DInv, ResetSide, SET_REGS_SEND, hps.cnt < 6
  PROVE  DInv'
<1>0. OfADisk /\ HpsType /\ ControllerType /\ Resets
  BY DEF ResetSide
<1>1. /\ hps.state = "SET_REGS_SEND" /\ image' = image /\ hps.cnt \in 0..5
      /\ hps'.state = "SET_REGS_SEND" /\ hps'.cnt = hps.cnt + 1 /\ hps'.next = hps.next
      /\ hps'.geometry = hps.geometry /\ hps'.regs = hps.regs /\ HpsType'
  BY <1>0, SendsReg
<1>2. ide.present = TRUE
  BY <1>0, <1>1 DEF ControllerType
<1>3. PICK n \in 0..5 : n = hps.cnt
  BY <1>1
<1>4. /\ Sends /\ hps.next = "RESET_SET" /\ hps.regs.status \cap {"BSY", "DRQ", "ERR", "END"} = {}
      /\ hps.regs.count = 1 /\ hps.regs.sector = 1 /\ hps.regs.drv = tf.drv_addr.drv
      /\ hps.regs.cylinder = (IF tf.drv_addr.drv # 0 THEN Absent ELSE 0)
      /\ n > 1 => tf.sector_count = 1 /\ tf.sector = 1
      /\ n > 2 => tf.cylinder = hps.regs.cylinder
  <2>1. hps.cnt # 6
    BY <1>1
  <2>2. QED
    BY <1>0, <1>1, <1>3, <2>1 DEF Resets, After, Sends, Begun
<1>5. 1 % Radix = 1 /\ hps.regs.cylinder % Span = hps.regs.cylinder
  <2>1. Radix \in Nat /\ Radix >= 2 /\ Span \in Nat /\ Span >= 4
    BY SizesAssumption, SpanType DEF SpanFacts
  <2>2. QED
    BY <1>4, <2>1 DEF Absent
<1>e. /\ BusType' /\ CounterInv' /\ ide'.mgmt_cnt \in 0..(CountLimit - 1)
      /\ ide'.present = TRUE
      /\ mgmt_wr(5) => n = 5
      /\ n # 5 => /\ ide'.status = {"BSY"} /\ ide'.last_read = FALSE /\ Sends'
                  /\ ide'.request = IF driver.phase = "release" THEN "reset" ELSE ide.request
      /\ n = 5 => /\ ~Sends' /\ After' = hps.next
                  /\ tf'.drv_addr = Address(hps.regs.lba, hps.regs.drv, hps.regs.head)
                  /\ ide'.status = Ready(hps.regs.status) /\ bus'.data[3] = hps.regs.status
                  /\ bus'.data[2] = Address(hps.regs.lba, hps.regs.drv, hps.regs.head)
                  /\ ide'.request = IF driver.phase = "release" THEN "reset" ELSE "none"
                  /\ driver.phase = "wait" => ide'.last_read = ("END" \in hps.regs.status)
                  /\ driver.phase = "release" => ide'.last_read = FALSE
      /\ tf'.sector_count = (IF n = 1 THEN hps.regs.count % Radix ELSE tf.sector_count)
      /\ tf'.sector = (IF n = 1 THEN hps.regs.sector % Radix ELSE tf.sector)
      /\ tf'.cylinder = (IF n = 2 THEN hps.regs.cylinder % Span ELSE tf.cylinder)
      /\ n # 5 => tf'.drv_addr = tf.drv_addr
  BY <1>2, <1>3, RegSent DEF ResetSide
<1>6. /\ tf'.sector_count = (IF n = 1 THEN 1 ELSE tf.sector_count)
      /\ tf'.sector = (IF n = 1 THEN 1 ELSE tf.sector)
      /\ tf'.cylinder = (IF n = 2 THEN hps.regs.cylinder ELSE tf.cylinder)
  BY <1>4, <1>5, <1>e
<1>7. mgmt_wr(5) => "BSY" \notin bus'.data[3] /\ bus'.data[2].drv \in 0..1 /\ bus'.data[2].lba \in BOOLEAN
  <2>1. hps.regs.drv \in 0..1 /\ hps.regs.lba \in BOOLEAN
    BY <1>0 DEF HpsType, RegsType
  <2>2. "BSY" \notin hps.regs.status
    BY <1>4
  <2>3. QED
    BY <1>e, <2>1, <2>2 DEF Address
<1>8. ide'.present = (hps'.state # "INITIAL")
  BY <1>1, <1>e
<1>9. CASE n # 5
  <2>1. Resets'
    <3>1. Sends' /\ tf'.drv_addr = tf.drv_addr
      BY <1>9, <1>e
    <3>2. Begun(1)' => tf'.sector_count = 1 /\ tf'.sector = 1
      BY <1>1, <1>3, <1>4, <1>6 DEF Begun
    <3>3. Begun(2)' => tf'.cylinder = hps'.regs.cylinder
      BY <1>1, <1>3, <1>4, <1>6 DEF Begun
    <3>4. QED
      BY <1>1, <1>4, <3>1, <3>2, <3>3 DEF Resets
  <2>2. ide'.status = {"BSY"} /\ ide'.request = "reset" /\ ide'.last_read = FALSE
    BY <1>9, <1>e DEF ResetSide
  <2>3. QED
    BY <1>1, <1>7, <1>8, <1>e, <2>1, <2>2, ResetGoesOn
<1>10. CASE n = 5 /\ driver.phase = "release"
  <2>1. Resets'
    BY <1>4, <1>10, <1>e DEF Resets
  <2>2. ide'.status = {"BSY"} /\ ide'.request = "reset" /\ ide'.last_read = FALSE
    BY <1>10, <1>e DEF Ready
  <2>3. QED
    BY <1>1, <1>7, <1>8, <1>e, <2>1, <2>2, ResetGoesOn
<1>11. CASE n = 5 /\ driver.phase = "wait"
  <2>1. mgmt_wr(5)
    <3>1. bus' = [op |-> "write", addr |-> hps.cnt, data |-> RegValue(hps.regs, hps.cnt)]
      BY <1>0, SendsReg
    <3>2. QED
      BY <1>3, <1>11, <3>1 DEF mgmt_wr
  <2>2. ide'.status = hps.regs.status \cap StatusBits
    BY <1>11, <1>e, <2>1 DEF Ready
  <2>3. "BSY" \notin ide'.status /\ "DRQ" \notin ide'.status /\ "ERR" \notin ide'.status /\ "END" \notin hps.regs.status
    BY <1>4, <2>2
  <2>4. ide'.request = "none" /\ ide'.last_read = FALSE /\ driver'.phase = "wait"
    <3>1. ide'.last_read = ("END" \in hps.regs.status)
      BY <1>11, <1>e
    <3>b. ("END" \in hps.regs.status) = FALSE
      BY <2>3
    <3>2. ide'.last_read = FALSE
      BY <3>1, <3>b, Zenon
    <3>3. QED
      BY <1>11, <1>e, <3>2 DEF ResetSide
  <2>5. Answered'
    <3>1. ~Refused(Cmd)'
      BY DiskCommandsNext DEF ResetSide, BusyDriver, Srst
    <3>2. Due(Cmd)' = 0
      BY DiskCommandsNext DEF ResetSide, BusyDriver, Srst
    <3>3. tf'.sector_count = 1 /\ tf'.sector = 1 /\ tf'.cylinder = hps.regs.cylinder
      BY <1>4, <1>6, <1>11
    <3>4. tf'.drv_addr.drv = tf.drv_addr.drv
      BY <1>4, <1>11, <1>e DEF Address
    <3>5. tf'.cylinder = IF tf'.drv_addr.drv # 0 THEN Absent ELSE 0
      BY <1>4, <3>3, <3>4
    <3>6. driver'.moved = 0
      BY DEF ResetSide
    <3>7. QED
      BY <2>3, <3>1, <3>2, <3>3, <3>5, <3>6 DEF Answered
  <2>6. Down'
    BY <1>4, <1>11, <1>e DEF Down
  <2>7. image' = intended'
    BY <1>1 DEF ResetSide
  <2>8. FreeInv' /\ DataInv' /\ ResetInv' /\ WorkInv'
    BY <2>3, <2>4, <2>5, <2>6, <2>7 DEF FreeInv, DataInv, ResetInv, WorkInv
  <2>9. GeometryInv'
    <3>1. Cmd.op # "GEOMETRY" /\ Cmd'.op # "GEOMETRY"
      BY DEF ResetSide, Srst
    <3>2. driver'.geometry = driver.geometry
      BY DEF ResetSide, BusyDriver, Keeps
    <3>3. hps.geometry = driver.geometry
      BY <3>1 DEF ResetSide, GeometryInv
    <3>4. QED
      BY <1>1, <3>1, <3>2, <3>3 DEF GeometryInv
  <2>10. StartInv' /\ Image(image')
    BY <1>1 DEF StartInv, ResetSide
  <2>11. QED
    BY <1>1, <1>7, <1>8, <1>e, <2>8, <2>9, <2>10, BusyDone DEF ResetSide
<1>12. QED
  BY <1>9, <1>10, <1>11 DEF ResetSide

LEMMA ResetStep ==
  ASSUME DInv, DiskNext, Works, ide.request = "reset"
  PROVE  DInv'
<1>0. ResetSide
  BY ResetSides
<1>1. OfADisk /\ HpsType /\ ControllerType /\ CounterInv /\ Resets
  BY <1>0 DEF ResetSide
<1>2. CASE Rest
  BY <1>0, <1>2, ResetRests
<1>3. CASE INITIAL
  <2> DEFINE h == [hps EXCEPT !.state = "IDLE"]
  <2>1. /\ ~hps.rest /\ hps.state = "INITIAL" /\ image' = image
        /\ bus' = [op |-> "write", addr |-> 6, data |-> <<"present", TRUE, 0>>] /\ hps' = [h EXCEPT !.rest = TRUE]
    BY <1>3 DEF INITIAL, In, pulse_write, Uses
  <2>2. /\ hps'.state = "IDLE" /\ hps'.cnt = hps.cnt /\ hps'.next = hps.next /\ hps'.rest = TRUE
        /\ hps'.geometry = hps.geometry /\ hps'.regs = hps.regs /\ hps'.args = hps.args /\ DOMAIN hps' = DOMAIN hps
    BY <1>1, <2>1 DEF HpsType
  <2>3. HpsType'
    <3>1. hps'.state \in States
      BY <2>2 DEF States
    <3>2. QED
      BY <1>1, <2>2, <3>1, TypeOfHps DEF HpsType
  <2> DEFINE w == <<"present", TRUE, 0>>
  <2>4. w[2] = TRUE
    BY Zenon
  <2> HIDE DEF w
  <2>5. BusType' /\ CounterInv' /\ ide'.mgmt_cnt \in 0..(CountLimit - 1) /\ bus'.data = w
        /\ (\A a : mgmt_wr(a) <=> a = 6)
    <3>1. 6 \in 0..14 /\ hps'.state \notin Movers /\ bus' = [op |-> "write", addr |-> 6, data |-> w]
      BY <2>1, <2>2 DEF Movers, w
    <3>2. HpsType /\ BusType /\ ControllerType /\ EdgeOfController /\ scenario' = scenario
      BY <1>0 DEF ResetSide, BusyDriver
    <3>3. ~hps.rest /\ hps'.rest = TRUE
      BY <2>1, <2>2
    <3> HIDE DEF h
    <3>4. /\ BusType' /\ CounterInv' /\ ide'.mgmt_cnt \in 0..(CountLimit - 1) /\ bus'.data = w
          /\ (\A a : mgmt_wr(a) <=> "write" = "write" /\ a = 6)
      BY <3>1, <3>2, <3>3, UseStep
    <3>5. QED
      BY <3>4
  <2>6. /\ ide'.status = {"BSY"} /\ ide'.request = "reset" /\ ide'.last_read = FALSE
        /\ ide'.present = TRUE /\ ~mgmt_wr(5)
    BY <1>0, <2>4, <2>5 DEF ResetSide, BusyController, Ready
  <2>7. Resets'
    BY <2>2 DEF Resets, After
  <2>8. ide'.present = (hps'.state # "INITIAL")
    BY <2>2, <2>6
  <2>9. QED
    BY <1>0, <2>1, <2>2, <2>3, <2>5, <2>6, <2>7, <2>8, ResetGoesOn
<1>4. CASE IDLE
  BY <1>0, <1>4, ResetIdles
<1>5. CASE GET_RESET_DRIVE
  BY <1>0, <1>5, ResetReads
<1>6. CASE SET_REGS
  BY <1>0, <1>6, ResetSets
<1>7. CASE SET_REGS_SEND
  <2>1. CASE hps.cnt < 6
    BY <1>0, <1>7, <2>1, ResetSends
  <2>2. CASE ~(hps.cnt < 6)
    <3>1. /\ ~hps.rest /\ hps.state = "SET_REGS_SEND" /\ hps.cnt = 6 /\ image' = image /\ Clears
          /\ hps'.rest = FALSE /\ hps'.state = hps.next /\ hps'.geometry = hps.geometry /\ HpsType'
      BY <1>1, <1>7, <2>2, RegsSent
    <3>2. bus.addr # 15
      BY <1>1, <3>1 DEF CounterInv
    <3>3. PICK state \in {"IDLE", "RESET_SET", "READ_WAIT_REQ", "WRITE_WAIT_REQ"} : state = hps.next
      BY <1>1 DEF HpsType
    <3>4. QED
      BY <1>0, <3>1, <3>2, <3>3, ResetLeaves
  <2>3. QED
    BY <2>1, <2>2
<1>8. CASE RESET_SET \/ READ_WAIT_REQ \/ WRITE_WAIT_REQ
  <2> DEFINE h == [hps EXCEPT !.state = "IDLE"]
  <2>1. ~hps.rest /\ hps' = Cleared(h) /\ image' = image /\ Clears
        /\ hps.state \in {"RESET_SET", "READ_WAIT_REQ", "WRITE_WAIT_REQ"}
    <3>0. ide.request = "reset"
      OBVIOUS
    <3>1. CASE RESET_SET
      BY <3>1 DEF RESET_SET, In, clear_bus, Clears
    <3>2. CASE READ_WAIT_REQ
      BY <3>0, <3>2 DEF READ_WAIT_REQ, Waits, In, clear_bus, Clears
    <3>3. CASE WRITE_WAIT_REQ
      BY <3>0, <3>3 DEF WRITE_WAIT_REQ, Waits, In, clear_bus, Clears
    <3>4. QED
      BY <1>8, <3>1, <3>2, <3>3
  <2>2. DOMAIN h = DOMAIN hps /\ h.state = "IDLE" /\ h.next = hps.next /\ h.rest = hps.rest /\ h.geometry = hps.geometry
    BY <1>1 DEF HpsType
  <2> HIDE DEF h
  <2>3. /\ DOMAIN hps' = DOMAIN hps /\ hps'.state = "IDLE" /\ hps'.next = hps.next /\ hps'.rest = FALSE
        /\ hps'.geometry = hps.geometry /\ hps'.cnt = 0 /\ RegsType(hps'.regs)
        /\ DOMAIN hps'.args = {"count", "sector", "cylinder"}
    <3>1. hps.rest = FALSE
      BY <1>1, <2>1 DEF HpsType
    <3>2. QED
      BY <1>1, <2>1, <2>2, <3>1, Members
  <2>4. HpsType'
    <3>1. hps'.state \in States /\ hps'.geometry \in Geometries /\ hps'.state # "SET_REGS_SEND" /\ hps'.cnt \in Nat
          /\ hps'.next \in {"IDLE", "RESET_SET", "READ_WAIT_REQ", "WRITE_WAIT_REQ"}
      BY <1>1, <2>3 DEF HpsType, States
    <3>2. QED
      BY <1>1, <2>3, <3>1, TypeOfHps, Zenon
  <2>5. bus.addr # 15
    BY <1>1, <2>1 DEF CounterInv, Movers
  <2>6. hps.state # "INITIAL" /\ "IDLE" \in {"IDLE", "RESET_SET", "READ_WAIT_REQ", "WRITE_WAIT_REQ"}
    BY <2>1
  <2>7. QED
    BY <1>0, <2>1, <2>3, <2>4, <2>5, <2>6, ResetLeaves
<1>9. hps.state \in {"INITIAL", "IDLE", "RESET_SET", "READ_WAIT_REQ", "WRITE_WAIT_REQ", "GET_RESET_DRIVE",
                     "SET_REGS", "SET_REGS_SEND"}
  BY <1>1 DEF Resets, After, Sends
<1>10. QED
  BY <1>2, <1>3, <1>4, <1>5, <1>6, <1>7, <1>8, <1>9
     DEF DiskNext, In, GET_CMD, DO_CMD, SEND_ID, READ, READ_REGS, READ_SEND,
         WRITE, WRITE_REGS, WRITE_RECV, PACKET_WAIT_REQ, PACKET_RECV, PACKET_HANDLE, PACKET_SEND,
         PACKET_READ_WAIT_REQ, Waits

-----------------------------------------------------------------------------
(* The software is busy with a command.                                     *)

Situation ==
  \/ AtRest \/ AtGetCmd \/ AtDoCmd \/ AtSendId \/ AtRead \/ AtReadSend \/ AtWrite \/ AtWriteRecv \/ AtSends
WorkSide ==
  /\ Works /\ ide.request \in {"command", "data"} /\ driver.phase = "wait" /\ driver'.phase = "wait"
  /\ Cmd' = Cmd /\ driver'.moved = driver.moved /\ driver'.geometry = driver.geometry /\ Cmd.op \in DiskOps
  /\ Start' = Start /\ Blocks(Cmd)' = Blocks(Cmd) /\ (Refused(Cmd)' <=> Refused(Cmd)) /\ Due(Cmd)' = Due(Cmd)
  /\ intended' = intended /\ Image(image) /\ Image(intended) /\ hps.state # "INITIAL" /\ ide.present = TRUE
  /\ OfADisk /\ DriverType /\ HpsType /\ BusType /\ ControllerType /\ CounterInv /\ GeometryInv
  /\ BusyDriver /\ BusyController /\ BusyTaskFile /\ EdgeOfController /\ EdgeOfBuffer
  /\ mgmt_readdata' = NextMgmtReaddata /\ scenario' = scenario
LEMMA WorkSides ==
  ASSUME DInv, DiskNext, Works, ide.request # "reset"
  PROVE  WorkSide /\ Situation
<1>0. /\ OfADisk /\ DriverType /\ HpsType /\ BusType /\ ControllerType /\ CounterInv /\ StartInv /\ GeometryInv
      /\ WorkInv /\ Image(image) /\ Image(intended)
  BY DEF DInv, TypeInv, Images
<1>1. BusyDriver /\ BusyController /\ BusyTaskFile
  BY BusySide
<1>2. EdgeOfController /\ EdgeOfBuffer /\ mgmt_readdata' = NextMgmtReaddata
  BY <1>1, EdgeOfPort DEF BusyDriver
<1>3. ide.request \in {"command", "data"} /\ driver.phase = "wait" /\ Cmd.op \in DiskOps /\ Situation
  BY <1>0 DEF WorkInv, Works, Situation
<1>4. Cmd' = Cmd /\ driver'.moved = driver.moved /\ intended' = intended /\ driver'.phase = "wait"
      /\ driver'.geometry = driver.geometry /\ scenario' = scenario
  BY <1>1, <1>3 DEF BusyDriver, Keeps, Untouched, Cmd
<1>5. Start' = Start /\ Blocks(Cmd)' = Blocks(Cmd)
  BY <1>4 DEF Start, First, Blocks
<1>6. Refused(Cmd)' <=> Refused(Cmd)
  BY <1>0, <1>1, <1>4, DiskCommands, DiskCommandsNext DEF BusyDriver
<1>7. Due(Cmd)' = Due(Cmd)
  BY <1>4, Zenon DEF Due, Blocks
<1>8. hps.state # "INITIAL" /\ ide.present = TRUE
  BY <1>0, <1>3 DEF StartInv, ControllerType
<1>9. QED
  BY <1>0, <1>1, <1>2, <1>3, <1>4, <1>5, <1>6, <1>7, <1>8 DEF WorkSide

SameController ==
  SameTaskFile /\ ide'.request = ide.request /\ ide'.error = ide.error /\ ide'.blk_size = ide.blk_size
LEMMA WorkGoesOn ==
  ASSUME DInv, WorkSide, Calm, HpsType', BusType', CounterInv', ide'.mgmt_cnt \in 0..(CountLimit - 1),
         Image(image'), hps'.state # "INITIAL", SameController => Situation' /\ GeometryInv'
  PROVE  DInv'
<1>1. SameTaskFile /\ ide'.status = {"BSY"} /\ ide'.request = ide.request /\ ide'.last_read = FALSE
      /\ ide'.error = ide.error /\ ide'.present = TRUE /\ ide'.blk_size = ide.blk_size
  BY CalmEdge DEF WorkSide
<1>2. Situation' /\ GeometryInv'
  BY <1>1 DEF SameController
<1>3. "BSY" \in ide'.status /\ "DRQ" \notin ide'.status /\ ~Free' /\ ide'.request \in {"command", "data"}
  BY <1>1 DEF Free, WorkSide
<1>4. FreeInv' /\ DataInv' /\ ResetInv' /\ WorkInv'
  BY <1>1, <1>2, <1>3 DEF FreeInv, DataInv, ResetInv, WorkInv, WorkSide, Situation
<1>5. ~mgmt_wr(5) /\ ide'.present = (hps'.state # "INITIAL") /\ StartInv'
  <2>1. (hps'.state # "INITIAL") = TRUE
    OBVIOUS
  <2>2. ide'.present = (hps'.state # "INITIAL")
    BY <1>1, <2>1, Zenon
  <2>3. QED
    BY <2>2 DEF Calm, mgmt_wr, StartInv
<1>6. QED
  BY <1>2, <1>4, <1>5, BusyDone DEF WorkSide

\* The geometry changes only with the command that sets it.
LEMMA SameGeometry ==
  ASSUME WorkSide, SameController, hps'.geometry = hps.geometry,
         Cmd.op # "GEOMETRY" \/ (Sends' <=> Sends)
  PROVE  GeometryInv'
<1>1. Cmd.op # "GEOMETRY" \/ (Obeyed' <=> Obeyed)
  BY DEF Obeyed, WorkSide, SameController
<1>2. hps.geometry = IF Cmd.op = "GEOMETRY" /\ ~Refused(Cmd) /\ Obeyed THEN SetGeometry(Cmd.count, Cmd.head + 1)
                     ELSE driver.geometry
  BY DEF WorkSide, GeometryInv
<1>3. Cmd' = Cmd /\ driver'.geometry = driver.geometry /\ (Refused(Cmd)' <=> Refused(Cmd))
  BY DEF WorkSide
<1>4. QED
  BY <1>1, <1>2, <1>3 DEF GeometryInv

\* The buffer.
LEMMA WordsStay ==
  ASSUME WorkSide, bus'.op # "write" \/ bus'.addr # 15
  PROVE  \A w \in 0..(BufWords - 1) : buf'.word[w] = buf.word[w]
<1>1. \A half : ~MgmtWrites(half) /\ ~IoWrites(half)
  BY DEF MgmtWrites, IoWrites, mgmt_wr, WorkSide, BusyController
<1>2. QED
  BY <1>1 DEF EdgeOfBuffer, Stored, WorkSide
LEMMA WordMoves ==
  ASSUME WorkSide, bus'.op = "write", bus'.addr = 15, NEW c \in 0..(BufWords - 1), ide.mgmt_cnt = c
  PROVE  \A w \in 0..(BufWords - 1) : buf'.word[w] = IF w = c THEN bus'.data ELSE buf.word[w]
<1>1. \A half : ~IoWrites(half) /\ (MgmtWrites(half) <=> c % 2 = half)
  BY DEF MgmtWrites, IoWrites, mgmt_wr, WorkSide, BusyController
<1>2. TAKE w \in 0..(BufWords - 1)
<1>3. buf'.word[w] = IF c % 2 = w % 2 /\ w - (w % 2) = Pair(c) THEN bus'.data ELSE buf.word[w]
  BY <1>1 DEF EdgeOfBuffer, Stored, WorkSide
<1>4. BufWords \in Nat /\ c \in Nat /\ c < BufWords /\ w \in Nat
  BY BufferAssumption
<1>5. Pair(c) = c - (c % 2)
  BY <1>4, Pairs DEF PairOf
<1>6. (c % 2 = w % 2 /\ w - (w % 2) = c - (c % 2)) <=> w = c
  BY <1>4
<1>7. QED
  BY <1>3, <1>5, <1>6

LEMMA SectorWords ==
  ASSUME WorkSide, \A w \in 0..(BufWords - 1) : buf'.word[w] = buf.word[w]
  PROVE  \A i \in 0..(Words - 1) : buf'.word[i] = buf.word[i]
  BY SizesAssumption, BufferAssumption

LEMMA HeldStays ==
  ASSUME WorkSide, SameTaskFile, Held(8)
  PROVE  Held(8)'
  BY DEF WorkSide, SameTaskFile, Held

-----------------------------------------------------------------------------
(* It has not seen the command yet.                                         *)

LEMMA StaysAtRest ==
  ASSUME DInv, WorkSide, AtRest, HpsType', BusType', CounterInv', ide'.mgmt_cnt \in 0..(CountLimit - 1), Calm,
         image' = image, Down', hps'.geometry = hps.geometry
  PROVE  DInv'
<1>1. hps'.state # "INITIAL" /\ ~Sends' /\ ~Sends /\ Image(image')
  BY DEF Down, After, Sends, AtRest, WorkSide
<1>2. ASSUME SameController PROVE Situation' /\ GeometryInv'
  <2>1. AtRest'
    BY <1>2, HeldStays DEF AtRest, WorkSide, SameController
  <2>2. QED
    BY <1>1, <1>2, <2>1, SameGeometry DEF Situation
<1>3. QED
  BY <1>1, <1>2, WorkGoesOn

LEMMA RestStepAtRest ==
  ASSUME DInv, WorkSide, DiskNext, AtRest
  PROVE  DInv'
<1>0. /\ OfADisk /\ HpsType /\ BusType /\ ControllerType /\ CounterInv /\ EdgeOfController /\ scenario' = scenario
  BY DEF WorkSide
<1>1. hps.state \in {"IDLE", "RESET_SET"} \/ (hps.state = "SET_REGS_SEND" /\ hps.cnt = 6 /\ hps.next \in {"IDLE", "RESET_SET"})
  BY DEF AtRest, Down, After
<1>a. bus.addr # 15
  BY <1>0, <1>1 DEF CounterInv, Movers
<1>2. CASE Rest
  <2>1. /\ BusType' /\ CounterInv' /\ ide'.mgmt_cnt \in 0..(CountLimit - 1) /\ Calm /\ HpsType' /\ image' = image
        /\ hps'.state = hps.state /\ hps'.next = hps.next /\ hps'.cnt = hps.cnt /\ hps'.geometry = hps.geometry
    BY <1>0, <1>2, RestStep
  <2>2. Down'
    BY <1>1, <2>1 DEF Down, After
  <2>3. QED
    BY <2>1, <2>2, StaysAtRest
<1>3. ASSUME ~hps.rest, Clears, HpsType', hps'.rest = FALSE, image' = image, hps'.geometry = hps.geometry,
             hps'.state \in {"IDLE", "RESET_SET"}
      PROVE  DInv'
  <2>1. BusType' /\ CounterInv' /\ ide'.mgmt_cnt \in 0..(CountLimit - 1) /\ Calm
    BY <1>0, <1>a, <1>3, ClearStep DEF Movers
  <2>2. Down'
    BY <1>3 DEF Down, After
  <2>3. QED
    BY <1>3, <2>1, <2>2, StaysAtRest
<1>4. CASE RESET_SET
  <2> DEFINE h == [hps EXCEPT !.state = "IDLE"]
  <2>1. ~hps.rest /\ hps' = Cleared(h) /\ image' = image /\ Clears
    BY <1>4 DEF RESET_SET, In, clear_bus, Clears
  <2>2. DOMAIN h = DOMAIN hps /\ h.state = "IDLE" /\ h.next = hps.next /\ h.rest = hps.rest /\ h.geometry = hps.geometry
    BY <1>0 DEF HpsType
  <2> HIDE DEF h
  <2>3. /\ DOMAIN hps' = DOMAIN hps /\ hps'.state = "IDLE" /\ hps'.next = hps.next /\ hps'.rest = FALSE
        /\ hps'.geometry = hps.geometry /\ hps'.cnt = 0 /\ RegsType(hps'.regs)
        /\ DOMAIN hps'.args = {"count", "sector", "cylinder"}
    <3>1. hps.rest = FALSE
      BY <1>0, <2>1 DEF HpsType
    <3>2. QED
      BY <1>0, <2>1, <2>2, <3>1, Members
  <2>4. HpsType'
    <3>1. hps'.state \in States /\ hps'.geometry \in Geometries /\ hps'.state # "SET_REGS_SEND" /\ hps'.cnt \in Nat
          /\ hps'.next \in {"IDLE", "RESET_SET", "READ_WAIT_REQ", "WRITE_WAIT_REQ"}
      BY <1>0, <2>3 DEF HpsType, States
    <3>2. QED
      BY <1>0, <2>3, <3>1, TypeOfHps, Zenon
  <2>5. QED
    BY <1>3, <2>1, <2>3, <2>4
<1>5. CASE SET_REGS_SEND
  <2>1. ~(hps.cnt < 6) /\ hps.next \in {"IDLE", "RESET_SET"}
    BY <1>1, <1>5 DEF SET_REGS_SEND, In
  <2>2. /\ ~hps.rest /\ image' = image /\ Clears
        /\ hps'.rest = FALSE /\ hps'.state = hps.next /\ hps'.geometry = hps.geometry /\ HpsType'
    BY <1>0, <1>5, <2>1, RegsSent
  <2>3. QED
    BY <1>3, <2>1, <2>2
<1>6. CASE IDLE
  <2> DEFINE h == [hps EXCEPT !.state = "GET_CMD"]
  <2>0. ide.request = "command"
    BY DEF AtRest
  <2>1. /\ ~hps.rest /\ hps.state = "IDLE" /\ image' = image
        /\ bus' = [op |-> "read", addr |-> 0, data |-> Nothing] /\ hps' = [h EXCEPT !.rest = TRUE]
    BY <1>6, <2>0 DEF IDLE, In, pulse_read, Uses
  <2>2. /\ hps'.state = "GET_CMD" /\ hps'.cnt = hps.cnt /\ hps'.next = hps.next /\ hps'.rest = TRUE
        /\ hps'.geometry = hps.geometry /\ hps'.regs = hps.regs /\ hps'.args = hps.args /\ DOMAIN hps' = DOMAIN hps
    BY <1>0, <2>1 DEF HpsType
  <2> HIDE DEF h
  <2>3. HpsType'
    <3>1. hps'.state \in States
      BY <2>2 DEF States
    <3>2. QED
      BY <1>0, <2>2, <3>1, TypeOfHps DEF HpsType
  <2>4. BusType' /\ CounterInv' /\ ide'.mgmt_cnt \in 0..(CountLimit - 1) /\ bus'.addr = 0 /\ Calm
    <3>1. 0 \in 0..14 /\ hps'.state \notin Movers
      BY <2>2 DEF Movers
    <3>2. QED
      BY <1>0, <2>1, <2>2, <3>1, UseStep
  <2>5. mgmt_readdata'[2] = tf.features
    BY <2>4 DEF WorkSide, NextMgmtReaddata
  <2>6. hps'.state # "INITIAL" /\ ~Sends' /\ ~Sends /\ Image(image')
    BY <2>1, <2>2 DEF Sends, WorkSide
  <2>7. ASSUME SameController PROVE Situation' /\ GeometryInv'
    <3>1. Held(8)' /\ Held(8)
      BY <2>7, HeldStays DEF AtRest, SameController
    <3>2. mgmt_readdata'[2] = Cmd'.features
      BY <2>5, <3>1 DEF Held, WorkSide
    <3>3. Reading(bus.addr)'
      BY <2>4, <3>2 DEF Reading
    <3>4. AtGetCmd'
      BY <2>1, <2>2, <2>4, <2>7, <3>1, <3>3 DEF AtGetCmd, AtRest, WorkSide, SameController
    <3>5. QED
      BY <2>2, <2>6, <2>7, <3>4, SameGeometry DEF Situation
  <2>8. QED
    BY <2>3, <2>4, <2>6, <2>7, WorkGoesOn
<1>7. QED
  BY <1>1, <1>2, <1>4, <1>5, <1>6
     DEF DiskNext, In, INITIAL, GET_RESET_DRIVE, GET_CMD, DO_CMD, SEND_ID, SET_REGS, READ, READ_REGS, READ_SEND,
     READ_WAIT_REQ, WRITE_WAIT_REQ,
     WRITE, WRITE_REGS, WRITE_RECV, PACKET_WAIT_REQ, PACKET_RECV, PACKET_HANDLE, PACKET_SEND,
     PACKET_READ_WAIT_REQ, Waits

\* What a mover, or a state that only clears the bus, needs.
LEMMA WorkClears ==
  ASSUME DInv, WorkSide, ~hps.rest, Clears, hps'.rest = FALSE, HpsType', hps'.state # "INITIAL", Image(image'),
         bus.addr = 15 => hps'.state \in {"SET_REGS", "WRITE_REGS"} \/ (hps'.state = "SET_REGS_SEND" /\ hps'.cnt = 0),
         hps'.state \in Movers => hps'.cnt = 0,
         SameController => Situation' /\ GeometryInv'
  PROVE  DInv'
<1>1. BusType' /\ CounterInv' /\ ide'.mgmt_cnt \in 0..(CountLimit - 1) /\ Calm
  BY ClearStep DEF WorkSide
<1>2. QED
  BY <1>1, WorkGoesOn

-----------------------------------------------------------------------------
(* It reads the command.                                                    *)

LEMMA Readings ==
  ASSUME WorkSide, Held(8), bus'.addr \in 0..5
  PROVE  Reading(bus.addr)'
<1> DEFINE a == bus'.addr
<1>1. /\ tf.features = Cmd.features /\ tf.sector_count = Cmd.count /\ tf.sector = Cmd.sector
      /\ tf.cylinder = Cmd.cylinder /\ tf.drv_addr = Address(Cmd.lba, Cmd.drv, Cmd.head) /\ tf.cmd = Cmd.op
  BY DEF Held
<1>2. /\ a = 0 => mgmt_readdata'[2] = tf.features
      /\ a = 1 => mgmt_readdata'[2] = tf.sector_count /\ mgmt_readdata'[3] = tf.sector
      /\ a = 2 => mgmt_readdata'[2] = tf.cylinder
      /\ a = 5 => mgmt_readdata'[2] = tf.cmd /\ mgmt_readdata'[3] = tf.drv_addr
  BY DEF WorkSide, NextMgmtReaddata
<1> HIDE DEF a
<1>3. Cmd' = Cmd
  BY DEF WorkSide
<1>4. QED
  <2>1. CASE a = 0
    BY <1>1, <1>2, <1>3, <2>1 DEF Reading, a
  <2>2. CASE a = 1
    BY <1>1, <1>2, <1>3, <2>2 DEF Reading, a
  <2>3. CASE a = 2
    BY <1>1, <1>2, <1>3, <2>3 DEF Reading, a
  <2>4. CASE a = 5
    BY <1>1, <1>2, <1>3, <2>4 DEF Reading, a
  <2>5. CASE a \in {3, 4}
    BY <2>5 DEF Reading, a
  <2>6. QED
    BY <2>1, <2>2, <2>3, <2>4, <2>5 DEF a

LEMMA StepAtGetCmd ==
  ASSUME DInv, WorkSide, DiskNext, AtGetCmd
  PROVE  DInv'
<1>0. /\ OfADisk /\ HpsType /\ BusType /\ ControllerType /\ CounterInv /\ EdgeOfController /\ scenario' = scenario
  BY DEF WorkSide
<1>1. /\ hps.state = "GET_CMD" /\ ide.request = "command" /\ driver.moved = 0 /\ image = intended /\ Held(8)
      /\ bus.addr \in 0..5 /\ Reading(bus.addr)
      /\ bus.addr > 1 => hps.args.count = Cmd.count /\ hps.args.sector = Cmd.sector
      /\ bus.addr > 2 => hps.args.cylinder = Cmd.cylinder
  BY DEF AtGetCmd
<1>a. PICK a \in 0..5 : a = bus.addr
  BY <1>1
\* It goes on reading.
<1>2. ASSUME HpsType', BusType', CounterInv', ide'.mgmt_cnt \in 0..(CountLimit - 1), Calm, image' = image,
             hps'.state = "GET_CMD", hps'.geometry = hps.geometry, bus'.addr \in 0..5,
             bus'.addr > 1 => hps'.args.count = Cmd.count /\ hps'.args.sector = Cmd.sector,
             bus'.addr > 2 => hps'.args.cylinder = Cmd.cylinder
      PROVE  DInv'
  <2>1. hps'.state # "INITIAL" /\ ~Sends' /\ ~Sends /\ Image(image')
    BY <1>1, <1>2 DEF Sends, WorkSide
  <2>2. ASSUME SameController PROVE Situation' /\ GeometryInv'
    <3>1. Held(8)' /\ Reading(bus.addr)'
      BY <1>1, <1>2, <2>2, HeldStays, Readings DEF SameController
    <3>2. AtGetCmd'
      BY <1>1, <1>2, <2>2, <3>1 DEF AtGetCmd, WorkSide, SameController
    <3>3. QED
      BY <1>2, <2>1, <2>2, <3>2, SameGeometry DEF Situation
  <2>3. QED
    BY <1>2, <2>1, <2>2, WorkGoesOn
<1>3. CASE Rest
  <2>1. /\ BusType' /\ CounterInv' /\ ide'.mgmt_cnt \in 0..(CountLimit - 1) /\ bus'.addr = bus.addr
        /\ Calm /\ HpsType' /\ image' = image
        /\ hps'.state = hps.state /\ hps'.geometry = hps.geometry /\ hps'.args = hps.args
    BY <1>0, <1>3, RestStep
  <2>2. QED
    BY <1>1, <1>2, <2>1
<1>0a. DOMAIN hps = {"state", "next", "rest", "geometry", "sense", "regs", "args", "cmd", "features", "cnt",
                    "packet", "data", "lba", "irq_pending", "plba", "pleft", "plimit"}
       /\ DOMAIN hps.args = {"count", "sector", "cylinder"}
  BY <1>0 DEF HpsType
<1>4. ASSUME NEW h, NEW n \in 1..5, ~hps.rest, image' = image, pulse_read(n, h), DOMAIN h = DOMAIN hps,
             h.state = hps.state, h.cnt = hps.cnt, h.next = hps.next, h.geometry = hps.geometry, h.regs = hps.regs,
             DOMAIN h.args = {"count", "sector", "cylinder"},
             n > 1 => h.args.count = Cmd.count /\ h.args.sector = Cmd.sector,
             n > 2 => h.args.cylinder = Cmd.cylinder
      PROVE  DInv'
  <2>1. bus' = [op |-> "read", addr |-> n, data |-> Nothing] /\ hps' = [h EXCEPT !.rest = TRUE]
    BY <1>4 DEF pulse_read, Uses
  <2>2. /\ hps'.state = "GET_CMD" /\ hps'.cnt = hps.cnt /\ hps'.next = hps.next /\ hps'.rest = TRUE
        /\ hps'.geometry = hps.geometry /\ hps'.regs = hps.regs /\ hps'.args = h.args /\ DOMAIN hps' = DOMAIN hps
    BY <1>0a, <1>1, <1>4, <2>1
  <2>3. HpsType'
    <3>1. hps'.state \in States
      BY <2>2 DEF States
    <3>2. QED
      BY <1>0, <1>4, <2>2, <3>1, TypeOfHps DEF HpsType
  <2>4. BusType' /\ CounterInv' /\ ide'.mgmt_cnt \in 0..(CountLimit - 1) /\ bus'.addr = n /\ Calm
    <3>1. n \in 0..14 /\ hps'.state \notin Movers
      BY <2>2 DEF Movers
    <3>2. QED
      BY <1>0, <1>4, <2>1, <2>2, <3>1, UseStep
  <2>5. QED
    BY <1>2, <1>4, <2>2, <2>3, <2>4
<1>4a. CASE GET_CMD /\ a # 5
  <2> DEFINE d == mgmt_readdata
  <2>1. ~hps.rest /\ image' = image
    BY <1>4a DEF GET_CMD, In
  <2>2. CASE a = 0
    <3> DEFINE h == [hps EXCEPT !.features = d[2]]
    <3>1. pulse_read(1, h)
      BY <1>4a, <1>a, <2>2 DEF GET_CMD
    <3>2. /\ DOMAIN h = DOMAIN hps /\ h.state = hps.state /\ h.cnt = hps.cnt /\ h.next = hps.next
          /\ h.geometry = hps.geometry /\ h.regs = hps.regs /\ h.args = hps.args
      BY <1>0a
    <3> HIDE DEF h
    <3>3. QED
      BY <1>0a, <1>4, <2>1, <3>1, <3>2
  <2>3. CASE a = 1
    <3> DEFINE h == [hps EXCEPT !.args.count = d[2], !.args.sector = d[3]]
    <3>1. pulse_read(2, h)
      BY <1>4a, <1>a, <2>3 DEF GET_CMD
    <3>2. /\ DOMAIN h = DOMAIN hps /\ h.state = hps.state /\ h.cnt = hps.cnt /\ h.next = hps.next
          /\ h.geometry = hps.geometry /\ h.regs = hps.regs /\ h.args.count = d[2] /\ h.args.sector = d[3]
          /\ DOMAIN h.args = DOMAIN hps.args
      BY <1>0a
    <3>3. d[2] = Cmd.count /\ d[3] = Cmd.sector
      BY <1>1, <1>a, <2>3 DEF Reading
    <3> HIDE DEF h, d
    <3>4. QED
      BY <1>0a, <1>4, <2>1, <3>1, <3>2, <3>3
  <2>4. CASE a = 2
    <3> DEFINE h == [hps EXCEPT !.args.cylinder = d[2]]
    <3>1. pulse_read(3, h)
      BY <1>4a, <1>a, <2>4 DEF GET_CMD
    <3>2. /\ DOMAIN h = DOMAIN hps /\ h.state = hps.state /\ h.cnt = hps.cnt /\ h.next = hps.next
          /\ h.geometry = hps.geometry /\ h.regs = hps.regs /\ h.args.cylinder = d[2]
          /\ h.args.count = hps.args.count /\ h.args.sector = hps.args.sector
          /\ DOMAIN h.args = DOMAIN hps.args
      BY <1>0a
    <3>3. d[2] = Cmd.cylinder
      BY <1>1, <1>a, <2>4 DEF Reading
    <3>4. hps.args.count = Cmd.count /\ hps.args.sector = Cmd.sector
      BY <1>1, <1>a, <2>4
    <3> HIDE DEF h, d
    <3>5. QED
      BY <1>0a, <1>4, <2>1, <3>1, <3>2, <3>3, <3>4
  <2>5. CASE a \in {3, 4}
    <3>1. pulse_read(bus.addr + 1, hps)
      <4>1. CASE bus.addr = 3
        BY <1>4a, <4>1 DEF GET_CMD
      <4>2. CASE bus.addr = 4
        BY <1>4a, <4>2 DEF GET_CMD
      <4>3. QED
        BY <1>a, <2>5, <4>1, <4>2
    <3>2. PICK n \in 1..5 : n = bus.addr + 1 /\ n > 2
      BY <1>a, <2>5
    <3>3. pulse_read(n, hps)
      BY <3>1, <3>2
    <3>4. hps.args.count = Cmd.count /\ hps.args.sector = Cmd.sector /\ hps.args.cylinder = Cmd.cylinder
      BY <1>1, <1>a, <2>5
    <3>5. QED
      BY <1>0a, <1>4, <2>1, <3>3, <3>4
  <2>6. QED
    BY <1>4a, <2>2, <2>3, <2>4, <2>5
<1>5. CASE GET_CMD /\ a = 5
  <2> DEFINE d == mgmt_readdata
             regs == [hps.regs EXCEPT !.count = hps.args.count, !.sector = hps.args.sector,
                                      !.cylinder = hps.args.cylinder, !.head = d[3].head,
                                      !.drv = d[3].drv, !.lba = d[3].lba]
  <2>1. /\ ~hps.rest /\ image' = image /\ Clears
        /\ hps' = [hps EXCEPT !.state = "DO_CMD", !.cmd = d[2], !.regs = regs]
    <3>1. ~hps.rest /\ image' = image
      BY <1>5 DEF GET_CMD, In
    <3>2. clear_bus([hps EXCEPT !.state = "DO_CMD", !.cmd = d[2],
              !.regs = [@ EXCEPT !.count = hps.args.count, !.sector = hps.args.sector,
                                 !.cylinder = hps.args.cylinder, !.head = d[3].head,
                                 !.drv = d[3].drv, !.lba = d[3].lba]])
      <4>1. bus.addr = 5 /\ bus.addr # 0 /\ bus.addr # 1 /\ bus.addr # 2 /\ bus.addr \notin {3, 4}
        BY <1>5, <1>a
      <4>2. QED
        BY <1>5, <4>1, Zenon DEF GET_CMD
    <3>3. [hps EXCEPT !.state = "DO_CMD", !.cmd = d[2],
              !.regs = [@ EXCEPT !.count = hps.args.count, !.sector = hps.args.sector,
                                 !.cylinder = hps.args.cylinder, !.head = d[3].head,
                                 !.drv = d[3].drv, !.lba = d[3].lba]]
          = [hps EXCEPT !.state = "DO_CMD", !.cmd = d[2], !.regs = regs]
      OBVIOUS
    <3>4. QED
      BY <3>1, <3>2, <3>3, Zenon DEF clear_bus, Clears
  <2>2. d[2] = Cmd.op /\ d[3] = Address(Cmd.lba, Cmd.drv, Cmd.head)
    BY <1>1, <1>a, <1>5 DEF Reading
  <2>3. d[3].lba = Cmd.lba /\ d[3].drv = Cmd.drv /\ d[3].head = Cmd.head
    BY <2>2 DEF Address
  <2>4. hps.args.count = Cmd.count /\ hps.args.sector = Cmd.sector /\ hps.args.cylinder = Cmd.cylinder
    BY <1>1, <1>a, <1>5
  <2>5. DOMAIN hps.regs = DOMAIN PowerOnRegs
    BY <1>0 DEF HpsType, RegsType
  <2>6. DOMAIN PowerOnRegs = {"size", "error", "count", "sector", "cylinder", "head", "drv", "lba", "psize", "status"}
    BY DEF PowerOnRegs
  <2>7. /\ regs.count = Cmd.count /\ regs.sector = Cmd.sector /\ regs.cylinder = Cmd.cylinder
        /\ regs.head = Cmd.head /\ regs.drv = Cmd.drv /\ regs.lba = Cmd.lba /\ DOMAIN regs = DOMAIN PowerOnRegs
    BY <2>3, <2>4, <2>5, <2>6
  <2> HIDE DEF regs
  <2>8. RegsType(regs)
    <3>1. /\ Cmd.count \in Int /\ Cmd.sector \in Int /\ Cmd.cylinder \in Int /\ Cmd.head \in Int
          /\ Cmd.drv \in 0..1 /\ Cmd.lba \in BOOLEAN
      BY DiskCommands DEF Command, WorkSide
    <3>2. QED
      BY <2>7, <3>1 DEF RegsType
  <2>9. /\ hps'.state = "DO_CMD" /\ hps'.cmd = Cmd.op /\ hps'.cnt = hps.cnt /\ hps'.next = hps.next
        /\ hps'.rest = hps.rest /\ hps'.geometry = hps.geometry /\ hps'.regs = regs /\ hps'.args = hps.args
        /\ DOMAIN hps' = DOMAIN hps
    BY <1>0, <2>1, <2>2 DEF HpsType
  <2>10. HpsType' /\ hps'.rest = FALSE
    <3>1. hps'.state \in States /\ hps'.rest = FALSE
      BY <1>0, <2>1, <2>9 DEF States, HpsType
    <3>2. QED
      BY <1>0, <2>8, <2>9, <3>1, TypeOfHps DEF HpsType
  <2>11. bus.addr # 15 /\ hps'.state \notin Movers /\ Image(image') /\ ~Sends /\ ~Sends'
    BY <1>1, <2>1, <2>9 DEF Movers, WorkSide, Sends
  <2>12. ASSUME SameController PROVE Situation' /\ GeometryInv'
    <3>1. AtDoCmd'
      BY <1>1, <2>1, <2>7, <2>9, <2>12 DEF AtDoCmd, WorkSide, SameController
    <3>2. QED
      BY <2>9, <2>11, <2>12, <3>1, SameGeometry DEF Situation
  <2>13. QED
    BY <2>1, <2>9, <2>10, <2>11, <2>12, WorkClears
<1>6. QED
  BY <1>1, <1>3, <1>4a, <1>5
     DEF DiskNext, In, INITIAL, IDLE, RESET_SET, GET_RESET_DRIVE, DO_CMD, SEND_ID, SET_REGS, SET_REGS_SEND,
     READ, READ_REGS, READ_SEND, READ_WAIT_REQ, WRITE_WAIT_REQ,
     WRITE, WRITE_REGS, WRITE_RECV, PACKET_WAIT_REQ, PACKET_RECV, PACKET_HANDLE, PACKET_SEND,
     PACKET_READ_WAIT_REQ, Waits

-----------------------------------------------------------------------------
(* It handles the command.                                                  *)

\* The end of a command that has no data, or none left.
LEMMA EndsIn ==
  ASSUME NEW h, DOMAIN h = DOMAIN hps, HpsType, NEW regs, RegsType(regs), NEW bits
  PROVE  LET e == Ends(h, regs, bits) IN
         /\ DOMAIN e = DOMAIN hps /\ e.state = "SET_REGS" /\ e.next = "IDLE" /\ e.rest = h.rest
         /\ e.geometry = h.geometry /\ e.cnt = h.cnt /\ e.args = h.args /\ e.lba = h.lba
         /\ RegsType(e.regs) /\ e.regs.status = {"RDY"} \cup bits /\ e.regs.error = regs.error
<1> DEFINE r == [regs EXCEPT !.status = {"RDY"} \cup bits]
           e == [h EXCEPT !.state = "SET_REGS", !.next = "IDLE", !.regs = r]
<1>1. DOMAIN regs = {"size", "error", "count", "sector", "cylinder", "head", "drv", "lba", "psize", "status"}
  BY DEF RegsType, PowerOnRegs
<1>2. DOMAIN h = {"state", "next", "rest", "geometry", "sense", "regs", "args", "cmd", "features", "cnt",
                  "packet", "data", "lba", "irq_pending", "plba", "pleft", "plimit"}
  BY DEF HpsType
<1>3. /\ DOMAIN r = DOMAIN regs /\ r.status = {"RDY"} \cup bits /\ r.error = regs.error /\ r.count = regs.count
      /\ r.sector = regs.sector /\ r.cylinder = regs.cylinder /\ r.head = regs.head /\ r.drv = regs.drv
      /\ r.lba = regs.lba
  BY <1>1
<1> HIDE DEF r
<1>4. /\ DOMAIN e = DOMAIN h /\ e.state = "SET_REGS" /\ e.next = "IDLE" /\ e.rest = h.rest
      /\ e.geometry = h.geometry /\ e.cnt = h.cnt /\ e.args = h.args /\ e.lba = h.lba /\ e.regs = r
  BY <1>2
<1>5. RegsType(r)
  BY <1>3 DEF RegsType
<1>6. Ends(h, regs, bits) = e
  BY Zenon DEF Ends, r
<1> HIDE DEF e
<1>7. QED
  BY <1>3, <1>4, <1>5, <1>6

LEMMA FailsIn ==
  ASSUME NEW h, NEW regs, RegsType(regs)
  PROVE  \E r : RegsType(r) /\ r.error = 4 /\ Fails(h, regs) = Ends(h, r, {"ERR", "IRQ"})
<1> DEFINE r == [regs EXCEPT !.error = 4]
<1>1. DOMAIN regs = {"size", "error", "count", "sector", "cylinder", "head", "drv", "lba", "psize", "status"}
  BY DEF RegsType, PowerOnRegs
<1>2. /\ DOMAIN r = DOMAIN regs /\ r.error = 4 /\ r.count = regs.count
      /\ r.sector = regs.sector /\ r.cylinder = regs.cylinder /\ r.head = regs.head /\ r.drv = regs.drv
      /\ r.lba = regs.lba
  BY <1>1
<1>3. Fails(h, regs) = Ends(h, r, {"ERR", "IRQ"})
  BY Zenon DEF Fails
<1> HIDE DEF r
<1>4. RegsType(r)
  BY <1>2 DEF RegsType
<1>5. QED
  BY <1>2, <1>3, <1>4

LEMMA StepAtDoCmd ==
  ASSUME DInv, WorkSide, DiskNext, AtDoCmd
  PROVE  DInv'
<1>0. /\ OfADisk /\ HpsType /\ BusType /\ ControllerType /\ CounterInv /\ GeometryInv /\ EdgeOfController
      /\ scenario' = scenario /\ DriverType /\ Cmd.op \in DiskOps /\ driver.phase = "wait"
  BY DEF WorkSide
<1>1. /\ hps.state = "DO_CMD" /\ ide.request = "command" /\ driver.moved = 0 /\ image = intended
      /\ hps.cmd = Cmd.op /\ hps.regs.count = Cmd.count /\ hps.regs.sector = Cmd.sector
      /\ hps.regs.cylinder = Cmd.cylinder /\ hps.regs.head = Cmd.head /\ hps.regs.drv = Cmd.drv
      /\ hps.regs.lba = Cmd.lba
  BY DEF AtDoCmd
<1>a. bus.addr # 15 /\ ~Sends
  BY <1>0, <1>1 DEF CounterInv, Movers, Sends
<1>b. /\ Cmd.count \in Nat /\ Cmd.sector \in Nat /\ Cmd.cylinder \in Nat /\ Cmd.head \in Nat /\ Cmd.drv \in 0..1
      /\ Cmd.lba \in BOOLEAN
  BY <1>0, DiskCommands DEF Command
<1>c. /\ Refused(Cmd) <=> Cmd.drv # 0 \/ Cmd.op = "OTHER"
      /\ Due(Cmd) = IF Cmd.op \in {"READ", "WRITE"} THEN Blocks(Cmd) * Words
                    ELSE IF Cmd.op = "IDENTIFY" THEN Words ELSE 0
  BY <1>0, DiskCommands
<1>d. hps.geometry = driver.geometry
  BY <1>0, <1>1, <1>a DEF GeometryInv, Obeyed
<1>e. DOMAIN hps = {"state", "next", "rest", "geometry", "sense", "regs", "args", "cmd", "features", "cnt",
                    "packet", "data", "lba", "irq_pending", "plba", "pleft", "plimit"}
      /\ RegsType(hps.regs) /\ DOMAIN hps.args = {"count", "sector", "cylinder"} /\ hps.cnt \in Nat
      /\ hps.next \in {"IDLE", "RESET_SET", "READ_WAIT_REQ", "WRITE_WAIT_REQ"} /\ hps.geometry \in Geometries
  BY <1>0 DEF HpsType
\* What is left to show of each command.
<1>2. ASSUME ~hps.rest, Clears, image' = image, hps'.rest = hps.rest, DOMAIN hps' = DOMAIN hps,
             hps'.state \in {"SET_REGS", "SEND_ID", "READ", "WRITE"}, hps'.state = "SEND_ID" => hps'.cnt = 0,
             hps'.next \in {"IDLE", "RESET_SET", "READ_WAIT_REQ", "WRITE_WAIT_REQ"},
             hps'.geometry \in Geometries, hps'.args = hps.args, hps'.cnt \in Nat, RegsType(hps'.regs),
             SameController => Situation' /\ GeometryInv'
      PROVE  DInv'
  <2>1. hps'.rest = FALSE
    BY <1>0, <1>2 DEF HpsType
  <2>2. HpsType'
    <3>1. hps'.state \in States /\ hps'.state # "SET_REGS_SEND"
      BY <1>2 DEF States
    <3>2. QED
      BY <1>0, <1>2, <1>e, <2>1, <3>1, TypeOfHps
  <2>3. hps'.state # "INITIAL" /\ (hps'.state \in Movers => hps'.cnt = 0) /\ Image(image')
    BY <1>2 DEF Movers, WorkSide
  <2>4. QED
    BY <1>2, <1>a, <2>1, <2>2, <2>3, WorkClears
\* An answer.
<1>3. ASSUME ~hps.rest, Clears, image' = image, hps'.rest = hps.rest, DOMAIN hps' = DOMAIN hps,
             hps'.state = "SET_REGS", hps'.next = "IDLE", hps'.geometry \in Geometries, hps'.args = hps.args,
             hps'.cnt \in Nat, RegsType(hps'.regs), NEW bits \in {{"IRQ"}, {"ERR", "IRQ"}},
             hps'.regs.status = {"RDY"} \cup bits, "ERR" \in bits <=> Refused(Cmd),
             Refused(Cmd) => hps'.regs.error = 4, ~Refused(Cmd) => Due(Cmd) = 0,
             IF Cmd.op = "GEOMETRY" /\ ~Refused(Cmd) THEN hps'.geometry = SetGeometry(Cmd.count, Cmd.head + 1)
             ELSE hps'.geometry = hps.geometry
      PROVE  DInv'
  <2>1. ASSUME SameController PROVE Situation' /\ GeometryInv'
    <3>1. /\ "DRQ" \notin hps'.regs.status /\ "END" \notin hps'.regs.status /\ "BSY" \notin hps'.regs.status
          /\ ("ERR" \in hps'.regs.status <=> Refused(Cmd))
      BY <1>3
    <3>2. Sends' /\ ~Begun(0)'
      BY <1>3 DEF Sends, Begun
    <3>3. (Refused(Cmd)' <=> Refused(Cmd)) /\ Due(Cmd)' = Due(Cmd) /\ driver'.moved = driver.moved
      BY DEF WorkSide
    <3>4. AnswersNow'
      BY <1>1, <1>3, <3>1, <3>2, <3>3 DEF AnswersNow
    <3>5. AtSends'
      BY <1>1, <1>3, <2>1, <3>1, <3>2, <3>4 DEF AtSends, WorkSide, SameController
    <3>6. Obeyed' /\ Cmd' = Cmd /\ driver'.geometry = driver.geometry
      BY <1>1, <2>1, <3>2 DEF Obeyed, WorkSide, SameController
    <3>7. GeometryInv'
      BY <1>3, <1>d, <3>3, <3>6 DEF GeometryInv
    <3>8. QED
      BY <3>5, <3>7 DEF Situation
  <2>2. QED
    BY <1>2, <1>3, <2>1
<1>4. CASE Rest
  <2>1. /\ BusType' /\ CounterInv' /\ ide'.mgmt_cnt \in 0..(CountLimit - 1) /\ Calm /\ HpsType' /\ image' = image
        /\ hps'.state = hps.state /\ hps'.geometry = hps.geometry /\ hps'.regs = hps.regs /\ hps'.cmd = hps.cmd
    BY <1>0, <1>4, RestStep
  <2>2. hps'.state # "INITIAL" /\ ~Sends' /\ Image(image')
    BY <1>1, <2>1 DEF Sends, WorkSide
  <2>3. ASSUME SameController PROVE Situation' /\ GeometryInv'
    <3>1. AtDoCmd'
      BY <1>1, <2>1, <2>3 DEF AtDoCmd, WorkSide, SameController
    <3>2. QED
      BY <1>a, <2>1, <2>2, <2>3, <3>1, SameGeometry DEF Situation
  <2>4. QED
    BY <2>1, <2>2, <2>3, WorkGoesOn
<1>5. CASE DO_CMD
  <2>1. ~hps.rest /\ image' = image /\ Clears /\ hps' = handle_cmd(hps)
    BY <1>5 DEF DO_CMD, In, clear_bus, Clears
  <2>2. CASE Cmd.drv # 0
    <3>1. hps' = Fails(hps, hps.regs)
      BY <1>1, <2>1, <2>2 DEF handle_cmd
    <3>a. PICK r : RegsType(r) /\ r.error = 4 /\ hps' = Ends(hps, r, {"ERR", "IRQ"})
      BY <1>e, <3>1, FailsIn
    <3>2. /\ DOMAIN hps' = DOMAIN hps /\ hps'.state = "SET_REGS" /\ hps'.next = "IDLE" /\ hps'.rest = hps.rest
          /\ hps'.geometry = hps.geometry /\ hps'.cnt = hps.cnt /\ hps'.args = hps.args
          /\ RegsType(hps'.regs) /\ hps'.regs.status = {"RDY"} \cup {"ERR", "IRQ"} /\ hps'.regs.error = 4
      BY <1>0, <3>a, EndsIn
    <3>3. QED
      BY <1>3, <1>c, <1>e, <2>1, <2>2, <3>2
  <2>3. CASE Cmd.drv = 0
    <3> DEFINE regs == IF hps.cmd \in {"READ", "WRITE"} /\ hps.regs.count = 0
                       THEN [hps.regs EXCEPT !.count = Radix] ELSE hps.regs
    <3>1. hps' = handle_ata_cmd(hps)
      BY <1>0, <1>1, <2>1, <2>3 DEF handle_cmd, OfADisk
    <3>2. DOMAIN hps.regs = {"size", "error", "count", "sector", "cylinder", "head", "drv", "lba", "psize", "status"}
      BY <1>e DEF RegsType, PowerOnRegs
    <3>3. /\ DOMAIN regs = DOMAIN hps.regs /\ regs.sector = Cmd.sector /\ regs.cylinder = Cmd.cylinder
          /\ regs.head = Cmd.head /\ regs.drv = Cmd.drv /\ regs.lba = Cmd.lba
          /\ regs.count = IF Cmd.op \in {"READ", "WRITE"} THEN Blocks(Cmd) ELSE Cmd.count
      BY <1>1, <1>b, <3>2 DEF Blocks
    <3>4. Blocks(Cmd) \in Nat \ {0}
      BY <1>0, DiskCommands
    <3>5. hps' = CASE Cmd.op = "IDENTIFY" -> Identifies(hps, [PowerOnRegs EXCEPT !.drv = regs.drv, !.size = 1])
                   [] Cmd.op \in {"READ", "WRITE"} -> [hps EXCEPT !.state = hps.cmd, !.regs = regs]
                   [] Cmd.op = "GEOMETRY" ->
                        Ends([hps EXCEPT !.geometry = SetGeometry(regs.count, regs.head + 1)], regs, {"IRQ"})
                   [] Cmd.op = "RECALIBRATE" -> Ends(hps, [regs EXCEPT !.cylinder = 0], {"IRQ"})
                   [] Cmd.op = "VERIFY" -> Ends(hps, regs, {"IRQ"})
                   [] OTHER -> Fails(hps, regs)
      BY <1>1, <3>1, Zenon DEF handle_ata_cmd
    <3> HIDE DEF regs
    <3>6. RegsType(regs)
      BY <1>b, <1>e, <3>3, <3>4 DEF RegsType
    <3>7. CASE Cmd.op = "IDENTIFY"
      <4> DEFINE blank == [PowerOnRegs EXCEPT !.drv = regs.drv, !.size = 1]
                 r == [blank EXCEPT !.status = {"RDY", "DRQ", "IRQ", "END"}]
      <4>1. /\ DOMAIN r = DOMAIN PowerOnRegs /\ r.count \in Int /\ r.sector \in Int /\ r.cylinder \in Int
            /\ r.head \in Int /\ r.drv = regs.drv /\ r.lba \in BOOLEAN /\ r.size = 1
            /\ r.status = {"RDY", "DRQ", "IRQ", "END"}
        BY DEF PowerOnRegs
      <4>2. hps' = Identifies(hps, blank)
        BY <3>5, <3>7
      <4>3. hps' = [hps EXCEPT !.state = "SEND_ID", !.cnt = 0, !.regs = r]
        BY <4>2, Zenon DEF Identifies
      <4> HIDE DEF r
      <4>4. /\ DOMAIN hps' = DOMAIN hps /\ hps'.state = "SEND_ID" /\ hps'.cnt = 0 /\ hps'.regs = r /\ hps'.next = hps.next
            /\ hps'.rest = hps.rest /\ hps'.geometry = hps.geometry /\ hps'.args = hps.args
        BY <1>e, <4>3
      <4>5. RegsType(r)
        BY <2>3, <3>3, <4>1 DEF RegsType
      <4>6. ASSUME SameController PROVE Situation' /\ GeometryInv'
        <5>1. Loaded(0, hps.cnt)'
          BY <4>4 DEF Loaded
        <5>2. AtSendId'
          BY <1>1, <2>1, <2>3, <3>7, <4>1, <4>4, <4>6, <5>1 DEF AtSendId, WorkSide, SameController
        <5>3. QED
          BY <3>7, <4>4, <4>6, <5>2, SameGeometry DEF Situation
      <4>7. QED
        BY <1>2, <1>e, <2>1, <4>4, <4>5, <4>6
    <3>8. CASE Cmd.op \in {"READ", "WRITE"}
      <4>1. hps' = [hps EXCEPT !.state = Cmd.op, !.regs = regs]
        BY <1>1, <3>5, <3>8
      <4>2. /\ DOMAIN hps' = DOMAIN hps /\ hps'.state = Cmd.op /\ hps'.cnt = hps.cnt /\ hps'.regs = regs
            /\ hps'.next = hps.next
            /\ hps'.rest = hps.rest /\ hps'.geometry = hps.geometry /\ hps'.args = hps.args
        BY <1>e, <4>1
      <4>3. ASSUME SameController PROVE Situation' /\ GeometryInv'
        <5>1. /\ Cmd' = Cmd /\ Blocks(Cmd)' = Blocks(Cmd) /\ Start' = Start /\ driver'.moved = 0 /\ intended' = intended
          BY <1>1 DEF WorkSide
        <5>2. Position' = 0
          BY <3>3, <3>4, <3>8, <4>2, <5>1 DEF Position
        <5>3. get_lba(hps'.regs, hps'.geometry) = Start
          <6>1. get_lba(regs, hps.geometry) = get_lba(Cmd, driver.geometry)
            BY <1>d, <3>3 DEF get_lba
          <6>2. QED
            BY <4>2, <6>1 DEF Start, First
        <5>4. Start \in Int
          <6>1. driver.geometry.spt \in Nat /\ driver.geometry.heads \in Nat
            BY <1>d, <1>e DEF Geometries
          <6>2. QED
            BY <1>b, <6>1, SpanType DEF Start, First, get_lba, SpanFacts
        <5>5. Start + 0 = Start /\ At(0) = 0
          BY <5>4, SizesAssumption DEF At
        <5>6. Located'
          BY <2>3, <3>3, <3>4, <3>8, <4>2, <5>1, <5>2, <5>3, <5>5 DEF Located
        <5>7. hps'.regs.count > 0 /\ driver'.moved = At(Position') /\ image' = intended'
          BY <1>1, <2>1, <3>3, <3>4, <3>8, <4>2, <5>1, <5>2, <5>5
        <5>8. AtRead' \/ AtWrite'
          <6>1. CASE Cmd.op = "READ"
            BY <4>2, <5>1, <5>6, <5>7, <6>1 DEF AtRead, At
          <6>2. CASE Cmd.op = "WRITE"
            BY <4>2, <5>1, <5>6, <5>7, <6>2 DEF AtWrite, At
          <6>3. QED
            BY <3>8, <6>1, <6>2
        <5>9. QED
          BY <3>8, <4>2, <4>3, <5>8, SameGeometry DEF Situation
      <4>4. hps'.state \in {"READ", "WRITE"}
        BY <3>8, <4>2
      <4>5. QED
        BY <1>2, <1>e, <2>1, <3>6, <4>2, <4>3, <4>4
    <3>9. CASE Cmd.op = "GEOMETRY"
      <4> DEFINE g == SetGeometry(regs.count, regs.head + 1)
                 h == [hps EXCEPT !.geometry = g]
      <4>1. hps' = Ends(h, regs, {"IRQ"})
        BY <3>5, <3>9
      <4>2. g = SetGeometry(Cmd.count, Cmd.head + 1)
        BY <3>3, <3>9
      <4>3. g \in Geometries
        BY <1>b, <4>2, SizesAssumption DEF SetGeometry, Geometries
      <4> HIDE DEF g
      <4>4. DOMAIN h = DOMAIN hps /\ h.geometry = g /\ h.rest = hps.rest /\ h.cnt = hps.cnt /\ h.args = hps.args
        BY <1>e
      <4> HIDE DEF h
      <4>5. /\ DOMAIN hps' = DOMAIN hps /\ hps'.state = "SET_REGS" /\ hps'.next = "IDLE" /\ hps'.rest = hps.rest
            /\ hps'.geometry = g /\ hps'.cnt = hps.cnt /\ hps'.args = hps.args
            /\ RegsType(hps'.regs) /\ hps'.regs.status = {"RDY"} \cup {"IRQ"}
        BY <1>0, <3>6, <4>1, <4>4, EndsIn
      <4>6. ~Refused(Cmd) /\ Due(Cmd) = 0
        BY <1>c, <2>3, <3>9
      <4>7. QED
        BY <1>3, <1>e, <2>1, <3>9, <4>2, <4>3, <4>5, <4>6
    <3>10. CASE Cmd.op \in {"RECALIBRATE", "VERIFY"}
      <4>1. PICK r : hps' = Ends(hps, r, {"IRQ"}) /\ RegsType(r)
        <5>1. CASE Cmd.op = "VERIFY"
          BY <3>5, <3>6, <5>1
        <5>2. CASE Cmd.op = "RECALIBRATE"
          <6> DEFINE q == [regs EXCEPT !.cylinder = 0]
          <6>1. hps' = Ends(hps, q, {"IRQ"})
            BY <3>5, <5>2
          <6>2. /\ DOMAIN q = DOMAIN regs /\ q.count = regs.count /\ q.sector = regs.sector /\ q.cylinder = 0
                /\ q.head = regs.head /\ q.drv = regs.drv /\ q.lba = regs.lba
            BY <3>2, <3>3
          <6> HIDE DEF q
          <6>3. RegsType(q)
            BY <3>6, <6>2 DEF RegsType
          <6>4. QED
            BY <6>1, <6>3
        <5>3. QED
          BY <3>10, <5>1, <5>2
      <4>2. /\ DOMAIN hps' = DOMAIN hps /\ hps'.state = "SET_REGS" /\ hps'.next = "IDLE" /\ hps'.rest = hps.rest
            /\ hps'.geometry = hps.geometry /\ hps'.cnt = hps.cnt /\ hps'.args = hps.args
            /\ RegsType(hps'.regs) /\ hps'.regs.status = {"RDY"} \cup {"IRQ"}
        BY <1>0, <4>1, EndsIn
      <4>3. ~Refused(Cmd) /\ Due(Cmd) = 0 /\ Cmd.op # "GEOMETRY"
        BY <1>c, <2>3, <3>10
      <4>4. QED
        BY <1>3, <1>e, <2>1, <4>2, <4>3
    <3>11. CASE Cmd.op = "OTHER"
      <4>1. hps' = Fails(hps, regs)
        BY <3>5, <3>11
      <4>a. PICK r : RegsType(r) /\ r.error = 4 /\ hps' = Ends(hps, r, {"ERR", "IRQ"})
        BY <3>6, <4>1, FailsIn
      <4>2. /\ DOMAIN hps' = DOMAIN hps /\ hps'.state = "SET_REGS" /\ hps'.next = "IDLE" /\ hps'.rest = hps.rest
            /\ hps'.geometry = hps.geometry /\ hps'.cnt = hps.cnt /\ hps'.args = hps.args
            /\ RegsType(hps'.regs) /\ hps'.regs.status = {"RDY"} \cup {"ERR", "IRQ"} /\ hps'.regs.error = 4
        BY <1>0, <4>a, EndsIn
      <4>3. QED
        BY <1>3, <1>c, <1>e, <2>1, <3>11, <4>2
    <3>12. QED
      BY <1>0, <3>7, <3>8, <3>9, <3>10, <3>11 DEF DiskOps
  <2>4. QED
    BY <2>2, <2>3
<1>6. QED
  BY <1>1, <1>4, <1>5
     DEF DiskNext, In, INITIAL, IDLE, RESET_SET, GET_RESET_DRIVE, GET_CMD, SEND_ID, SET_REGS, SET_REGS_SEND,
     READ, READ_REGS, READ_SEND, READ_WAIT_REQ, WRITE_WAIT_REQ,
     WRITE, WRITE_REGS, WRITE_RECV, PACKET_WAIT_REQ, PACKET_RECV, PACKET_HANDLE, PACKET_SEND,
     PACKET_READ_WAIT_REQ, Waits

-----------------------------------------------------------------------------
(* Sectors of a command.                                                    *)

LEMMA Cylindrical ==
  ASSUME NEW s \in Nat \ {0}, NEW h \in Nat \ {0}, NEW n \in Nat
  PROVE  n % s \in Nat /\ n \div (h * s) \in Nat /\ (n % (h * s)) \div s \in Nat
<1> DEFINE b == h * s  m == n % b
<1>1. b \in Nat \ {0}
  OBVIOUS
<1> HIDE DEF b
<1>2. n \div b \in Nat /\ m \in Nat
  BY <1>1
<1> HIDE DEF m
<1>3. m \div s \in Nat
  BY <1>2
<1>4. QED
  BY <1>2, <1>3 DEF m, b

LEMMA PutType ==
  ASSUME NEW regs, DOMAIN regs = DOMAIN PowerOnRegs, NEW g \in Geometries, NEW n \in Nat
  PROVE  /\ DOMAIN put_lba(regs, g, n) = DOMAIN PowerOnRegs
         /\ put_lba(regs, g, n).sector \in Int /\ put_lba(regs, g, n).cylinder \in Int
         /\ put_lba(regs, g, n).head \in Int
         /\ put_lba(regs, g, n).lba = regs.lba /\ put_lba(regs, g, n).drv = regs.drv
<1>f. {"sector", "cylinder", "head", "lba", "drv"} \subseteq DOMAIN regs
  BY DEF PowerOnRegs
<1>1. CASE regs.lba
  <2> DEFINE s == n % Radix  v == (n \div Radix) % Span  b == Span * Radix  h == (n \div b) % 16
             new == [regs EXCEPT !.sector = s, !.cylinder = v, !.head = h]
  <2>1. s \in Int /\ v \in Int /\ h \in Int
    <3>0. Radix \in Nat \ {0} /\ Span \in Nat \ {0} /\ b \in Nat \ {0}
      BY SpanType DEF SpanFacts
    <3> HIDE DEF b
    <3>1. s \in Int /\ n \div Radix \in Nat /\ n \div b \in Nat
      BY <3>0, Division
    <3>2. v \in Int
      <4> DEFINE q == n \div Radix
      <4>1. q \in Nat
        BY <3>1
      <4> HIDE DEF q
      <4>2. q % Span \in Int
        BY <3>0, <4>1
      <4>3. QED
        BY <4>2 DEF q
    <3>3. QED
      BY <3>1, <3>2
  <2>2. put_lba(regs, g, n) = new
    BY <1>1 DEF put_lba
  <2> HIDE DEF s, v, h
  <2>3. /\ new.sector = s /\ new.cylinder = v /\ new.head = h /\ new.lba = regs.lba /\ new.drv = regs.drv
        /\ DOMAIN new = DOMAIN regs
    BY <1>f
  <2> HIDE DEF new
  <2>4. QED
    BY <2>1, <2>2, <2>3
<1>2. CASE ~regs.lba
  <2> DEFINE s == (n % g.spt) + 1  v == n \div (g.heads * g.spt)  h == (n % (g.heads * g.spt)) \div g.spt
             new == [regs EXCEPT !.cylinder = v, !.head = h, !.sector = s]
  <2>1. s \in Int /\ v \in Int /\ h \in Int
    <3>1. g.spt \in Nat \ {0} /\ g.heads \in Nat \ {0}
      BY DEF Geometries
    <3>2. n % g.spt \in Nat /\ v \in Nat /\ h \in Nat
      BY <3>1, Cylindrical
    <3>3. QED
      BY <3>2
  <2>2. put_lba(regs, g, n) = new
    BY <1>2 DEF put_lba
  <2> HIDE DEF s, v, h
  <2>3. /\ new.sector = s /\ new.cylinder = v /\ new.head = h /\ new.lba = regs.lba /\ new.drv = regs.drv
        /\ DOMAIN new = DOMAIN regs
    BY <1>f
  <2> HIDE DEF new
  <2>4. QED
    BY <2>1, <2>2, <2>3
<1>3. QED
  BY <1>1, <1>2

\* The first sector of a command, and the one after its last.
LEMMA Extent ==
  ASSUME OfADisk, DriverType, Cmd.op \in DiskOps
  PROVE  /\ Start \in Int /\ Start >= -1
         /\ Cmd.lba => Start + Blocks(Cmd) <= 16 * (Span * Radix)
<1>1. Cmd \in Command /\ Cmd.count \in Nat /\ Cmd.sector \in Nat /\ Cmd.cylinder \in Nat /\ Cmd.head \in Nat
      /\ Cmd.lba \in BOOLEAN
  BY DiskCommands DEF Command
<1>2. driver.geometry.spt \in Nat /\ driver.geometry.heads \in Nat
  BY DEF DriverType, Geometries
<1>3. CASE Cmd.lba
  <2>1. Start = Cmd.sector + Radix * Cmd.cylinder + Span * Radix * Cmd.head
    BY <1>3 DEF Start, First, get_lba
  <2>2. Cmd \in scenario.commands
    <3>1. Srst.op \notin DiskOps
      BY DEF Srst, DiskOps
    <3>2. QED
      BY <3>1 DEF DriverType, Cmd
  <2>3. Start + Blocks(Cmd) <= 16 * (Span * Radix)
    <3>1. Cmd.lba => Cmd.sector + Radix * Cmd.cylinder + Span * Radix * Cmd.head + Blocks(Cmd) <= 16 * (Span * Radix)
      BY <2>2 DEF OfADisk
    <3>2. QED
      BY <1>3, <2>1, <3>1
  <2>4. Start \in Nat
    <3>1. Radix * Cmd.cylinder \in Nat /\ Span * Radix \in Nat
      BY <1>1, SpanType DEF SpanFacts
    <3>2. Span * Radix * Cmd.head \in Nat
      BY <1>1, <3>1
    <3>3. QED
      BY <1>1, <2>1, <3>1, <3>2
  <2>5. QED
    BY <2>3, <2>4
<1>4. CASE ~Cmd.lba
  <2>1. Start = (Cmd.cylinder * driver.geometry.heads + Cmd.head) * driver.geometry.spt + Cmd.sector - 1
    BY <1>4 DEF Start, First, get_lba
  <2>2. Cmd.cylinder * driver.geometry.heads + Cmd.head \in Nat
    BY <1>1, <1>2
  <2>3. (Cmd.cylinder * driver.geometry.heads + Cmd.head) * driver.geometry.spt \in Nat
    BY <1>2, <2>2
  <2>4. QED
    BY <1>1, <1>4, <2>1, <2>3
<1>5. QED
  BY <1>3, <1>4

\* The sector that the software is at, and the next one.
LEMMA NextSectors ==
  ASSUME WorkSide, Located, hps.regs.count > 0
  PROVE  LET r == NextSector(hps) IN
         /\ Start \in Int /\ Position \in Nat /\ hps.regs.count \in Nat /\ hps.regs.count = Blocks(Cmd) - Position
         /\ Position < Blocks(Cmd) /\ Blocks(Cmd) \in Nat
         /\ SectorAt(hps) = SectorOf(Start + Position)
         /\ DOMAIN r = DOMAIN PowerOnRegs /\ r.sector \in Int /\ r.cylinder \in Int /\ r.head \in Int
         /\ r.lba = hps.regs.lba /\ r.drv = hps.regs.drv
         /\ hps.regs.count > 1 => get_lba(r, hps.geometry) = Start + (Position + 1)
<1> DEFINE n == get_lba(hps.regs, hps.geometry)
           r == put_lba(hps.regs, hps.geometry, n + 1)
<1>1. /\ Start \in Int /\ Start >= -1 /\ (Cmd.lba => Start + Blocks(Cmd) <= 16 * (Span * Radix))
      /\ Blocks(Cmd) \in Nat \ {0}
  BY Extent, DiskCommands DEF WorkSide
<1>2. hps.regs.count \in 0..Blocks(Cmd) /\ n = Start + Position /\ hps.regs.lba = Cmd.lba
  BY DEF Located
<1>3. /\ Position \in Nat /\ hps.regs.count \in Nat /\ hps.regs.count = Blocks(Cmd) - Position
      /\ Position < Blocks(Cmd)
  BY <1>1, <1>2 DEF Position
<1>4. DOMAIN hps.regs = DOMAIN PowerOnRegs /\ hps.geometry \in Geometries /\ hps.regs.lba \in BOOLEAN
  BY DEF WorkSide, HpsType, RegsType
<1>5. SectorAt(hps) = SectorOf(Start + Position)
  BY <1>2, Zenon DEF SectorAt, SectorOf
<1>6. n + 1 \in Nat /\ n + 1 = Start + (Position + 1)
  BY <1>1, <1>2, <1>3
<1>7. NextSector(hps) = r
  BY DEF NextSector
<1> HIDE DEF n
<1>8. /\ DOMAIN r = DOMAIN PowerOnRegs /\ r.sector \in Int /\ r.cylinder \in Int /\ r.head \in Int
      /\ r.lba = hps.regs.lba /\ r.drv = hps.regs.drv
  BY <1>4, <1>6, PutType
<1>9. ASSUME hps.regs.count > 1 PROVE get_lba(r, hps.geometry) = Start + (Position + 1)
  <2>1. Position + 1 < Blocks(Cmd)
    BY <1>1, <1>3, <1>9
  <2>2. hps.regs.lba = TRUE => n + 1 < 16 * (Span * Radix)
    <3>1. n + 1 < Start + Blocks(Cmd)
      BY <1>1, <1>3, <1>6, <2>1
    <3>2. 16 * (Span * Radix) \in Int
      BY SpanType DEF SpanFacts
    <3>3. Start + Blocks(Cmd) \in Int
      BY <1>1
    <3>4. QED
      BY <1>1, <1>2, <1>6, <3>1, <3>2, <3>3
  <2>3. get_lba(r, hps.geometry) = n + 1
    BY <1>4, <1>6, <2>2, SectorNumbers
  <2>4. QED
    BY <1>6, <2>3
<1> HIDE DEF r
<1>10. QED
  BY <1>1, <1>3, <1>5, <1>7, <1>8, <1>9

-----------------------------------------------------------------------------
(* It moves words to the buffer.                                            *)

LEMMA MovesOn ==
  ASSUME HpsType, hps.state \in Movers, hps' = [[hps EXCEPT !.cnt = @ + 1] EXCEPT !.rest = TRUE]
  PROVE  /\ hps'.state = hps.state /\ hps'.cnt = hps.cnt + 1 /\ hps'.next = hps.next /\ hps'.rest = TRUE
         /\ hps'.geometry = hps.geometry /\ hps'.regs = hps.regs /\ hps'.lba = hps.lba /\ HpsType'
<1>1. DOMAIN hps = {"state", "next", "rest", "geometry", "sense", "regs", "args", "cmd", "features", "cnt",
                    "packet", "data", "lba", "irq_pending", "plba", "pleft", "plimit"}
  BY DEF HpsType
<1>2. /\ hps'.state = hps.state /\ hps'.cnt = hps.cnt + 1 /\ hps'.next = hps.next /\ hps'.rest = TRUE
      /\ hps'.geometry = hps.geometry /\ hps'.regs = hps.regs /\ hps'.lba = hps.lba /\ hps'.args = hps.args
      /\ DOMAIN hps' = DOMAIN hps
  BY <1>1
<1>3. hps'.state # "SET_REGS_SEND" /\ hps'.cnt \in Nat /\ hps'.state \in States
  BY <1>2 DEF Movers, HpsType, States
<1>4. HpsType'
  <2>1. /\ hps.next \in {"IDLE", "RESET_SET", "READ_WAIT_REQ", "WRITE_WAIT_REQ"} /\ hps.geometry \in Geometries
        /\ RegsType(hps.regs) /\ DOMAIN hps.args = {"count", "sector", "cylinder"}
    BY DEF HpsType
  <2>2. QED
    BY <1>2, <1>3, <2>1, TypeOfHps
<1>5. QED
  BY <1>2, <1>4

LEMMA WantedStays ==
  ASSUME WorkSide, NEW k, NEW i
  PROVE  Wanted(k, i)' = Wanted(k, i)
<1>1. Cmd' = Cmd /\ Start' = Start /\ intended' = intended
  BY DEF WorkSide
<1>2. QED
  BY <1>1 DEF Wanted, Content
LEMMA LoadedStays ==
  ASSUME WorkSide, NEW k, NEW n, Loaded(k, n), \A i \in 0..(Words - 1) : buf'.word[i] = buf.word[i]
  PROVE  Loaded(k, n)'
<1>1. \A i \in 0..(Words - 1) : i < n => buf'.word[i] = Wanted(k, i)'
  BY WantedStays DEF Loaded
<1>2. QED
  BY <1>1 DEF Loaded
LEMMA LoadedGrows ==
  ASSUME WorkSide, NEW k, NEW c \in Nat, Loaded(k, c),
         \A i \in 0..(Words - 1) : buf'.word[i] = IF i = c THEN Wanted(k, c) ELSE buf.word[i]
  PROVE  Loaded(k, c + 1)'
<1>1. \A i \in 0..(Words - 1) : i < c + 1 => buf'.word[i] = Wanted(k, i)'
  BY WantedStays, SizesAssumption DEF Loaded
<1>2. QED
  BY <1>1 DEF Loaded

\* A word goes to the buffer.
LEMMA MoverWrites ==
  ASSUME DInv, WorkSide, ~hps.rest, hps.state \in Movers, hps.cnt < Words, NEW data, image' = image,
         pulse_write(15, data, [hps EXCEPT !.cnt = @ + 1]),
         /\ SameController /\ hps'.state = hps.state /\ hps'.cnt = hps.cnt + 1 /\ hps'.next = hps.next
         /\ hps'.geometry = hps.geometry /\ hps'.regs = hps.regs /\ hps'.lba = hps.lba
         /\ (\A i \in 0..(Words - 1) : buf'.word[i] = IF i = hps.cnt THEN data ELSE buf.word[i])
         => Situation'
  PROVE  DInv'
<1>0. /\ HpsType /\ BusType /\ ControllerType /\ CounterInv /\ EdgeOfController /\ scenario' = scenario
      /\ Image(image)
  BY DEF WorkSide
<1>1. bus' = [op |-> "write", addr |-> 15, data |-> data] /\ hps' = [[hps EXCEPT !.cnt = @ + 1] EXCEPT !.rest = TRUE]
  BY DEF pulse_write, Uses
<1>2. /\ hps'.state = hps.state /\ hps'.cnt = hps.cnt + 1 /\ hps'.next = hps.next /\ hps'.rest = TRUE
      /\ hps'.geometry = hps.geometry /\ hps'.regs = hps.regs /\ hps'.lba = hps.lba /\ HpsType'
  BY <1>0, <1>1, MovesOn
<1>3. /\ BusType' /\ CounterInv' /\ ide'.mgmt_cnt \in 0..(CountLimit - 1) /\ bus'.op = "write" /\ bus'.addr = 15
      /\ bus'.data = data /\ Calm /\ ide.mgmt_cnt = hps.cnt /\ bus.op = "none"
  BY <1>0, <1>1, <1>2, MoveStep
<1>4. hps.cnt \in 0..(BufWords - 1) /\ Words <= BufWords /\ Words \in Nat
  BY <1>0, SizesAssumption, BufferAssumption DEF HpsType
<1>5. \A w \in 0..(BufWords - 1) : buf'.word[w] = IF w = hps.cnt THEN data ELSE buf.word[w]
  BY <1>3, <1>4, WordMoves
<1>6. \A i \in 0..(Words - 1) : buf'.word[i] = IF i = hps.cnt THEN data ELSE buf.word[i]
  BY <1>4, <1>5, BufferAssumption
<1>7. hps'.state # "INITIAL" /\ ~Sends' /\ ~Sends /\ Image(image')
  BY <1>0, <1>2 DEF Sends, Movers
<1>8. ASSUME SameController PROVE Situation' /\ GeometryInv'
  BY <1>2, <1>6, <1>7, <1>8, SameGeometry
<1>9. QED
  BY <1>2, <1>3, <1>7, <1>8, WorkGoesOn

\* It rests where it is.
LEMMA SituationRests ==
  ASSUME DInv, WorkSide, Rest,
         /\ SameController /\ HpsType' /\ hps'.state = hps.state /\ hps'.cnt = hps.cnt /\ hps'.next = hps.next
         /\ hps'.geometry = hps.geometry /\ hps'.regs = hps.regs /\ hps'.lba = hps.lba /\ image' = image
         /\ bus'.op = "none" /\ bus'.addr = bus.addr
         /\ (\A w \in 0..(BufWords - 1) : buf'.word[w] = buf.word[w])
         /\ (\A i \in 0..(Words - 1) : buf'.word[i] = buf.word[i])
         => Situation'
  PROVE  DInv'
<1>0. /\ OfADisk /\ HpsType /\ BusType /\ ControllerType /\ CounterInv /\ EdgeOfController
      /\ scenario' = scenario /\ Image(image) /\ hps.state # "INITIAL"
  BY DEF WorkSide
<1>1. /\ BusType' /\ CounterInv' /\ ide'.mgmt_cnt \in 0..(CountLimit - 1) /\ bus'.op = "none" /\ bus'.addr = bus.addr
      /\ Calm /\ HpsType' /\ image' = image
      /\ hps'.state = hps.state /\ hps'.next = hps.next /\ hps'.cnt = hps.cnt /\ hps'.lba = hps.lba
      /\ hps'.geometry = hps.geometry /\ hps'.regs = hps.regs
  BY <1>0, RestStep
<1>2. \A w \in 0..(BufWords - 1) : buf'.word[w] = buf.word[w]
  BY <1>1, WordsStay
<1>3. \A i \in 0..(Words - 1) : buf'.word[i] = buf.word[i]
  BY <1>2, SectorWords
<1>4. hps'.state # "INITIAL" /\ (Sends' <=> Sends) /\ Image(image')
  BY <1>0, <1>1 DEF Sends
<1>5. ASSUME SameController PROVE Situation' /\ GeometryInv'
  BY <1>1, <1>2, <1>3, <1>4, <1>5, SameGeometry
<1>6. QED
  BY <1>1, <1>4, <1>5, WorkGoesOn

LEMMA StepAtSendId ==
  ASSUME DInv, WorkSide, DiskNext, AtSendId
  PROVE  DInv'
<1>0. /\ OfADisk /\ HpsType /\ BusType /\ ControllerType /\ CounterInv /\ driver'.moved = driver.moved
      /\ intended' = intended /\ Cmd' = Cmd /\ Image(image)
  BY DEF WorkSide
<1>1. /\ hps.state = "SEND_ID" /\ ide.request = "command" /\ driver.moved = 0 /\ image = intended
      /\ Cmd.op = "IDENTIFY" /\ Cmd.drv = 0 /\ Loaded(0, hps.cnt)
      /\ hps.regs.size = 1 /\ hps.regs.status = {"RDY", "DRQ", "IRQ", "END"}
  BY DEF AtSendId
<1>2. hps.state \in Movers /\ hps.cnt \in 0..Words /\ Words \in Nat
  BY <1>0, <1>1, SizesAssumption DEF Movers, CounterInv
<1>3. PICK c \in 0..Words : c = hps.cnt
  BY <1>2
<1>4. CASE Rest
  <2>1. ASSUME SameController, hps'.state = hps.state, hps'.cnt = hps.cnt, hps'.regs = hps.regs, image' = image,
               \A i \in 0..(Words - 1) : buf'.word[i] = buf.word[i]
        PROVE  Situation'
    <3>1. Loaded(0, c)'
      BY <1>1, <1>3, <2>1, LoadedStays
    <3>2. Loaded(0, hps.cnt)'
      BY <1>3, <2>1, <3>1
    <3>3. AtSendId'
      BY <1>0, <1>1, <2>1, <3>2 DEF AtSendId, SameController
    <3>4. QED
      BY <3>3 DEF Situation
  <2>2. QED
    BY <1>4, <2>1, SituationRests
<1>5. CASE SEND_ID /\ hps.cnt < Words
  <2>1. /\ ~hps.rest /\ image' = image
        /\ pulse_write(15, <<"identity", hps.cnt + 1, 0>>, [hps EXCEPT !.cnt = @ + 1])
    BY <1>5 DEF SEND_ID, In
  <2>2. ASSUME SameController, hps'.state = hps.state, hps'.cnt = hps.cnt + 1, hps'.regs = hps.regs,
               \A i \in 0..(Words - 1) : buf'.word[i] = IF i = hps.cnt THEN <<"identity", hps.cnt + 1, 0>>
                                                        ELSE buf.word[i]
        PROVE  Situation'
    <3>1. Wanted(0, c) = <<"identity", hps.cnt + 1, 0>>
      BY <1>1, <1>3 DEF Wanted
    <3>2. c \in Nat /\ Loaded(0, c)
         /\ \A i \in 0..(Words - 1) : buf'.word[i] = IF i = c THEN Wanted(0, c) ELSE buf.word[i]
      BY <1>1, <1>3, <2>2, <3>1
    <3>3. Loaded(0, c + 1)'
      BY <3>2, LoadedGrows
    <3>4. Loaded(0, hps.cnt)'
      BY <1>3, <2>2, <3>3
    <3>5. AtSendId'
      BY <1>0, <1>1, <2>1, <2>2, <3>4 DEF AtSendId, SameController
    <3>6. QED
      BY <3>5 DEF Situation
  <2>3. QED
    BY <1>2, <1>5, <2>1, <2>2, MoverWrites
<1>6. CASE SEND_ID /\ ~(hps.cnt < Words)
  <2>1. /\ ~hps.rest /\ image' = image /\ Clears
        /\ hps' = [hps EXCEPT !.state = "SET_REGS", !.next = "IDLE"]
    BY <1>6 DEF SEND_ID, In, clear_bus, Clears
  <2>2. /\ hps'.state = "SET_REGS" /\ hps'.next = "IDLE" /\ hps'.cnt = hps.cnt /\ hps'.regs = hps.regs
        /\ hps'.rest = hps.rest /\ hps'.geometry = hps.geometry /\ hps'.args = hps.args /\ DOMAIN hps' = DOMAIN hps
    BY <1>0, <2>1 DEF HpsType
  <2>3. hps'.rest = FALSE /\ hps'.state \in States /\ hps'.state \notin Movers /\ hps'.state # "INITIAL"
    BY <1>0, <2>1, <2>2 DEF HpsType, States, Movers
  <2>4. HpsType'
    BY <1>0, <2>2, <2>3, TypeOfHps DEF HpsType
  <2>5. ASSUME SameController PROVE Situation' /\ GeometryInv'
    <3>1. \A i \in 0..(Words - 1) : buf'.word[i] = buf.word[i]
      <4>1. bus'.op # "write"
        BY <1>0, <2>1 DEF Clears, BusType
      <4>2. QED
        BY <4>1, WordsStay, SectorWords
    <3>2. c = Words
      BY <1>2, <1>3, <1>6
    <3>3. Loaded(0, Words)'
      BY <1>1, <1>3, <3>1, <3>2, LoadedStays
    <3>4. Sends' /\ ~Begun(0)'
      BY <2>2 DEF Sends, Begun
    <3>5. "DRQ" \in hps'.regs.status /\ "END" \in hps'.regs.status /\ "BSY" \notin hps'.regs.status
      BY <1>1, <2>2
    <3>6. BlockNow'
      BY <1>0, <1>1, <2>2, <3>3, <3>4, <3>5 DEF BlockNow
    <3>7. AtSends'
      BY <1>0, <1>1, <2>1, <2>5, <3>4, <3>5, <3>6 DEF AtSends, SameController
    <3>8. QED
      BY <1>1, <2>2, <2>5, <3>7, SameGeometry DEF Situation
  <2>6. QED
    BY <1>0, <2>1, <2>2, <2>3, <2>4, <2>5, WorkClears
<1>7. QED
  BY <1>1, <1>4, <1>5, <1>6
     DEF DiskNext, In, INITIAL, IDLE, RESET_SET, GET_RESET_DRIVE, GET_CMD, DO_CMD, SET_REGS, SET_REGS_SEND,
     READ, READ_REGS, READ_SEND, READ_WAIT_REQ, WRITE_WAIT_REQ,
     WRITE, WRITE_REGS, WRITE_RECV, PACKET_WAIT_REQ, PACKET_RECV, PACKET_HANDLE, PACKET_SEND,
     PACKET_READ_WAIT_REQ, Waits

-----------------------------------------------------------------------------
(* It reads.                                                                *)

LEMMA LocatedStays ==
  ASSUME WorkSide, Located, hps'.regs = hps.regs, hps'.geometry = hps.geometry
  PROVE  Located' /\ Position' = Position
<1>1. /\ Cmd' = Cmd /\ Blocks(Cmd)' = Blocks(Cmd) /\ Start' = Start
  BY DEF WorkSide
<1>2. Position' = Position
  BY <1>1 DEF Position
<1>3. get_lba(hps.regs, hps.geometry)' = get_lba(hps.regs, hps.geometry)
  BY DEF get_lba
<1>4. QED
  BY <1>1, <1>2, <1>3 DEF Located

\* The software goes to another state.
LEMMA GoesTo ==
  ASSUME DInv, WorkSide, ~hps.rest, Clears, image' = image, bus.addr # 15,
         NEW s \in {"READ_REGS", "WRITE_REGS", "WRITE_RECV", "READ_WAIT_REQ", "WRITE_WAIT_REQ"},
         hps'.state = s, hps'.cnt \in Nat, s = "WRITE_RECV" => hps'.cnt = 0, hps'.next = hps.next, hps'.rest = hps.rest,
         hps'.geometry = hps.geometry, hps'.regs = hps.regs, hps'.args = hps.args, DOMAIN hps' = DOMAIN hps,
         Cmd.op # "GEOMETRY", SameController => Situation'
  PROVE  DInv'
<1>1. /\ HpsType /\ Image(image)
  BY DEF WorkSide
<1>2. hps'.rest = FALSE /\ hps'.state \in States /\ hps'.state # "SET_REGS_SEND" /\ hps'.state # "INITIAL"
  BY <1>1 DEF HpsType, States
<1>3. HpsType'
  <2>1. /\ hps.next \in {"IDLE", "RESET_SET", "READ_WAIT_REQ", "WRITE_WAIT_REQ"} /\ hps.geometry \in Geometries
        /\ RegsType(hps.regs) /\ DOMAIN hps.args = {"count", "sector", "cylinder"}
    BY <1>1 DEF HpsType
  <2>2. QED
    BY <1>1, <1>2, <2>1, TypeOfHps
<1>4. hps'.state \in Movers => hps'.cnt = 0
  BY DEF Movers
<1>5. ASSUME SameController PROVE Situation' /\ GeometryInv'
  BY <1>5, SameGeometry
<1>6. QED
  BY <1>1, <1>2, <1>3, <1>4, <1>5, WorkClears

LEMMA StepAtRead ==
  ASSUME DInv, WorkSide, DiskNext, AtRead
  PROVE  DInv'
<1>0. /\ OfADisk /\ HpsType /\ BusType /\ ControllerType /\ CounterInv /\ driver'.moved = driver.moved
      /\ intended' = intended /\ Cmd' = Cmd /\ Image(image)
      /\ Blocks(Cmd)' = Blocks(Cmd) /\ Start' = Start
  BY DEF WorkSide
<1>1. /\ hps.state \in {"READ", "READ_REGS"} \/ (After = "READ_WAIT_REQ" /\ ide.request = "data")
      /\ Cmd.op = "READ" /\ Located /\ hps.regs.count > 0 /\ driver.moved = At(Position) /\ image = intended
  BY DEF AtRead
<1>2. \/ hps.state \in {"READ", "READ_REGS"}
      \/ hps.state = "READ_WAIT_REQ" /\ ide.request = "data"
      \/ hps.state = "SET_REGS_SEND" /\ hps.cnt = 6 /\ hps.next = "READ_WAIT_REQ" /\ ide.request = "data"
  BY <1>1 DEF After
<1>3. bus.addr # 15
  BY <1>0, <1>2 DEF CounterInv, Movers
<1>4. ASSUME SameController, hps'.regs = hps.regs, hps'.geometry = hps.geometry, image' = image,
             hps'.state \in {"READ", "READ_REGS"} \/ (After' = "READ_WAIT_REQ" /\ ide.request = "data")
      PROVE  Situation'
  <2>1. Located' /\ Position' = Position
    BY <1>1, <1>4, LocatedStays
  <2>2. driver'.moved = At(Position')
    BY <1>0, <1>1, <2>1
  <2>3. AtRead'
    BY <1>0, <1>1, <1>4, <2>1, <2>2 DEF AtRead, SameController, At
  <2>4. QED
    BY <2>3 DEF Situation
<1>5. CASE Rest
  <2>1. ASSUME SameController, hps'.state = hps.state, hps'.cnt = hps.cnt, hps'.next = hps.next, image' = image,
               hps'.geometry = hps.geometry, hps'.regs = hps.regs
        PROVE  Situation'
    <3>1. After' = After
      BY <2>1 DEF After
    <3>2. QED
      BY <1>1, <1>4, <2>1, <3>1
  <2>2. QED
    BY <1>5, <2>1, SituationRests
<1>a. DOMAIN hps = {"state", "next", "rest", "geometry", "sense", "regs", "args", "cmd", "features", "cnt",
                    "packet", "data", "lba", "irq_pending", "plba", "pleft", "plimit"} /\ hps.cnt \in Nat
  BY <1>0 DEF HpsType
<1>6. ASSUME ~hps.rest, image' = image, clear_bus([hps EXCEPT !.state = "READ_REGS"])
      PROVE  DInv'
  <2>1. Clears /\ hps' = [hps EXCEPT !.state = "READ_REGS"]
    BY <1>6 DEF clear_bus, Clears
  <2>2. /\ hps'.state = "READ_REGS" /\ hps'.cnt = hps.cnt /\ hps'.next = hps.next /\ hps'.rest = hps.rest
        /\ hps'.geometry = hps.geometry /\ hps'.regs = hps.regs /\ hps'.args = hps.args /\ DOMAIN hps' = DOMAIN hps
    BY <1>a, <2>1
  <2>3. ASSUME SameController PROVE Situation'
    BY <1>4, <1>6, <2>2, <2>3
  <2>4. QED
    BY <1>1, <1>3, <1>6, <1>a, <2>1, <2>2, <2>3, GoesTo
<1>7. CASE READ
  BY <1>6, <1>7 DEF READ, In
<1>8. CASE READ_WAIT_REQ
  <2>1. ide.request = "data"
    BY <1>2, <1>8 DEF READ_WAIT_REQ, Waits, In
  <2>2. QED
    BY <1>6, <1>8, <2>1 DEF READ_WAIT_REQ, Waits, In
<1>9. CASE SET_REGS_SEND
  <2>1. hps.state = "SET_REGS_SEND"
    BY <1>9 DEF SET_REGS_SEND, In
  <2>2. ~(hps.cnt < 6) /\ hps.next = "READ_WAIT_REQ" /\ ide.request = "data"
    BY <1>2, <2>1
  <2>3. /\ ~hps.rest /\ image' = image /\ Clears
        /\ hps'.rest = FALSE /\ hps'.state = hps.next /\ hps'.cnt = 0 /\ hps'.geometry = hps.geometry /\ HpsType'
        /\ hps'.regs = hps.regs
    BY <1>0, <1>9, <2>2, RegsSent
  <2>4. ASSUME SameController PROVE Situation' /\ GeometryInv'
    <3>1. After' = "READ_WAIT_REQ"
      BY <2>2, <2>3 DEF After
    <3>2. Situation'
      BY <1>4, <2>2, <2>3, <2>4, <3>1
    <3>3. QED
      BY <1>1, <2>3, <2>4, <3>2, SameGeometry
  <2>5. hps'.state # "INITIAL" /\ hps'.state \notin Movers /\ Image(image')
    BY <1>0, <2>2, <2>3 DEF Movers
  <2>6. QED
    BY <1>3, <2>3, <2>4, <2>5, WorkClears
<1>10. CASE READ_REGS
  <2> DEFINE n == NextSector(hps)
             count == hps.regs.count - 1
             r == [n EXCEPT !.count = count, !.size = 1, !.status = ReadStatus(count)]
  <2>1. /\ ~hps.rest /\ hps.state = "READ_REGS" /\ image' = image /\ Clears
        /\ hps' = [hps EXCEPT !.lba = SectorAt(hps), !.cnt = 0, !.state = "READ_SEND", !.regs = r]
    BY <1>10, Zenon DEF READ_REGS, In, clear_bus, Clears
  <2>2. /\ Start \in Int /\ Position \in Nat /\ hps.regs.count \in Nat /\ hps.regs.count = Blocks(Cmd) - Position
        /\ Position < Blocks(Cmd) /\ Blocks(Cmd) \in Nat
        /\ SectorAt(hps) = SectorOf(Start + Position)
        /\ DOMAIN n = DOMAIN PowerOnRegs /\ n.sector \in Int /\ n.cylinder \in Int /\ n.head \in Int
        /\ n.lba = hps.regs.lba /\ n.drv = hps.regs.drv
        /\ hps.regs.count > 1 => get_lba(n, hps.geometry) = Start + (Position + 1)
    BY <1>1, NextSectors
  <2> HIDE DEF n
  <2>3. /\ r.count = count /\ r.size = 1 /\ r.status = ReadStatus(count) /\ r.sector = n.sector
        /\ r.cylinder = n.cylinder /\ r.head = n.head /\ r.lba = n.lba /\ r.drv = n.drv /\ DOMAIN r = DOMAIN n
    BY <2>2 DEF PowerOnRegs
  <2> HIDE DEF r
  <2>4. /\ hps'.state = "READ_SEND" /\ hps'.cnt = 0 /\ hps'.next = hps.next /\ hps'.rest = hps.rest
        /\ hps'.geometry = hps.geometry /\ hps'.regs = r /\ hps'.args = hps.args /\ DOMAIN hps' = DOMAIN hps
        /\ hps'.lba = SectorAt(hps)
    BY <1>a, <2>1
  <2>5. RegsType(r)
    BY <1>0, <2>2, <2>3 DEF RegsType, HpsType
  <2>6. hps'.rest = FALSE /\ hps'.state \in States /\ hps'.state # "INITIAL"
    BY <1>0, <2>1, <2>4 DEF HpsType, States
  <2>7. HpsType'
    BY <1>0, <2>4, <2>5, <2>6, TypeOfHps DEF HpsType
  <2>8. ASSUME SameController PROVE Situation' /\ GeometryInv'
    <3>1. Position' = Position + 1
      BY <1>0, <2>2, <2>3, <2>4 DEF Position
    <3>2. hps'.regs.count > 0 => get_lba(hps'.regs, hps'.geometry) = Start' + Position'
      <4>1. get_lba(r, hps.geometry) = get_lba(n, hps.geometry)
        BY <2>3 DEF get_lba
      <4>2. QED
        BY <1>0, <2>2, <2>3, <2>4, <3>1, <4>1
    <3>3. Located'
      <4>1. hps'.regs.lba = Cmd.lba /\ hps'.regs.drv = 0 /\ Cmd.op = "READ" /\ Cmd.drv = 0
        BY <1>1, <2>2, <2>3, <2>4 DEF Located
      <4>2. hps'.regs.count \in 0..Blocks(Cmd)
        BY <1>1, <2>2, <2>3, <2>4
      <4>3. QED
        BY <1>0, <3>2, <4>1, <4>2 DEF Located
    <3>4. Position' > 0 /\ Position' - 1 = Position /\ Start' + Position' - 1 = Start + Position
      BY <1>0, <2>2, <3>1
    <3>5. Loaded(Position - 1, hps.cnt)'
      BY <2>4 DEF Loaded
    <3>6. driver'.moved = At(Position' - 1) /\ hps'.lba = SectorOf(Start' + Position' - 1)
      BY <1>0, <1>1, <2>2, <2>4, <3>4
    <3>7. AtReadSend'
      BY <1>0, <1>1, <2>1, <2>3, <2>4, <3>3, <3>4, <3>5, <3>6 DEF AtReadSend, SectorOf, At
    <3>8. QED
      BY <1>1, <2>4, <2>8, <3>7, SameGeometry DEF Situation
  <2>9. hps'.state \in Movers => hps'.cnt = 0
    BY <2>4
  <2>10. QED
    BY <1>0, <1>3, <2>1, <2>4, <2>6, <2>7, <2>8, <2>9, WorkClears
<1>11. QED
  BY <1>2, <1>5, <1>7, <1>8, <1>9, <1>10
     DEF DiskNext, In, INITIAL, IDLE, RESET_SET, GET_RESET_DRIVE, GET_CMD, DO_CMD, SEND_ID, SET_REGS, READ_SEND,
     WRITE_WAIT_REQ, WRITE, WRITE_REGS, WRITE_RECV, PACKET_WAIT_REQ, PACKET_RECV, PACKET_HANDLE, PACKET_SEND,
     PACKET_READ_WAIT_REQ, Waits

LEMMA StepAtReadSend ==
  ASSUME DInv, WorkSide, DiskNext, AtReadSend
  PROVE  DInv'
<1>0. /\ OfADisk /\ HpsType /\ BusType /\ ControllerType /\ CounterInv /\ driver'.moved = driver.moved
      /\ intended' = intended /\ Cmd' = Cmd /\ Image(image) /\ DriverType /\ Cmd.op \in DiskOps
      /\ Blocks(Cmd)' = Blocks(Cmd) /\ Start' = Start
  BY DEF WorkSide
<1>1. /\ hps.state = "READ_SEND" /\ Cmd.op = "READ" /\ Located /\ Position > 0
      /\ driver.moved = At(Position - 1) /\ image = intended
      /\ hps.lba = SectorOf(Start + Position - 1) /\ Loaded(Position - 1, hps.cnt)
      /\ hps.regs.size = 1 /\ hps.regs.status = ReadStatus(hps.regs.count)
  BY DEF AtReadSend
<1>2. hps.state \in Movers /\ hps.cnt \in 0..Words /\ Words \in Nat
  BY <1>0, <1>1, SizesAssumption DEF Movers, CounterInv
<1>3. PICK c \in 0..Words : c = hps.cnt
  BY <1>2
<1>4. Start \in Int /\ Position \in Int
  <2>1. hps.regs.count \in Int /\ Blocks(Cmd) \in Nat
    BY <1>0, DiskCommands DEF HpsType, RegsType
  <2>2. QED
    BY <1>0, <2>1, Extent DEF Position
<1>5. PICK k \in Int : k = Position - 1 /\ Start + Position - 1 = Start + k
  BY <1>4
<1>6. ASSUME SameController, hps'.state = hps.state, hps'.regs = hps.regs, hps'.lba = hps.lba,
             hps'.geometry = hps.geometry, image' = image, Loaded(k, hps.cnt)'
      PROVE  Situation'
  <2>1. Located' /\ Position' = Position
    BY <1>1, <1>6, LocatedStays
  <2>2. Loaded(Position - 1, hps.cnt)'
    BY <1>5, <1>6, <2>1
  <2>3. AtReadSend'
    BY <1>0, <1>1, <1>6, <2>1, <2>2 DEF AtReadSend, SectorOf, At
  <2>4. QED
    BY <2>3 DEF Situation
<1>7. CASE Rest
  <2>1. ASSUME SameController, hps'.state = hps.state, hps'.cnt = hps.cnt, hps'.regs = hps.regs, image' = image,
               hps'.geometry = hps.geometry, hps'.lba = hps.lba,
               \A i \in 0..(Words - 1) : buf'.word[i] = buf.word[i]
        PROVE  Situation'
    <3>1. Loaded(k, c)'
      BY <1>1, <1>3, <1>5, <2>1, LoadedStays
    <3>2. Loaded(k, hps.cnt)'
      BY <1>3, <2>1, <3>1
    <3>3. QED
      BY <1>6, <2>1, <3>2
  <2>2. QED
    BY <1>7, <2>1, SituationRests
<1>8. CASE READ_SEND /\ hps.cnt < Words
  <2> DEFINE data == IF hps.lba = NoSector THEN <<"zero", 0, 0>> ELSE image[hps.lba][hps.cnt + 1]
  <2>1. /\ ~hps.rest /\ image' = image /\ pulse_write(15, data, [hps EXCEPT !.cnt = @ + 1])
    BY <1>8 DEF READ_SEND, In
  <2>2. Wanted(k, c) = data
    <3>1. hps.lba = SectorOf(Start + k)
      BY <1>1, <1>5
    <3>2. NoSector \notin Sectors
      BY SizesAssumption DEF NoSector, Sectors
    <3>3. QED
      BY <1>1, <1>3, <3>1, <3>2 DEF Wanted, Content, SectorOf
  <2> HIDE DEF data
  <2>3. ASSUME SameController, hps'.state = hps.state, hps'.cnt = hps.cnt + 1, hps'.regs = hps.regs,
               hps'.geometry = hps.geometry, hps'.lba = hps.lba,
               \A i \in 0..(Words - 1) : buf'.word[i] = IF i = hps.cnt THEN data ELSE buf.word[i]
        PROVE  Situation'
    <3>1. c \in Nat /\ Loaded(k, c)
         /\ \A i \in 0..(Words - 1) : buf'.word[i] = IF i = c THEN Wanted(k, c) ELSE buf.word[i]
      BY <1>1, <1>3, <1>5, <2>2, <2>3
    <3>2. Loaded(k, c + 1)'
      BY <3>1, LoadedGrows
    <3>3. Loaded(k, hps.cnt)'
      BY <1>3, <2>3, <3>2
    <3>4. QED
      BY <1>6, <2>1, <2>3, <3>3
  <2>4. QED
    BY <1>2, <1>8, <2>1, <2>3, MoverWrites
<1>9. CASE READ_SEND /\ ~(hps.cnt < Words)
  <2> DEFINE next == IF hps.regs.count # 0 THEN "READ_WAIT_REQ" ELSE "IDLE"
  <2>1. /\ ~hps.rest /\ image' = image /\ Clears
        /\ hps' = [hps EXCEPT !.cnt = 0, !.state = "SET_REGS", !.next = next]
    BY <1>9 DEF READ_SEND, In, clear_bus, Clears
  <2>2. /\ hps'.state = "SET_REGS" /\ hps'.next = next /\ hps'.cnt = 0 /\ hps'.regs = hps.regs
        /\ hps'.rest = hps.rest /\ hps'.geometry = hps.geometry /\ hps'.args = hps.args /\ DOMAIN hps' = DOMAIN hps
    BY <1>0, <2>1 DEF HpsType
  <2>3. /\ hps'.rest = FALSE /\ hps'.state \in States /\ hps'.state \notin Movers /\ hps'.state # "INITIAL"
        /\ hps'.next \in {"IDLE", "RESET_SET", "READ_WAIT_REQ", "WRITE_WAIT_REQ"}
    BY <1>0, <2>1, <2>2 DEF HpsType, States, Movers
  <2>4. HpsType'
    BY <1>0, <2>2, <2>3, TypeOfHps DEF HpsType
  <2>5. ASSUME SameController PROVE Situation' /\ GeometryInv'
    <3>1. \A i \in 0..(Words - 1) : buf'.word[i] = buf.word[i]
      <4>1. bus'.op # "write"
        BY <1>0, <2>1 DEF Clears, BusType
      <4>2. QED
        BY <4>1, WordsStay, SectorWords
    <3>2. c = Words
      BY <1>2, <1>3, <1>9
    <3>3. Loaded(k, Words)'
      BY <1>1, <1>3, <1>5, <3>1, <3>2, LoadedStays
    <3>4. Located' /\ Position' = Position
      BY <1>1, <2>2, LocatedStays
    <3>5. Loaded(Position - 1, Words)'
      BY <1>5, <3>3, <3>4
    <3>6. Sends' /\ ~Begun(0)'
      BY <2>2 DEF Sends, Begun
    <3>7. /\ "DRQ" \in hps'.regs.status /\ ("END" \in hps'.regs.status <=> hps'.regs.count = 0)
          /\ "BSY" \notin hps'.regs.status
      BY <1>1, <2>2 DEF ReadStatus
    <3>8. hps'.next = IF hps'.regs.count = 0 THEN "IDLE" ELSE "READ_WAIT_REQ"
      BY <2>2
    <3>9. BlockNow'
      <4>1. Cmd'.op = "READ" /\ Cmd'.drv = 0
        BY <1>0, <1>1 DEF Located
      <4>2. driver'.moved = At(Position' - 1) /\ Position' > 0
        BY <1>0, <1>1, <3>4
      <4>3. hps'.regs.size = 1
        BY <1>1, <2>2
      <4>4. QED
        BY <3>4, <3>5, <3>6, <3>7, <3>8, <4>1, <4>2, <4>3 DEF BlockNow, At
    <3>10. AtSends'
      BY <1>0, <1>1, <2>1, <2>5, <3>6, <3>7, <3>9 DEF AtSends
    <3>11. QED
      BY <1>1, <2>2, <2>5, <3>10, SameGeometry DEF Situation
  <2>6. QED
    BY <1>0, <2>1, <2>2, <2>3, <2>4, <2>5, WorkClears
<1>10. QED
  BY <1>1, <1>7, <1>8, <1>9
     DEF DiskNext, In, INITIAL, IDLE, RESET_SET, GET_RESET_DRIVE, GET_CMD, DO_CMD, SEND_ID, SET_REGS, SET_REGS_SEND,
     READ, READ_REGS, READ_WAIT_REQ, WRITE_WAIT_REQ,
     WRITE, WRITE_REGS, WRITE_RECV, PACKET_WAIT_REQ, PACKET_RECV, PACKET_HANDLE, PACKET_SEND,
     PACKET_READ_WAIT_REQ, Waits

-----------------------------------------------------------------------------
(* It writes.                                                               *)

LEMMA Unjittered ==
  ASSUME OfADisk, DriverType, Cmd.op = "WRITE"
  PROVE  scenario.jitter = FALSE
<1>1. Srst.op # "WRITE"
  BY DEF Srst
<1>2. Cmd \in scenario.commands
  BY <1>1 DEF DriverType, Cmd
<1>3. scenario.jitter \in BOOLEAN /\ ~scenario.jitter
  BY <1>2 DEF OfADisk
<1>4. QED
  BY <1>3

LEMMA ImageExcept ==
  ASSUME NEW a, Image(a), NEW s \in Sectors, NEW i \in 1..Words, NEW v, NEW b, b = [a EXCEPT ![s][i] = v]
  PROVE  /\ Image(b) /\ b[s][i] = v /\ \A j \in 1..Words : j # i => b[s][j] = a[s][j]
         /\ \A t \in Sectors : t # s => b[t] = a[t]
<1>1. a = [t \in Sectors |-> [j \in 1..Words |-> a[t][j]]]
  BY DEF Image
<1>2. DOMAIN a = Sectors /\ \A t \in Sectors : a[t] = [j \in 1..Words |-> a[t][j]]
  BY <1>1
<1>3. \A t \in Sectors : DOMAIN a[t] = 1..Words
  BY <1>2
<1>4. b = [t \in Sectors |-> IF t = s THEN [a[s] EXCEPT ![i] = v] ELSE a[t]]
  BY <1>2
<1>5. \A t \in Sectors : b[t] = IF t = s THEN [a[s] EXCEPT ![i] = v] ELSE a[t]
  BY <1>4
<1>6. b[s] = [j \in 1..Words |-> IF j = i THEN v ELSE a[s][j]]
  BY <1>3, <1>5
<1>7. /\ b[s][i] = v /\ \A j \in 1..Words : j # i => b[s][j] = a[s][j]
  BY <1>6
<1>8. \A t \in Sectors : b[t] = [j \in 1..Words |-> b[t][j]]
  <2>1. b[s] = [j \in 1..Words |-> b[s][j]]
    BY <1>6
  <2>2. \A t \in Sectors : t # s => b[t] = [j \in 1..Words |-> b[t][j]]
    BY <1>2, <1>5
  <2>3. QED
    BY <2>1, <2>2
<1>9. b = [t \in Sectors |-> b[t]]
  BY <1>4
<1>10. Image(b)
  BY <1>8, <1>9 DEF Image
<1>11. QED
  BY <1>5, <1>7, <1>10

LEMMA SameImage ==
  ASSUME NEW a, NEW b, Image(a), Image(b), \A s \in Sectors : \A i \in 1..Words : a[s][i] = b[s][i]
  PROVE  a = b
  BY DEF Image

LEMMA NewBlockStays ==
  ASSUME WorkSide, NEW k, NEW n, NewBlock(k, n), \A i \in 0..(Words - 1) : buf'.word[i] = buf.word[i]
  PROVE  NewBlock(k, n)'
<1>1. Start' = Start
  BY DEF WorkSide
<1>2. QED
  BY <1>1 DEF NewBlock

LEMMA StepAtWrite ==
  ASSUME DInv, WorkSide, DiskNext, AtWrite
  PROVE  DInv'
<1>0. /\ OfADisk /\ HpsType /\ BusType /\ ControllerType /\ CounterInv /\ driver'.moved = driver.moved
      /\ intended' = intended /\ Cmd' = Cmd /\ Image(image)
      /\ Blocks(Cmd)' = Blocks(Cmd) /\ Start' = Start
  BY DEF WorkSide
<1>1. /\ hps.state \in {"WRITE", "WRITE_REGS"} /\ Cmd.op = "WRITE" /\ Located /\ hps.regs.count > 0
      /\ driver.moved = At(Position) /\ image = intended
  BY DEF AtWrite
<1>2. ASSUME SameController, hps'.regs = hps.regs, hps'.geometry = hps.geometry, image' = image,
             hps'.state \in {"WRITE", "WRITE_REGS"}
      PROVE  Situation'
  <2>1. Located' /\ Position' = Position
    BY <1>1, <1>2, LocatedStays
  <2>2. driver'.moved = At(Position')
    BY <1>0, <1>1, <2>1
  <2>3. AtWrite'
    BY <1>0, <1>1, <1>2, <2>1, <2>2 DEF AtWrite, At
  <2>4. QED
    BY <2>3 DEF Situation
<1>3. CASE Rest
  <2>1. ASSUME SameController, hps'.state = hps.state, image' = image,
               hps'.geometry = hps.geometry, hps'.regs = hps.regs
        PROVE  Situation'
    BY <1>1, <1>2, <2>1
  <2>2. QED
    BY <1>3, <2>1, SituationRests
<1>a. DOMAIN hps = {"state", "next", "rest", "geometry", "sense", "regs", "args", "cmd", "features", "cnt",
                    "packet", "data", "lba", "irq_pending", "plba", "pleft", "plimit"} /\ hps.cnt \in Nat
  BY <1>0 DEF HpsType
<1>4. CASE WRITE
  <2>1. /\ ~hps.rest /\ hps.state = "WRITE" /\ image' = image /\ Clears
        /\ hps' = [hps EXCEPT !.irq_pending = FALSE, !.state = "WRITE_REGS"]
    BY <1>4 DEF WRITE, In, clear_bus, Clears
  <2>2. /\ hps'.state = "WRITE_REGS" /\ hps'.cnt = hps.cnt /\ hps'.next = hps.next /\ hps'.rest = hps.rest
        /\ hps'.geometry = hps.geometry /\ hps'.regs = hps.regs /\ hps'.args = hps.args /\ DOMAIN hps' = DOMAIN hps
    BY <1>a, <2>1
  <2>3. bus.addr # 15
    BY <1>0, <2>1 DEF CounterInv, Movers
  <2>4. ASSUME SameController PROVE Situation'
    BY <1>2, <2>1, <2>2, <2>4
  <2>5. QED
    BY <1>1, <1>a, <2>1, <2>2, <2>3, <2>4, GoesTo
<1>5. CASE WRITE_REGS
  <2> DEFINE status == {"RDY", "DRQ"} \cup IF hps.irq_pending THEN {"IRQ"} ELSE {}
             r == [hps.regs EXCEPT !.size = 1, !.status = status]
  <2>1. /\ ~hps.rest /\ image' = image /\ Clears
        /\ hps' = [hps EXCEPT !.lba = SectorAt(hps), !.irq_pending = TRUE,
                              !.state = "SET_REGS", !.next = "WRITE_WAIT_REQ", !.regs = r]
    BY <1>5, <1>a DEF WRITE_REGS, In, clear_bus, Clears
  <2>2. DOMAIN hps.regs = {"size", "error", "count", "sector", "cylinder", "head", "drv", "lba", "psize", "status"}
        /\ RegsType(hps.regs)
    BY <1>0 DEF HpsType, RegsType, PowerOnRegs
  <2>3. "DRQ" \in status /\ "END" \notin status /\ "BSY" \notin status
    OBVIOUS
  <2> HIDE DEF status
  <2>4. /\ r.count = hps.regs.count /\ r.size = 1 /\ r.status = status /\ r.sector = hps.regs.sector
        /\ r.cylinder = hps.regs.cylinder /\ r.head = hps.regs.head /\ r.lba = hps.regs.lba /\ r.drv = hps.regs.drv
        /\ DOMAIN r = DOMAIN hps.regs
    BY <2>2
  <2> HIDE DEF r
  <2>5. /\ hps'.state = "SET_REGS" /\ hps'.cnt = hps.cnt /\ hps'.next = "WRITE_WAIT_REQ" /\ hps'.rest = hps.rest
        /\ hps'.geometry = hps.geometry /\ hps'.regs = r /\ hps'.args = hps.args /\ DOMAIN hps' = DOMAIN hps
        /\ hps'.lba = SectorAt(hps)
    BY <1>a, <2>1
  <2>6. RegsType(r)
    BY <2>2, <2>4 DEF RegsType
  <2>7. hps'.rest = FALSE /\ hps'.state \in States /\ hps'.state # "INITIAL" /\ hps'.state \notin Movers
    BY <1>0, <2>1, <2>5 DEF HpsType, States, Movers
  <2>8. HpsType'
    BY <1>0, <2>5, <2>6, <2>7, TypeOfHps DEF HpsType
  <2>9. ASSUME SameController PROVE Situation' /\ GeometryInv'
    <3>1. Position' = Position
      BY <1>0, <2>4, <2>5 DEF Position
    <3>2. get_lba(hps'.regs, hps'.geometry) = get_lba(hps.regs, hps.geometry)
      BY <2>4, <2>5 DEF get_lba
    <3>3. Located'
      BY <1>0, <1>1, <2>4, <2>5, <3>1, <3>2 DEF Located
    <3>4. hps'.lba = SectorOf(Start' + Position')
      BY <1>0, <1>1, <2>5, <3>1, NextSectors
    <3>5. Sends' /\ ~Begun(0)'
      BY <2>5 DEF Sends, Begun
    <3>6. driver'.moved = At(Position') /\ hps'.regs.count > 0
      BY <1>0, <1>1, <2>4, <2>5, <3>1
    <3>7. /\ "DRQ" \in hps'.regs.status /\ "END" \notin hps'.regs.status /\ "BSY" \notin hps'.regs.status
          /\ hps'.regs.size = 1 /\ Cmd'.op = "WRITE" /\ Cmd'.drv = 0
      BY <1>0, <1>1, <2>3, <2>4, <2>5 DEF Located
    <3>8. BlockNow'
      BY <2>5, <3>3, <3>4, <3>5, <3>6, <3>7 DEF BlockNow, SectorOf, At
    <3>9. AtSends'
      BY <1>0, <1>1, <2>1, <2>9, <3>5, <3>7, <3>8 DEF AtSends
    <3>10. QED
      BY <1>1, <2>5, <2>9, <3>9, SameGeometry DEF Situation
  <2>10. QED
    BY <1>0, <2>1, <2>5, <2>7, <2>8, <2>9, WorkClears
<1>6. QED
  BY <1>1, <1>3, <1>4, <1>5
     DEF DiskNext, In, INITIAL, IDLE, RESET_SET, GET_RESET_DRIVE, GET_CMD, DO_CMD, SEND_ID, SET_REGS, SET_REGS_SEND,
     READ, READ_REGS, READ_SEND, READ_WAIT_REQ, WRITE_WAIT_REQ,
     WRITE_RECV, PACKET_WAIT_REQ, PACKET_RECV, PACKET_HANDLE, PACKET_SEND,
     PACKET_READ_WAIT_REQ, Waits

-----------------------------------------------------------------------------
(* It takes a block from the buffer.                                        *)

\* The word that arrived is the next of its sector.
LEMMA StoresWord ==
  ASSUME WorkSide, AtWriteRecv, hps.state = "WRITE_RECV", ~hps.rest,
         image' = IF hps.cnt > 0 /\ hps.lba # NoSector
                  THEN [image EXCEPT ![hps.lba][hps.cnt] = mgmt_readdata] ELSE image
  PROVE  /\ Image(image') /\ (\A s \in Sectors : s # hps.lba => image'[s] = intended[s])
         /\ hps.lba \in Sectors => \A i \in 1..Words : i < hps.cnt + 1 => image'[hps.lba][i] = <<"new", hps.lba, i>>
<1>0. HpsType /\ BusType /\ CounterInv /\ DriverType /\ OfADisk /\ Image(image) /\ Cmd.op \in DiskOps
  BY DEF WorkSide
<1>1. /\ Located /\ hps.lba = SectorOf(Start + Position) /\ Pending(hps.lba) /\ NewBlock(Position, Words)
      /\ hps.cnt > 0 => IF bus.op = "none" THEN mgmt_readdata = buf.word[hps.cnt - 1]
                        ELSE buf.readdata[1 + ((hps.cnt - 1) % 2)] = buf.word[hps.cnt - 1]
      /\ hps.lba \in Sectors => \A i \in 1..Words : i < hps.cnt => image[hps.lba][i] = <<"new", hps.lba, i>>
  BY DEF AtWriteRecv
<1>2. hps.cnt \in 0..Words /\ Words \in Nat /\ bus.op = "none"
  BY <1>0, SizesAssumption DEF CounterInv, Movers, BusType
<1>3. NoSector \notin Sectors
  BY SizesAssumption DEF NoSector, Sectors
<1>4. \A s \in Sectors : s # hps.lba => image[s] = intended[s]
  BY <1>1 DEF Pending
<1>5. CASE hps.lba \notin Sectors
  <2>1. hps.lba = NoSector
    BY <1>1, <1>5 DEF SectorOf
  <2>2. image' = image
    BY <2>1
  <2>3. QED
    BY <1>0, <1>4, <1>5, <2>2
<1>6. CASE hps.lba \in Sectors /\ hps.cnt = 0
  <2>1. image' = image
    BY <1>6
  <2>2. \A i \in 1..Words : ~(i < hps.cnt + 1)
    BY <1>6
  <2>3. QED
    BY <1>0, <1>4, <2>1, <2>2
<1>7. CASE hps.lba \in Sectors /\ hps.cnt # 0
  <2>1. PICK c \in 1..Words : c = hps.cnt
    BY <1>2, <1>7
  <2>2. image' = [image EXCEPT ![hps.lba][c] = mgmt_readdata]
    BY <1>3, <1>7, <2>1
  <2>3. mgmt_readdata = buf.word[c - 1]
    BY <1>1, <1>2, <2>1
  <2>4. hps.lba = Start + Position
    BY <1>1, <1>3, <1>7 DEF SectorOf
  <2>5. c - 1 \in 0..(Words - 1) /\ c - 1 < Words /\ c - 1 + 1 = c
    BY <1>2, <2>1
  <2>6. mgmt_readdata = <<"new", hps.lba, c>>
    <3>1. buf.word[c - 1] = <<"new", Start + Position, c - 1 + 1>>
      BY <1>1, <2>5 DEF NewBlock
    <3>2. QED
      BY <2>3, <2>4, <2>5, <3>1
  <2>7. /\ Image(image') /\ image'[hps.lba][c] = mgmt_readdata
        /\ (\A j \in 1..Words : j # c => image'[hps.lba][j] = image[hps.lba][j])
        /\ \A t \in Sectors : t # hps.lba => image'[t] = image[t]
    <3>1. PICK a, b, v : a = image /\ b = image' /\ v = mgmt_readdata
      OBVIOUS
    <3>2. PICK s \in Sectors : s = hps.lba
      BY <1>7
    <3>3. Image(a) /\ b = [a EXCEPT ![s][c] = v]
      BY <1>0, <2>2, <3>1, <3>2
    <3>4. Image(b)
      BY <2>1, <3>2, <3>3, ImageExcept
    <3>5. b[s][c] = v
      BY <2>1, <3>2, <3>3, ImageExcept
    <3>6. \A j \in 1..Words : j # c => b[s][j] = a[s][j]
      BY <2>1, <3>2, <3>3, ImageExcept
    <3>7. \A t \in Sectors : t # s => b[t] = a[t]
      BY <2>1, <3>2, <3>3, ImageExcept
    <3>8. QED
      BY <3>1, <3>2, <3>4, <3>5, <3>6, <3>7
  <2>8. \A i \in 1..Words : i < hps.cnt + 1 => image'[hps.lba][i] = <<"new", hps.lba, i>>
    <3>1. TAKE i \in 1..Words
    <3>2. CASE i = c
      BY <2>6, <2>7, <3>2
    <3>3. CASE i # c
      BY <1>1, <1>7, <2>1, <2>7, <3>3
    <3>4. QED
      BY <3>2, <3>3
  <2>9. QED
    BY <1>4, <2>7, <2>8
<1>8. QED
  BY <1>5, <1>6, <1>7

LEMMA StepAtWriteRecv ==
  ASSUME DInv, WorkSide, DiskNext, AtWriteRecv
  PROVE  DInv'
<1>0. /\ OfADisk /\ HpsType /\ BusType /\ ControllerType /\ CounterInv /\ driver'.moved = driver.moved
      /\ intended' = intended /\ Cmd' = Cmd /\ Image(image) /\ Image(intended) /\ DriverType /\ Cmd.op \in DiskOps
      /\ Blocks(Cmd)' = Blocks(Cmd) /\ Start' = Start /\ EdgeOfController /\ EdgeOfBuffer /\ scenario' = scenario
      /\ mgmt_readdata' = NextMgmtReaddata
  BY DEF WorkSide
<1>1. /\ hps.state = "WRITE_RECV" \/ After = "WRITE_WAIT_REQ"
      /\ ide.request = "data" /\ Cmd.op = "WRITE" /\ Located /\ hps.regs.count > 0
      /\ driver.moved = At(Position + 1) /\ hps.lba = SectorOf(Start + Position) /\ Pending(hps.lba)
      /\ NewBlock(Position, Words)
      /\ hps.state = "WRITE_RECV" =>
           /\ hps.cnt > 0 => IF bus.op = "none" THEN mgmt_readdata = buf.word[hps.cnt - 1]
                             ELSE buf.readdata[1 + ((hps.cnt - 1) % 2)] = buf.word[hps.cnt - 1]
           /\ hps.lba \in Sectors => \A i \in 1..Words : i < hps.cnt => image[hps.lba][i] = <<"new", hps.lba, i>>
  BY DEF AtWriteRecv
<1>2. \/ hps.state = "WRITE_RECV"
      \/ hps.state = "WRITE_WAIT_REQ"
      \/ hps.state = "SET_REGS_SEND" /\ hps.cnt = 6 /\ hps.next = "WRITE_WAIT_REQ"
  BY <1>1 DEF After
<1>3. /\ Start \in Int /\ Position \in Nat /\ hps.regs.count \in Nat /\ hps.regs.count = Blocks(Cmd) - Position
      /\ Position < Blocks(Cmd) /\ Blocks(Cmd) \in Nat /\ Words \in Nat \ {0}
  BY <1>1, NextSectors, SizesAssumption
<1>4. PICK k \in Nat : k = Position
  BY <1>3
<1>5. PICK l : l = hps.lba
  OBVIOUS
<1>6. scenario.jitter = FALSE
  BY <1>0, <1>1, Unjittered
<1>a. DOMAIN hps = {"state", "next", "rest", "geometry", "sense", "regs", "args", "cmd", "features", "cnt",
                    "packet", "data", "lba", "irq_pending", "plba", "pleft", "plimit"} /\ hps.cnt \in Nat
  BY <1>0 DEF HpsType
\* It is still at this block.
<1>7. ASSUME SameController, hps'.regs = hps.regs, hps'.geometry = hps.geometry, hps'.lba = hps.lba,
             hps'.state = "WRITE_RECV" \/ After' = "WRITE_WAIT_REQ",
             \A i \in 0..(Words - 1) : buf'.word[i] = buf.word[i],
             \A s \in Sectors : s # l => image'[s] = intended[s],
             hps'.state = "WRITE_RECV" =>
               /\ hps'.cnt > 0 => IF bus'.op = "none" THEN mgmt_readdata' = buf'.word[hps'.cnt - 1]
                                  ELSE buf'.readdata[1 + ((hps'.cnt - 1) % 2)] = buf'.word[hps'.cnt - 1]
               /\ l \in Sectors => \A i \in 1..Words : i < hps'.cnt => image'[l][i] = <<"new", l, i>>
      PROVE  Situation'
  <2>1. Located' /\ Position' = Position
    BY <1>1, <1>7, LocatedStays
  <2>2. NewBlock(k, Words)'
    BY <1>1, <1>4, <1>7, NewBlockStays
  <2>3. Pending(l)'
    BY <1>0, <1>1, <1>5, <1>7 DEF Pending
  <2>4. NewBlock(Position, Words)' /\ Pending(hps.lba)'
    BY <1>4, <1>5, <1>7, <2>1, <2>2, <2>3
  <2>5. /\ ide'.request = "data" /\ Cmd'.op = "WRITE" /\ hps'.regs.count > 0
        /\ driver'.moved = At(Position' + 1) /\ hps'.lba = SectorOf(Start' + Position')
    BY <1>0, <1>1, <1>7, <2>1 DEF SameController
  <2>6. hps'.state = "WRITE_RECV" =>
           /\ hps'.cnt > 0 => IF bus'.op = "none" THEN mgmt_readdata' = buf'.word[hps'.cnt - 1]
                              ELSE buf'.readdata[1 + ((hps'.cnt - 1) % 2)] = buf'.word[hps'.cnt - 1]
           /\ hps'.lba \in Sectors => \A i \in 1..Words : i < hps'.cnt => image'[hps'.lba][i] = <<"new", hps'.lba, i>>
    BY <1>5, <1>7
  <2>7. AtWriteRecv'
    BY <1>7, <2>1, <2>4, <2>5, <2>6 DEF AtWriteRecv, SectorOf, At
  <2>8. QED
    BY <2>7 DEF Situation
<1>b. \A s \in Sectors : s # l => image[s] = intended[s]
  BY <1>1, <1>5 DEF Pending
<1>8. CASE Rest
  <2>1. ASSUME SameController, hps'.state = hps.state, hps'.cnt = hps.cnt, hps'.next = hps.next, image' = image,
               hps'.geometry = hps.geometry, hps'.regs = hps.regs, hps'.lba = hps.lba,
               bus'.op = "none", bus'.addr = bus.addr,
               \A i \in 0..(Words - 1) : buf'.word[i] = buf.word[i]
        PROVE  Situation'
    <3>1. After' = After
      BY <2>1 DEF After
    <3>2. ASSUME hps.state = "WRITE_RECV", hps.cnt > 0
          PROVE  mgmt_readdata' = buf'.word[hps.cnt - 1]
      <4>1. hps.cnt \in 1..Words /\ bus.addr = 15 /\ bus.op # "none" /\ ide.mgmt_cnt = hps.cnt - 1
        BY <1>0, <1>6, <1>8, <3>2 DEF CounterInv, Movers, BusType, Rest
      <4>2. mgmt_readdata' = buf.readdata[1 + (ide.mgmt_cnt % 2)]
        BY <1>0, <2>1, <4>1 DEF NextMgmtReaddata
      <4>3. buf.readdata[1 + ((hps.cnt - 1) % 2)] = buf.word[hps.cnt - 1]
        BY <1>1, <3>2, <4>1
      <4>4. hps.cnt - 1 \in 0..(Words - 1)
        BY <1>3, <4>1
      <4>5. QED
        BY <2>1, <4>1, <4>2, <4>3, <4>4
    <3>3. hps'.state = "WRITE_RECV" =>
            /\ hps'.cnt > 0 => mgmt_readdata' = buf'.word[hps'.cnt - 1]
            /\ l \in Sectors => \A i \in 1..Words : i < hps'.cnt => image'[l][i] = <<"new", l, i>>
      BY <1>1, <1>5, <2>1, <3>2
    <3>4. hps'.state = "WRITE_RECV" =>
            /\ hps'.cnt > 0 => IF bus'.op = "none" THEN mgmt_readdata' = buf'.word[hps'.cnt - 1]
                               ELSE buf'.readdata[1 + ((hps'.cnt - 1) % 2)] = buf'.word[hps'.cnt - 1]
            /\ l \in Sectors => \A i \in 1..Words : i < hps'.cnt => image'[l][i] = <<"new", l, i>>
      BY <2>1, <3>3
    <3>5. hps'.state = "WRITE_RECV" \/ After' = "WRITE_WAIT_REQ"
      BY <1>1, <2>1, <3>1
    <3>6. \A s \in Sectors : s # l => image'[s] = intended[s]
      BY <1>b, <2>1
    <3>7. QED
      BY <1>7, <2>1, <3>4, <3>5, <3>6, Zenon
  <2>2. QED
    BY <1>8, <2>1, SituationRests
<1>9. CASE WRITE_WAIT_REQ
  <2>1. /\ ~hps.rest /\ hps.state = "WRITE_WAIT_REQ" /\ image' = image /\ Clears
        /\ hps' = [hps EXCEPT !.cnt = 0, !.state = "WRITE_RECV"]
    BY <1>1, <1>9 DEF WRITE_WAIT_REQ, Waits, In, clear_bus, Clears
  <2>2. /\ hps'.state = "WRITE_RECV" /\ hps'.cnt = 0 /\ hps'.next = hps.next /\ hps'.rest = hps.rest
        /\ hps'.geometry = hps.geometry /\ hps'.regs = hps.regs /\ hps'.args = hps.args /\ DOMAIN hps' = DOMAIN hps
        /\ hps'.lba = hps.lba
    BY <1>a, <2>1
  <2>3. bus.addr # 15
    BY <1>0, <2>1 DEF CounterInv, Movers
  <2>4. ASSUME SameController PROVE Situation'
    <3>1. \A i \in 0..(Words - 1) : buf'.word[i] = buf.word[i]
      <4>1. bus'.op # "write"
        BY <1>0, <2>1 DEF Clears, BusType
      <4>2. QED
        BY <4>1, WordsStay, SectorWords
    <3>2. ~(hps'.cnt > 0) /\ \A i \in 1..Words : ~(i < hps'.cnt)
      BY <2>2
    <3>3. QED
      BY <1>7, <1>b, <2>1, <2>2, <2>4, <3>1, <3>2
  <2>5. QED
    BY <1>1, <1>a, <2>1, <2>2, <2>3, <2>4, GoesTo
<1>10. CASE SET_REGS_SEND
  <2>1. hps.state = "SET_REGS_SEND"
    BY <1>10 DEF SET_REGS_SEND, In
  <2>2. ~(hps.cnt < 6) /\ hps.next = "WRITE_WAIT_REQ" /\ hps.cnt > 0
    BY <1>2, <2>1
  <2>3. /\ ~hps.rest /\ image' = image /\ Clears
        /\ hps'.rest = FALSE /\ hps'.state = hps.next /\ hps'.cnt = 0 /\ hps'.geometry = hps.geometry /\ HpsType'
        /\ hps'.regs = hps.regs /\ hps'.lba = hps.lba
    BY <1>0, <1>10, <2>2, RegsSent
  <2>4. bus.addr # 15
    BY <1>0, <2>1, <2>2 DEF CounterInv
  <2>5. ASSUME SameController PROVE Situation' /\ GeometryInv'
    <3>1. After' = "WRITE_WAIT_REQ" /\ hps'.state # "WRITE_RECV"
      BY <2>2, <2>3 DEF After
    <3>2. \A i \in 0..(Words - 1) : buf'.word[i] = buf.word[i]
      <4>1. bus'.op # "write"
        BY <1>0, <2>3 DEF Clears, BusType
      <4>2. QED
        BY <4>1, WordsStay, SectorWords
    <3>3. Situation'
      BY <1>7, <1>b, <2>3, <2>5, <3>1, <3>2
    <3>4. QED
      BY <1>1, <2>3, <2>5, <3>3, SameGeometry
  <2>6. hps'.state # "INITIAL" /\ hps'.state \notin Movers /\ Image(image')
    BY <1>0, <2>2, <2>3 DEF Movers
  <2>7. QED
    BY <2>3, <2>4, <2>5, <2>6, WorkClears
<1>11. CASE WRITE_RECV
  <2> DEFINE n == NextSector(hps)
             regs == [n EXCEPT !.count = hps.regs.count - 1]
  <2>1. /\ ~hps.rest /\ hps.state = "WRITE_RECV"
        /\ image' = IF hps.cnt > 0 /\ hps.lba # NoSector
                    THEN [image EXCEPT ![hps.lba][hps.cnt] = mgmt_readdata] ELSE image
        /\ IF hps.cnt < Words THEN pulse_read(15, [hps EXCEPT !.cnt = @ + 1])
           ELSE clear_bus(IF regs.count # 0
                          THEN [hps EXCEPT !.cnt = 0, !.regs = regs, !.state = "WRITE_REGS"]
                          ELSE Ends([hps EXCEPT !.cnt = 0], regs, {"IRQ"}))
    BY <1>11, Zenon DEF WRITE_RECV, In
  <2>2. /\ Image(image') /\ (\A s \in Sectors : s # l => image'[s] = intended[s])
        /\ l \in Sectors => \A i \in 1..Words : i < hps.cnt + 1 => image'[l][i] = <<"new", l, i>>
    BY <1>5, <2>1, StoresWord
  <2>3. hps.state \in Movers /\ hps.cnt \in 0..Words
    BY <1>0, <2>1 DEF CounterInv, Movers
  <2>7. /\ DOMAIN n = DOMAIN PowerOnRegs /\ n.sector \in Int /\ n.cylinder \in Int /\ n.head \in Int
        /\ n.lba = hps.regs.lba /\ n.drv = hps.regs.drv
        /\ hps.regs.count > 1 => get_lba(n, hps.geometry) = Start + (Position + 1)
    BY <1>1, NextSectors
  <2> HIDE DEF n
  <2>4. CASE hps.cnt < Words
    <3>1. /\ bus' = [op |-> "read", addr |-> 15, data |-> Nothing]
          /\ hps' = [[hps EXCEPT !.cnt = @ + 1] EXCEPT !.rest = TRUE]
      BY <2>1, <2>4 DEF pulse_read, Uses
    <3>2. /\ hps'.state = hps.state /\ hps'.cnt = hps.cnt + 1 /\ hps'.next = hps.next /\ hps'.rest = TRUE
          /\ hps'.geometry = hps.geometry /\ hps'.regs = hps.regs /\ hps'.lba = hps.lba /\ HpsType'
      BY <1>0, <2>3, <3>1, MovesOn
    <3>3. /\ BusType' /\ CounterInv' /\ ide'.mgmt_cnt \in 0..(CountLimit - 1) /\ bus'.op = "read" /\ bus'.addr = 15
          /\ Calm /\ ide.mgmt_cnt = hps.cnt /\ bus.op = "none"
      BY <1>0, <2>1, <2>3, <2>4, <3>1, <3>2, MoveStep
    <3>4. PICK c \in 0..(BufWords - 1) : c = hps.cnt /\ c \in 0..(Words - 1)
      BY <1>3, <2>3, <2>4, SizesAssumption, BufferAssumption
    <3>5. \A w \in 0..(BufWords - 1) : buf'.word[w] = buf.word[w]
      BY <3>3, WordsStay
    <3>6. \A i \in 0..(Words - 1) : buf'.word[i] = buf.word[i]
      BY <3>5, SectorWords
    <3>7. buf'.readdata[1 + (c % 2)] = buf'.word[c]
      <4>1. \A half : ~MgmtWrites(half)
        BY <3>3 DEF MgmtWrites, mgmt_wr
      <4>2. \A i \in 1..2 : buf'.readdata[i] = buf.word[Pair(c) + i - 1]
        BY <1>0, <3>3, <3>4, <4>1 DEF EdgeOfBuffer
      <4>3. Pair(c) = c - (c % 2) /\ BufWords \in Nat
        BY <3>4, Pairs, BufferAssumption DEF PairOf
      <4>4. 1 + (c % 2) \in 1..2 /\ Pair(c) + (1 + (c % 2)) - 1 = c
        BY <3>4, <4>3
      <4>5. buf'.readdata[1 + (c % 2)] = buf.word[c]
        BY <4>2, <4>4
      <4>6. QED
        BY <3>4, <3>5, <4>5
    <3>8. hps'.cnt - 1 = c
      BY <1>a, <3>2, <3>4
    <3>9. ASSUME SameController PROVE Situation' /\ GeometryInv'
      <4>1. Situation'
        <5>1. IF bus'.op = "none" THEN mgmt_readdata' = buf'.word[hps'.cnt - 1]
              ELSE buf'.readdata[1 + ((hps'.cnt - 1) % 2)] = buf'.word[hps'.cnt - 1]
          BY <3>3, <3>7, <3>8
        <5>2. l \in Sectors => \A i \in 1..Words : i < hps'.cnt => image'[l][i] = <<"new", l, i>>
          BY <2>2, <3>2
        <5>3. QED
          BY <1>7, <2>1, <2>2, <3>2, <3>6, <3>9, <5>1, <5>2
      <4>2. QED
        BY <1>1, <3>2, <3>9, <4>1, SameGeometry
    <3>10. hps'.state # "INITIAL"
      BY <2>1, <3>2
    <3>11. QED
      BY <2>2, <3>2, <3>3, <3>9, <3>10, WorkGoesOn
  <2>5. CASE ~(hps.cnt < Words)
    <3>1. hps.cnt = Words
      BY <1>3, <2>3, <2>5
    <3>2. image' = intended
      <4>1. \A s \in Sectors : \A i \in 1..Words : image'[s][i] = intended[s][i]
        <5>1. TAKE s \in Sectors
        <5>2. TAKE i \in 1..Words
        <5>3. CASE s # l
          BY <2>2, <5>3
        <5>4. CASE s = l
          <6>1. i < hps.cnt + 1
            BY <1>3, <3>1
          <6>2. image'[l][i] = <<"new", l, i>>
            BY <2>2, <5>4, <6>1
          <6>3. intended[l][i] = <<"new", l, i>>
            BY <1>1, <1>5, <5>4 DEF Pending
          <6>4. QED
            BY <5>4, <6>2, <6>3
        <5>5. QED
          BY <5>3, <5>4
      <4>2. QED
        BY <1>0, <2>2, <4>1, SameImage
    <3>3. /\ DOMAIN regs = DOMAIN PowerOnRegs /\ regs.count = hps.regs.count - 1 /\ regs.sector = n.sector
          /\ regs.cylinder = n.cylinder /\ regs.head = n.head /\ regs.lba = n.lba /\ regs.drv = n.drv
      BY <2>7 DEF PowerOnRegs
    <3> HIDE DEF regs
    <3>4. RegsType(regs)
      BY <1>0, <1>3, <2>7, <3>3 DEF RegsType, HpsType
    <3>5. CASE regs.count # 0
      <4>1. Clears /\ hps' = [hps EXCEPT !.cnt = 0, !.regs = regs, !.state = "WRITE_REGS"]
        BY <2>1, <2>5, <3>5 DEF clear_bus, Clears
      <4>2. /\ hps'.state = "WRITE_REGS" /\ hps'.cnt = 0 /\ hps'.next = hps.next /\ hps'.rest = hps.rest
            /\ hps'.geometry = hps.geometry /\ hps'.regs = regs /\ hps'.args = hps.args /\ DOMAIN hps' = DOMAIN hps
        BY <1>a, <4>1
      <4>3. hps'.rest = FALSE /\ hps'.state \in States /\ hps'.state # "INITIAL" /\ hps'.state \notin Movers
        BY <1>0, <2>1, <4>2 DEF HpsType, States, Movers
      <4>4. HpsType'
        BY <1>0, <3>4, <4>2, <4>3, TypeOfHps DEF HpsType
      <4>5. ASSUME SameController PROVE Situation' /\ GeometryInv'
        <5>1. Position' = Position + 1
          BY <1>0, <1>3, <3>3, <4>2 DEF Position
        <5>2. get_lba(hps'.regs, hps'.geometry) = Start' + Position'
          <6>1. get_lba(regs, hps.geometry) = get_lba(n, hps.geometry)
            BY <3>3 DEF get_lba
          <6>2. hps.regs.count > 1
            BY <1>1, <1>3, <3>3, <3>5
          <6>3. QED
            BY <1>0, <2>7, <4>2, <5>1, <6>1, <6>2
        <5>3. hps'.regs.count \in 0..Blocks(Cmd) /\ hps'.regs.count > 0
          BY <1>1, <1>3, <3>3, <3>5, <4>2
        <5>4. Located'
          BY <1>0, <1>1, <2>7, <3>3, <4>2, <5>2, <5>3 DEF Located
        <5>5. driver'.moved = At(Position')
          BY <1>0, <1>1, <5>1
        <5>6. AtWrite'
          BY <1>0, <1>1, <3>2, <4>2, <5>3, <5>4, <5>5 DEF AtWrite, At
        <5>7. QED
          BY <1>1, <4>2, <4>5, <5>6, SameGeometry DEF Situation
      <4>6. QED
        BY <2>1, <2>2, <4>1, <4>2, <4>3, <4>4, <4>5, WorkClears
    <3>6. CASE regs.count = 0
      <4> DEFINE h == [hps EXCEPT !.cnt = 0]
      <4>1. Clears /\ hps' = Ends(h, regs, {"IRQ"})
        BY <2>1, <2>5, <3>6 DEF clear_bus, Clears
      <4>2. DOMAIN h = DOMAIN hps /\ h.geometry = hps.geometry /\ h.rest = hps.rest /\ h.cnt = 0 /\ h.args = hps.args
        BY <1>a
      <4> HIDE DEF h
      <4>3. /\ DOMAIN hps' = DOMAIN hps /\ hps'.state = "SET_REGS" /\ hps'.next = "IDLE" /\ hps'.rest = hps.rest
            /\ hps'.geometry = hps.geometry /\ hps'.cnt = 0 /\ hps'.args = hps.args
            /\ RegsType(hps'.regs) /\ hps'.regs.status = {"RDY"} \cup {"IRQ"}
        BY <1>0, <3>4, <4>1, <4>2, EndsIn
      <4>4. hps'.rest = FALSE /\ hps'.state \in States /\ hps'.state # "INITIAL" /\ hps'.state \notin Movers
        BY <1>0, <2>1, <4>3 DEF HpsType, States, Movers
      <4>5. HpsType'
        BY <1>0, <4>3, <4>4, TypeOfHps DEF HpsType
      <4>6. ASSUME SameController PROVE Situation' /\ GeometryInv'
        <5>1. Position + 1 = Blocks(Cmd)
          BY <1>3, <3>3, <3>6
        <5>2. ~Refused(Cmd) /\ Due(Cmd) = Blocks(Cmd) * Words
          BY <1>0, <1>1, DiskCommands DEF Located
        <5>3. driver'.moved = Due(Cmd)
          BY <1>0, <1>1, <1>3, <5>1, <5>2 DEF At
        <5>4. (Refused(Cmd)' <=> Refused(Cmd)) /\ Due(Cmd)' = Due(Cmd)
          BY DEF WorkSide
        <5>5. Sends' /\ ~Begun(0)'
          BY <4>3 DEF Sends, Begun
        <5>6. /\ "DRQ" \notin hps'.regs.status /\ "END" \notin hps'.regs.status /\ "BSY" \notin hps'.regs.status
              /\ "ERR" \notin hps'.regs.status
          BY <4>3
        <5>7. AnswersNow'
          BY <4>3, <5>2, <5>3, <5>4, <5>5, <5>6 DEF AnswersNow
        <5>8. AtSends'
          BY <1>0, <1>1, <3>2, <5>5, <5>6, <5>7 DEF AtSends
        <5>9. QED
          BY <1>1, <4>3, <4>6, <5>8, SameGeometry DEF Situation
      <4>7. QED
        BY <2>1, <2>2, <4>1, <4>3, <4>4, <4>5, <4>6, WorkClears
    <3>7. QED
      BY <3>5, <3>6
  <2>6. QED
    BY <2>4, <2>5
<1>12. QED
  BY <1>2, <1>8, <1>9, <1>10, <1>11
     DEF DiskNext, In, INITIAL, IDLE, RESET_SET, GET_RESET_DRIVE, GET_CMD, DO_CMD, SEND_ID, SET_REGS,
     READ, READ_REGS, READ_SEND, READ_WAIT_REQ, WRITE, WRITE_REGS,
     PACKET_WAIT_REQ, PACKET_RECV, PACKET_HANDLE, PACKET_SEND,
     PACKET_READ_WAIT_REQ, Waits

-----------------------------------------------------------------------------
(* It sends the registers.                                                  *)

LEMMA SameLocation ==
  ASSUME WorkSide, Located, SameRegs(hps'.regs, hps.regs), hps'.geometry = hps.geometry
  PROVE  Located' /\ Position' = Position
<1>1. /\ Cmd' = Cmd /\ Blocks(Cmd)' = Blocks(Cmd) /\ Start' = Start
  BY DEF WorkSide
<1>2. /\ hps'.regs.count = hps.regs.count /\ hps'.regs.sector = hps.regs.sector
      /\ hps'.regs.cylinder = hps.regs.cylinder /\ hps'.regs.head = hps.regs.head
      /\ hps'.regs.drv = hps.regs.drv /\ hps'.regs.lba = hps.regs.lba
  BY DEF SameRegs
<1>3. Position' = Position
  BY <1>1, <1>2 DEF Position
<1>4. get_lba(hps'.regs, hps'.geometry) = get_lba(hps.regs, hps.geometry)
  BY <1>2 DEF get_lba
<1>5. QED
  BY <1>1, <1>2, <1>3, <1>4 DEF Located

LEMMA SendsGoOn ==
  ASSUME WorkSide, AtSends, SameRegs(hps'.regs, hps.regs), hps'.next = hps.next, hps'.lba = hps.lba,
         hps'.geometry = hps.geometry, image' = image, Sends', ide'.request = ide.request,
         \A i \in 0..(Words - 1) : buf'.word[i] = buf.word[i],
         Begun(0)' /\ hps.regs.size = 1 /\ (Begun(0) => ide.blk_size = Words) => ide'.blk_size = Words,
         Begun(0)' /\ hps.regs.error = 4 /\ (Begun(0) => ide.error = 4) => ide'.error = 4
  PROVE  AtSends'
<1>0. /\ driver'.moved = driver.moved /\ intended' = intended /\ Cmd' = Cmd
      /\ (Refused(Cmd)' <=> Refused(Cmd)) /\ Due(Cmd)' = Due(Cmd)
  BY DEF WorkSide
<1>1. /\ image = intended /\ "BSY" \notin hps.regs.status /\ (AnswersNow \/ BlockNow)
      /\ (ide.request = "command" \/ Cmd.op \in {"READ", "WRITE"})
  BY DEF AtSends
<1>2. /\ hps'.regs.count = hps.regs.count /\ hps'.regs.size = hps.regs.size /\ hps'.regs.error = hps.regs.error
      /\ "BSY" \in hps'.regs.status <=> "BSY" \in hps.regs.status
      /\ "DRQ" \in hps'.regs.status <=> "DRQ" \in hps.regs.status
      /\ "ERR" \in hps'.regs.status <=> "ERR" \in hps.regs.status
      /\ "END" \in hps'.regs.status <=> "END" \in hps.regs.status
  BY DEF SameRegs
<1>3. CASE AnswersNow
  <2>1. AnswersNow'
    BY <1>0, <1>2, <1>3 DEF AnswersNow
  <2>2. QED
    BY <1>0, <1>1, <1>2, <2>1 DEF AtSends
<1>4. CASE BlockNow
  <2>1. /\ "DRQ" \in hps.regs.status /\ Cmd.op \in {"READ", "WRITE", "IDENTIFY"} /\ Cmd.drv = 0
        /\ hps.regs.size = 1 /\ (Begun(0) => ide.blk_size = Words)
    BY <1>4 DEF BlockNow
  <2>2. Begun(0)' => ide'.blk_size = Words
    BY <2>1
  <2>3. CASE Cmd.op = "IDENTIFY"
    <3>1. "END" \in hps.regs.status /\ hps.next = "IDLE" /\ driver.moved = 0 /\ Loaded(0, Words)
      BY <1>4, <2>3 DEF BlockNow
    <3>2. Loaded(0, Words)'
      BY <3>1, LoadedStays
    <3>3. BlockNow'
      BY <1>0, <1>2, <2>1, <2>2, <2>3, <3>1, <3>2 DEF BlockNow
    <3>4. QED
      BY <1>0, <1>1, <1>2, <3>3 DEF AtSends
  <2>4. CASE Cmd.op = "READ"
    <3>1. /\ Located /\ Position > 0 /\ driver.moved = At(Position - 1) /\ Loaded(Position - 1, Words)
          /\ "END" \in hps.regs.status <=> hps.regs.count = 0
          /\ hps.next = IF hps.regs.count = 0 THEN "IDLE" ELSE "READ_WAIT_REQ"
      BY <1>4, <2>4 DEF BlockNow
    <3>2. Located' /\ Position' = Position
      BY <3>1, SameLocation
    <3>3. PICK k : k = Position - 1
      OBVIOUS
    <3>4. Loaded(k, Words)'
      BY <3>1, <3>3, LoadedStays
    <3>5. Loaded(Position - 1, Words)'
      BY <3>2, <3>3, <3>4
    <3>6. Position' > 0 /\ driver'.moved = At(Position' - 1)
      BY <1>0, <3>1, <3>2
    <3>7. BlockNow'
      BY <1>0, <1>2, <2>1, <2>2, <2>4, <3>1, <3>2, <3>5, <3>6 DEF BlockNow, At
    <3>8. QED
      BY <1>0, <1>1, <1>2, <3>7 DEF AtSends
  <2>5. CASE Cmd.op = "WRITE"
    <3>1. /\ Located /\ hps.regs.count > 0 /\ driver.moved = At(Position)
          /\ "END" \notin hps.regs.status /\ hps.next = "WRITE_WAIT_REQ"
          /\ hps.lba = SectorOf(Start + Position)
      BY <1>4, <2>5 DEF BlockNow
    <3>2. Located' /\ Position' = Position
      BY <3>1, SameLocation
    <3>3. driver'.moved = At(Position') /\ hps'.lba = SectorOf(Start' + Position')
      BY <1>0, <3>1, <3>2 DEF WorkSide
    <3>4. BlockNow'
      BY <1>0, <1>2, <2>1, <2>2, <2>5, <3>1, <3>2, <3>3 DEF BlockNow, At, SectorOf
    <3>5. QED
      BY <1>0, <1>1, <1>2, <3>4 DEF AtSends
  <2>6. QED
    BY <2>1, <2>3, <2>4, <2>5
<1>5. QED
  BY <1>1, <1>3, <1>4

LEMMA GeometryStays ==
  ASSUME WorkSide, hps'.geometry = hps.geometry, Cmd.op # "GEOMETRY" \/ (Obeyed' <=> Obeyed)
  PROVE  GeometryInv'
<1>1. hps.geometry = IF Cmd.op = "GEOMETRY" /\ ~Refused(Cmd) /\ Obeyed THEN SetGeometry(Cmd.count, Cmd.head + 1)
                     ELSE driver.geometry
  BY DEF WorkSide, GeometryInv
<1>2. Cmd' = Cmd /\ driver'.geometry = driver.geometry /\ (Refused(Cmd)' <=> Refused(Cmd))
  BY DEF WorkSide
<1>3. QED
  BY <1>1, <1>2 DEF GeometryInv

\* The last register says what the command has come to: it is over,
LEMMA AnswerSent ==
  ASSUME DInv, WorkSide, AtSends, AnswersNow, ~Sends', After' = "IDLE", image' = image,
         hps'.geometry = hps.geometry, hps.cnt = 5, hps.state = "SET_REGS_SEND",
         ide'.status = hps.regs.status \cap StatusBits, ide'.request = "none",
         ide'.last_read = ("END" \in hps.regs.status), ide'.error = ide.error
  PROVE  GeometryInv' /\ FreeInv' /\ DataInv' /\ ResetInv' /\ WorkInv'
<1>0. /\ driver'.moved = driver.moved /\ intended' = intended /\ Cmd' = Cmd /\ driver'.phase = "wait"
      /\ driver.phase = "wait"
      /\ (Refused(Cmd)' <=> Refused(Cmd)) /\ Due(Cmd)' = Due(Cmd) /\ Cmd.op \in DiskOps
  BY DEF WorkSide
<1>1. /\ "DRQ" \notin hps.regs.status /\ "END" \notin hps.regs.status
      /\ "ERR" \in hps.regs.status <=> Refused(Cmd)
      /\ ~Refused(Cmd) => driver.moved = Due(Cmd)
      /\ Refused(Cmd) => hps.regs.error = 4 /\ (Begun(0) => ide.error = 4)
  BY DEF AnswersNow
<1>2. image = intended /\ "BSY" \notin hps.regs.status /\ (ide.request = "command" \/ Cmd.op \in {"READ", "WRITE"})
      /\ Sends
  BY DEF AtSends
<1>3. /\ "BSY" \notin ide'.status /\ "DRQ" \notin ide'.status
      /\ "ERR" \in ide'.status <=> "ERR" \in hps.regs.status
  BY <1>1, <1>2 DEF StatusBits
<1>4. ide'.last_read = FALSE
  <2>1. ("END" \in hps.regs.status) = FALSE
    BY <1>1
  <2>2. QED
    BY <2>1, Zenon
<1>5. Begun(0)
  BY DEF Begun
<1>6. Answered'
  <2>1. Cmd'.op # "SRST"
    BY <1>0 DEF DiskOps
  <2>2. "ERR" \in ide'.status <=> Refused(Cmd)'
    BY <1>0, <1>1, <1>3
  <2>3. Refused(Cmd)' => ide'.error # 0
    BY <1>0, <1>1, <1>5
  <2>4. ~Refused(Cmd)' => driver'.moved = Due(Cmd)'
    BY <1>0, <1>1
  <2>5. QED
    BY <2>1, <2>2, <2>3, <2>4 DEF Answered
<1>7. Down'
  BY DEF Down
<1>8. image' = intended'
  BY <1>0, <1>2
<1>9. FreeInv' /\ DataInv' /\ ResetInv' /\ WorkInv'
  BY <1>0, <1>3, <1>4, <1>6, <1>7, <1>8 DEF FreeInv, DataInv, ResetInv, WorkInv
<1>10. Cmd.op # "GEOMETRY" \/ (Obeyed' <=> Obeyed)
  BY <1>0, <1>2 DEF Obeyed
<1>11. QED
  BY <1>9, <1>10, GeometryStays

LEMMA Times ==
  ASSUME NEW a \in Nat, NEW b \in Nat
  PROVE  a * b \in Nat
  OBVIOUS

\* or there is a block to move.
LEMMA BlockSent ==
  ASSUME DInv, WorkSide, AtSends, BlockNow, ~Sends', After' = hps.next, image' = image,
         hps'.geometry = hps.geometry, hps'.regs = hps.regs, hps'.lba = hps.lba,
         hps.cnt = 5, hps.state = "SET_REGS_SEND",
         ide'.status = hps.regs.status \cap StatusBits, ide'.request = "none", ide'.old_stb = FALSE,
         ide'.last_read = ("END" \in hps.regs.status), ide'.io_cnt = 0, ide.blk_size = Words => ide'.blk_size = Words,
         \A i \in 0..(Words - 1) : buf'.word[i] = buf.word[i]
  PROVE  GeometryInv' /\ FreeInv' /\ DataInv' /\ ResetInv' /\ WorkInv'
<1>0. /\ driver'.moved = driver.moved /\ intended' = intended /\ Cmd' = Cmd /\ driver'.phase = "wait"
      /\ driver.phase = "wait" /\ Blocks(Cmd)' = Blocks(Cmd) /\ Start' = Start
      /\ Cmd.op \in DiskOps /\ OfADisk /\ DriverType /\ HpsType
  BY DEF WorkSide
<1>1. /\ "DRQ" \in hps.regs.status /\ Cmd.op \in {"READ", "WRITE", "IDENTIFY"} /\ Cmd.drv = 0
      /\ hps.regs.size = 1 /\ (Begun(0) => ide.blk_size = Words)
  BY DEF BlockNow
<1>2. image = intended /\ "BSY" \notin hps.regs.status /\ Sends
  BY DEF AtSends
<1>3. "BSY" \notin ide'.status /\ "DRQ" \in ide'.status
  BY <1>1, <1>2 DEF StatusBits
<1>4. ide'.blk_size = Words /\ Words \in Nat \ {0}
  BY <1>1, SizesAssumption DEF Begun
<1>5. Unit' = 0 /\ driver.moved \in Nat
  BY <1>0 DEF Unit, DriverType
<1>6. image' = intended'
  BY <1>0, <1>2
<1>7. Blocks(Cmd) \in Nat \ {0} /\ hps.regs.count \in Int
  BY <1>0, DiskCommands DEF HpsType, RegsType
<1>a. ("END" \in hps.regs.status) => ide'.last_read = TRUE
  <2>1. ASSUME "END" \in hps.regs.status PROVE ("END" \in hps.regs.status) = TRUE
    BY <2>1
  <2>2. QED
    BY <2>1, Zenon
<1>b. "END" \notin hps.regs.status => ide'.last_read = FALSE
  <2>1. ASSUME "END" \notin hps.regs.status PROVE ("END" \in hps.regs.status) = FALSE
    BY <2>1
  <2>2. QED
    BY <2>1, Zenon
<1>8. ASSUME Software', BlockRead' \/ BlockWritten', Block' \in Nat, driver.moved = At(Block')
      PROVE  Transfer'
  <2>1. Left' = Words
    <3>1. At(Block)' \in Nat
      <4>1. PICK b \in Nat : b = Block'
        BY <1>8
      <4>2. Words * b \in Nat
        <5>1. Words \in Nat
          BY <1>4
        <5>2. QED
          BY <5>1, Times
      <4>3. QED
        BY <4>1, <4>2 DEF At
    <3>2. At(Block)' = driver'.moved
      BY <1>0, <1>8 DEF At
    <3>3. QED
      BY <1>4, <3>1, <3>2 DEF Left
  <2>2. ide'.io_cnt + Unit' = Words - Left' /\ Left' \in 0..Words /\ ide'.io_cnt % 2 = 0 /\ Unit' # 1
    BY <1>4, <1>5, <2>1
  <2>3. Cmd'.op \in {"READ", "WRITE", "IDENTIFY"} /\ Cmd'.drv = 0 /\ driver'.phase = "wait"
    BY <1>0, <1>1
  <2>4. QED
    BY <1>8, <2>1, <2>2, <2>3 DEF Transfer
<1>9. Transfer'
  <2>1. CASE Cmd.op = "IDENTIFY"
    <3>1. "END" \in hps.regs.status /\ hps.next = "IDLE" /\ driver.moved = 0 /\ Loaded(0, Words)
      BY <2>1 DEF BlockNow
    <3>2. Block' = 0 /\ ide'.last_read = TRUE
      BY <1>0, <1>a, <2>1, <3>1 DEF Block
    <3>3. Software'
      BY <1>0, <2>1, <3>1, <3>2 DEF Software, Down
    <3>4. Loaded(0, Words)'
      BY <3>1, LoadedStays
    <3>5. BlockRead'
      BY <1>0, <1>6, <2>1, <3>2, <3>4 DEF BlockRead
    <3>6. driver.moved = At(Block')
      BY <1>4, <3>1, <3>2 DEF At
    <3>7. QED
      BY <1>8, <3>2, <3>3, <3>5, <3>6
  <2>2. CASE Cmd.op = "READ"
    <3>1. /\ Located /\ Position > 0 /\ driver.moved = At(Position - 1) /\ Loaded(Position - 1, Words)
          /\ "END" \in hps.regs.status <=> hps.regs.count = 0
          /\ hps.next = IF hps.regs.count = 0 THEN "IDLE" ELSE "READ_WAIT_REQ"
      BY <2>2 DEF BlockNow
    <3>2. Located' /\ Position' = Position
      BY <3>1, LocatedStays
    <3>3. hps.regs.count \in 0..Blocks(Cmd) /\ Position \in Nat /\ Position = Blocks(Cmd) - hps.regs.count
      BY <1>7, <3>1 DEF Located, Position
    <3>4. PICK k \in Nat : k = Position - 1
      BY <3>1, <3>3
    <3>5. Block' = k
      <4>1. CASE hps.regs.count = 0
        BY <1>0, <1>7, <1>a, <2>2, <3>1, <3>3, <3>4, <4>1 DEF Block
      <4>2. CASE hps.regs.count # 0
        BY <1>0, <1>b, <2>2, <3>1, <3>2, <3>4, <4>2 DEF Block
      <4>3. QED
        BY <4>1, <4>2
    <3>6. Software'
      <4>1. CASE hps.regs.count = 0
        BY <1>0, <1>a, <2>2, <3>1, <4>1 DEF Software, Down
      <4>2. CASE hps.regs.count # 0
        <5>1. hps'.regs.count > 0
          BY <3>3, <4>2
        <5>2. QED
          BY <1>0, <1>b, <2>2, <3>1, <3>2, <4>2, <5>1 DEF Software
      <4>3. QED
        BY <4>1, <4>2
    <3>7. Loaded(k, Words)'
      BY <3>1, <3>4, LoadedStays
    <3>8. Loaded(Block, Words)'
      BY <3>5, <3>7
    <3>9. BlockRead'
      BY <1>0, <1>6, <2>2, <3>8 DEF BlockRead
    <3>10. driver.moved = At(Block')
      BY <3>1, <3>4, <3>5
    <3>11. QED
      BY <1>8, <3>5, <3>6, <3>9, <3>10
  <2>3. CASE Cmd.op = "WRITE"
    <3>1. /\ Located /\ hps.regs.count > 0 /\ driver.moved = At(Position)
          /\ "END" \notin hps.regs.status /\ hps.next = "WRITE_WAIT_REQ"
          /\ hps.lba = SectorOf(Start + Position)
      BY <2>3 DEF BlockNow
    <3>2. Located' /\ Position' = Position
      BY <3>1, LocatedStays
    <3>3. hps.regs.count \in 0..Blocks(Cmd) /\ Position \in Nat
      BY <1>7, <3>1 DEF Located, Position
    <3>4. PICK k \in Nat : k = Position
      BY <3>3
    <3>5. Block' = k
      BY <1>0, <1>b, <2>3, <3>1, <3>2, <3>4 DEF Block
    <3>6. Software'
      BY <1>0, <1>b, <2>3, <3>1, <3>2 DEF Software
    <3>7. driver.moved = At(Block')
      BY <3>1, <3>4, <3>5
    <3>8. Left' = Words
      <4>1. At(Block)' \in Nat
        <5>1. Words * Block' \in Nat
          BY <1>4, <3>5
        <5>2. QED
          BY <5>1 DEF At
      <4>2. At(Block)' = driver'.moved
        BY <1>0, <3>7 DEF At
      <4>3. QED
        BY <1>4, <4>1, <4>2 DEF Left
    <3>9. NewBlock(Block, Words - Left)'
      BY <1>4, <3>8 DEF NewBlock
    <3>10. hps'.lba = SectorOf(Start' + Block')
      BY <1>0, <3>1, <3>4, <3>5
    <3>11. BlockWritten'
      BY <1>0, <1>4, <1>6, <2>3, <3>8, <3>9, <3>10 DEF BlockWritten, SectorOf
    <3>12. QED
      BY <1>8, <3>5, <3>6, <3>7, <3>11
  <2>4. QED
    BY <1>1, <2>1, <2>2, <2>3
<1>10. DataInv'
  BY <1>4, <1>9 DEF DataInv
<1>11. FreeInv' /\ ResetInv' /\ WorkInv'
  BY <1>3 DEF FreeInv, Free, ResetInv, WorkInv
<1>12. GeometryInv'
  BY <1>1, GeometryStays
<1>13. QED
  BY <1>10, <1>11, <1>12

LEMMA SendsRegister ==
  ASSUME DInv, WorkSide, AtSends, SET_REGS_SEND, hps.cnt < 6
  PROVE  DInv'
<1>0. /\ OfADisk /\ HpsType /\ ControllerType /\ BusType /\ ide.present = TRUE /\ driver.phase = "wait"
      /\ driver'.phase = "wait" /\ Image(image) /\ ide.request \in {"command", "data"} /\ Words \in Nat
      /\ BusyDriver /\ BusyController /\ BusyTaskFile /\ EdgeOfController
  BY SizesAssumption DEF WorkSide
<1>1. /\ hps.state = "SET_REGS_SEND" /\ image' = image /\ hps.cnt \in 0..5
      /\ bus' = [op |-> "write", addr |-> hps.cnt, data |-> RegValue(hps.regs, hps.cnt)]
      /\ hps'.state = "SET_REGS_SEND" /\ hps'.cnt = hps.cnt + 1 /\ hps'.next = hps.next
      /\ hps'.geometry = hps.geometry /\ hps'.lba = hps.lba /\ hps'.regs = hps.regs /\ HpsType'
  BY <1>0, SendsReg
<1>2. PICK n \in 0..5 : n = hps.cnt
  BY <1>1
<1>3. /\ BusType' /\ CounterInv' /\ ide'.mgmt_cnt \in 0..(CountLimit - 1) /\ StartInv'
      /\ ide'.present = TRUE
      /\ mgmt_wr(5) => n = 5
      /\ n # 5 => /\ ide'.status = {"BSY"} /\ ide'.last_read = FALSE /\ Sends' /\ ide'.request = ide.request
      /\ n = 5 => /\ ~Sends' /\ After' = hps.next /\ ide'.status = Ready(hps.regs.status)
                  /\ bus'.data[3] = hps.regs.status
                  /\ bus'.data[2] = Address(hps.regs.lba, hps.regs.drv, hps.regs.head)
                  /\ ide'.request = "none" /\ ide'.last_read = ("END" \in hps.regs.status) /\ ide'.io_cnt = 0
      /\ ide'.error = (IF n = 0 THEN hps.regs.error ELSE ide.error)
      /\ n = 0 => ide'.blk_size = hps.regs.size * Words
      /\ ide.blk_size = Words /\ n # 0 => ide'.blk_size = Words
  BY <1>0, <1>2, RegSent
<1>4. /\ image = intended /\ "BSY" \notin hps.regs.status /\ (AnswersNow \/ BlockNow)
  BY DEF AtSends
<1>5. \A i \in 0..(Words - 1) : buf'.word[i] = buf.word[i]
  <2>1. bus'.addr # 15
    BY <1>1, <1>2
  <2>2. QED
    BY <2>1, WordsStay, SectorWords
<1>6. mgmt_wr(5) => "BSY" \notin bus'.data[3] /\ bus'.data[2].drv \in 0..1 /\ bus'.data[2].lba \in BOOLEAN
  <2>1. hps.regs.drv \in 0..1 /\ hps.regs.lba \in BOOLEAN
    BY <1>0 DEF HpsType, RegsType
  <2>2. QED
    BY <1>3, <1>4, <2>1 DEF Address
<1>7. ide'.present = (hps'.state # "INITIAL")
  BY <1>1, <1>3
<1>8. Image(image')
  BY <1>0, <1>1
<1>9. SameRegs(hps'.regs, hps.regs)
  BY <1>1 DEF SameRegs
<1>10. GeometryInv' /\ FreeInv' /\ DataInv' /\ ResetInv' /\ WorkInv'
  <2>1. CASE n # 5
    <3>1. ide'.status = {"BSY"} /\ ide'.last_read = FALSE /\ Sends' /\ ide'.request = ide.request
      BY <1>3, <2>1
    <3>2. (Begun(0)' /\ hps.regs.size = 1 /\ (Begun(0) => ide.blk_size = Words)) => ide'.blk_size = Words
      <4>1. CASE n = 0
        BY <1>0, <1>3, <4>1
      <4>2. CASE n # 0
        <5>1. Begun(0)
          BY <1>1, <1>2, <4>2 DEF Begun
        <5>2. QED
          BY <1>3, <4>2, <5>1
      <4>3. QED
        BY <4>1, <4>2
    <3>3. (Begun(0)' /\ hps.regs.error = 4 /\ (Begun(0) => ide.error = 4)) => ide'.error = 4
      <4>1. CASE n = 0
        BY <1>3, <4>1
      <4>2. CASE n # 0
        <5>1. Begun(0)
          BY <1>1, <1>2, <4>2 DEF Begun
        <5>2. QED
          BY <1>3, <4>2, <5>1
      <4>3. QED
        BY <4>1, <4>2
    <3>4. AtSends'
      BY <1>1, <1>5, <1>9, <3>1, <3>2, <3>3, SendsGoOn
    <3>5. WorkInv'
      BY <1>0, <3>1, <3>4 DEF WorkInv, WorkSide
    <3>6. FreeInv' /\ DataInv' /\ ResetInv'
      BY <1>0, <3>1 DEF FreeInv, Free, DataInv, ResetInv
    <3>7. GeometryInv'
      <4>1. Obeyed' <=> Obeyed
        BY <1>0, <3>1 DEF Obeyed, AtSends
      <4>2. QED
        BY <1>1, <4>1, GeometryStays
    <3>8. QED
      BY <3>5, <3>6, <3>7
  <2>2. CASE n = 5
    <3>1. /\ ~Sends' /\ After' = hps.next /\ ide'.status = Ready(hps.regs.status)
          /\ ide'.request = "none" /\ ide'.last_read = ("END" \in hps.regs.status) /\ ide'.io_cnt = 0
          /\ ide'.error = ide.error /\ (ide.blk_size = Words => ide'.blk_size = Words)
      BY <1>3, <2>2
    <3>2. ide'.status = hps.regs.status \cap StatusBits
      <4>1. mgmt_wr(5)
        BY <1>1, <1>2, <2>2 DEF mgmt_wr
      <4>2. QED
        BY <1>0, <3>1, <4>1 DEF Ready
    <3>3. ide'.old_stb = FALSE
      BY <1>0 DEF BusyController
    <3>4. hps.cnt = 5
      BY <1>2, <2>2
    <3>5. CASE AnswersNow
      <4>1. hps.next = "IDLE"
        BY <3>5 DEF AnswersNow
      <4>2. QED
        BY <1>1, <3>1, <3>2, <3>4, <3>5, <4>1, AnswerSent
    <3>6. CASE BlockNow
      BY <1>1, <1>5, <3>1, <3>2, <3>3, <3>4, <3>6, BlockSent
    <3>7. QED
      BY <1>4, <3>5, <3>6
  <2>3. QED
    BY <2>1, <2>2
<1>11. QED
  BY <1>0, <1>1, <1>3, <1>6, <1>7, <1>8, <1>10, BusyDone

LEMMA SetsRegisters ==
  ASSUME DInv, WorkSide, AtSends, SET_REGS
  PROVE  DInv'
<1>0. /\ OfADisk /\ HpsType /\ BusType /\ Image(image) /\ hps.state # "INITIAL"
  BY DEF WorkSide
<1>1. /\ ~hps.rest /\ hps.state = "SET_REGS" /\ Clears /\ image' = image
      /\ hps'.rest = FALSE /\ hps'.state = "SET_REGS_SEND" /\ hps'.cnt = 0 /\ hps'.next = hps.next
      /\ hps'.geometry = hps.geometry /\ hps'.lba = hps.lba /\ SameRegs(hps'.regs, hps.regs) /\ HpsType'
  BY <1>0, SetsRegs
<1>2. hps'.state # "INITIAL" /\ hps'.state \notin Movers /\ Sends /\ Sends' /\ ~Begun(0)'
  BY <1>1 DEF Movers, Sends, Begun
<1>3. ASSUME SameController PROVE Situation' /\ GeometryInv'
  <2>1. \A i \in 0..(Words - 1) : buf'.word[i] = buf.word[i]
    <3>1. bus'.op # "write"
      BY <1>0, <1>1 DEF Clears, BusType
    <3>2. QED
      BY <3>1, WordsStay, SectorWords
  <2>2. ide'.request = ide.request
    BY <1>3 DEF SameController
  <2>3. AtSends'
    BY <1>1, <1>2, <2>1, <2>2, SendsGoOn
  <2>4. QED
    BY <1>1, <1>2, <1>3, <2>3, SameGeometry DEF Situation
<1>4. QED
  BY <1>0, <1>1, <1>2, <1>3, WorkClears

LEMMA StepAtSends ==
  ASSUME DInv, WorkSide, DiskNext, AtSends
  PROVE  DInv'
<1>0. Sends
  BY DEF AtSends
<1>1. CASE Rest
  <2>1. ASSUME SameController, hps'.state = hps.state, hps'.cnt = hps.cnt, hps'.next = hps.next,
               hps'.geometry = hps.geometry, hps'.regs = hps.regs, hps'.lba = hps.lba, image' = image,
               \A i \in 0..(Words - 1) : buf'.word[i] = buf.word[i]
        PROVE  Situation'
    <3>1. Sends' /\ (Begun(0)' <=> Begun(0))
      BY <1>0, <2>1 DEF Sends, Begun
    <3>2. SameRegs(hps'.regs, hps.regs)
      BY <2>1 DEF SameRegs
    <3>3. ide'.request = ide.request /\ ide'.blk_size = ide.blk_size /\ ide'.error = ide.error
      BY <2>1 DEF SameController
    <3>4. AtSends'
      BY <2>1, <3>1, <3>2, <3>3, SendsGoOn
    <3>5. QED
      BY <3>4 DEF Situation
  <2>2. QED
    BY <1>1, <2>1, SituationRests
<1>2. CASE SET_REGS
  BY <1>2, SetsRegisters
<1>3. CASE SET_REGS_SEND
  <2>1. hps.cnt < 6
    BY <1>0, <1>3 DEF Sends, SET_REGS_SEND, In
  <2>2. QED
    BY <1>3, <2>1, SendsRegister
<1>4. QED
  BY <1>0, <1>1, <1>2, <1>3
     DEF Sends, DiskNext, In, INITIAL, IDLE, RESET_SET, GET_RESET_DRIVE, GET_CMD, DO_CMD, SEND_ID,
     READ, READ_REGS, READ_SEND, READ_WAIT_REQ, WRITE_WAIT_REQ,
     WRITE, WRITE_REGS, WRITE_RECV, PACKET_WAIT_REQ, PACKET_RECV, PACKET_HANDLE, PACKET_SEND,
     PACKET_READ_WAIT_REQ, Waits

-----------------------------------------------------------------------------
(* Every clock.                                                             *)

LEMMA WorkStep ==
  ASSUME DInv, DiskNext, Works, ide.request # "reset"
  PROVE  DInv'
<1>1. WorkSide /\ Situation
  BY WorkSides
<1>2. QED
  BY <1>1, RestStepAtRest, StepAtGetCmd, StepAtDoCmd, StepAtSendId, StepAtRead, StepAtReadSend,
     StepAtWrite, StepAtWriteRecv, StepAtSends DEF Situation

\* The invariant is kept.
LEMMA DiskStep ==
  ASSUME DInv, DiskNext
  PROVE  DInv'
<1>1. Free \/ Wants \/ Works
  BY DEF Free, Wants, Works
<1>2. CASE Works
  BY <1>2, ResetStep, WorkStep
<1>3. QED
  BY <1>1, <1>2, FreeStep, DataStep

\* A word that is read is the word of the image.
LEMMA Reads ==
  ASSUME DInv, DiskNext
  PROVE  ReadsWhatItAskedFor'
<1>0. OfADisk /\ DriverType /\ IoInv /\ FreeInv /\ ResetInv /\ WorkInv /\ DataInv
  BY DEF DInv, TypeInv
<1>1. Port /\ Host /\ scenario' = scenario
  BY EdgeOfClock
<1>2. Untouched => ReadsWhatItAskedFor'
  BY DEF Untouched, ReadsWhatItAskedFor
<1>3. CASE HostQuiet \/ HostAccesses
  BY <1>0, <1>1, <1>2, <1>3, DriverIdles
<1>4. CASE HostBegins
  BY <1>0, <1>1, <1>2, <1>4, DriverBegins
<1>5. CASE HostServed
  <2>1. CASE driver.phase = "wait"
    BY <1>0, <1>1, <1>2, <1>5, <2>1, DriverPolls
  <2>2. CASE driver.phase = "params"
    BY <1>0, <1>1, <1>2, <1>5, <2>2, DriverWrites
  <2>3. CASE driver.phase \in {"reset", "release"}
    BY <1>0, <1>1, <1>2, <1>5, <2>3, DriverResets
  <2>4. CASE driver.phase = "data"
    <3>1. Wants
      BY <1>0, <2>4 DEF Wants, Free, FreeInv, ResetInv, WorkInv
    <3>2. Transfer
      BY <1>0, <2>4, <3>1 DEF DataInv, Wants, Interrupted
    <3>3. Sides
      BY <3>1, DataSides
    <3>4. QED
      BY <1>5, <2>4, <3>1, <3>2, <3>3, TransferMoves
  <2>5. driver.phase # "free"
    <3>1. io.op # "none"
      BY <1>5 DEF HostServed
    <3>2. QED
      BY <1>0, <3>1 DEF IoInv
  <2>6. QED
    BY <1>0, <2>1, <2>2, <2>3, <2>4, <2>5 DEF DriverType
<1>6. QED
  BY <1>1, <1>3, <1>4, <1>5 DEF Host

\* Nothing happens.
LEMMA Stutters ==
  ASSUME DInv, UNCHANGED disk_vars
  PROVE  DInv'
<1>0. /\ io' = io /\ bus' = bus /\ tf' = tf /\ ide' = ide /\ buf' = buf /\ mgmt_readdata' = mgmt_readdata
      /\ hps' = hps /\ image' = image /\ driver' = driver /\ scenario' = scenario /\ intended' = intended
  BY DEF disk_vars, ide_vars
<1>1. TypeInv'
  <2>1. OfADisk' /\ DriverType' /\ HpsType' /\ BusType' /\ ControllerType' /\ Images'
    BY <1>0 DEF DInv, TypeInv, OfADisk, DriverType, HpsType, BusType, ControllerType, Images
  <2>2. QED
    BY <2>1 DEF TypeInv
<1>2. CounterInv' /\ StrobeInv' /\ StartInv' /\ TaskFile'
  BY <1>0 DEF DInv, CounterInv, StrobeInv, StartInv, TaskFile, Held, Cmd
<1>3. IoInv'
  BY <1>0, Zenon DEF DInv, IoInv, IsData, Cmd
<1>4. GeometryInv'
  BY <1>0 DEF DInv, GeometryInv, Obeyed, Sends, Cmd, Refused
<1>5. FreeInv'
  BY <1>0 DEF DInv, FreeInv, Free, Down, After, Answered, Refused, Due, Cmd
<1>6. DataInv'
  <2>1. Transfer => Transfer'
    BY <1>0 DEF Transfer, Block, Left, Unit, Position, Software, Down, After, BlockRead, BlockWritten, Located,
                Loaded, NewBlock, Wanted, Start, First, Pending, Cmd
  <2>2. Interrupted => Interrupted'
    BY <1>0 DEF Interrupted, After
  <2>3. QED
    BY <1>0, <2>1, <2>2 DEF DInv, DataInv
<1>7. ResetInv'
  BY <1>0 DEF DInv, ResetInv, Resets, After, Sends, Begun, Cmd
<1>8. WorkInv'
  <2>1. /\ AtRest => AtRest'
        /\ AtGetCmd => AtGetCmd'
        /\ AtDoCmd => AtDoCmd'
    BY <1>0 DEF AtRest, AtGetCmd, AtDoCmd, Down, After, Held, Reading, Cmd
  <2>2. /\ AtSendId => AtSendId'
        /\ AtRead => AtRead'
        /\ AtReadSend => AtReadSend'
    BY <1>0 DEF AtSendId, AtRead, AtReadSend, After, Loaded, Wanted, Start, First, Located, Position, Cmd
  <2>3. /\ AtWrite => AtWrite'
        /\ AtWriteRecv => AtWriteRecv'
    BY <1>0 DEF AtWrite, AtWriteRecv, After, NewBlock, Pending, Start, First, Located, Position, Cmd
  <2>4. AtSends => AtSends'
    <3>1. AnswersNow => AnswersNow'
      BY <1>0 DEF AnswersNow, Refused, Due, Begun, Cmd
    <3>2. BlockNow => BlockNow'
      BY <1>0 DEF BlockNow, Begun, Loaded, Wanted, Start, First, Located, Position, Cmd
    <3>3. QED
      BY <1>0, <3>1, <3>2 DEF AtSends, Sends, Cmd
  <2>5. QED
    BY <1>0, <2>1, <2>2, <2>3, <2>4 DEF DInv, WorkInv, Cmd
<1>9. QED
  BY <1>1, <1>2, <1>3, <1>4, <1>5, <1>6, <1>7, <1>8 DEF DInv

LEMMA DiskStarts == DiskInit /\ OfADisk => DInv /\ ReadsWhatItAskedFor
<1> SUFFICES ASSUME DiskInit, OfADisk PROVE DInv /\ ReadsWhatItAskedFor
  OBVIOUS
<1>1. /\ io = IoSilent /\ bus = [op |-> "none", addr |-> 0, data |-> Nothing]
      /\ ide = [status |-> {"BSY"}, error |-> 0, last_read |-> FALSE,
            request |-> "reset", irq |-> FALSE, blk_size |-> 0, disable_irq |-> FALSE, sw_reset |-> FALSE, present |-> FALSE,
            io_cnt |-> 0, old_stb |-> FALSE, r_32 |-> FALSE,
            mgmt_cnt |-> 0, old_wr |-> FALSE, old_rd |-> FALSE]
      /\ tf.drv_addr = Address(FALSE, 0, 0)
      /\ image = [s \in Sectors |-> [i \in 1..Words |-> <<"old", s, i>>]] /\ intended = image
      /\ driver = [phase |-> "wait", cmd |-> Srst, step |-> 0, moved |-> 0, left |-> 0, sent |-> FALSE,
                   gap |-> 0, sense |-> 0, geometry |-> Geometry]
      /\ expected = <<>> /\ Geometry \in Geometries
  BY SizesAssumption DEF DiskInit, PortInit, Geometries
<1>2. /\ DOMAIN hps = {"state", "next", "rest", "geometry", "sense", "regs", "args", "cmd", "features", "cnt",
                       "packet", "data", "lba", "irq_pending", "plba", "pleft", "plimit"}
      /\ hps.state = "INITIAL" /\ hps.next = "IDLE" /\ hps.rest = FALSE /\ hps.geometry = Geometry
      /\ hps.regs = PowerOnRegs /\ hps.args = NoArgs /\ hps.cnt = 0
  BY DEF DiskInit
<1>3. DriverType
  BY <1>1 DEF DriverType
<1>4. HpsType
  <2>1. RegsType(PowerOnRegs)
    BY DEF RegsType, PowerOnRegs
  <2>2. DOMAIN NoArgs = {"count", "sector", "cylinder"}
    BY DEF NoArgs
  <2>3. "INITIAL" \in States
    BY DEF States
  <2>4. hps.rest \in BOOLEAN /\ hps.geometry \in Geometries /\ hps.cnt \in Nat /\ hps.state # "SET_REGS_SEND"
    <3>1. hps.rest \in BOOLEAN /\ hps.geometry \in Geometries
      BY <1>1, <1>2, Zenon
    <3>2. QED
      BY <1>2, <3>1
  <2>5. hps.next \in {"IDLE", "RESET_SET", "READ_WAIT_REQ", "WRITE_WAIT_REQ"}
    BY <1>2
  <2>6. QED
    BY <1>2, <2>1, <2>2, <2>3, <2>4, <2>5, Zenon DEF HpsType
<1>5. BusType
  <2>1. (bus.op = "write") = FALSE /\ (bus.op = "read") = FALSE
    BY <1>1
  <2>2. ide.old_wr = (bus.op = "write") /\ ide.old_rd = (bus.op = "read")
    BY <1>1, <2>1, Zenon
  <2>3. /\ DOMAIN bus = {"op", "addr", "data"} /\ bus.op \in {"none", "read", "write"} /\ bus.addr \in 0..15
        /\ bus.op = "none"
    BY <1>1
  <2>4. QED
    BY <1>2, <2>2, <2>3, Zenon DEF BusType
<1>6. ControllerType
  <2>1. 0 \in 0..(CountLimit - 1)
    BY BufferAssumption
  <2>2. (hps.state # "INITIAL") = FALSE /\ (driver.phase = "release") = FALSE
    BY <1>1, <1>2
  <2>3. ide.present = (hps.state # "INITIAL") /\ ide.sw_reset = (driver.phase = "release")
    BY <1>1, <2>2, Zenon
  <2>4. tf.drv_addr.drv = 0 /\ tf.drv_addr.lba = FALSE
    BY <1>1 DEF Address
  <2>5. /\ ide.status = {"BSY"} /\ ide.io_cnt = 0 /\ ide.mgmt_cnt = 0
        /\ ide.old_stb = FALSE /\ ide.r_32 = FALSE /\ ide.last_read = FALSE
    BY <1>1
  <2>6. {"BSY"} \in SUBSET StatusBits /\ 0 \in 0..1 /\ FALSE \in BOOLEAN
    BY DEF StatusBits
  <2>7. QED
    BY <2>1, <2>3, <2>4, <2>5, <2>6, Zenon DEF ControllerType
<1>7. Images
  BY <1>1 DEF Images, Image
<1>8. CounterInv /\ StrobeInv /\ StartInv /\ TaskFile
  BY <1>1, <1>2 DEF CounterInv, StrobeInv, StartInv, TaskFile, Movers, IoSilent
<1>9. IoInv
  BY <1>1 DEF IoInv, IoSilent, Cmd
<1>10. GeometryInv
  BY <1>1, <1>2 DEF GeometryInv, Cmd, Srst
<1>11. FreeInv /\ DataInv /\ WorkInv
  BY <1>1 DEF FreeInv, Free, DataInv, WorkInv
<1>12. ResetInv
  BY <1>1, <1>2 DEF ResetInv, Resets, After, Cmd
<1>13. ReadsWhatItAskedFor
  BY <1>1 DEF ReadsWhatItAskedFor
<1>14. QED
  BY <1>3, <1>4, <1>5, <1>6, <1>7, <1>8, <1>9, <1>10, <1>11, <1>12, <1>13 DEF DInv, TypeInv

LEMMA FreeAtTheEnd ==
  ASSUME DInv, driver.phase = "free"
  PROVE  Free
  BY DEF DInv, Free, DataInv, Interrupted, Transfer, ResetInv, WorkInv

\* What DInv says of a command that has ended.
LEMMA AnswersInvariant ==
  ASSUME DInv
  PROVE  WritesReachTheImage /\ AnswersThisCommand
<1> SUFFICES ASSUME driver.phase = "free"
             PROVE  image = intended /\ AnswersThisCommand
  BY DEF WritesReachTheImage, AnswersThisCommand
<1>1. image = intended /\ Answered
  BY FreeAtTheEnd DEF DInv, FreeInv
<1>2. OfADisk /\ DriverType
  BY DEF DInv, TypeInv
<1>3. Refused(Cmd) <=> Cmd.drv # 0 \/ Cmd.op = "OTHER"
  BY <1>2, DiskCommands
<1>4. Cmd.op # "DEVICE_RESET" /\ scenario.cdrom = FALSE
  BY <1>2, DiskCommands DEF OfADisk
<1>5. ("ERR" \in ide.status) = Refused(Cmd)
  <2>1. "ERR" \in ide.status <=> Refused(Cmd)
    BY <1>1 DEF Answered
  <2>2. Refused(Cmd) \in BOOLEAN
    BY DEF Refused
  <2>3. QED
    BY <2>1, <2>2
<1>6. QED
  BY <1>1, <1>4, <1>5 DEF AnswersThisCommand, Answered, Cmd

LEMMA DiskInvariant == DiskSpec /\ OfADisk => [](DInv /\ ReadsWhatItAskedFor)
<1>1. DInv /\ ReadsWhatItAskedFor /\ [DiskNext]_disk_vars => (DInv /\ ReadsWhatItAskedFor)'
  <2> SUFFICES ASSUME DInv, ReadsWhatItAskedFor, [DiskNext]_disk_vars
               PROVE  DInv' /\ ReadsWhatItAskedFor'
    OBVIOUS
  <2>1. CASE DiskNext
    BY <2>1, DiskStep, Reads
  <2>2. CASE UNCHANGED disk_vars
    <3>1. ReadsWhatItAskedFor'
      BY <2>2 DEF disk_vars, ide_vars, ReadsWhatItAskedFor
    <3>2. QED
      BY <2>2, <3>1, Stutters
  <2>3. QED
    BY <2>1, <2>2
<1>2. QED
  BY <1>1, DiskStarts, PTL DEF DiskSpec

\* What the driver of a disk reads is what its command asked for, the words of the image or
\* of the identity, in order and each once: for every geometry, addressing and number of
\* sectors, resets in the middle of a block, accesses of one or two words and any rests
\* (READ_REGS, READ_SEND and SEND_ID of HpsIde, the buffer of ide.v).
THEOREM ReadsTheImage == DiskSpec /\ OfADisk => []ReadsWhatItAskedFor
  BY DiskInvariant, PTL

\* When a command of the disk is over, the image is what the complete blocks make of it: no
\* word is lost, shifted or stored in another sector, and a block that a reset cuts off is
\* not stored (WRITE_REGS, WRITE_RECV).
THEOREM WritesStored == DiskSpec /\ OfADisk => []WritesReachTheImage
<1>1. DInv => WritesReachTheImage
  BY AnswersInvariant
<1>2. QED
  BY <1>1, DiskInvariant, PTL

\* When the disk is ready again, the status is the answer to this command: an error if and
\* only if it was refused, otherwise all of its data has been moved, and a reset leaves the
\* signature of the selected drive (DO_CMD, SET_REGS_SEND, GET_RESET_DRIVE).
THEOREM DiskCommandsAnswered == DiskSpec /\ OfADisk => []AnswersThisCommand
<1>1. DInv => AnswersThisCommand
  BY AnswersInvariant
<1>2. QED
  BY <1>1, DiskInvariant, PTL

=============================================================================
