---------------------------- MODULE InputPorts ----------------------------
(* The keyboard and the mouse of the simulator (src/verilator/main.cpp): the  *)
(* queues that key presses, motion, control commands and scheduled events     *)
(* fill, the paced feeding of the two ports once a clock, the handshake by    *)
(* which the commands of the machine reach handle_kbd_host_cmd(), and the     *)
(* keyboard's serial port (src/src/common/ps2_device.v) with the keyboard     *)
(* controller's side of a command (src/src/soc/ps2.v).                        *)
EXTENDS Integers, Sequences

CONSTANTS Commands,        \* bytes the machine writes to the keyboard
          Moves,           \* motions of the mouse: [x, y, buttons]
          LIMIT,           \* the largest motion of a packet (127 in the code)
          KBD_GAP, MOUSE_GAP,    \* clocks between two bytes (100000 and 20000)
          FIFO_SIZE,             \* 2^PS2_FIFO_BITS
          MAX_KEYS, MAX_COMMANDS, MAX_MOVES,   \* bounds of the model
          None             \* no byte under way

ASSUME InputPortsAssumption ==
  /\ Commands \subseteq 0..255 /\ Moves \subseteq [x : Int, y : Int, buttons : 0..7]
  /\ LIMIT \in 1..127 /\ KBD_GAP \in Nat /\ MOUSE_GAP \in Nat /\ FIFO_SIZE \in Nat \ {0, 1}
  /\ MAX_KEYS \in Nat /\ MAX_COMMANDS \in Nat /\ MAX_MOVES \in Nat /\ None \notin 0..255

VARIABLES
  at,         \* the part of the clock that comes next: "pre", "edge" or "post"
  host,       \* the program's keyboard: [queue, since, busy, clear_pending, cmd, arg, scan_set]
  port,       \* what it drives: [data, valid, clear]
  dev,        \* ps2_device: [fifo, has_data, data, tx, rx, overrun]
  full,       \* ps2.v, status_inputbufferfull: a command is not yet answered
  commands,   \* the commands the device has received
  handled,    \* those that handle_kbd_host_cmd() was called for
  keys,       \* keys pressed and released
  mouse,      \* the program's mouse: [queue, since, got], what its port was given
  moved       \* the motions asked for

vars == <<at, host, port, dev, full, commands, handled, keys, mouse, moved>>

Init ==
  /\ at = "pre"
  /\ host = [queue |-> <<>>, since |-> 0, busy |-> FALSE, clear_pending |-> FALSE,
             cmd |-> 0, arg |-> FALSE, scan_set |-> 2]
  /\ port = [data |-> 0, valid |-> FALSE, clear |-> FALSE]
  /\ dev = [fifo |-> <<>>, has_data |-> FALSE, data |-> 0, tx |-> None, rx |-> None,
            overrun |-> FALSE]
  /\ full = FALSE /\ commands = <<>> /\ handled = <<>> /\ keys = 0
  /\ mouse = [queue |-> <<>>, since |-> 0, got |-> <<>>] /\ moved = <<>>

-----------------------------------------------------------------------------
(* What fills the queues between two clocks: the window's events, the lines of *)
(* the control socket, the events of the command line.                        *)

\* queue_sdl_key(): a code when a key is pressed, F0 and the code when it is released.
KeyCode == 28
QueueKey(pressed) ==
  /\ at = "pre" /\ keys < MAX_KEYS /\ keys' = keys + 1
  /\ host' = [host EXCEPT !.queue = @ \o (IF pressed THEN <<KeyCode>> ELSE <<240, KeyCode>>)]
  /\ UNCHANGED <<at, port, dev, full, commands, handled, mouse, moved>>

Clamp(d) == IF d > LIMIT THEN LIMIT ELSE IF d < -LIMIT THEN -LIMIT ELSE d

\* encode_mouse_packets(): a first byte with the buttons and the signs, and two of the motion.

\* Mutant: the signs of the two motions are swapped.
Packet_Swapped(x, y, buttons) ==
  <<[buttons |-> buttons, x_sign |-> y < 0, y_sign |-> x < 0], x % 256, y % 256>>

Packet(x, y, buttons) ==
  <<[buttons |-> buttons, x_sign |-> x < 0, y_sign |-> y < 0], x % 256, y % 256>>

Motions == [x : Int, y : Int, buttons : 0..7]
encode_mouse_packets[m \in Motions] ==
  LET x == Clamp(m.x)  y == Clamp(m.y)
      rest == [x |-> m.x - x, y |-> m.y - y, buttons |-> m.buttons]
  IN Packet(x, y, m.buttons)
       \o (IF rest.x = 0 /\ rest.y = 0 THEN <<>> ELSE encode_mouse_packets[rest])

QueueMouse(m) ==
  /\ at = "pre" /\ Len(moved) < MAX_MOVES
  /\ moved' = Append(moved, m)
  /\ mouse' = [mouse EXCEPT !.queue = @ \o encode_mouse_packets[m]]
  /\ UNCHANGED <<at, host, port, dev, full, commands, handled, keys>>

-----------------------------------------------------------------------------
(* A clock of the main loop.                                                  *)

Later(since, gap) == IF since > gap THEN since ELSE since + 1

\* keyboard_send_pre(): a byte goes to the port when no command is being handled and the
\* last byte is long enough ago.

\* Mutant: bytes go out while a command is being handled.
SendsKey_Busy == host.since > KBD_GAP /\ host.queue # <<>>

SendsKey == ~host.busy /\ host.since > KBD_GAP /\ host.queue # <<>>

KeyboardSendPre ==
  /\ port' = [data |-> IF SendsKey THEN Head(host.queue) ELSE port.data,
              valid |-> SendsKey, clear |-> host.clear_pending]
  /\ host' = [host EXCEPT !.queue = IF SendsKey THEN Tail(@) ELSE @,
                          !.since = IF SendsKey THEN 0 ELSE @]

MouseSendPre ==
  LET sends == mouse.since > MOUSE_GAP /\ mouse.queue # <<>> IN
  mouse' = IF sends THEN [queue |-> Tail(mouse.queue), since |-> 0,
                          got |-> Append(mouse.got, Head(mouse.queue))]
           ELSE mouse

Pre ==
  /\ at = "pre" /\ at' = "edge" /\ KeyboardSendPre /\ MouseSendPre
  /\ UNCHANGED <<dev, full, commands, handled, keys, moved>>

\* The device at the rising edge: it takes a byte unless a command waits to be read, and
\* its serial side may start or end a byte in either direction. At the end of a command
\* the queued bytes are dropped. A FIFO that is filled up reads as empty.
Taken == IF port.valid /\ ~dev.has_data THEN <<port.data>> ELSE <<>>
Filled(fifo) == IF Len(fifo) = FIFO_SIZE THEN <<>> ELSE fifo
HasData == dev.has_data /\ ~port.clear

Idle ==
  /\ dev' = [dev EXCEPT !.fifo = Filled(@ \o Taken), !.has_data = HasData,
                        !.overrun = @ \/ Len(dev.fifo \o Taken) = FIFO_SIZE]
  /\ UNCHANGED <<full, commands>>

StartByte ==
  /\ dev.tx = None /\ dev.rx = None /\ dev.fifo # <<>>
  /\ dev' = [dev EXCEPT !.fifo = Tail(@) \o Taken, !.has_data = HasData, !.tx = Head(dev.fifo)]
  /\ UNCHANGED <<full, commands>>

\* The controller has the byte: a command that it sent before counts as answered.
EndByte ==
  /\ dev.tx # None
  /\ dev' = [dev EXCEPT !.fifo = Filled(@ \o Taken), !.has_data = HasData, !.tx = None,
                        !.overrun = @ \/ Len(dev.fifo \o Taken) = FIFO_SIZE]
  /\ full' = FALSE /\ UNCHANGED commands

StartCommand(c) ==
  /\ dev.tx = None /\ dev.rx = None /\ ~full /\ Len(commands) < MAX_COMMANDS
  /\ dev' = [dev EXCEPT !.fifo = Filled(@ \o Taken), !.has_data = HasData, !.rx = c,
                        !.overrun = @ \/ Len(dev.fifo \o Taken) = FIFO_SIZE]
  /\ full' = TRUE /\ UNCHANGED commands

EndCommand ==
  /\ dev.rx # None
  /\ dev' = [dev EXCEPT !.fifo = <<>>, !.has_data = TRUE, !.data = dev.rx, !.rx = None]
  /\ commands' = Append(commands, dev.rx) /\ UNCHANGED full

Serial == StartByte \/ EndByte \/ EndCommand

Edge(serial) ==
  /\ at = "edge" /\ at' = "post" /\ serial
  /\ UNCHANGED <<host, port, handled, keys, mouse, moved>>

\* handle_kbd_host_cmd()
TakesArgument == {240, 243, 237}

\* Mutant: an argument that is not known is not answered.
Replies_Silent(c) ==
  IF ~host.arg THEN
    CASE c = 255 -> <<250, 170>>
      [] c = 242 -> <<250, 171, 131>>
      [] c = 238 -> <<238>>
      [] c \in TakesArgument \cup {246, 244, 245, 250} -> <<250>>
      [] OTHER -> <<254>>
  ELSE IF host.cmd = 240 THEN
    IF c > 3 THEN <<>> ELSE IF c = 0 THEN <<250, host.scan_set>> ELSE <<250>>
  ELSE <<250>>

Replies(c) ==
  IF ~host.arg THEN
    CASE c = 255 -> <<250, 170>>
      [] c = 242 -> <<250, 171, 131>>
      [] c = 238 -> <<238>>
      [] c \in TakesArgument \cup {246, 244, 245, 250} -> <<250>>
      [] OTHER -> <<254>>
  ELSE IF host.cmd = 240 THEN
    IF c > 3 THEN <<254>> ELSE IF c = 0 THEN <<250, host.scan_set>> ELSE <<250>>
  ELSE <<250>>

ScanSet(c) ==
  IF ~host.arg /\ c \in {255, 246} THEN 2
  ELSE IF host.arg /\ host.cmd = 240 /\ c \in 1..3 THEN c ELSE host.scan_set

Handled(c) ==
  [host EXCEPT !.queue = @ \o Replies(c), !.scan_set = ScanSet(c),
               !.arg = ~@ /\ c \in TakesArgument,
               !.cmd = IF ~host.arg /\ c \in TakesArgument THEN c ELSE 0]

Aged(h) == [h EXCEPT !.since = Later(@, KBD_GAP)]

\* keyboard_observe_post(): a command is handled when it is first seen, and the device told
\* to forget it until it has.
\* Mutant: the program does not remember that it has handled the command.
KeyboardObservePost_Forgets ==
  /\ at = "post" /\ at' = "pre"
  /\ mouse' = [mouse EXCEPT !.since = Later(@, MOUSE_GAP)]
  /\ port' = [port EXCEPT !.valid = FALSE]
  /\ IF dev.has_data /\ ~host.busy
     THEN /\ host' = [Aged(Handled(dev.data)) EXCEPT !.clear_pending = TRUE]
          /\ handled' = Append(handled, dev.data)
     ELSE /\ host' = IF ~dev.has_data /\ host.busy
                     THEN [Aged(host) EXCEPT !.busy = FALSE, !.clear_pending = FALSE]
                     ELSE Aged(host)
          /\ UNCHANGED handled
  /\ UNCHANGED <<dev, full, commands, keys, moved>>

KeyboardObservePost ==
  /\ at = "post" /\ at' = "pre"
  /\ mouse' = [mouse EXCEPT !.since = Later(@, MOUSE_GAP)]
  /\ port' = [port EXCEPT !.valid = FALSE]
  /\ IF dev.has_data /\ ~host.busy
     THEN /\ host' = [Aged(Handled(dev.data)) EXCEPT !.busy = TRUE, !.clear_pending = TRUE]
          /\ handled' = Append(handled, dev.data)
     ELSE /\ host' = IF ~dev.has_data /\ host.busy
                     THEN [Aged(host) EXCEPT !.busy = FALSE, !.clear_pending = FALSE]
                     ELSE Aged(host)
          /\ UNCHANGED handled
  /\ UNCHANGED <<dev, full, commands, keys, moved>>

Next ==
  \/ \E pressed \in BOOLEAN : QueueKey(pressed)
  \/ \E m \in Moves : QueueMouse(m)
  \/ Pre
  \/ Edge(Idle) \/ Edge(Serial) \/ \E c \in Commands : Edge(StartCommand(c))
  \/ KeyboardObservePost

Spec == Init /\ [][Next]_vars

\* The loop goes on; the machine reads what it is sent, so that a byte that may move on the
\* serial line does in the end.
Clock == Pre \/ Edge(Idle) \/ Edge(Serial) \/ KeyboardObservePost
FairSpec == Spec /\ WF_vars(Clock) /\ SF_vars(Edge(Serial))

-----------------------------------------------------------------------------
(* What is promised.                                                         *)

\* Every command that the device received was handled once and in order, but for one that
\* the next look at the port will see (keyboard_observe_post and keyboard_send_pre in
\* main.cpp; has_data in ps2_device.v).
CommandsHandledOnce ==
  commands = IF dev.has_data /\ ~host.busy THEN Append(handled, dev.data) ELSE handled

\* The port refuses no byte: none is presented while the device holds a command, when it
\* would be dropped without a trace (ps2_device.v, we && !has_data).
NoByteRefused == at = "edge" /\ port.valid => ~dev.has_data

\* What the mouse's port was given and what is still queued are packets that add up to the
\* motions asked for, for each state of the buttons, none larger than a packet can tell
\* (encode_mouse_packets and mouse_send_pre in main.cpp).
Signed(byte, sign) == byte - (IF sign THEN 256 ELSE 0)
Stream == mouse.got \o mouse.queue
PacketsOf(stream) == [i \in 1..(Len(stream) \div 3) |->
  LET flags == stream[3 * i - 2] IN
  [buttons |-> flags.buttons, x |-> Signed(stream[3 * i - 1], flags.x_sign),
   y |-> Signed(stream[3 * i], flags.y_sign)]]
Amount(motions, i, axis, b) ==
  IF i \in DOMAIN motions /\ motions[i].buttons = b THEN motions[i][axis] ELSE 0
Sums(motions, axis, b) ==
  LET sum[i \in Nat] == IF i = 0 THEN 0 ELSE sum[i - 1] + Amount(motions, i, axis, b)
  IN sum
Sum(motions, axis, b) == Sums(motions, axis, b)[Len(motions)]

MotionConserved ==
  LET packets == PacketsOf(Stream) IN
  /\ Len(Stream) % 3 = 0
  /\ \A i \in DOMAIN packets, axis \in {"x", "y"} : packets[i][axis] \in -LIMIT..LIMIT
  /\ \A b \in 0..7, axis \in {"x", "y"} : Sum(packets, axis, b) = Sum(moved, axis, b)

\* A command is answered in the end, so that the machine can write another.
CommandsAnswered == full ~> (~full \/ dev.overrun)
=============================================================================
