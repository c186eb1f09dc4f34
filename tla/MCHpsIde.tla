------------------------------ MODULE MCHpsIde ------------------------------
(* Small instances: sectors of two words, task-file bytes of three values,  *)
(* an image of five sectors with two per track and two heads, so that LBA   *)
(* carries from sector to cylinder after three sectors, CHS to the next     *)
(* head after two and to the next cylinder after four.                      *)
EXTENDS HpsIde

FourPerCylinder == [spt |-> 2, heads |-> 2]

\* A driver that polls moves two words at a time.
Cmd(op, irq) == [Srst EXCEPT !.op = op, !.irq = irq, !.wide = ~irq]
ByLba(op, sector, cylinder, count, irq) ==
  [Cmd(op, irq) EXCEPT !.lba = TRUE, !.sector = sector, !.cylinder = cylinder, !.count = count]
ByChs(op, cylinder, head, sector, count, irq) ==
  [Cmd(op, irq) EXCEPT !.cylinder = cylinder, !.head = head, !.sector = sector, !.count = count]
Packet(op, lba, length, limit, irq) ==
  [Cmd("PACKET", irq) EXCEPT !.cylinder = limit,
     !.packet = << <<"op", op, 0>>, <<"lba", lba, 0>>, <<"length", length, 0>>, <<"pad", 0, 0>> >>]

Scenario(cdrom, jitter, commands) == [cdrom |-> cdrom, jitter |-> jitter, commands |-> commands]

(* A disk: reads and writes that carry in every way, that are interrupted   *)
(* by a reset, a count of 0 and the end of the image, a new geometry.       *)
Disk ==
  {Scenario(FALSE, FALSE, c) : c \in
     {{ByLba("READ", 2, 0, 2, TRUE), ByChs("WRITE", 0, 1, 2, 2, TRUE), Srst},
      {ByChs("READ", 0, 0, 2, 0, FALSE), ByLba("WRITE", 1, 1, 2, FALSE),
       [Cmd("GEOMETRY", TRUE) EXCEPT !.count = 1, !.head = 1]},
      {Cmd("IDENTIFY", TRUE), Cmd("RECALIBRATE", FALSE), Cmd("VERIFY", TRUE), Cmd("OTHER", FALSE),
       [ByLba("READ", 0, 0, 1, TRUE) EXCEPT !.drv = 1], Srst}}}

(* A CD.  Responses are not empty, and one holds at least one sector.  A    *)
(* read of several responses that a reset or the end of the image cuts      *)
(* short is followed by commands without a response, or by another read.    *)
Cd ==
  {Scenario(TRUE, FALSE, c) : c \in
     {{Packet("READ", 2, 3, 0, TRUE), Packet("READ", 4, 2, 0, TRUE), Packet("READY", 0, 0, 0, FALSE), Srst},
      {Packet("READ", 1, 2, 0, TRUE), Packet("SENSE", 0, 2, 0, FALSE), Packet("INQUIRY", 0, 2, 0, TRUE), Srst},
      {Packet("READ", 0, 2, 3, FALSE), Packet("OTHER", 0, 0, 0, FALSE), Packet("READY", 0, 0, 0, TRUE),
       Packet("INQUIRY", 0, 1, 0, TRUE), Packet("SENSE", 0, 2, 0, TRUE)},
      {[Packet("READY", 0, 0, 0, FALSE) EXCEPT !.features = 1], Cmd("IDENTIFY_PACKET", TRUE),
       Cmd("IDENTIFY", FALSE), Cmd("DEVICE_RESET", FALSE), Cmd("FEATURES", TRUE),
       Packet("SENSE", 0, 1, 0, TRUE)}}}

\* A CD whose driver asks for a response after a read that was refused, or cut short.
LeftoverScenarios ==
  {Scenario(TRUE, FALSE, c) : c \in
     {{Packet("READ", 4, 2, 0, TRUE), Packet("SENSE", 0, 2, 0, FALSE)},
      {Packet("READ", 2, 3, 0, TRUE), Packet("INQUIRY", 0, 2, 0, TRUE), Srst}}}

\* A disk with jitter that is only read.
JitterReads == {Scenario(FALSE, TRUE, {ByLba("READ", 2, 0, 2, TRUE), Cmd("IDENTIFY", FALSE)})}
AllScenarios == Disk \cup Cd \cup JitterReads

\* A disk with jitter that is written.
JitterScenarios == {Scenario(FALSE, TRUE, {ByChs("WRITE", 0, 1, 2, 1, TRUE)})}

=============================================================================
