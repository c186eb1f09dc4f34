------------------------------- MODULE MCDma -------------------------------
(* Small instances of Dma: what the CPU does to the controllers.            *)
EXTENDS Dma

Bytes(op, c, v) ==
  <<[op |-> op, ch |-> c, byte |-> v % Radix], [op |-> op, ch |-> c, byte |-> v \div Radix]>>
Mode(c, transfer, auto, dec) ==
  <<[op |-> "mode", ch |-> c, transfer |-> transfer, auto |-> auto, dec |-> dec]>>
Mask(c, set) == <<[op |-> "mask", ch |-> c, set |-> set]>>
Request(c) == <<[op |-> "request", ch |-> c, set |-> TRUE]>>
OnChip(op, k) == <<[op |-> op, chip |-> k]>>
Page(c, p) == <<[op |-> "page", ch |-> c, page |-> p]>>

\* Program channel c: whole registers, then enable it.
SetUp(c, address, count, transfer, auto, dec) ==
  Mode(c, transfer, auto, dec) \o OnChip("clear_flip_flop", ChipOf(c))
    \o Bytes("address", c, address) \o Bytes("count", c, count) \o Page(c, 1) \o Mask(c, FALSE)

\* Enable the slave: unmask channel 4 of the master and nothing else.
Cascade == <<[op |-> "mask_all", chip |-> 1, masked |-> Channels]>>

\* The sound card's two channels and the floppy's: 5 is 16 bits wide.
DriverPrograms == {
  Cascade \o SetUp(1, 2, 1, 2, TRUE, FALSE) \o SetUp(5, 1, 2, 2, FALSE, TRUE),
  Cascade \o SetUp(5, 3, 1, 1, TRUE, FALSE)
    \o SetUp(1, 1, 1, 1, FALSE, FALSE) \o OnChip("status", 0) \o OnChip("read", 0) \o Mask(1, FALSE) }

\* The same controllers, reset, masked and disabled at any moment.
RaceProgram ==
  OnChip("clear_mask", 1) \o OnChip("clear_mask", 0) \o Mode(1, 2, FALSE, FALSE)
    \o Mode(2, 1, TRUE, FALSE) \o Request(2) \o OnChip("master_clear", 0)
    \o OnChip("clear_mask", 0) \o <<[op |-> "disable", chip |-> 0, value |-> TRUE]>>

AllScenarios ==
  {[program |-> p, careful |-> TRUE, devices |-> {1, 5}, data |-> Data] : p \in DriverPrograms}
    \cup {[program |-> RaceProgram, careful |-> FALSE, devices |-> {1, 2}, data |-> {CHOOSE d \in Data : TRUE}]}

=============================================================================
