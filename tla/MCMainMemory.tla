---------------------------- MODULE MCMainMemory ----------------------------
(* Small instances: two dwords of RAM and of the VGA window, which makes a  *)
(* bank of the framebuffer two dwords packed and eight with the planes.     *)
EXTENDS MainMemory

Request(region, loc, be, write, data, burst) ==
  [region |-> region, loc |-> loc, be |-> be, write |-> write, data |-> data, burst |-> burst]
Read(region, loc, be, burst) == Request(region, loc, be, FALSE, 0, burst)
Write(region, loc, be, data) == Request(region, loc, be, TRUE, data, 1)

\* Runs of adjacent bytes, which is what the CPU enables.
AdjacentBytes == {i..j : i, j \in Lanes} \ {{}}

BusRequests ==
  {Read("ram", 0, Lanes, n) : n \in {0, 2}} \cup {Write("ram", 1, {1, 2}, 1)}
  \cup {Read("unmapped", 0, Lanes, n) : n \in {0, 1, 4}} \cup {Write("unmapped", 0, Lanes, 1)}
  \cup {Read("vga", 0, be, 1) : be \in AdjacentBytes}
  \cup {Write("vga", 0, be, d) : be \in AdjacentBytes, d \in {1}}

FramebufferRequests ==
  {Read("vga", l, {i}, 1) : l \in 0..1, i \in {0, 3}}
  \cup {Write("vga", l, {i}, d) : l \in 0..1, i \in {0, 3}, d \in {1}}
  \cup {Read("ram", 0, Lanes, 1)}

\* A word that the CPU stores, and the reads of its bytes.
WordRequests == {Write("vga", 0, {0, 1}, 1)} \cup {Read("vga", 0, {i}, 1) : i \in {0, 1}}

Mode(fb_en, chain4, mask, plane, latched, wr, rd) ==
  [fb |-> fb_en, chain4 |-> chain4, mask |-> mask, plane |-> plane, latched |-> latched,
   wr_bank |-> wr, rd_bank |-> rd]
Text == Mode(FALSE, FALSE, {}, 0, FALSE, 0, 0)
Packed(wr, rd) == Mode(TRUE, TRUE, {}, 0, FALSE, wr, rd)
Pixels(mask, plane, latched) == Mode(TRUE, FALSE, mask, plane, latched, 0, 0)

BusModes == {Text, Packed(0, 0)}
FramebufferModes == {Packed(1, 0), Pixels({1, 3}, 1, FALSE), Pixels(Planes, 2, TRUE)}
PixelModes == {Pixels(Planes, 1, FALSE)}

Scenario(requests, modes, count) == [requests |-> requests, modes |-> modes, count |-> count]

\* Every path, with the text mode and packed pixels; and the framebuffer's modes.
AllScenarios == {Scenario(BusRequests, BusModes, 3), Scenario(FramebufferRequests, FramebufferModes, 4)}
WordScenarios == {Scenario(WordRequests, PixelModes, 3)}

=============================================================================
