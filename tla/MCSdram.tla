------------------------------ MODULE MCSdram ------------------------------
(* Small instances of Sdram: the requests the ports may present.            *)
EXTENDS Sdram

Loc(c, b, r, col) == [chip |-> c, bank |-> b, row |-> r, col |-> col]
Fill(x) == [i \in Lanes |-> x]
WriteOf(l, d, be) == [wr |-> TRUE, loc |-> l, din |-> d, be |-> be, burst |-> 1]
ReadOf(l, n) == [wr |-> FALSE, loc |-> l, din |-> ZeroDword, be |-> Lanes, burst |-> n]

(* Two rows of a bank, and another bank of the other chip.  Port 0 writes   *)
(* and reads whole dwords; port 1 writes one byte, a half, bytes of both     *)
(* halves, three bytes, and no byte at all.                                  *)
RowRequests == [p \in Ports |->
  IF p = 0 THEN {WriteOf(Loc(0, 0, 0, 0), Fill(1), Lanes), ReadOf(Loc(0, 0, 0, 1), 2),
                 ReadOf(Loc(1, 1, 0, 1), 1)}
           ELSE {WriteOf(Loc(0, 0, 1, 0), Fill(1), {1, 2}), WriteOf(Loc(1, 1, 0, 1), Fill(1), {4})}
                \cup {WriteOf(Loc(0, 0, 0, 0), Fill(0), be) : be \in {{2}, {1, 2, 4}, {}}}]

(* Requests that only differ in the time they take, to drive the refresh.    *)
BusyRequests == [p \in Ports |->
  IF p = 0 THEN {ReadOf(Loc(0, 0, 0, 0), 4)} ELSE {WriteOf(Loc(0, 0, 0, 0), Fill(0), {1, 2})}]

=============================================================================
