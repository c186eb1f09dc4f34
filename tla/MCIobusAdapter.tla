--------------------------- MODULE MCIobusAdapter ---------------------------
(* A small instance: an IDE data port, a device of bytes and the speed      *)
(* control register, with runs of adjacent enabled bytes, and words that    *)
(* hold the key of the speed register and words that do not.                *)
EXTENDS IobusAdapter

\* The low byte, then the high byte.
Word(low, high) == [i \in 0..3 |-> CASE i = 0 -> low [] i = 1 -> high [] OTHER -> 0]

SomeBytes == {{0}, {0, 1}, {1, 2}, {2, 3}, {1, 2, 3}, {0, 1, 2, 3}}
SpeedWords == {Word(3, Key), Word(1, 0)}

=============================================================================
