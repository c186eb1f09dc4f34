---------------------------- MODULE MCInputPorts ----------------------------
(* Small instances of InputPorts: the commands and the motions.               *)
EXTENDS InputPorts

\* Reset, a command that takes an argument, an argument, a command that is not known.
SomeCommands == {255, 240, 0, 7}
TwoMoves == {[x |-> -3, y |-> 1, buttons |-> 1], [x |-> 0, y |-> 0, buttons |-> 0]}

=============================================================================
