--------------------------- MODULE MCCheckpoints ---------------------------
(* Small instances of Checkpoints: the keys that the command lines ask for.   *)
EXTENDS Checkpoints

Key(n, c) == [name |-> n, cycle |-> c]

\* Two that follow each other too fast, and one that a restored run adds.
FirstKeys == {Key("a", 1), Key("b", 2)}
LaterKeys == {Key("c", 3)}
NoKeys == {}

=============================================================================
