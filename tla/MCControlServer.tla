-------------------------- MODULE MCControlServer --------------------------
(* Small instances of ControlServer: what the clients would send.           *)
EXTENDS ControlServer, TLC

CONSTANTS first, second

\* One client streams more commands than the queue holds, with an empty line between them,
\* and ends the simulation; the other asks for the status and sends too much.
Scripts ==
  (first :> <<"command", "empty", "quit">>)
    @@ (second :> <<"status", "huge">>)

=============================================================================
