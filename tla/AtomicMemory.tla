---------------------------- MODULE AtomicMemory ---------------------------
(***************************************************************************)
(* What the SDRAM controller promises its requesters: a memory that        *)
(* performs one request at a time, atomically, when it is accepted.  A     *)
(* write has its effect, in the enabled bytes and nowhere else, in the     *)
(* step of the ready pulse; a read returns, in order and to its own port,  *)
(* the dwords the memory held then.  When a response comes, and which of   *)
(* several requests goes first, is left open.                              *)
(***************************************************************************)
EXTENDS MemoryPorts

VARIABLES
  store,  \* the contents of the memory
  burst,  \* the read being answered: its port and the dwords still to come
  shown   \* the outputs of this clock

vars == <<port, store, burst, shown>>

NoBurst == [id |-> 0, words |-> <<>>]
Silent == [ready |-> {}, resp |-> {}, word |-> <<>>, done |-> FALSE]

PerformWrite(p) ==
  /\ burst.words = <<>> /\ p \in Requesting /\ Req(p).wr
  /\ store' = [store EXCEPT ![Req(p).loc] = Merge(@, Req(p).din, Req(p).be)]
  /\ shown' = [Silent EXCEPT !.ready = {p}]
  /\ UNCHANGED burst

PerformRead(p) ==
  /\ burst.words = <<>> /\ p \in Requesting /\ ~Req(p).wr
  /\ burst' = [id |-> p, words |-> [i \in 1..BurstLength(Req(p)) |->
                                      store[BurstLoc(Req(p).loc, i - 1)]]]
  /\ shown' = [Silent EXCEPT !.ready = {p}]
  /\ UNCHANGED store

Respond ==
  /\ burst.words # <<>>
  /\ shown' = [ready |-> {}, resp |-> {burst.id}, word |-> Head(burst.words),
               done |-> Len(burst.words) = 1]
  /\ burst' = IF Len(burst.words) = 1 THEN NoBurst ELSE [burst EXCEPT !.words = Tail(@)]
  /\ UNCHANGED store

Pause == shown' = Silent /\ UNCHANGED <<store, burst>>

Init ==
  /\ PortsIdle
  /\ store = [l \in Locs |-> ZeroDword]
  /\ burst = NoBurst
  /\ shown = Silent

Next ==
  /\ PortsMove(shown.ready)
  /\ \/ \E p \in Ports : PerformWrite(p) \/ PerformRead(p)
     \/ Respond
     \/ Pause

Spec == Init /\ [][Next]_vars

=============================================================================
