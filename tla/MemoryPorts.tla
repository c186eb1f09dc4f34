---------------------------- MODULE MemoryPorts ----------------------------
(***************************************************************************)
(* The requester side of the memory: what a request is, and how the CPU    *)
(* (port 0, through main_memory) and DMA (port 1) present one.             *)
(*                                                                         *)
(* The valid/ready handshake of src/src/memory/sdram.v: a requester holds  *)
(* valid, address and data until the one-clock ready pulse, and may follow *)
(* with another request at once.  The requesters are external here; the    *)
(* modules that compose the memory with DMA or the CPU bus constrain them. *)
(***************************************************************************)
EXTENDS Integers, Sequences, FiniteSets

CONSTANTS
  Ports,             \* the requesters in use, a subset of 0..2; 0 has priority
  Requests,          \* Requests[p]: the requests port p may present
  Bytes,             \* the values of a byte
  Banks, Rows, Cols, \* one chip's geometry (Cols is the number of dword columns)
  SdramSize          \* sdram_size: 1/2/3 = 32/64/128MB

Chips == IF SdramSize = 3 THEN {0, 1} ELSE {0}
Lanes == 1..4
Halves == 1..2
LanesOf(h) == {2 * h - 1, 2 * h}
Dwords == [Lanes -> Bytes]
ZeroDword == [i \in Lanes |-> 0]
Locs == [chip : Chips, bank : Banks, row : Rows, col : 0..(Cols - 1)]
FirstLoc == CHOOSE l \in Locs : TRUE
Request == [wr : BOOLEAN, loc : Locs, din : Dwords, be : SUBSET Lanes,
            burst : 0..15]

ASSUME PortsAssumption ==
  /\ Ports \subseteq 0..2 /\ Ports # {}
  /\ \A p \in Ports : Requests[p] \subseteq Request
ASSUME GeometryAssumption ==
  /\ Cols \in Nat \ {0} /\ Rows \subseteq Nat /\ Rows # {} /\ Banks # {}
  /\ 0 \in Bytes /\ SdramSize \in 0..3

VARIABLE port   \* port[p]: <<>> when valid is low, else <<the request held>>

PortsIdle == port = [p \in Ports |-> <<>>]

Requesting == {p \in Ports : port[p] # <<>>}
Req(p) == port[p][1]

\* The dwords of a read: burst 0 counts as 1.
BurstLength(r) == IF r.burst = 0 THEN 1 ELSE r.burst

\* The i-th dword of a burst from l: columns wrap within the row.
BurstLoc(l, i) == [l EXCEPT !.col = (@ + i) % Cols]

\* byte_merge
Merge(old, new, be) == [i \in Lanes |-> IF i \in be THEN new[i] ELSE old[i]]

\* What port p may show after an edge, given the ports whose ready was high.
PortSteps(p, ready) ==
  IF port[p] # <<>> /\ p \notin ready
  THEN {port[p]}
  ELSE {<<>>} \cup {<<r>> : r \in Requests[p]}

PortsMove(ready) ==
  port' \in {f \in [Ports -> UNION {PortSteps(p, ready) : p \in Ports}] :
              \A p \in Ports : f[p] \in PortSteps(p, ready)}

=============================================================================
