----------------------------- MODULE IoAccesses -----------------------------
(***************************************************************************)
(* What an access to the I/O ports is (src/src/iobus_adapter.sv): an       *)
(* aligned address, the enabled bytes, and the transactions with devices   *)
(* of one byte that it stands for; at the data port of an IDE channel one  *)
(* transaction of 16 or 32 bits.                                           *)
(***************************************************************************)
EXTENDS Integers, Sequences, FiniteSets

CONSTANTS
  Bases,     \* the dword-aligned port addresses in use
  IdeBases,  \* those of the IDE data ports: 0x1F0, 0x170
  Deaf,      \* those where no device answers a read
  Enables,   \* the byte enables in use: a run of adjacent lanes on this bus
  Dwords     \* what the CPU may write: a byte for each lane

ASSUME BasesAssumption == IdeBases \subseteq Bases /\ Deaf \cap IdeBases = {} /\ "none" \notin Bases
ASSUME EnablesAssumption == Enables \subseteq (SUBSET (0..3)) \ {{}}
ASSUME DwordsAssumption == \A d \in Dwords : DOMAIN d = 0..3

Lanes == 0..3
Ones == <<"FF", 0, 0>>
NoData == [i \in Lanes |-> Ones]

Access == [base : Bases, be : Enables, read : {TRUE}, data : {NoData}]
          \cup [base : Bases, be : Enables, read : {FALSE}, data : Dwords]
NoAccess == [base |-> "none", be |-> {}, read |-> FALSE, data |-> NoData]

IsIde(a) == a.base \in IdeBases /\ 0 \in a.be

\* A transaction: its port, its width in bytes, and what is written.
Byte(a, i) == [base |-> a.base, lane |-> i, width |-> 1, read |-> a.read,
               data |-> IF a.read THEN <<>> ELSE <<a.data[i]>>]
IdeWord(a) == [base |-> a.base, lane |-> 0, width |-> IF a.be = Lanes THEN 4 ELSE 2,
               read |-> a.read,
               data |-> IF a.read THEN <<>> ELSE [i \in 1..4 |-> a.data[i - 1]]]

\* The enabled lanes below lane i.
Below(a, i) == {j \in a.be : j < i}
Transactions(a) ==
  IF IsIde(a) THEN <<IdeWord(a)>>
  ELSE [n \in 1..Cardinality(a.be) |->
          Byte(a, CHOOSE i \in a.be : Cardinality(Below(a, i)) = n - 1)]

\* A device answers the n-th transaction of an access with a value of its own.
Answer(base, lane, n) == IF base \in Deaf THEN Ones ELSE <<base, lane, n>>
Result(a) ==
  IF IsIde(a) THEN [i \in Lanes |-> Answer(a.base, 0, 1)]
  ELSE [i \in Lanes |-> IF i \in a.be THEN Answer(a.base, i, Cardinality(Below(a, i)) + 1)
                        ELSE Ones]

=============================================================================
