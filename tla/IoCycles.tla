------------------------------ MODULE IoCycles ------------------------------
(***************************************************************************)
(* What the I/O bus adapter promises the CPU: an access to up to four      *)
(* ports is carried out as one transaction for every enabled byte, from    *)
(* the lowest port up, each exactly once, and a read returns what those    *)
(* transactions answered, in the lanes of their ports.  An access to the   *)
(* data port of an IDE channel is one transaction of 16 or 32 bits.        *)
(***************************************************************************)
EXTENDS IoAccesses

VARIABLES
  access,  \* the access being carried out
  done,    \* its transactions so far
  result   \* what the CPU is given when it ends

vars == <<access, done, result>>

Init == access = NoAccess /\ done = <<>> /\ result = NoData

Begin == /\ access = NoAccess
         /\ access' \in Access
         /\ UNCHANGED <<done, result>>

Transact == /\ access # NoAccess /\ Len(done) < Len(Transactions(access))
            /\ done' = Append(done, Transactions(access)[Len(done) + 1])
            /\ UNCHANGED <<access, result>>

End == /\ access # NoAccess /\ done = Transactions(access)
       /\ result' = IF access.read THEN Result(access) ELSE NoData
       /\ access' = NoAccess
       /\ done' = <<>>

\* The answer is there for the clock of ready only.
Rest == /\ access = NoAccess
        /\ result' = NoData
        /\ UNCHANGED <<access, done>>

Next == Begin \/ Transact \/ End \/ Rest

Spec == Init /\ [][Next]_vars

=============================================================================
