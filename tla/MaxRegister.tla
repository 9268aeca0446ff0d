---------------------------- MODULE MaxRegister ----------------------------
(***************************************************************************)
(* What the resource register promises: a stored record is replaced only by *)
(* a greater one, and leaves the store only when it is a removal.           *)
(***************************************************************************)
EXTENDS ResourceRecord

VARIABLE reg    \* the record of each name, or None

Init == reg = [n \in Names |-> None]

Raise(n, r) ==
  /\ Enters(r, reg[n])
  /\ reg' = [reg EXCEPT ![n] = r]

Evict(n) ==
  /\ reg[n] # None /\ Removed(reg[n])
  /\ reg' = [reg EXCEPT ![n] = None]

Next == \E n \in Names : (\E r \in Records : Raise(n, r)) \/ Evict(n)

Spec == Init /\ [][Next]_reg
=============================================================================
