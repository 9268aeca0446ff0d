----------------------------- MODULE DurableLog -----------------------------
(***************************************************************************)
(* What the storage contract (ADR-0003, "Commit Outcomes and                *)
(* Reconciliation") promises of one store: a log of committed transactions  *)
(* of which a prefix has crossed the durability barrier.  A crash of the    *)
(* operating system may drop entries beyond that prefix, newest first, and  *)
(* nothing else; a transaction is reported committed only from inside it.   *)
(***************************************************************************)
EXTENDS Naturals, Sequences

CONSTANT Receipts   \* what names a committed transaction: its id and digest

VARIABLES
  log,        \* the committed transactions, oldest first
  durable,    \* how many of them have crossed the barrier
  reported    \* those a caller was told are durably committed

vars == <<log, durable, reported>>

Init ==
  /\ log = <<>>
  /\ durable = 0
  /\ reported = {}

Commit ==
  /\ \E r \in Receipts : log' = Append(log, r)
  /\ UNCHANGED <<durable, reported>>

Harden ==
  /\ durable' = Len(log)
  /\ UNCHANGED <<log, reported>>

Report ==
  /\ \E i \in 1 .. durable : reported' = reported \cup {log[i]}
  /\ UNCHANGED <<log, durable>>

Lose ==
  /\ \E n \in durable .. Len(log) : log' = SubSeq(log, 1, n) /\ durable' = n
  /\ UNCHANGED reported

Next == Commit \/ Harden \/ Report \/ Lose

Spec == Init /\ [][Next]_vars
=============================================================================
