------------------------------ MODULE MCRouting ------------------------------
(***************************************************************************)
(* Small instances of the modules about routed packets for TLC: the        *)
(* forwarding node, the route records of a node and the envelope of a      *)
(* packet.  They share no state; a behaviour is one of one of them, and    *)
(* the others stay as they were initially.                                 *)
(***************************************************************************)
EXTENDS Forwarding, RouteEnvelope, TLC

CONSTANTS t1, t2, t3, u1, u2, a, b, c, d

VARIABLES
  part,
  now, routes, pumps, recorders, stored, fresh, live, job, serving, restarts

recordVars ==
  <<now, routes, pumps, recorders, stored, fresh, live, job, serving, restarts>>

\* u2 replaces u1, the session of the same peer a.
ReplacedOwner == (t1 :> u1) @@ (t2 :> u2)
SamePeer == (u1 :> a) @@ (u2 :> a)
TwoAndOne == (t1 :> 2) @@ (t2 :> 1)
Second == (u1 :> NoSession) @@ (u2 :> u1)

R == INSTANCE RouteRecords WITH
       Sends <- {t1, t2}, Internal <- {t2}, Rejects <- {t3}, Inherited <- {t3},
       Capacity <- 1, Permits <- 1, TerminalCap <- 1, Retention <- 1, Batch <- 1,
       MaxNow <- 1, MaxRestarts <- 1

MCInit ==
  /\ part \in {"forwarding", "records", "envelope"}
  /\ Init /\ R!Init /\ EnvelopeInit
  /\ part # "envelope" => envelope = NewContext(a, b, 0) /\ links = {}

MCNext ==
  \/ part = "forwarding" /\ Next /\ UNCHANGED <<part, recordVars, envelopeVars>>
  \/ part = "records" /\ R!Next /\ UNCHANGED <<part, vars, envelopeVars>>
  \/ part = "envelope" /\ EnvelopeNext /\ UNCHANGED <<part, vars, recordVars>>

MCSpec == MCInit /\ [][MCNext]_<<part, vars, recordVars, envelopeVars>>

\* No route record of a packet on its way, in memory or durable, is dropped,
\* and a failed observation stays failed (RouteRecords).
ObservationKept == R!ObservationKept
=============================================================================
