---------------------------- MODULE MCSimulation ----------------------------
(***************************************************************************)
(* Small instances of the simulated network and of what surrounds it for   *)
(* TLC: the simulator under any calls, its fault-matrix scenario, the      *)
(* evidence of a failure, and the anti-entropy lanes over their own        *)
(* unreliable network.  A behaviour is one of one of them, and the others  *)
(* stay as they were initially, where Converges holds.                     *)
(***************************************************************************)
EXTENDS Integers, Sequences, TLC

CONSTANTS MaxFrameBytes, MaxPendingFrames, MaxPendingBytes, MaxRecords, a, b

VARIABLES
  part,
  now, node, link, pending, bytes, reserved, log, next, peak, pc, frames, seen,
  events, first, last, artifact, at, attempt, content, names, synced,
  lane, store, cursor, up, net, fresh, faults

networkVars == <<now, node, link, pending, bytes, reserved, log, next, peak, pc, frames, seen>>
artifactVars == <<events, first, last, artifact, at, attempt, content, names, synced>>
syncVars == <<lane, store, cursor, up, net, fresh, faults>>
allVars == <<part, networkVars, artifactVars, syncVars>>

\* One link that may lose, duplicate and reorder.
Unreliable == [delay |-> 1, jitter |-> 0, loss |-> 1, duplicate |-> 1, reorder |-> 1, window |-> 2]

S == INSTANCE Simulator WITH
       Policy <- <<1, 2>> :> Unreliable, Home <- <<1, 2>>, Addresses <- {2}, Partitions <- {1},
       WallTimes <- {1}, Sizes <- {2}

M == INSTANCE FaultMatrix

A == INSTANCE FailureArtifact WITH
       Lengths <- {3, 7}, MaxEvents <- 6, Fixed <- 20, EventCeiling <- 5, ByteCeiling <- 62,
       Attempts <- 2

\* Two nodes, two keys of node a on a page each; the second record changes once.
L == INSTANCE AntiEntropy WITH
       Nodes <- {a, b}, Links <- {{a, b}}, NumKeys <- 2, Owner <- <<a, a>>, PageLimit <- 1,
       ResendTicks <- 1, Lanes <- {"resource", "membership", "snapshot"},
       MaxVersion <- <<1, 2>>, MaxFaults <- 1

ASSUME L!SyncAssumption

MCInit ==
  /\ part \in {"simulator", "matrix", "artifact", "lanes"}
  /\ IF part = "matrix" THEN M!MatrixInit
     ELSE S!Init /\ pc = 0 /\ frames = <<>> /\ seen = <<>>
  /\ A!Init
  /\ IF part = "lanes" THEN L!Init ELSE L!Start("resource")

Lanes == part = "lanes" /\ UNCHANGED <<part, networkVars, artifactVars>>

MCNext ==
  \/ part = "simulator" /\ S!Next /\ UNCHANGED <<part, pc, frames, seen, artifactVars, syncVars>>
  \/ part = "matrix" /\ M!MatrixNext /\ UNCHANGED <<part, artifactVars, syncVars>>
  \/ part = "artifact" /\ A!Next /\ UNCHANGED <<part, networkVars, syncVars>>
  \/ Lanes /\ L!Next

MCSpec ==
  /\ MCInit
  /\ [][MCNext]_allVars
  /\ \A n \in {a, b} : WF_allVars(Lanes /\ L!Tick(n))
  /\ \A p \in L!Pairs : WF_allVars(Lanes /\ L!Arrive(p))
  /\ WF_allVars(Lanes /\ L!Connect({a, b}))

\* The log tells what became of every frame, and has room for what is in flight
\* (Simulator).
LogIsSound == part = "simulator" => S!LogIsSound

\* The fault-matrix scenario observes every kind of fault (FaultMatrix).
MatrixIsComplete == part = "matrix" => M!MatrixIsComplete

\* The evidence of a failure is as much as fits, and its file is always whole
\* (FailureArtifact).
ArtifactIsSound == A!ArtifactIsSound

=============================================================================
