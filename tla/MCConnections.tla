--------------------------- MODULE MCConnections ---------------------------
(***************************************************************************)
(* Small instances of what keeps sessions, for TLC: the tables of two      *)
(* members, and the recovery controller of one.  A behaviour is one of one *)
(* of them, and the other stays as it was initially.                       *)
(***************************************************************************)
EXTENDS SessionTable, TLC

CONSTANTS c1, c2, c3

VARIABLES
  part,
  reachable, direct, remembered, barred, dials, ctl, since, cycle, lost, asked

tableVars == <<dialer, end, up, table, history, excluded, commands, faults>>
recoveryVars == <<reachable, direct, remembered, barred, dials, ctl, since, cycle, lost, asked>>
allVars == <<part, tableVars, recoveryVars>>

\* Two members, a fan-out for both: losses, outages, clock changes, commands.
R == INSTANCE Recovery WITH
       Members <- 1 .. 2, Known <- 1 .. 2, FanOut <- 2, Initial <- 1, Maximum <- 4,
       MaxExponent <- 2, MaxFaults <- 3, MaxCommands <- 2,
       up <- reachable, history <- remembered, excluded <- barred,
       faults <- lost, commands <- asked

ASSUME R!RecoveryAssumption

MCInit ==
  /\ part \in {"tables", "recovery"}
  /\ Init
  /\ R!Init
  /\ part # "recovery" => direct = {}

\* Steps of one part.
Tables == part = "tables" /\ UNCHANGED <<part, recoveryVars>>
Recoveries == part = "recovery" /\ UNCHANGED <<part, tableVars>>

MCNext ==
  \/ Tables /\ Next
  \/ Recoveries /\ R!Next

\* The fairness of each part's specification.
MCFairness ==
  /\ \A n \in Nodes, c \in Connections : WF_allVars(Tables /\ Step(n, c))
  /\ \A n \in Nodes : /\ WF_allVars(Tables /\ Observe(n))
                      /\ WF_allVars(Tables /\ \E c \in Connections : RecoveryDial(n, c))
  /\ WF_allVars(Recoveries /\ R!Tick)
  /\ WF_allVars(Recoveries /\ R!Launch)
  /\ WF_allVars(Recoveries /\ R!Second)
  /\ \A m \in 1 .. 2 : WF_allVars(Recoveries /\ R!DialEnds(m))

MCSpec == MCInit /\ [][MCNext]_allVars /\ MCFairness

\* Remembered members that answer are reconnected, and the controller comes to
\* rest (Recovery).
Heals == R!Heals /\ R!Quiesces
=============================================================================
