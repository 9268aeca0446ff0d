------------------------------ MODULE Recovery ------------------------------
(***************************************************************************)
(* The recovery controller of one node and the supervisor code around it   *)
(* (membership/recovery.rs: RecoveryController; runtime/supervisor.rs:     *)
(* recovery_tick, start_recovery, connect_member, disconnect_peer).        *)
(*                                                                         *)
(* Every tick the supervisor adds the directly connected members to the    *)
(* history and shows both to the controller.  While a remembered member is *)
(* not connected the controller recovers: when its backoff is over and     *)
(* fewer dials than the fan-out are in flight, it dials the first fan-out  *)
(* candidates in the order of their ids, each in a task of its own.  The   *)
(* wall clock is kept as the seconds since the last attempt; the host may  *)
(* set it to any value.                                                    *)
(***************************************************************************)
EXTENDS Integers, FiniteSets, FiniteSetsExt, Functions

CONSTANTS
  Members,      \* the other members: numbers in the order of their node ids
  Known,        \* members with a trusted binding and a published endpoint
  FanOut,       \* RecoveryPolicy.fan_out
  Initial,      \* RecoveryPolicy.initial_backoff
  Maximum,      \* RecoveryPolicy.maximum_backoff
  MaxExponent,  \* the doublings after which the backoff is at its maximum
  MaxFaults,    \* bound: losses, outages, clock changes and restarts
  MaxCommands   \* bound: commands and incoming sessions

\* What the constants are assumed to be.
RecoveryAssumption ==
  /\ Members \subseteq Nat /\ IsFiniteSet(Members)
  /\ Known \subseteq Members
  /\ FanOut \in Nat \ {0}
  /\ Initial \in Nat \ {0}
  /\ Maximum \in Nat /\ Initial <= Maximum
  /\ MaxExponent \in Nat /\ Initial * 2^MaxExponent >= Maximum
  /\ {MaxFaults, MaxCommands} \subseteq Nat

VARIABLES
  up,        \* members that answer a dial
  direct,    \* members with a live session
  history,   \* recovery_history
  excluded,  \* recovery_excluded
  dials,     \* the recovery dials in flight; recovery_pending counts them
  ctl,       \* RecoveryController: its state, attempts and pending members
  since,     \* the wall clock minus last_attempt_at
  cycle,     \* the tick's cycle while its store reads are awaited: whether one
             \* runs, and the members it found unreachable
  faults,    \* faults so far
  commands   \* commands and incoming sessions so far

vars == <<up, direct, history, excluded, dials, ctl, since, cycle,
          faults, commands>>

NoCycle == [runs |-> FALSE, unreachable |-> {}]

\* RecoveryController::new.
NewController == [state |-> "Idle", attempts |-> 0, pending |-> {}]

Init ==
  /\ up = Members
  /\ direct \in SUBSET Members
  /\ history = {}
  /\ excluded = {}
  /\ dials = [m \in Members |-> 0]
  /\ ctl = NewController
  /\ since = Maximum
  /\ cycle = NoCycle
  /\ faults = 0
  /\ commands = 0

-----------------------------------------------------------------------------
\* The controller.

\* backoff_seconds while the deadline is ahead.
Backoff(c) == Min({Initial * 2^c.attempts, Maximum})

\* due.
Due(c) == c.state = "Recovering" /\ since >= Backoff(c)

\* observe.
Observe(online, reachable) ==
  IF online \subseteq reachable
  THEN [ctl EXCEPT !.state = IF @ = "Idle" THEN "Idle" ELSE "Connected",
                   !.pending = {}]
  ELSE [state    |-> "Recovering",
        attempts |-> IF ctl.state = "Recovering" THEN ctl.attempts ELSE 0,
        pending  |-> online \ reachable]

\* The targets of next_step: the first candidates, up to the fan-out.
Targets(candidates) ==
  {m \in candidates : Cardinality({l \in candidates : l < m}) < FanOut}

\* The attempt next_step records; doublings beyond the maximum change nothing.
Attempted(c) == [c EXCEPT !.attempts = Min({@ + 1, MaxExponent})]

-----------------------------------------------------------------------------
\* The supervisor.

\* recovery_pending.
InFlight == FoldFunctionOnSet(+, 0, dials, Members)

\* A cycle may begin only while fewer dials than the fan-out are in flight.
Room == InFlight < FanOut

\* The known-online set a tick works with.
Online == history \cup direct

\* recovery_tick up to its first await: observe, and begin a cycle if one is due.
Tick ==
  LET seen == Observe(Online, direct) IN
  /\ ~cycle.runs
  /\ history' = Online
  /\ ctl' = seen
  /\ cycle' = IF Due(seen) /\ Room
              THEN [runs |-> TRUE, unreachable |-> Online \ direct]
              ELSE NoCycle
  /\ UNCHANGED <<up, direct, excluded, dials, since, faults, commands>>

\* The rest of the cycle: next_step, and a detached dial for each target.
Launch ==
  /\ cycle.runs
  /\ ctl' = Attempted(ctl)
  /\ since' = 0
  /\ dials' = [m \in Members |->
                 dials[m] + IF m \in Targets(cycle.unreachable \cap (Known \ excluded))
                            THEN 1 ELSE 0]
  /\ cycle' = NoCycle
  /\ UNCHANGED <<up, direct, history, excluded, faults, commands>>

\* Mutant: a failed dial keeps its slot.
DialEndsLeaking(m) ==
  /\ dials[m] > 0
  /\ m \in up
  /\ dials' = [dials EXCEPT ![m] = @ - 1]
  /\ direct' = direct \cup {m}
  /\ UNCHANGED <<up, history, excluded, ctl, since, cycle, faults, commands>>

\* A detached recovery dial ends: it registers a session or fails.
DialEnds(m) ==
  /\ dials[m] > 0
  /\ dials' = [dials EXCEPT ![m] = @ - 1]
  /\ direct' = direct \cup ({m} \cap up)
  /\ UNCHANGED <<up, history, excluded, ctl, since, cycle, faults, commands>>

\* The supervisor handles commands between ticks.
Command ==
  /\ commands < MaxCommands
  /\ ~cycle.runs
  /\ commands' = commands + 1
  /\ UNCHANGED <<up, dials, cycle, faults>>

\* start_recovery: immediate.
StartRecovery ==
  /\ Command
  /\ ctl.pending # {} \/ ctl.state = "Recovering"
  /\ ctl' = [ctl EXCEPT !.state = "Recovering"]
  /\ since' = 1
  /\ UNCHANGED <<direct, history, excluded>>

\* connect_member: the exclusion is lifted whether or not the dial succeeds.
ConnectMember(m) ==
  /\ Command
  /\ excluded' = excluded \ {m}
  /\ direct' = direct \cup ({m} \cap up)
  /\ UNCHANGED <<history, ctl, since>>

\* disconnect_peer.
DisconnectPeer(m) ==
  /\ Command
  /\ direct' = direct \ {m}
  /\ history' = history \ {m}
  /\ excluded' = excluded \cup {m}
  /\ UNCHANGED <<ctl, since>>

\* A member opens a session to this node.
Incoming(m) ==
  /\ commands < MaxCommands
  /\ commands' = commands + 1
  /\ m \in up
  /\ direct' = direct \cup {m}
  /\ UNCHANGED <<up, history, excluded, dials, ctl, since, cycle, faults>>

-----------------------------------------------------------------------------
\* The surroundings.

\* The host clock advances; a second beyond the longest backoff changes nothing.
\* A cycle works with the time at its beginning.
Second ==
  /\ since < Maximum
  /\ ~cycle.runs
  /\ since' = since + 1
  /\ UNCHANGED <<up, direct, history, excluded, dials, ctl, cycle, faults, commands>>

Fault ==
  /\ faults < MaxFaults
  /\ faults' = faults + 1
  /\ UNCHANGED commands

\* A store read of the cycle fails: no attempt is recorded.
CycleFails ==
  /\ Fault
  /\ cycle.runs
  /\ cycle' = NoCycle
  /\ UNCHANGED <<up, direct, history, excluded, dials, ctl, since>>

\* The host clock is set back or jumps forward.
ClockSet ==
  /\ Fault
  /\ ~cycle.runs
  /\ since' \in {-1, Maximum}
  /\ UNCHANGED <<up, direct, history, excluded, dials, ctl, cycle>>

\* A session breaks; the member may be gone as well.
Lose(m) ==
  /\ Fault
  /\ m \in direct
  /\ direct' = direct \ {m}
  /\ up' \in {up, up \ {m}}
  /\ UNCHANGED <<history, excluded, dials, ctl, since, cycle>>

\* A member that was gone answers again.
Return(m) ==
  /\ m \notin up
  /\ up' = up \cup {m}
  /\ UNCHANGED <<direct, history, excluded, dials, ctl, since, cycle, faults, commands>>

\* The node restarts: Supervisor::new starts without a history.
Restart ==
  /\ Fault
  /\ direct' = {}
  /\ history' = {}
  /\ excluded' = {}
  /\ dials' = [m \in Members |-> 0]
  /\ ctl' = NewController
  /\ since' = Maximum
  /\ cycle' = NoCycle
  /\ UNCHANGED up

Next ==
  \/ Tick \/ Launch \/ CycleFails
  \/ Second \/ StartRecovery \/ ClockSet \/ Restart
  \/ \E m \in Members :
       \/ DialEnds(m)
       \/ ConnectMember(m) \/ DisconnectPeer(m) \/ Incoming(m)
       \/ Lose(m) \/ Return(m)

\* The recovery timer fires, time passes, a dial ends by its deadline.
Fairness ==
  /\ WF_vars(Tick)
  /\ WF_vars(Launch)
  /\ WF_vars(Second)
  /\ \A m \in Members : WF_vars(DialEnds(m))

Spec == Init /\ [][Next]_vars /\ Fairness

-----------------------------------------------------------------------------
\* The types of the variables.
TypeOK ==
  /\ up \subseteq Members
  /\ direct \subseteq Members
  /\ history \subseteq Members
  /\ excluded \subseteq Members
  /\ dials \in [Members -> Nat]
  /\ ctl \in [state : {"Idle", "Recovering", "Connected"},
              attempts : 0 .. MaxExponent, pending : SUBSET Members]
  /\ since \in -1 .. Maximum
  /\ cycle \in [runs : BOOLEAN, unreachable : SUBSET Members]
  /\ faults \in 0 .. MaxFaults
  /\ commands \in 0 .. MaxCommands

\* "Recovery activates whenever known online members remain in mutually
\* unreachable authenticated components, retries ...": once commands and
\* faults are over, every member that recovery remembers, may dial and that
\* answers is connected for good, whatever the clock did and however often it
\* was lost.
Heals ==
  <>[](\A m \in (history \cap Known) \ excluded : m \in up => m \in direct)

\* "quiesces once every known online member is connected": the controller
\* leaves the recovering state and the last dials end.
Quiesces ==
  <>[](history \subseteq direct) => <>[](ctl.state # "Recovering" /\ InFlight = 0)

\* immediate: "Forces one immediate recovery cycle".  After the command the
\* next tick finds the cycle due.
ImmediateForces == [][StartRecovery => Due(ctl)']_vars

\* recovery_tick: "the counter bounds in-flight dials", which the scenario
\* catalogue states as "bounded by the configured fan-out".
WithinFanOut == InFlight <= FanOut

\* disconnect_peer: "An intentional disconnect is never re-healed until the
\* relationship is deliberately re-established".  A recovery dial connects no
\* excluded member.
DisconnectStays ==
  [][\A m \in excluded : DialEnds(m) => direct' = direct]_vars

\* "... until the relationship is deliberately re-established (a new session
\* to the peer)": a remembered member, which has had a session since it was
\* disconnected, is healed again.
RememberedHeals == <>[](\A m \in history \cap Known : m \in up => m \in direct)
=============================================================================
