----------------------------- MODULE Simulator -----------------------------
(***************************************************************************)
(* The deterministic network simulator (simulation/network.rs: Simulator,  *)
(* simulation/topology.rs: Topology, simulation/event.rs: EventLog).       *)
(*                                                                         *)
(* Frames are sent over directed links whose policy may lose, duplicate,   *)
(* delay and reorder them; links are partitioned and healed, nodes restart *)
(* and change their address while frames are in flight.  Everything that   *)
(* happens is recorded in a log of bounded length.  A decision taken from  *)
(* the seed is a choice: the frame numbers are never used again, so no two *)
(* decisions are drawn from the same word.  A call that is refused changes *)
(* nothing and is no step; the refusal of a full queue is recorded and is  *)
(* one.                                                                    *)
(***************************************************************************)
EXTENDS Integers, Sequences, FiniteSets, FiniteSetsExt

CONSTANTS
  Policy,            \* LinkPolicy of every link <<from, to>> of the topology
  Home,              \* the first address of every node
  Addresses,         \* the addresses a node may change to
  Partitions,        \* partition identities
  WallTimes,         \* what a wall clock may be set to
  Sizes,             \* frame lengths
  MaxFrameBytes, MaxPendingFrames, MaxPendingBytes, MaxRecords  \* SimulationLimits

Links == DOMAIN Policy
Nodes == DOMAIN Home

VARIABLES
  now,       \* now_nanos
  node,      \* NodeState of every node
  link,      \* the partitions and the generation of every link
  pending,   \* the scheduled deliveries
  bytes,     \* pending_bytes
  reserved,  \* reserved_records
  log,       \* records
  next,      \* next_frame and next_enqueue
  peak       \* max_observed_pending_frames and max_observed_pending_bytes

vars == <<now, node, link, pending, bytes, reserved, log, next, peak>>

\* add_node and add_link.
NewNode(n) == [address |-> Home[n], boot |-> 0, generation |-> 0, wall |-> 0]
NewLink == [partitions |-> {}, generation |-> 0]

\* Simulator::new on a topology that is complete.
Init ==
  /\ now = 0
  /\ node = [n \in Nodes |-> NewNode(n)]
  /\ link = [l \in Links |-> NewLink]
  /\ pending = {}
  /\ bytes = 0
  /\ reserved = 0
  /\ log = <<>>
  /\ next = [frame |-> 0, enqueue |-> 0]
  /\ peak = [frames |-> 0, bytes |-> 0]

-----------------------------------------------------------------------------
(* The log and the scheduling order                                         *)

\* EventLog::can_reserve, with the records the deliveries in flight will need.
CanRecord(additional) == Len(log) + reserved + additional <= MaxRecords

\* EventLog::push.
Push(records) == log' = log \o records

\* Mutant: reordered copies that fall into one window keep the order of their
\* frames.
RankInOrder(d) == IF d.reordered THEN <<1, d.frame>> ELSE <<0, 0>>

\* The Ord of EventKey: deadline, reorder rank, frame, copy, enqueue id.  The
\* rank of a reordered copy is above that of every other and falls with the
\* frame.
Rank(d) == IF d.reordered THEN <<1, -d.frame>> ELSE <<0, 0>>
SortKey(d) == <<d.deadline>> \o Rank(d) \o <<d.frame, d.copy, d.enqueue>>
Before(d, e) ==
  \E i \in 1 .. 6 : /\ SortKey(d)[i] < SortKey(e)[i]
                    /\ \A j \in 1 .. i - 1 : SortKey(d)[j] = SortKey(e)[j]

\* reorder_deadline: the end of the window a deadline falls in.
Reordered(deadline, window) == ((deadline + window - 1) \div window) * window

\* probability_hit: the decision of one lane.
Scale == 1000000
Hit(probability) ==
  {hit \in BOOLEAN : hit => probability > 0} \cap {hit \in BOOLEAN : hit \/ probability < Scale}

Stamp(n) == [node |-> n, address |-> node[n].address, boot |-> node[n].boot,
             generation |-> node[n].generation]

Blocked(l) == link[l].partitions # {}

-----------------------------------------------------------------------------
(* send_frame                                                               *)

Sending(l, size) ==
  /\ size \in 1 .. MaxFrameBytes
  /\ UNCHANGED <<now, node, link>>

Recorded(record) ==
  /\ CanRecord(1)
  /\ Push(<<record>>)
  /\ next' = [next EXCEPT !.frame = @ + 1]
  /\ UNCHANGED <<pending, bytes, reserved, peak>>

\* The link is partitioned: the frame is dropped at once.
SendBlocked(l, size) ==
  /\ Sending(l, size)
  /\ Blocked(l)
  /\ Recorded([kind |-> "dropped", at |-> now, frame |-> next.frame, copy |-> 0,
               reason |-> "blocked"])

SendLost(l, size) ==
  /\ Sending(l, size)
  /\ ~Blocked(l)
  /\ TRUE \in Hit(Policy[l].loss)
  /\ Recorded([kind |-> "lost", at |-> now, frame |-> next.frame])

\* The frame is not lost; the decisions about its copies.
Decisions(l) ==
  [copies : {IF d THEN 2 ELSE 1 : d \in Hit(Policy[l].duplicate)},
   reordered : [0 .. 1 -> Hit(Policy[l].reorder)],
   jitter : [0 .. 1 -> 0 .. Policy[l].jitter]]

Copies(choice) == 0 .. choice.copies - 1

\* The records a frame needs: its own, and one for every copy that ends.
Immediate(choice) ==
  1 + (choice.copies - 1) + Cardinality({k \in Copies(choice) : choice.reordered[k]})

Fits(size, choice) ==
  /\ Cardinality(pending) + choice.copies <= MaxPendingFrames
  /\ bytes + size * choice.copies <= MaxPendingBytes
  /\ CanRecord(Immediate(choice) + choice.copies)

\* The queue or the log has no room for what the frame needs.
SendRejected(l, size) ==
  /\ Sending(l, size)
  /\ ~Blocked(l)
  /\ FALSE \in Hit(Policy[l].loss)
  /\ \E choice \in Decisions(l) :
       /\ ~Fits(size, choice)
       /\ Recorded([kind |-> "rejected", at |-> now, frame |-> next.frame,
                    copies |-> choice.copies, bytes |-> size])

Scheduled(l, size, choice, k) ==
  LET nominal == now + Policy[l].delay + choice.jitter[k] IN
  [deadline  |-> IF choice.reordered[k] THEN Reordered(nominal, Policy[l].window) ELSE nominal,
   reordered |-> choice.reordered[k],
   frame |-> next.frame, copy |-> k, enqueue |-> next.enqueue + k,
   bytes |-> size, link |-> l, generation |-> link[l].generation,
   from  |-> Stamp(l[1]), to |-> Stamp(l[2])]

AcceptRecords(l, size, choice) ==
  <<[kind |-> "accepted", at |-> now, frame |-> next.frame, link |-> l,
     copies |-> choice.copies, bytes |-> size]>>
  \o (IF choice.copies = 2 THEN <<[kind |-> "duplicated", at |-> now, frame |-> next.frame]>>
      ELSE <<>>)
  \o [i \in 1 .. Cardinality({k \in Copies(choice) : choice.reordered[k]}) |->
        [kind |-> "reordered", at |-> now, frame |-> next.frame,
         copy |-> IF choice.reordered[0] THEN i - 1 ELSE 1]]

SendAccepted(l, size) ==
  /\ Sending(l, size)
  /\ ~Blocked(l)
  /\ FALSE \in Hit(Policy[l].loss)
  /\ \E choice \in Decisions(l) :
       LET queued == pending \cup {Scheduled(l, size, choice, k) : k \in Copies(choice)} IN
       /\ Fits(size, choice)
       /\ Push(AcceptRecords(l, size, choice))
       /\ pending' = queued
       /\ bytes' = bytes + size * choice.copies
       /\ reserved' = reserved + choice.copies
       /\ next' = [frame |-> next.frame + 1, enqueue |-> next.enqueue + choice.copies]
       /\ peak' = [frames |-> Max({peak.frames, Cardinality(queued)}),
                   bytes |-> Max({peak.bytes, bytes'})]

SendFrame(l, size) ==
  SendBlocked(l, size) \/ SendLost(l, size) \/ SendRejected(l, size) \/ SendAccepted(l, size)

-----------------------------------------------------------------------------
(* run_next                                                                 *)

\* A delivery is stale when its link or one of its ends is no longer what it
\* was when the frame was sent.
Stale(stamp) ==
  IF node[stamp.node].boot # stamp.boot THEN "stale boot"
  ELSE IF Stamp(stamp.node) # stamp THEN "stale address"
  ELSE "none"

\* Mutant: a link that was partitioned and healed again carries what was in
\* flight before.
OutcomeHealed(d) ==
  IF Blocked(d.link) THEN "blocked"
  ELSE IF "stale boot" \in {Stale(d.from), Stale(d.to)} THEN "stale boot"
  ELSE IF "stale address" \in {Stale(d.from), Stale(d.to)} THEN "stale address"
  ELSE "delivered"

\* delivery_outcome: the first reason that applies.
Outcome(d) ==
  IF Blocked(d.link) THEN "blocked"
  ELSE IF link[d.link].generation # d.generation THEN "stale link"
  ELSE IF "stale boot" \in {Stale(d.from), Stale(d.to)} THEN "stale boot"
  ELSE IF "stale address" \in {Stale(d.from), Stale(d.to)} THEN "stale address"
  ELSE "delivered"

OutcomeRecord(d) ==
  IF Outcome(d) = "delivered"
  THEN [kind |-> "delivered", at |-> d.deadline, frame |-> d.frame, copy |-> d.copy]
  ELSE [kind |-> "dropped", at |-> d.deadline, frame |-> d.frame, copy |-> d.copy,
        reason |-> Outcome(d)]

\* The heap's first delivery is taken, the clock set to its deadline and its
\* outcome recorded.
RunNext ==
  \E d \in pending :
    /\ \A e \in pending \ {d} : Before(d, e)
    /\ d.bytes <= bytes /\ reserved > 0 /\ Len(log) < MaxRecords
    /\ pending' = pending \ {d}
    /\ now' = d.deadline
    /\ bytes' = bytes - d.bytes
    /\ reserved' = reserved - 1
    /\ Push(<<OutcomeRecord(d)>>)
    /\ UNCHANGED <<node, link, next, peak>>

-----------------------------------------------------------------------------
(* Faults                                                                   *)

\* Topology::partition and heal move the generation; one that changes nothing
\* returns at once.
Relinked(l, partitions, kind, p) ==
  /\ CanRecord(1)
  /\ link' = [link EXCEPT ![l] = [partitions |-> partitions, generation |-> @.generation + 1]]
  /\ Push(<<[kind |-> kind, at |-> now, link |-> l, partition |-> p,
             generation |-> link[l].generation + 1]>>)
  /\ UNCHANGED <<now, node, pending, bytes, reserved, next, peak>>

Partition(l, p) ==
  /\ p \notin link[l].partitions
  /\ Relinked(l, link[l].partitions \cup {p}, "partitioned", p)

Heal(l, p) ==
  /\ p \in link[l].partitions
  /\ Relinked(l, link[l].partitions \ {p}, "healed", p)

Changed(n, state, record) ==
  /\ CanRecord(1)
  /\ node' = [node EXCEPT ![n] = state]
  /\ Push(<<record>>)
  /\ UNCHANGED <<now, link, pending, bytes, reserved, next, peak>>

Restart(n) ==
  LET boot == node[n].boot + 1 IN
  Changed(n, [node[n] EXCEPT !.boot = boot],
    [kind |-> "restarted", at |-> now, node |-> n, boot |-> boot])

ChangeAddress(n, address) ==
  LET generation == node[n].generation + 1 IN
  Changed(n, [node[n] EXCEPT !.address = address, !.generation = generation],
    [kind |-> "readdressed", at |-> now, node |-> n, address |-> address,
     generation |-> generation])

SetWallTime(n, wall) ==
  Changed(n, [node[n] EXCEPT !.wall = wall],
    [kind |-> "wall clock", at |-> now, node |-> n, previous |-> node[n].wall, current |-> wall])

Next ==
  \/ RunNext
  \/ \E l \in Links : \E size \in Sizes : SendFrame(l, size)
  \/ \E l \in Links : \E p \in Partitions : Partition(l, p) \/ Heal(l, p)
  \/ \E n \in Nodes : Restart(n)
  \/ \E n \in Nodes : \E address \in Addresses : ChangeAddress(n, address)
  \/ \E n \in Nodes : \E wall \in WallTimes : SetWallTime(n, wall)

Spec == Init /\ [][Next]_vars

-----------------------------------------------------------------------------
(* What the log says                                                        *)

Records(kinds) == {i \in DOMAIN log : log[i].kind \in kinds}

\* Whether record i is about link l or one of its ends.
Disturbs(i, l) ==
  \/ log[i].kind \in {"partitioned", "healed"} /\ log[i].link = l
  \/ log[i].kind \in {"restarted", "readdressed"} /\ log[i].node \in {l[1], l[2]}

\* Every copy of an accepted frame is in flight or has one record of its end,
\* never both and never two; it was delivered exactly when nothing happened to
\* its link or to one of its ends between the two records, even if that was
\* undone (partition and heal, an address given back).  The log is in the order of
\* time and has room for the end of everything in flight, so no run of
\* run_next fails (network.rs send_frame, run_next, delivery_outcome).
LogIsSound ==
  /\ \A i \in Records({"accepted"}) : \A k \in 0 .. log[i].copies - 1 :
       LET ends == {j \in Records({"delivered", "dropped"}) :
                      log[j].frame = log[i].frame /\ log[j].copy = k}
           flying == {d \in pending : d.frame = log[i].frame /\ d.copy = k}
       IN  /\ Cardinality(ends) + Cardinality(flying) = 1
           /\ \A j \in ends : log[j].kind = "delivered" <=>
                              \A x \in i .. j : ~Disturbs(x, log[i].link)
  /\ \A i \in Records({"delivered"}) : \E j \in Records({"accepted"}) :
       log[j].frame = log[i].frame /\ log[i].copy < log[j].copies
  /\ \A i \in 2 .. Len(log) : log[i - 1].at <= log[i].at
  /\ \A d \in pending : now <= d.deadline
  /\ reserved = Cardinality(pending) /\ Len(log) + reserved <= MaxRecords
  /\ bytes = MapThenSumSet(LAMBDA d : d.bytes, pending) /\ bytes <= MaxPendingBytes
=============================================================================
