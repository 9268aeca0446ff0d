---------------------------- MODULE FaultMatrix ----------------------------
(***************************************************************************)
(* The fault-matrix scenario of the simulator (simulation/network.rs:      *)
(* run_fault_matrix_seed): a fixed sequence of calls after which every     *)
(* kind of fault must have been observed, whatever the seed.  The seed     *)
(* decides the jitter of one link only; the other decisions are forced by  *)
(* probabilities of 0 or one million.                                      *)
(***************************************************************************)
EXTENDS Integers, Sequences, FiniteSets

VARIABLES
  now, node, link, pending, bytes, reserved, log, next, peak,  \* the simulator's
  pc,      \* calls made
  frames,  \* the frames the scenario sent
  seen     \* what it noted on the way: the start and the expected deadlines of
           \* the joint frame, the next deadline, and clocks

matrixVars == <<now, node, link, pending, bytes, reserved, log, next, peak, pc, frames, seen>>

\* MATRIX_LINKS, by the part they play.
loss == <<1, 2>>
duplicate == <<2, 3>>
reorder == <<3, 4>>
partitioned == <<4, 1>>
reverse == <<1, 4>>
restarted == <<2, 4>>
readdressed == <<1, 3>>
joint == <<4, 2>>

\* matrix_policy.
Matrix(delay, jitter, lost, twice, reordered, window) ==
  [delay |-> delay, jitter |-> jitter, loss |-> lost, duplicate |-> twice,
   reorder |-> reordered, window |-> window]

Always == 1000000

Policies ==
  [l \in {loss, duplicate, reorder, partitioned, reverse, restarted, readdressed, joint} |->
     CASE l = loss -> Matrix(1, 0, Always, 0, 0, 0)
       [] l = duplicate -> Matrix(1, 0, 0, Always, 0, 0)
       [] l = reorder -> Matrix(1, 0, 0, 0, Always, 10)
       [] l \in {partitioned, reverse} -> Matrix(5, 0, 0, 0, 0, 0)
       [] l \in {restarted, readdressed} -> Matrix(4, 0, 0, 0, 0, 0)
       [] l = joint -> Matrix(3, 20, 0, Always, Always, 10)]

S == INSTANCE Simulator WITH
       Policy <- Policies, Home <- [n \in 1 .. 4 |-> n * 10], Addresses <- {99},
       Partitions <- 1 .. 3, WallTimes <- {40, 100, 1000}, Sizes <- {8, 32},
       MaxFrameBytes <- 256, MaxPendingFrames <- 64, MaxPendingBytes <- 8192, MaxRecords <- 512

\* The calls in their order; "run" is Simulator::run.
Send(l) == [call |-> "send", link |-> l]
Partition(l, p) == [call |-> "partition", link |-> l, partition |-> p]
Heal(l, p) == [call |-> "heal", link |-> l, partition |-> p]
Run == [call |-> "run"]
WallTime(t) == [call |-> "wall", time |-> t]

Calls ==
  << Send(loss), Send(duplicate), Send(reorder), Send(reorder), Run,
     Partition(partitioned, 1), Send(partitioned), Heal(partitioned, 1), Send(partitioned),
     Partition(partitioned, 2), Heal(partitioned, 2), Send(reverse), Send(partitioned), Run,
     Send(restarted), [call |-> "restart"], Run, Send(restarted), Run,
     Send(readdressed), [call |-> "readdress"], Run, Send(readdressed), Run,
     WallTime(100), WallTime(40), [call |-> "joint"],
     Partition(joint, 3), Heal(joint, 3), Run, WallTime(1000) >>

MatrixInit ==
  /\ S!Init
  /\ pc = 0
  /\ frames = <<>>
  /\ seen = [start |-> 0, deadlines |-> <<>>, next |-> 0, freeze |-> <<0, 0>>, walls |-> <<>>]

\* The joint frame: its deadlines are computed beforehand from the decisions the
\* simulator will take, and its next deadline is noted.
SendJoint ==
  \E jitter \in [0 .. 1 -> 0 .. 20] :
    LET choice == [copies |-> 2, reordered |-> [k \in 0 .. 1 |-> TRUE], jitter |-> jitter]
        first(queue) == CHOOSE d \in queue : \A e \in queue \ {d} : S!Before(d, e)
    IN  /\ S!SendFrame(joint, 32)
        /\ pending' = pending \cup {S!Scheduled(joint, 32, choice, k) : k \in 0 .. 1}
        /\ seen' = [seen EXCEPT !.start = now, !.next = first(pending').deadline,
                                !.deadlines = <<S!Reordered(now + 3 + jitter[0], 10),
                                                S!Reordered(now + 3 + jitter[1], 10)>>]

Perform(c) ==
  CASE c.call = "send" -> S!SendFrame(c.link, 8) /\ UNCHANGED seen
    [] c.call = "partition" -> S!Partition(c.link, c.partition) /\ UNCHANGED seen
    [] c.call = "heal" -> S!Heal(c.link, c.partition) /\ UNCHANGED seen
    [] c.call = "restart" -> S!Restart(4) /\ UNCHANGED seen
    [] c.call = "readdress" -> S!ChangeAddress(3, 99) /\ UNCHANGED seen
    [] c.call = "wall" -> /\ S!SetWallTime(2, c.time)
                          /\ seen' = [seen EXCEPT !.walls = Append(@, node'[2].wall)]
    [] c.call = "joint" -> SendJoint

\* One call; run steps the simulator until nothing is in flight.
MatrixNext ==
  /\ pc < Len(Calls)
  /\ LET c == Calls[pc + 1] IN
     IF c.call = "run"
     THEN IF pending = {}
          THEN /\ pc' = pc + 1
               /\ seen' = [seen EXCEPT !.freeze = <<now, node[2].wall>>]
               /\ UNCHANGED <<now, node, link, pending, bytes, reserved, log, next, peak, frames>>
          ELSE S!RunNext /\ UNCHANGED <<pc, frames, seen>>
     ELSE /\ Perform(c)
          /\ pc' = pc + 1
          /\ frames' = IF c.call \in {"send", "joint"} THEN Append(frames, next.frame) ELSE frames

-----------------------------------------------------------------------------
(* What the scenario looks for in the log                                   *)

Records(kind, f) == {i \in DOMAIN log : log[i].kind = kind /\ log[i].frame = f}

observed_delivery(f) == Records("delivered", f) # {}
observed_loss(f) == Records("lost", f) # {} /\ ~observed_delivery(f)

observed_exact_duplicate(f) ==
  /\ Records("duplicated", f) # {}
  /\ \A k \in 0 .. 1 : \E i \in Records("delivered", f) :
       \A j \in Records("delivered", f) : log[j].copy = k <=> j = i

observed_reorder(first, second) ==
  /\ Records("reordered", first) # {} /\ Records("reordered", second) # {}
  /\ \E i \in Records("delivered", second), j \in Records("delivered", first) : i < j

observed_drop(f, reason) ==
  /\ \E i \in Records("dropped", f) : log[i].reason = reason
  /\ ~observed_delivery(f)

observed_delay(f) ==
  \E i \in Records("accepted", f), j \in Records("delivered", f) : log[i].at < log[j].at

observed_joint_fault(f, deadlines) ==
  /\ Records("duplicated", f) # {}
  /\ Cardinality(Records("reordered", f)) = 2
  /\ {log[i].copy : i \in Records("reordered", f)} = 0 .. 1
  /\ LET stale == {i \in Records("dropped", f) : log[i].reason = "stale link"} IN
       /\ Cardinality(stale) = 2
       /\ \A k \in 0 .. 1 : \E i \in stale : log[i].copy = k /\ log[i].at = deadlines[k + 1]
  /\ ~observed_delivery(f)

Count(kind) == Len(SelectSeq(log, LAMBDA r : r.kind = kind))
Logged(fields) == \E i \in DOMAIN log :
  DOMAIN fields \subseteq DOMAIN log[i] /\ \A x \in DOMAIN fields : log[i][x] = fields[x]
Whole(l) == link[l].partitions = {}

\* The faults of the mask, and when each counts as observed.
Faults ==
  [loss |-> observed_loss(frames[1]),
   duplicate |-> observed_exact_duplicate(frames[2]),
   reorder |-> observed_reorder(frames[3], frames[4]),
   blocked |-> observed_drop(frames[5], "blocked"),
   stale_link |-> observed_drop(frames[6], "stale link"),
   stale_boot |-> observed_drop(frames[9], "stale boot"),
   stale_address |-> observed_drop(frames[11], "stale address"),
   partition |-> /\ Count("partitioned") = 3
                 /\ Whole(partitioned) /\ link[partitioned].generation = 4
                 /\ Whole(joint) /\ link[joint].generation = 2,
   heal |-> Count("healed") = 3 /\ Whole(partitioned) /\ Whole(joint),
   restart |-> node[4].boot = 1 /\ Logged([kind |-> "restarted", node |-> 4, boot |-> 1]),
   address |-> /\ node[3].address = 99 /\ node[3].generation = 1
               /\ Logged([kind |-> "readdressed", node |-> 3, address |-> 99, generation |-> 1]),
   rollback |-> /\ seen.walls[1] = 100 /\ seen.walls[2] = 40
                /\ Logged([kind |-> "wall clock", node |-> 2, previous |-> 100, current |-> 40]),
   freeze |-> /\ seen.next \in {seen.deadlines[1], seen.deadlines[2]}
              /\ seen.next <= seen.deadlines[1] /\ seen.next <= seen.deadlines[2]
              /\ seen.freeze[1] > seen.start /\ seen.freeze[2] = 40,
   jump |-> /\ seen.walls[3] = 1000
            /\ Logged([kind |-> "wall clock", node |-> 2, previous |-> 40, current |-> 1000]),
   delivery |-> observed_delivery(frames[7]),
   directed |-> observed_drop(frames[5], "blocked") /\ observed_delivery(frames[7]),
   joint |-> observed_joint_fault(frames[13], seen.deadlines),
   delay |-> observed_delay(frames[7])]

\* REQUIRED_FAULTS: at the end of the scenario every kind of fault has been
\* observed, whatever the seed.
MatrixIsComplete == pc = Len(Calls) => \A f \in DOMAIN Faults : Faults[f]
=============================================================================
