---------------------------- MODULE RouteRecords ----------------------------
(***************************************************************************)
(* What a node remembers of the packets it routes: the bounded in-memory   *)
(* route table (session/stream.rs, runtime/supervisor.rs) and the durable  *)
(* trace records (routing/trace.rs).                                       *)
(*                                                                         *)
(* The supervisor inserts a route record per packet it sends, the pump of  *)
(* the packet updates it, a late failed acknowledgement may fail it, and a *)
(* refused inbound open adds a failed one.  When a pump ends it spawns a   *)
(* task that persists one terminal record; the supervisor's timer removes  *)
(* expired and excess ones.  Every write to the store names the revision   *)
(* its snapshot was taken at and is refused when the store has moved, so   *)
(* these tasks contend with each other and with every other writer of the  *)
(* node.  A commit that ends without a definite outcome may or may not     *)
(* have been applied (MetadataStore models the gate behind it).            *)
(***************************************************************************)
EXTENDS Integers, Sequences, FiniteSets

CONSTANTS
  Sends,        \* packets this node sends
  Internal,     \* those of them that are the node's own control traffic
  Rejects,      \* inbound opens this node refuses
  Inherited,    \* traces an earlier process left in an active phase
  Capacity,     \* route_capacity
  Permits,      \* MAX_CONCURRENT_TRACE_PERSISTENCE
  TerminalCap,  \* the configured cap on durable terminal records
  Retention,    \* how long a durable terminal record is kept
  Batch,        \* MAX_BATCH_OPERATIONS
  MaxNow,       \* bound on the clock
  MaxRestarts   \* bound on restarts

VARIABLES
  now,        \* the wall clock; it may be set back
  routes,     \* the in-memory route table
  pumps,      \* the step of every packet's pump
  recorders,  \* the step of every packet's persistence task
  stored,     \* the durable records
  fresh,      \* the tasks whose snapshot still has the store's revision
  live,       \* trace_records, the counter that gates the sweep
  job,        \* the startup pass or the retention sweep, when one runs
  serving,    \* whether the supervisor is in its loop
  restarts    \* restarts so far

table == <<routes, pumps>>
store == <<stored, fresh>>
vars == <<now, routes, pumps, recorders, stored, fresh, live, job, serving, restarts>>

Packets == Sends \cup Rejects \cup Inherited

NoRoute == [state |-> "none", at |-> 0]
NoRecord == [phase |-> "none", at |-> 0]
Idle == [kind |-> "idle", step |-> "done", ops |-> <<>>, total |-> 0]
Waiting(phase) == [pc |-> "waiting", phase |-> phase, at |-> 0]
Supervisor == "supervisor"
NoTask == [Waiting("none") EXCEPT !.pc = "none"]

IsTerminal(state) == state \in {"Delivered", "Failed"}
IsActive(state) == state \in {"Routing", "Streaming"}

Init ==
  /\ now = 0
  /\ routes = [t \in Packets |-> NoRoute]
  /\ pumps = [t \in Sends |-> "new"]
  /\ recorders = [t \in Sends |-> NoTask]
  /\ stored = [t \in Packets |->
       IF t \in Inherited THEN [phase |-> "Streaming", at |-> 0] ELSE NoRecord]
  /\ fresh = {}
  /\ live = 0
  /\ job = Idle
  /\ serving = FALSE
  /\ restarts = 0

-----------------------------------------------------------------------------
\* The in-memory route table.

Held(r) == {t \in Packets : r[t] # NoRoute}

\* Mutant: the oldest record is evicted, whatever its state.
OldestRoute(r) == {t \in Held(r) : \A u \in Held(r) : r[t].at <= r[u].at}

\* The terminal records with the earliest update.
OldestTerminal(r) ==
  LET terminal == {t \in Held(r) : IsTerminal(r[t].state)}
  IN  {t \in terminal : \A u \in terminal : r[t].at <= r[u].at}

\* insert_route: the tables it may leave, none when the table is full of
\* active records.
Inserted(r, capacity, t, state) ==
  LET record == [state |-> state, at |-> now]
  IN  IF r[t] = NoRoute /\ Cardinality(Held(r)) >= capacity
        THEN {[r EXCEPT ![u] = NoRoute, ![t] = record] : u \in OldestTerminal(r)}
        ELSE {[r EXCEPT ![t] = record]}

\* record_route_failure: the failing record is inserted if it can be, and
\* whatever record the trace then has is failed.
Failing(r, t) ==
  LET tables == Inserted(r, Capacity, t, "Failed")
  IN  IF tables = {} THEN {r} ELSE tables

\* update_route: a failed route is final.
UpdateRoute(r, t, state) ==
  IF r[t] = NoRoute \/ r[t].state = "Failed"
    THEN r
    ELSE [r EXCEPT ![t] = [state |-> state, at |-> now]]

\* send_packet: the target does not resolve, the table is full, no session
\* leads on (or the policy finds none), the policy itself fails, or the pump
\* starts.
SendPacket(t) ==
  /\ serving
  /\ job = Idle
  /\ pumps[t] = "new"
  /\ \/ routes' \in Failing(routes, t) /\ pumps' = [pumps EXCEPT ![t] = "refused"]
     \/ /\ Inserted(routes, Capacity, t, "Routing") = {}
        /\ UNCHANGED routes
        /\ pumps' = [pumps EXCEPT ![t] = "refused"]
     \/ \E r \in Inserted(routes, Capacity, t, "Routing") :
          \/ routes' \in Failing(r, t) /\ pumps' = [pumps EXCEPT ![t] = "refused"]
          \/ routes' = r /\ pumps' = [pumps EXCEPT ![t] = "policy failed"]
          \/ routes' = r /\ pumps' = [pumps EXCEPT ![t] = "pumping"]
  /\ UNCHANGED <<now, recorders, store, live, job, serving, restarts>>

\* run_outbound streams a chunk.
PumpStream(t) ==
  /\ pumps[t] \in {"pumping", "streaming"}
  /\ pumps' = [pumps EXCEPT ![t] = "streaming"]
  /\ routes' = UpdateRoute(routes, t, "Streaming")
  /\ UNCHANGED <<now, recorders, store, live, job, serving, restarts>>

\* run_outbound ends: the terminal state is recorded in the table and a task
\* is spawned to persist it, except for control traffic.
PumpEnd(t, state) ==
  /\ pumps[t] \in {"pumping", "streaming"}
  /\ state = "Delivered" => pumps[t] = "streaming"
  /\ pumps' = [pumps EXCEPT ![t] = state]
  /\ routes' = UpdateRoute(routes, t, state)
  /\ recorders' = IF t \in Internal THEN recorders ELSE [recorders EXCEPT ![t] = Waiting(state)]
  /\ UNCHANGED <<now, store, live, job, serving, restarts>>

\* The read loop handles a failed acknowledgement of a packet, also one
\* whose pump has ended.
LateFailure(t) ==
  /\ pumps[t] \in {"streaming", "Delivered"}
  /\ routes' = UpdateRoute(routes, t, "Failed")
  /\ UNCHANGED <<now, pumps, recorders, store, live, job, serving, restarts>>

\* record_rejection: a refused open adds a failed record without a bound.
RecordRejection(t) ==
  /\ serving
  /\ routes[t] = NoRoute
  /\ routes' \in Inserted(routes, Cardinality(Packets) + 1, t, "Failed")
  /\ UNCHANGED <<now, pumps, recorders, store, live, job, serving, restarts>>

-----------------------------------------------------------------------------
\* TraceSink::record and put_trace.

Working == {t \in Sends : recorders[t].pc \in {"stamped", "prepared", "counting"}}

\* A task takes a permit and stamps its record.
RecordStart(t) ==
  /\ recorders[t].pc = "waiting"
  /\ Cardinality(Working) < Permits
  /\ recorders' = [recorders EXCEPT ![t].pc = "stamped", ![t].at = now]
  /\ UNCHANGED <<now, table, store, live, job, serving, restarts>>

\* The snapshot its transaction is prepared from.
RecordSnapshot(t) ==
  /\ recorders[t].pc = "stamped"
  /\ recorders' = [recorders EXCEPT ![t].pc = "prepared"]
  /\ fresh' = fresh \cup {t}
  /\ UNCHANGED <<now, table, stored, live, job, serving, restarts>>

\* The commit: applied, refused because the store has moved (the record is
\* then lost), or ended by an error, which may hide an application.
RecordCommit(t) ==
  LET apply == /\ t \in fresh
               /\ stored' = [stored EXCEPT ![t] =
                    [phase |-> recorders[t].phase, at |-> recorders[t].at]]
               /\ fresh' = {}
      lose == recorders' = [recorders EXCEPT ![t] = NoTask]
  IN  /\ recorders[t].pc = "prepared"
      /\ \/ apply /\ recorders' = [recorders EXCEPT ![t].pc = "counting"]
         \/ apply /\ lose
         \/ UNCHANGED stored /\ fresh' = fresh \ {t} /\ lose
      /\ UNCHANGED <<now, table, live, job, serving, restarts>>

\* The counter follows the commit, and the permit is returned.
RecordCount(t) ==
  /\ recorders[t].pc = "counting"
  /\ recorders' = [recorders EXCEPT ![t] = NoTask]
  /\ live' = live + 1
  /\ UNCHANGED <<now, table, store, job, serving, restarts>>

-----------------------------------------------------------------------------
\* terminate_stale and sweep.

Recorded == {t \in Packets : stored[t] # NoRecord}
Terminals == {t \in Recorded : IsTerminal(stored[t].phase)}

Expired == {t \in Terminals : now >= stored[t].at /\ now - stored[t].at >= Retention}

\* The orders a set of traces may be processed in.
Orders(S) == {s \in [1..Cardinality(S) -> S] : \A i, j \in DOMAIN s : i # j => s[i] # s[j]}

\* The oldest-first orders; ties keep the scan's order.
OldestFirst(S) ==
  {s \in Orders(S) : \A i, j \in DOMAIN s : i < j => stored[s[i]].at <= stored[s[j]].at}

Smaller(a, b) == IF a < b THEN a ELSE b

\* The removals sweep may plan: every expired record, then as many of the
\* oldest others as all terminals together exceed the cap by.
Removals ==
  LET overflow == IF Cardinality(Terminals) > TerminalCap
                    THEN Cardinality(Terminals) - TerminalCap ELSE 0
      kept == Terminals \ Expired
  IN  {e \o SubSeq(f, 1, Smaller(overflow, Len(f))) : e \in Orders(Expired), f \in OldestFirst(kept)}

Replacing(s, record(_)) ==
  [i \in DOMAIN s |-> [trace |-> s[i], expected |-> stored[s[i]], value |-> record(s[i])]]

Plan(kind, ops) == [kind |-> kind, step |-> "snapshot", ops |-> ops, total |-> Len(ops)]

\* The scan of terminate_stale, before the supervisor serves.
TerminateStale ==
  /\ ~serving
  /\ job = Idle
  /\ \E s \in Orders({t \in Recorded : IsActive(stored[t].phase)}) :
       LET interrupted(t) == [phase |-> "Failed", at |-> now]
       IN  job' = Plan("terminate", Replacing(s, interrupted))
  /\ UNCHANGED <<now, table, recorders, store, live, serving, restarts>>

\* trace_retention_sweep: skipped while the counter is zero.
Sweep ==
  /\ serving
  /\ job = Idle
  /\ live > 0
  /\ \E s \in Removals :
       LET removed(t) == NoRecord
       IN  job' = Plan("sweep", Replacing(s, removed))
  /\ UNCHANGED <<now, table, recorders, store, live, serving, restarts>>

\* commit_batch takes a snapshot of its own.
BatchSnapshot ==
  /\ job.kind # "idle" /\ job.step = "snapshot" /\ job.ops # <<>>
  /\ job' = [job EXCEPT !.step = "commit"]
  /\ fresh' = fresh \cup {Supervisor}
  /\ UNCHANGED <<now, table, recorders, stored, live, serving, restarts>>

Matches(ops) == \A i \in DOMAIN ops : stored[ops[i].trace] = ops[i].expected

\* A batch commits or is refused, and the pass goes on to the next one; an
\* error ends the pass.
BatchCommit ==
  LET batch == SubSeq(job.ops, 1, Smaller(Batch, Len(job.ops)))
      rest == SubSeq(job.ops, Len(batch) + 1, Len(job.ops))
      applicable == Supervisor \in fresh /\ Matches(batch)
      apply == /\ stored' = [t \in Packets |->
                    IF \E i \in DOMAIN batch : batch[i].trace = t
                      THEN (CHOOSE op \in {batch[i] : i \in DOMAIN batch} : op.trace = t).value
                      ELSE stored[t]]
               /\ fresh' = {}
      refuse == UNCHANGED stored /\ fresh' = fresh \ {Supervisor}
      next == [job EXCEPT !.step = "snapshot", !.ops = rest]
      fail == [job EXCEPT !.step = "error", !.ops = <<>>]
  IN  /\ job.step = "commit"
      /\ \/ applicable /\ apply /\ job' = next
         \/ ~applicable /\ refuse /\ job' = next
         \/ applicable /\ apply /\ job' = fail
         \/ refuse /\ job' = fail
      /\ UNCHANGED <<now, table, recorders, live, serving, restarts>>

\* The pass is over.  A sweep that met no error lowers the counter by all it
\* planned to remove; the startup pass, failed or not, lets the supervisor
\* serve.
JobDone ==
  /\ job.kind # "idle" /\ job.step \in {"snapshot", "error"} /\ job.ops = <<>>
  /\ live' = IF job.kind = "sweep" /\ job.step = "snapshot"
               THEN live - Smaller(job.total, live) ELSE live
  /\ serving' = TRUE
  /\ job' = Idle
  /\ UNCHANGED <<now, table, recorders, store, restarts>>

-----------------------------------------------------------------------------
\* The environment.

Clock ==
  /\ now' \in {n \in {now - 1, now + 1} : n \in 0..MaxNow}
  /\ UNCHANGED <<table, recorders, store, live, job, serving, restarts>>

\* Another writer of the node commits, and the store moves on.
OtherCommit ==
  /\ fresh # {}
  /\ fresh' = {}
  /\ UNCHANGED <<now, table, recorders, stored, live, job, serving, restarts>>

\* The process ends and starts again; what was not stored is gone.
Restart ==
  /\ restarts < MaxRestarts
  /\ restarts' = restarts + 1
  /\ routes' = [t \in Packets |-> NoRoute]
  /\ pumps' = [t \in Sends |-> IF pumps[t] = "new" THEN "new" ELSE "gone"]
  /\ recorders' = [t \in Sends |-> NoTask]
  /\ live' = 0
  /\ job' = Idle
  /\ serving' = FALSE
  /\ fresh' = {}
  /\ UNCHANGED <<now, stored>>

Next ==
  \/ \E t \in Sends :
       \/ SendPacket(t) \/ PumpStream(t) \/ LateFailure(t)
       \/ \E state \in {"Delivered", "Failed"} : PumpEnd(t, state)
       \/ RecordStart(t) \/ RecordSnapshot(t) \/ RecordCommit(t) \/ RecordCount(t)
  \/ \E t \in Rejects : RecordRejection(t)
  \/ TerminateStale \/ Sweep \/ BatchSnapshot \/ BatchCommit \/ JobDone
  \/ Clock \/ OtherCommit \/ Restart

Spec == Init /\ [][Next]_vars

-----------------------------------------------------------------------------
\* Properties.

\* What is still on its way is never forgotten while the process runs: full
\* or not, insert_route evicts no record of an active packet, and no sweep
\* deletes a durable record in an active phase, not even one the startup
\* pass failed to terminate.  A failed observation stays failed until it is
\* evicted (update_route, against pumps and late acknowledgements).
ObservationKept ==
  [][\A t \in Packets :
       /\ IsActive(stored[t].phase) => stored'[t] # NoRecord
       /\ restarts' = restarts =>
            /\ IsActive(routes[t].state) => routes'[t] # NoRoute
            /\ routes[t].state = "Failed" => routes'[t].state \in {"Failed", "none"}]_vars

\* A packet that never got a pump leaves no record of an active route:
\* "Failure paths still record the terminal route state so asynchronous
\* senders can observe them through `GetRoute`" (send_packet).
FailurePathsRecorded ==
  \A t \in Sends : pumps[t] \in {"refused", "policy failed"} => ~IsActive(routes[t].state)

\* A sweep is skipped only while there is nothing to sweep: the counter "may
\* over-approximate; that only costs extra cheap sweeps, never a missed one"
\* (TraceSink::live_records).
NeverMissed ==
  serving /\ job = Idle /\ live = 0 /\ Working = {} => Recorded = {}
=============================================================================
