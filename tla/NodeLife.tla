------------------------------ MODULE NodeLife ------------------------------
(***************************************************************************)
(* The life of one node: opening or creating its identity, serving         *)
(* commands, leaving the cluster, shutting down, crashing and starting     *)
(* again on the same store and the same key provider.  Sources:            *)
(* identity/lifecycle.rs, identity/leave.rs, identity/deletion.rs,         *)
(* identity/genesis.rs, runtime/lifecycle.rs and the control loop of       *)
(* runtime/supervisor.rs.                                                  *)
(*                                                                         *)
(* A node id, its key-creation operation and the provider handle of its    *)
(* key are generated together and never again, so one number stands for    *)
(* the three.  Every transaction carries the revision of the snapshot it   *)
(* was prepared from; node.stale says that somebody else has committed     *)
(* since that snapshot.  The running procedure (open, create, leave,       *)
(* genesis, shutdown) is a program counter, node.at: its awaits are the    *)
(* steps between which tasks commit, providers fail and processes die.     *)
(***************************************************************************)
EXTENDS Naturals, Sequences, Functions, FiniteSets

CONSTANTS
  Clients,      \* holders of a NodeHandle
  Nobody,       \* no client
  Capacity,     \* CONTROL_CAPACITY, the bound of the control channel
  WipeRetries,  \* WIPE_RETRIES
  MaxFaults,    \* provider failures, lost runtimes and crashes in a run
  MaxCalls,     \* commands issued in a run
  MaxTraces     \* packets whose outcome is recorded in a run

ASSUME NodeLifeAssumption ==
  /\ Capacity \in Nat \ {0}
  /\ {WipeRetries, MaxFaults, MaxCalls, MaxTraces} \subseteq Nat
  /\ Nobody \notin Clients

\* One identity is created, and every leave replaces it by a fresh one.
Ids == 1..(MaxCalls + 1)

None == 0
NoLeave == [former |-> None, replacement |-> None]

VARIABLES
  db,      \* the committed records of the store
  keys,    \* handles the key provider holds
  node,    \* the runtime and the procedure it is in
  queue,   \* the control channel: the clients whose message is in it
  call,    \* what each client has asked for
  tasks,   \* detached trace tasks, counted by the identity they record for
  spent    \* the run's bounds: faults, calls and traces used

vars == <<db, keys, node, queue, call, tasks, spent>>

Idle == [kind |-> "none", state |-> "idle", result |-> "none"]

Down ==
  [status |-> "down", reason |-> "none", goal |-> "none", ctx |-> None, at |-> "none",
   then |-> "none", purpose |-> "none", tries |-> 0, attempts |-> 0, stale |-> FALSE,
   blocked |-> FALSE, serving |-> Nobody]

Init ==
  /\ db = [ident |-> None, create |-> None, leave |-> NoLeave, deleting |-> {}, deleted |-> {},
           journal |-> {}, cluster |-> {}, trace |-> {}]
  /\ keys = {}
  /\ node = Down
  /\ queue = <<>>
  /\ call = [c \in Clients |-> Idle]
  /\ tasks = [i \in Ids |-> 0]
  /\ spent = [faults |-> 0, calls |-> 0, traces |-> 0]

\* A coordinate that entropy has never produced: it is in no record and in
\* no provider, and the identities of the past all have a tombstone.
Unused == Ids \ (keys \cup db.deleting \cup db.deleted
                  \cup {db.ident, db.create, db.leave.former, db.leave.replacement})

Fresh == CHOOSE i \in Unused : TRUE

Spend(what) == spent' = [spent EXCEPT ![what] = @ + 1]

Faulty == /\ spent.faults < MaxFaults
          /\ Spend("faults")

\* The procedure goes on at step l, from a snapshot taken on the way.
To(l) == [node EXCEPT !.at = l, !.stale = FALSE]

\* The control loop waits for its next message.
Waiting == [Down EXCEPT !.status = "running", !.ctx = node.ctx, !.at = "idle",
                        !.blocked = node.blocked]

\* The store and the provider are only read: go on at step l.
Goto(l) == /\ node' = To(l)
           /\ UNCHANGED <<db, keys, queue, call, tasks, spent>>

Fails == Goto("failed")

(***************************************************************************)
(* commit_with_reconcile.  A blocked store refuses the commit.  A          *)
(* transaction prepared from an old revision conflicts.  Otherwise the     *)
(* provider commits it, proves it aborted, or leaves the outcome unknown;  *)
(* an unknown outcome that reconciles is one of the first two, and one     *)
(* that stays unknown fails the procedure and blocks the store.  A         *)
(* provider that refuses the call only fails the procedure.                *)
(***************************************************************************)
Commit(new, committed, aborted) ==
  /\ \/ /\ node.blocked
        /\ node' = To("failed")
        /\ UNCHANGED <<db, spent>>
     \/ /\ ~node.blocked /\ ~node.stale
        /\ db' = new
        /\ node' = committed
        /\ UNCHANGED spent
     \/ /\ ~node.blocked
        /\ IF node.stale THEN UNCHANGED spent ELSE Faulty
        /\ node' = aborted
        /\ UNCHANGED db
     \/ /\ ~node.blocked
        /\ Faulty
        /\ \/ /\ db' \in {db} \cup (IF node.stale THEN {} ELSE {new})
              /\ node' = [To("failed") EXCEPT !.blocked = TRUE]
           \/ /\ node' = To("failed")
              /\ UNCHANGED db
  /\ UNCHANGED <<keys, queue, call, tasks>>

(***************************************************************************)
(* cleanup_pending_exact: delete the pending record of a purpose, then go  *)
(* on.  A proven abort is retried once under a fresh transaction id, a     *)
(* conflict is not; the conflict of the last clean-up of a key deletion    *)
(* sends delete_unreferenced_key round its loop.                           *)
(***************************************************************************)
CleanThen(purpose, l) ==
  [node EXCEPT !.at = "clean", !.then = l, !.purpose = purpose, !.tries = 1, !.stale = FALSE]

CleanupPending ==
  /\ node.at = "clean"
  /\ IF node.purpose \notin db.journal
     THEN Goto(node.then)
     ELSE Commit([db EXCEPT !.journal = @ \ {node.purpose}], To(node.then),
                 IF ~node.stale /\ node.tries < 2 THEN [To("clean") EXCEPT !.tries = @ + 1]
                 ELSE IF node.then = "complete" THEN To("retryDeletion") ELSE To("failed"))

(***************************************************************************)
(* Starting: spawn_runtime and open_local_identity.  The store is locked   *)
(* for the lifetime of every handle on it, the detached trace tasks of a   *)
(* runtime that has stopped included.                                      *)
(***************************************************************************)
Start ==
  /\ node.status \in {"down", "stopped", "failed"}
  /\ \A c \in Clients : call[c].state \in {"idle", "done"}
  /\ \A i \in Ids : tasks[i] = 0
  /\ node' = [Down EXCEPT !.status = "starting", !.at = "open"]
  /\ call' = [c \in Clients |-> Idle]
  /\ UNCHANGED <<db, keys, queue, tasks, spent>>

Open ==
  /\ node.at = "open"
  /\ node' = IF "local" \in db.journal THEN CleanThen("local", "discover") ELSE To("discover")
  /\ UNCHANGED <<db, keys, queue, call, tasks, spent>>

Discover ==
  /\ node.at = "discover"
  /\ node' = IF db.ident # None
             THEN IF db.create # None \/ db.ident \notin keys
                  THEN To("failed")
                  ELSE [To("resume") EXCEPT !.ctx = db.ident]
             ELSE IF db.create # None THEN To("reconcileCreate") ELSE To("intent")
  /\ UNCHANGED <<db, keys, queue, call, tasks, spent>>

CreateIntent ==
  /\ node.at = "intent"
  /\ Commit([db EXCEPT !.create = Fresh], To("createKey"), To("failed"))

(***************************************************************************)
(* The key provider: an operation either takes effect and is reported, or  *)
(* its outcome is unknown and the procedure fails.                         *)
(***************************************************************************)
CreateUnder(id, l) ==
  /\ \/ /\ keys' = keys \cup {id}
        /\ node' = To(l)
        /\ UNCHANGED spent
     \/ /\ Faulty
        /\ keys' \in {keys, keys \cup {id}}
        /\ node' = To("failed")
  /\ UNCHANGED <<db, queue, call, tasks>>

ReconcileUnder(id, present, absent) ==
  \/ Goto(IF id \in keys THEN present ELSE absent)
  \/ /\ Faulty
     /\ node' = To("failed")
     /\ UNCHANGED <<db, keys, queue, call, tasks>>

CreateKeyExact ==
  /\ node.at = "createKey"
  /\ CreateUnder(db.create, "finalize")

ReconcileCreate ==
  /\ node.at = "reconcileCreate"
  /\ ReconcileUnder(db.create, "finalize", "createKey")

FinalizeIdentity ==
  /\ node.at = "finalize"
  /\ IF db.create \in db.deleting \cup db.deleted
     THEN Fails
     ELSE Commit([db EXCEPT !.create = None, !.ident = db.create, !.journal = @ \cup {"local"}],
                 [CleanThen("local", "resume") EXCEPT !.ctx = db.create], To("failed"))

\* resume_if_pending: a pending leave runs before the node serves, and the
\* context then takes the identity the store holds.
ResumeIfPending ==
  /\ node.at = "resume"
  /\ Goto(IF db.leave = NoLeave THEN "ready" ELSE "runLeave")

Ready ==
  /\ node.at = "ready"
  /\ node' = Waiting
  /\ UNCHANGED <<db, keys, queue, call, tasks, spent>>

(***************************************************************************)
(* run_leave: the replacement key, the swap, the wipe, the deletion of the *)
(* former key and the removal of the intent.  The start-up resume and the  *)
(* command share it.                                                       *)
(***************************************************************************)
\* Mutant: a leave resumed after its swap takes the wipe for done.
RunLeaveWiped ==
  /\ node.at = "runLeave"
  /\ Goto(CASE db.ident = db.leave.former -> "reconcileReplacement"
            [] db.ident = db.leave.replacement -> "deleteFormer"
            [] OTHER -> "failed")

RunLeave ==
  /\ node.at = "runLeave"
  /\ Goto(CASE db.ident = db.leave.former -> "reconcileReplacement"
            [] db.ident = db.leave.replacement -> "wipeCluster"
            [] OTHER -> "failed")

ReconcileReplacement ==
  /\ node.at = "reconcileReplacement"
  /\ ReconcileUnder(db.leave.replacement, "swap", "createReplacement")

CreateReplacement ==
  /\ node.at = "createReplacement"
  /\ CreateUnder(db.leave.replacement, "swap")

SwapIdentity ==
  /\ node.at = "swap"
  /\ IF \/ db.ident # db.leave.former
        \/ db.leave.replacement \in db.deleting \cup db.deleted
     THEN Fails
     ELSE Commit([db EXCEPT !.ident = db.leave.replacement],
                 [To("wipeCluster") EXCEPT !.tries = 0], To("failed"))

\* wipe_family, for the families only commands write (cluster) and for the
\* families tasks write too (trace): a batch that lost a race is prepared
\* again from a fresh snapshot, a bounded number of times.
WipeFamily(at, family, l) ==
  /\ node.at = at
  /\ IF db[family] = {}
     THEN /\ node' = [To(l) EXCEPT !.tries = 0]
          /\ UNCHANGED <<db, keys, queue, call, tasks, spent>>
     ELSE Commit([db EXCEPT ![family] = {}], To(at),
                 IF node.tries < WipeRetries THEN [To(at) EXCEPT !.tries = @ + 1]
                 ELSE To("failed"))

WipeOldMetadata ==
  \/ WipeFamily("wipeCluster", "cluster", "wipeTrace")
  \/ WipeFamily("wipeTrace", "trace", "deleteFormer")

(***************************************************************************)
(* delete_unreferenced_key, of the former identity's handle.  Its prologue *)
(* recovers the deletion's own journal and reconciles a store that a trace *)
(* task has frozen; a store frozen on another transaction than the         *)
(* journal's refuses the recovery.                                         *)
(***************************************************************************)
DeletePrologue ==
  /\ node.at = "deleteFormer"
  /\ \/ /\ "deletion" \in db.journal => ~node.blocked
        /\ node' = [(IF "deletion" \in db.journal
                     THEN CleanThen("deletion", "deletionIntent") ELSE To("deletionIntent"))
                    EXCEPT !.attempts = 1, !.blocked = FALSE]
        /\ UNCHANGED spent
     \/ /\ node.blocked
        /\ IF "deletion" \in db.journal THEN UNCHANGED spent ELSE Faulty
        /\ node' = To("failed")
  /\ UNCHANGED <<db, keys, queue, call, tasks>>

RetryDeletion ==
  /\ node.at = "retryDeletion"
  /\ IF node.attempts < 2
     THEN /\ node' = [To("deletionIntent") EXCEPT !.attempts = @ + 1]
          /\ UNCHANGED <<db, keys, queue, call, tasks, spent>>
     ELSE Fails

DeletionIntent ==
  LET handle == db.leave.former IN
  /\ node.at = "deletionIntent"
  /\ IF handle \in db.deleted THEN Goto("complete")
     ELSE IF db.ident = handle THEN Fails
     ELSE IF handle \in db.deleting THEN Goto("reconcileDelete")
     ELSE Commit([db EXCEPT !.deleting = @ \cup {handle}], To("deleteKey"), To("retryDeletion"))

\* Mutant: a resumed deletion takes its provider call for done.
ReconcileDeleted ==
  /\ node.at = "reconcileDelete"
  /\ ReconcileUnder(db.leave.former, "tombstone", "tombstone")

ReconcileDelete ==
  /\ node.at = "reconcileDelete"
  /\ ReconcileUnder(db.leave.former, "deleteKey", "tombstone")

\* The provider deletes the key, keeps it (the call fails as not ready), or
\* does not say which.
DeleteKey ==
  /\ node.at = "deleteKey"
  /\ \/ /\ keys' = keys \ {db.leave.former}
        /\ node' = To("tombstone")
        /\ UNCHANGED spent
     \/ /\ Faulty
        /\ keys' \in {keys, keys \ {db.leave.former}}
        /\ node' = To("failed")
  /\ UNCHANGED <<db, queue, call, tasks>>

Tombstone ==
  LET handle == db.leave.former IN
  /\ node.at = "tombstone"
  /\ IF handle \notin db.deleting
     THEN Fails
     ELSE Commit([db EXCEPT !.deleting = @ \ {handle}, !.deleted = @ \cup {handle},
                            !.journal = @ \cup {"deletion"}],
                 CleanThen("deletion", "complete"), To("retryDeletion"))

\* Mutant: the resumed leave does not replace the identity of the context.
CompleteLeaveStale ==
  /\ node.at = "complete"
  /\ Commit([db EXCEPT !.leave = NoLeave],
            To(IF node.status = "starting" THEN "ready" ELSE "left"), To("failed"))

CompleteLeave ==
  /\ node.at = "complete"
  /\ Commit([db EXCEPT !.leave = NoLeave],
            IF node.status = "starting" THEN [To("ready") EXCEPT !.ctx = db.ident]
            ELSE To("left"),
            To("failed"))

(***************************************************************************)
(* RuntimeClient: send_command and shutdown.  A shutdown that finds the    *)
(* channel closed or loses its reply waits for the published reason.       *)
(***************************************************************************)
Answer(c, result) == [call EXCEPT ![c] = [@ EXCEPT !.state = "done", !.result = result]]

\* The message, or the wait, a method of RuntimeClient begins with.
Request(kind) ==
  [kind |-> kind, state |-> IF kind = "await" THEN "watching" ELSE "sending", result |-> "none"]

\* What a NodeHandle may be asked for: the commands that have a procedure here,
\* a write of a cluster record, whatever is answered without one (a query, a
\* listener, a dial, a credential), and to await the end of the node.
Kinds == {"shutdown", "leave", "create", "join", "write", "query", "await"}

Invoke(c, kind) ==
  /\ node.status \in {"running", "closing", "stopped", "failed"}
  /\ call[c].state \in {"idle", "done"}
  /\ spent.calls < MaxCalls
  /\ Spend("calls")
  /\ call' = [call EXCEPT ![c] =
       IF kind = "shutdown" /\ node.reason # "none"
       THEN [kind |-> kind, state |-> "done", result |-> node.reason]
       ELSE Request(kind)]
  /\ UNCHANGED <<db, keys, node, queue, tasks>>

Closed(c) == IF call[c].kind = "shutdown" THEN [call[c] EXCEPT !.state = "watching"]
             ELSE [call[c] EXCEPT !.state = "done", !.result = "error"]

Send(c) ==
  /\ call[c].state = "sending"
  /\ \/ /\ node.status = "running"
        /\ Len(queue) < Capacity
        /\ queue' = Append(queue, c)
        /\ call' = [call EXCEPT ![c].state = "queued"]
     \/ /\ node.status # "running"
        /\ call' = [call EXCEPT ![c] = Closed(c)]
        /\ UNCHANGED queue
  /\ UNCHANGED <<db, keys, node, tasks, spent>>

\* Mutant: only an explicit shutdown is awaited.
WaitForExplicit(c) ==
  /\ call[c].state = "watching"
  /\ node.reason = "explicit"
  /\ call' = Answer(c, node.reason)
  /\ UNCHANGED <<db, keys, node, queue, tasks, spent>>

WaitForShutdown(c) ==
  /\ call[c].state = "watching"
  /\ node.reason # "none"
  /\ call' = Answer(c, node.reason)
  /\ UNCHANGED <<db, keys, node, queue, tasks, spent>>

(***************************************************************************)
(* The control loop: one message at a time, and the whole of a command     *)
(* before the next.  A failed procedure ends the start-up, or answers its  *)
(* command with an error while the node goes on running.                   *)
(***************************************************************************)
ServeCreate ==
  /\ node.status = "running" /\ node.at = "idle"
  /\ queue # <<>> /\ call[Head(queue)].kind = "create"
  /\ queue' = Tail(queue)
  /\ node' = LET n == [To("genesis") EXCEPT !.serving = Head(queue)] IN
             IF node.blocked THEN [n EXCEPT !.at = "failed"]
             ELSE IF "genesis" \in db.journal
             THEN [CleanThen("genesis", "genesis") EXCEPT !.serving = Head(queue)] ELSE n
  /\ UNCHANGED <<db, keys, call, tasks, spent>>

\* create_cluster: an existing cluster is returned; otherwise the context's
\* identity must be the stored one, and its key signs the genesis.
CreateCluster ==
  /\ node.at = "genesis"
  /\ IF db.cluster # {} THEN Goto("reply")
     ELSE IF db.ident # node.ctx \/ node.ctx \notin keys THEN Fails
     ELSE Commit([db EXCEPT !.cluster = {node.ctx}, !.journal = @ \cup {"genesis"}],
                 CleanThen("genesis", "reply"), To("failed"))

\* join_cluster: a blocked store refuses it, and whatever fails on the way to
\* the grant fails the command.
ServeJoin ==
  /\ node.status = "running" /\ node.at = "idle"
  /\ queue # <<>> /\ call[Head(queue)].kind = "join"
  /\ queue' = Tail(queue)
  /\ \E l \in {"adopt", "failed"} :
       /\ node.blocked => l = "failed"
       /\ node' = [To(l) EXCEPT !.serving = Head(queue)]
  /\ UNCHANGED <<db, keys, call, tasks, spent>>

\* adopt_admission, of a grant for the context's identity.  Its journal is the
\* admission's own, so no later command finds it; an aborted commit is a
\* conflict.
AdoptAdmission ==
  /\ node.at = "adopt"
  /\ IF db.cluster # {} \/ db.ident # node.ctx \/ node.ctx \notin keys THEN Fails
     ELSE Commit([db EXCEPT !.cluster = {node.ctx}, !.journal = @ \cup {"adoption"}],
                 CleanThen("adoption", "reply"), To("failed"))

\* put_resource and remove_resource: the node's descriptor, then a record of the
\* context's identity, signed with its key.
ServeWrite ==
  /\ node.status = "running" /\ node.at = "idle"
  /\ queue # <<>> /\ call[Head(queue)].kind = "write"
  /\ queue' = Tail(queue)
  /\ node' = [To(IF node.blocked THEN "failed" ELSE "describe")
              EXCEPT !.then = "write", !.serving = Head(queue), !.tries = 1]
  /\ UNCHANGED <<db, keys, call, tasks, spent>>

\* ensure_local_descriptor: a descriptor of the context's identity is stored
\* unless an equal one is; it is in the family of what tasks write too.
Describe ==
  /\ node.at = "describe"
  /\ \/ node.ctx \in db.trace /\ Goto(node.then)
     \/ Commit([db EXCEPT !.trace = @ \cup {node.ctx}], To(node.then),
               To(IF node.ctx \in db.trace THEN node.then ELSE "failed"))

\* A commit that lost a race is tried three times.
WriteRecord ==
  /\ node.at = "write"
  /\ IF db.cluster = {} \/ node.ctx \notin keys THEN Fails
     ELSE Commit([db EXCEPT !.cluster = @ \cup {node.ctx}], To("reply"),
                 IF node.tries < 3 THEN [To("write") EXCEPT !.tries = @ + 1] ELSE To("failed"))

\* Every other command: the handler answers it, well or not; the queries of
\* members first see to the node's descriptor.
ServeQuery ==
  /\ node.status = "running" /\ node.at = "idle"
  /\ queue # <<>> /\ call[Head(queue)].kind = "query"
  /\ queue' = Tail(queue)
  /\ \/ /\ call' = Answer(Head(queue), "ok")
        /\ UNCHANGED node
     \/ /\ node' = [To("describe") EXCEPT !.then = "reply", !.serving = Head(queue)]
        /\ UNCHANGED call
  /\ UNCHANGED <<db, keys, tasks, spent>>

Reply ==
  /\ node.at = "reply"
  /\ call' = Answer(node.serving, "ok")
  /\ node' = Waiting
  /\ UNCHANGED <<db, keys, queue, tasks, spent>>

\* leave_cluster: refused on a blocked store and outside a cluster; a
\* pending intent is driven on, otherwise a new one is journaled.
ServeLeave ==
  /\ node.status = "running" /\ node.at = "idle"
  /\ queue # <<>> /\ call[Head(queue)].kind = "leave"
  /\ queue' = Tail(queue)
  /\ node' = [To(IF node.blocked \/ db.cluster = {} THEN "failed"
                 ELSE IF db.leave = NoLeave THEN "leaveIntent" ELSE "runLeave")
              EXCEPT !.serving = Head(queue)]
  /\ UNCHANGED <<db, keys, call, tasks, spent>>

BeginIntent ==
  /\ node.at = "leaveIntent"
  /\ Unused # {}  \* the bound on identities
  /\ Commit([db EXCEPT !.leave = [former |-> node.ctx, replacement |-> Fresh]],
            To("runLeave"), To("failed"))

Failed ==
  /\ node.at = "failed"
  /\ IF node.status = "starting"
     THEN /\ node' = Down
          /\ UNCHANGED call
     ELSE /\ node' = Waiting
          /\ call' = Answer(node.serving, "error")
  /\ UNCHANGED <<db, keys, queue, tasks, spent>>

(***************************************************************************)
(* finish_shutdown: the channel closes, the shutdown requests at its head  *)
(* keep their reply, and whatever is behind them is dropped with the       *)
(* channel.  The owned tasks are aborted and awaited; then the reason is   *)
(* published and the replies are sent.                                     *)
(***************************************************************************)
Heard(q) == {q[i] : i \in {i \in 1..Len(q) : \A j \in 1..i : call[q[j]].kind = "shutdown"}}

Closing(goal) ==
  /\ node' = [To("closing") EXCEPT !.status = "closing", !.goal = goal, !.serving = Nobody]
  /\ queue' = <<>>

Dropped(q, answered) ==
  [c \in Clients |-> IF c \in Range(q) \ Heard(q) THEN Closed(c) ELSE answered[c]]

ServeShutdown ==
  /\ node.status = "running" /\ node.at = "idle"
  /\ queue # <<>> /\ call[Head(queue)].kind = "shutdown"
  /\ Closing("explicit")
  /\ call' = Dropped(queue, call)
  /\ UNCHANGED <<db, keys, tasks, spent>>

\* The leave has reported its outcome before the teardown begins.
Left ==
  /\ node.at = "left"
  /\ Closing("activeLeave")
  /\ call' = Dropped(queue, Answer(node.serving, "ok"))
  /\ UNCHANGED <<db, keys, tasks, spent>>

Stop ==
  /\ node.at = "closing"
  /\ node' = [Down EXCEPT !.status = "stopped", !.reason = node.goal, !.ctx = node.ctx]
  /\ call' = [c \in Clients |-> IF call[c].state = "queued"
                                THEN [call[c] EXCEPT !.state = "done", !.result = node.goal]
                                ELSE call[c]]
  /\ UNCHANGED <<db, keys, queue, tasks, spent>>

\* The supervisor's task ends without a stop: the publisher's drop reports
\* the failure and every queued message loses its reply.
Lost ==
  /\ node.status \in {"running", "closing"}
  /\ Faulty
  /\ node' = [Down EXCEPT !.status = "failed", !.reason = "fatal", !.ctx = node.ctx]
  /\ queue' = <<>>
  /\ call' = [c \in Clients |-> IF call[c].state = "queued" THEN Closed(c) ELSE call[c]]
  /\ UNCHANGED <<db, keys, tasks>>

\* The process dies: nothing that is not committed survives.
Crash ==
  /\ node.status # "down"
  /\ Faulty
  /\ node' = Down
  /\ queue' = <<>>
  /\ call' = [c \in Clients |-> Idle]
  /\ tasks' = [i \in Ids |-> 0]
  /\ UNCHANGED <<db, keys>>

(***************************************************************************)
(* record_terminal_trace: the outcome of a packet spawns a detached task,  *)
(* which commits one record of the identity the context holds and drops    *)
(* the store.  A frozen store, a lost race and a provider's refusal are    *)
(* only logged.                                                            *)
(***************************************************************************)
RecordTerminal ==
  /\ node.status \in {"running", "closing"}
  /\ spent.traces < MaxTraces
  /\ Spend("traces")
  /\ tasks' = [tasks EXCEPT ![node.ctx] = @ + 1]
  /\ UNCHANGED <<db, keys, node, queue, call>>

PutTrace(i) ==
  /\ tasks[i] > 0
  /\ tasks' = [tasks EXCEPT ![i] = @ - 1]
  /\ \/ UNCHANGED <<db, node, spent>>
     \/ /\ ~node.blocked
        /\ db' = [db EXCEPT !.trace = @ \cup {i}]
        /\ node' = [node EXCEPT !.stale = TRUE]
        /\ UNCHANGED spent
     \/ /\ ~node.blocked
        /\ Faulty
        /\ db' \in {db, [db EXCEPT !.trace = @ \cup {i}]}
        /\ node' = [node EXCEPT !.stale = @ \/ db' # db, !.blocked = TRUE]
  /\ UNCHANGED <<keys, queue, call>>

Opening == \/ Open \/ Discover \/ CreateIntent \/ CreateKeyExact \/ ReconcileCreate
           \/ FinalizeIdentity \/ ResumeIfPending \/ Ready

Leaving == \/ BeginIntent \/ RunLeave \/ ReconcileReplacement \/ CreateReplacement
           \/ SwapIdentity \/ WipeOldMetadata \/ DeletePrologue \/ RetryDeletion
           \/ DeletionIntent \/ ReconcileDelete \/ DeleteKey \/ Tombstone \/ CompleteLeave

Serving == \/ ServeCreate \/ CreateCluster \/ ServeJoin \/ AdoptAdmission
           \/ ServeWrite \/ Describe \/ WriteRecord \/ ServeQuery \/ Reply \/ ServeLeave \/ ServeShutdown
           \/ Left \/ Stop \/ Failed \/ CleanupPending

Procedure == Opening \/ Leaving \/ Serving

Next ==
  \/ Start
  \/ Procedure
  \/ \E c \in Clients : \/ \E kind \in Kinds : Invoke(c, kind)
                        \/ Send(c)
                        \/ WaitForShutdown(c)
  \/ Lost
  \/ Crash
  \/ RecordTerminal
  \/ \E i \in Ids : PutTrace(i)

Spec == Init /\ [][Next]_vars

(***************************************************************************)
(* The runtime's task and the clients' futures are polled until they end;  *)
(* nothing promises that a provider answers well, or that anybody starts   *)
(* the node or calls it.                                                   *)
(***************************************************************************)
Fairness ==
  /\ WF_vars(Procedure)
  /\ \A c \in Clients : WF_vars(Send(c)) /\ WF_vars(WaitForShutdown(c))

FairSpec == Spec /\ Fairness

Steps ==
  {"none", "open", "discover", "intent", "createKey", "reconcileCreate", "finalize", "clean",
   "resume", "ready", "idle", "runLeave", "reconcileReplacement", "createReplacement", "swap",
   "wipeCluster", "wipeTrace", "deleteFormer", "retryDeletion", "deletionIntent",
   "reconcileDelete", "deleteKey", "tombstone", "complete", "left", "leaveIntent", "genesis",
   "adopt", "describe", "write", "reply", "failed", "closing"}

\* The records, the runtime's state and the calls stay in their types.
TypeOK ==
  /\ db \in [ident : Ids \cup {None}, create : Ids \cup {None},
             leave : [former : Ids \cup {None}, replacement : Ids \cup {None}],
             deleting : SUBSET Ids, deleted : SUBSET Ids,
             journal : SUBSET {"local", "genesis", "adoption", "deletion"},
             cluster : SUBSET Ids, trace : SUBSET Ids]
  /\ keys \subseteq Ids
  /\ node.status \in {"down", "starting", "running", "closing", "stopped", "failed"}
  /\ node.reason \in {"none", "explicit", "activeLeave", "fatal"}
  /\ node.ctx \in Ids \cup {None}
  /\ node.at \in Steps
  /\ node.serving \in Clients \cup {Nobody}
  /\ \A c \in Range(queue) : call[c].state = "queued"
  /\ \A c \in Clients : call[c].state \in {"idle", "sending", "queued", "watching", "done"}
  /\ tasks \in [Ids -> Nat]

(***************************************************************************)
(* "No referenced key is ever deleted": whatever fails and whenever the    *)
(* process dies, the key provider holds the key of the stored identity.    *)
(* Never "a duplicate active key": once no creation, leave or deletion is  *)
(* pending in the store, it holds no other, so an interrupted creation or  *)
(* leave has been finished with the key it had begun with and the former   *)
(* key is gone.                                                            *)
(***************************************************************************)
KeyCustody ==
  /\ db.ident # None => db.ident \in keys
  /\ (db.create = None /\ db.leave = NoLeave /\ db.deleting = {}) => keys \subseteq {db.ident}

(***************************************************************************)
(* No "silently restored old membership": outside a pending leave, cluster *)
(* records belong to the stored identity.                                  *)
(***************************************************************************)
FormerClusterForgotten == db.leave = NoLeave => db.cluster \subseteq {db.ident}

(***************************************************************************)
(* A pending leave "must resume before the node serves": a start-up that   *)
(* succeeds serves the stored identity and leaves no leave behind.         *)
(***************************************************************************)
ResumedBeforeServing ==
  [][node.status = "starting" /\ node'.status = "running"
       => db.leave = NoLeave /\ node'.ctx = db.ident]_vars

(***************************************************************************)
(* Every call returns, also one queued behind the shutdown or the leave    *)
(* that closes the channel, and whoever awaits the end of the node once it *)
(* ends, unless the process dies.                                          *)
(***************************************************************************)
EveryCallReturns ==
  \A c \in Clients :
    /\ call[c].state \in {"sending", "queued", "watching"}
    /\ call[c].kind = "await" => node.status # "running"
    ~> call[c].state \in {"idle", "done"}

(***************************************************************************)
(* finish_shutdown awaits its tasks "so their storage captures are dropped *)
(* before the shutdown reply returns (a restarted node on the same factory *)
(* must not race the release)": no task holds the store of a stopped node. *)
(***************************************************************************)
ReleasedAtStop == node.status = "stopped" => \A i \in Ids : tasks[i] = 0

(***************************************************************************)
(* "The operator can always re-drive a leave": with an intent pending and  *)
(* the store unblocked, the command runs the leave on.                     *)
(***************************************************************************)
LeaveIsRedriven ==
  [][ServeLeave /\ db.leave # NoLeave /\ ~node.blocked => node'.at = "runLeave"]_vars

(***************************************************************************)
(* After the swap commits "the node is never the former identity again":   *)
(* a node that waits for commands serves the stored identity.              *)
(***************************************************************************)
ServesStoredIdentity == node.status = "running" /\ node.at = "idle" => node.ctx = db.ident

(***************************************************************************)
(* After a committed leave the store shows no trace of the former          *)
(* identity.                                                               *)
(***************************************************************************)
FormerTracesForgotten == db.leave = NoLeave => db.trace \subseteq {db.ident}

=============================================================================
