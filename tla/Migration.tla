----------------------------- MODULE Migration -----------------------------
(* Schema migrations of the metadata store (src/storage/migration.rs): the   *)
(* validated chain of edges of a registry and its ensure_schema, run by      *)
(* several tasks over one storage.  A process has one registry, and the      *)
(* storage engines let one process at a time open a store, so tasks that     *)
(* overlap share their registry; after a crash or once all of them returned  *)
(* the next process may come with another one.                               *)
(*                                                                          *)
(* The data of the store is the sequence of edges whose transforms its       *)
(* records went through.                                                     *)
EXTENDS Integers, Sequences, FiniteSets

CONSTANTS
    BaseVersion, \* the version a fresh store is stamped with
    Chains,      \* the edge lists that processes try to register
    Tasks,       \* the calls of ensure_schema that overlap
    MaxCrashes,  \* bound on process restarts
    MaxWrites,   \* bound on commits of other writers
    MayAbort     \* whether the storage may answer Aborted (no built-in does)

VARIABLES
    registry,  \* the chain of the running process
    schema,    \* the schema record, or NoRecord
    history,   \* the edges whose transforms the records went through
    receipts,  \* operation digest of each committed transaction, by its id
    task,      \* where each call of ensure_schema stands
    generation,  \* the store's revision
    crashes, writes

vars == <<registry, schema, history, receipts, task, generation, crashes, writes>>

-----------------------------------------------------------------------------
(* An edge is [from, to, tag, digest, transform]; transform is FALSE when    *)
(* the edge has no decoder.                                                  *)

Validated(chain) ==
    \A i \in 1..Len(chain) :
        LET edge == chain[i]
            earlier == {chain[j] : j \in 1..(i - 1)}
        IN  /\ edge.transform
            /\ edge.from # edge.to
            /\ edge.to \notin {BaseVersion} \cup {e.to : e \in earlier}
            /\ edge.from = (IF i = 1 THEN BaseVersion ELSE chain[i - 1].to)
            /\ edge.tag \notin {e.tag : e \in earlier}

Target(chain) == IF chain = <<>> THEN BaseVersion ELSE chain[Len(chain)].to

NoRecord == [kind |-> "none"]
BaseRecord == [kind |-> "base", tag |-> BaseVersion]
EdgeRecord(edge) == [kind |-> "edge", tag |-> edge.to, digest |-> edge.digest]

EdgeTransaction(edge) == <<edge.tag, edge.digest>>
BaseTransaction == <<BaseVersion>>

Idle == [pc |-> "idle"]

Init ==
    /\ registry \in {c \in Chains : Validated(c)}
    /\ schema = NoRecord
    /\ history = <<>>
    /\ receipts = <<>>
    /\ task = [t \in Tasks |-> Idle]
    /\ generation = 0
    /\ crashes = 0
    /\ writes = 0

Positions(record) == {i \in 1..Len(registry) : registry[i].to = record.tag}

LocatedByVersion(record) ==
    IF record.tag = BaseVersion THEN 0
    ELSE IF Positions(record) # {} THEN CHOOSE i \in Positions(record) : TRUE
    ELSE -1

(* Where the store stands on the registry's chain: the number of edges       *)
(* already applied, or -1 when the record is unknown to this registry.       *)
Located(record) ==
    IF record.tag = BaseVersion THEN 0
    ELSE IF /\ Positions(record) # {}
            /\ record.kind = "edge"
            /\ \A i \in Positions(record) : record.digest = registry[i].digest
    THEN CHOOSE i \in Positions(record) : TRUE
    ELSE -1

(* ensure_schema reads the record once and drops that snapshot.              *)
EnsureSchema(t) ==
    /\ task[t].pc = "idle"
    /\ task' = [task EXCEPT ![t] =
           IF schema = NoRecord THEN [pc |-> "stamp"]
           ELSE IF Located(schema) = -1 THEN [pc |-> "unsupported"]
           ELSE IF Located(schema) = Len(registry) THEN [pc |-> "current"]
           ELSE [pc |-> "edge", next |-> Located(schema) + 1]]
    /\ UNCHANGED <<registry, schema, history, receipts, generation, crashes, writes>>

(* A new snapshot for the stamp or for the next edge: the transform reads    *)
(* it, and the schema operation expects the record it holds.                 *)
Snapshot(t) ==
    /\ task[t].pc \in {"stamp", "edge"}
    /\ task' = [task EXCEPT ![t] =
           [pc |-> "commit", next |-> IF task[t].pc = "stamp" THEN 0 ELSE task[t].next,
            base |-> generation, expected |-> schema, read |-> history]]
    /\ UNCHANGED <<registry, schema, history, receipts, generation, crashes, writes>>

Transaction(t) ==
    IF task[t].next = 0 THEN BaseTransaction ELSE EdgeTransaction(registry[task[t].next])

OperationDigest(t) == <<task[t].base, task[t].expected, task[t].read>>

(* The outcomes a storage may give: an identical receipt is Committed        *)
(* without effect, another one or a stale revision is Conflict.              *)
Outcomes(t) ==
    IF Transaction(t) \in DOMAIN receipts
    THEN IF receipts[Transaction(t)] = OperationDigest(t) THEN {"replayed"} ELSE {"conflict"}
    ELSE IF task[t].base # generation \/ schema # task[t].expected THEN {"conflict"}
    ELSE {"committed", "lost", "unknown"} \cup (IF MayAbort THEN {"aborted"} ELSE {})

(* The schema record and the transformed records are written together.       *)
Apply(t) ==
    /\ schema' = IF task[t].next = 0 THEN BaseRecord ELSE EdgeRecord(registry[task[t].next])
    /\ history' = IF task[t].next = 0 THEN history
                  ELSE Append(task[t].read, registry[task[t].next])
    /\ receipts' = [x \in DOMAIN receipts \cup {Transaction(t)} |->
                        IF x = Transaction(t) THEN OperationDigest(t) ELSE receipts[x]]
    /\ generation' = generation + 1

Advance(t) ==
    IF task[t].next >= Len(registry)
    THEN [pc |-> IF task[t].next = 0 THEN "current" ELSE "migrated"]
    ELSE [pc |-> "edge", next |-> task[t].next + 1]

(* The answer of the storage decides how the loop goes on: Committed and     *)
(* Aborted count the edge, Unknown (here applied as "unknown" or not as      *)
(* "lost") and Conflict end the call.                                        *)
Commit(t) ==
    /\ task[t].pc = "commit"
    /\ \E outcome \in Outcomes(t) :
          /\ IF outcome \in {"committed", "unknown"}
             THEN Apply(t)
             ELSE UNCHANGED <<schema, history, receipts, generation>>
          /\ task' = [task EXCEPT ![t] =
                 IF outcome \in {"committed", "replayed", "aborted"} THEN Advance(t)
                 ELSE [pc |-> IF outcome = "conflict" THEN "conflict" ELSE "failed"]]
    /\ UNCHANGED <<registry, crashes, writes>>

(* The caller may call again once the call returned.                         *)
Return(t) ==
    /\ task[t].pc \in {"unsupported", "current", "migrated", "conflict", "failed"}
    /\ task' = [task EXCEPT ![t] = Idle]
    /\ UNCHANGED <<registry, schema, history, receipts, generation, crashes, writes>>

(* Another writer of the process commits: every open snapshot is stale.      *)
OtherWrite ==
    /\ writes < MaxWrites
    /\ writes' = writes + 1
    /\ generation' = generation + 1
    /\ UNCHANGED <<registry, schema, history, receipts, task, crashes>>

(* The process ends between any two steps and the next one opens the store   *)
(* with its own registry.                                                    *)
Restart ==
    /\ crashes < MaxCrashes
    /\ crashes' = crashes + 1
    /\ registry' \in {c \in Chains : Validated(c)}
    /\ task' = [t \in Tasks |-> Idle]
    /\ UNCHANGED <<schema, history, receipts, generation, writes>>

Next ==
    \/ \E t \in Tasks : EnsureSchema(t) \/ Snapshot(t) \/ Commit(t) \/ Return(t)
    \/ OtherWrite
    \/ Restart

Spec == Init /\ [][Next]_vars

-----------------------------------------------------------------------------
(* The store is always at one complete schema: the edges its records went    *)
(* through are the first edges of one validated registry, each exactly once  *)
(* and in its order, and the schema record names the last of them.           *)
(* Overlapping calls that read the version before another call migrated,     *)
(* commits whose answer was lost, crashes between edges and processes with   *)
(* an older or a foreign registry never mix two schemas (migration.rs).      *)
SchemaIsWhole ==
    /\ \E c \in Chains : Validated(c) /\ Len(history) <= Len(c)
                         /\ history = SubSeq(c, 1, Len(history))
    /\ IF history = <<>> THEN schema \in {NoRecord, BaseRecord}
       ELSE schema = EdgeRecord(history[Len(history)])

(* A call that reports the migration done, or nothing to do, left the store  *)
(* at the registry's target version, and no other call of the process takes  *)
(* it elsewhere (the SchemaOutcome of ensure_schema).                        *)
ReportedIsReached ==
    \A t \in Tasks : task[t].pc \in {"current", "migrated"} =>
        schema # NoRecord /\ schema.tag = Target(registry)
=============================================================================
