------------------------- MODULE ResourceRegister -------------------------
(***************************************************************************)
(* The resource register of one node (resource/store.rs, page.rs,           *)
(* retention.rs and the resource commands of runtime/supervisor.rs).        *)
(*                                                                          *)
(* The supervisor runs put_resource, remove_resource and the removal sweep  *)
(* one after the other; every session runs apply_page_ctx for the pages it  *)
(* receives.  All of them read a snapshot, decide, and commit a transaction *)
(* that carries the snapshot's revision and the exact value it read.        *)
(* Anything may happen between two of these steps, the commits of other     *)
(* metadata (OtherCommit) included.                                         *)
(*                                                                          *)
(* Abstractions: an indeterminate commit is applied or not, and the store   *)
(* is reconciled before the next one (MetadataStore has the freeze).        *)
(***************************************************************************)
EXTENDS ResourceRecord, FiniteSets

CONSTANTS
  Self,         \* this node, a writer
  Supervisor,   \* the supervisor task
  Consumers,    \* tasks that apply received pages
  MaxAttempts,  \* attempts of a command, 3
  Received,     \* the records that the pages of peers carry
  Retention,    \* RESOURCE_REMOVAL_RETENTION
  Cap,          \* RESOURCE_REGISTER_CAP
  Faults,       \* whether the provider may abort a transaction
  MaxRevision   \* bound on committed transactions

ASSUME RegisterAssumption ==
  /\ Self \in Writers /\ Supervisor \notin Consumers /\ Received \subseteq Records
  /\ MaxAttempts \in Nat /\ Retention \in Nat /\ Cap \in Nat /\ MaxRevision \in Nat

VARIABLES
  reg,       \* the stored record of each name, or None
  revision,  \* the store's revision
  now,       \* the wall clock, which may jump either way
  task       \* what each task is doing

vars == <<reg, revision, now, task>>

Tasks == {Supervisor} \cup Consumers
Empty == [n \in Names |-> None]

\* A task at rest.
Idle ==
  [op |-> "none", pc |-> "idle", name |-> 0, digest |-> 0, want |-> None, rec |-> None,
   seen |-> None, base |-> 0, tries |-> 0, todo |-> Empty, at |-> 0]

Init ==
  /\ reg = Empty
  /\ revision = 0
  /\ now \in Times
  /\ task = [t \in Tasks |-> Idle]

Becomes(t, k) == task' = [task EXCEPT ![t] = k]

\* The operation of t ends with this reply, a command's result or error kind.
Replies == {"installed", "superseded", "already removed", "not found", "conflict", "unknown",
            "applied", "swept", "error"}
Return(t, reply) == reply \in Replies /\ Becomes(t, Idle)

-----------------------------------------------------------------------------
\* put_resource: a command of the supervisor.
Put(n, d) ==
  /\ task[Supervisor].pc = "idle"
  /\ Becomes(Supervisor,
       [Idle EXCEPT !.op = "put", !.pc = "sign", !.name = n, !.digest = d, !.tries = 1])
  /\ UNCHANGED <<reg, revision, now>>

\* One attempt of put_resource stamps and signs the candidate.
Candidate(rank, d) == [ts |-> now, writer |-> Self, rank |-> rank, digest |-> d]

Sign(t) ==
  /\ task[t].op = "put" /\ task[t].pc = "sign"
  /\ Becomes(t, [task[t] EXCEPT !.pc = "snap", !.rec = Candidate(0, task[t].digest)])
  /\ UNCHANGED <<reg, revision, now>>

\* remove_resource: a command that names the version its caller observed.
Remove(n, want) ==
  /\ task[Supervisor].pc = "idle"
  /\ Becomes(Supervisor,
       [Idle EXCEPT !.op = "remove", !.pc = "sign", !.name = n, !.want = want, !.tries = 1])
  /\ UNCHANGED <<reg, revision, now>>

\* One attempt of remove_resource: read the record, compare it with the
\* version, stamp and sign a removal that must be greater.
Observe(t) ==
  LET stored == reg[task[t].name] IN
  /\ task[t].op = "remove" /\ task[t].pc = "sign"
  /\ \/ stored = None /\ Return(t, "not found")
     \/ stored # None /\ stored # task[t].want /\ Return(t, "conflict")
     \/ stored # None /\ stored = task[t].want /\ Removed(stored) /\ Return(t, "already removed")
     \/ /\ stored # None /\ stored = task[t].want /\ ~Removed(stored)
        /\ \E d \in Digests :
             LET removal == Candidate(stored.rank + 1, d) IN
             IF Wins(removal, stored)
             THEN Becomes(t, [task[t] EXCEPT !.pc = "snap", !.rec = removal])
             ELSE Return(t, "conflict")
  /\ UNCHANGED <<reg, revision, now>>

\* A session delivers a page of records to a consumer.
Receive(t, page) ==
  /\ t \in Consumers /\ task[t].pc = "idle"
  /\ page # Empty
  /\ Becomes(t, [Idle EXCEPT !.op = "apply", !.pc = "record", !.todo = page])
  /\ UNCHANGED <<reg, revision, now>>

\* The names that a page or a sweep has not come to yet; the first in key order;
\* what is left without it.
Left(t) == {n \in Names : task[t].todo[n] # None}
First(S) == CHOOSE n \in S : \A m \in S : n <= m
Without(t, n) == [task[t].todo EXCEPT ![n] = None]

\* apply_page_ctx turns to the next record of the page; a record whose writer
\* has no trusted descriptor is skipped.
NextRecord(t) ==
  /\ task[t].op = "apply" /\ task[t].pc = "record"
  /\ \/ Left(t) = {} /\ Return(t, "applied")
     \/ \E n \in Left(t) :
          /\ n = First(Left(t))
          /\ \/ Becomes(t, [task[t] EXCEPT !.todo = Without(t, n)])
             \/ Becomes(t, [task[t] EXCEPT !.pc = "snap", !.name = n, !.rec = task[t].todo[n],
                                           !.todo = Without(t, n)])
  /\ UNCHANGED <<reg, revision, now>>

\* What follows a commit that is over for good: a command replies, a page goes
\* on with its next record.
Done(t, reply) ==
  IF task[t].op = "apply"
  THEN Becomes(t, [Idle EXCEPT !.op = "apply", !.pc = "record", !.todo = task[t].todo])
  ELSE Return(t, reply)

\* What follows a refused commit: a command tries again, a page is given up.
Refused(t) ==
  IF task[t].op # "apply" /\ task[t].tries < MaxAttempts
  THEN Becomes(t, [task[t] EXCEPT !.pc = "sign", !.rec = None, !.seen = None, !.base = 0,
                                  !.tries = @ + 1])
  ELSE Return(t, "conflict")

\* Mutant: the removal looks only for the greater tuple.
SnapshotInexact(t) ==
  LET stored == reg[task[t].name] IN
  /\ task[t].pc = "snap"
  /\ IF Enters(task[t].rec, stored)
     THEN Becomes(t, [task[t] EXCEPT !.pc = "commit", !.seen = stored, !.base = revision])
     ELSE Done(t, "superseded")
  /\ UNCHANGED <<reg, revision, now>>

\* commit_record_ctx and commit_removal_ctx: one snapshot for the decision and
\* for the expectations of the transaction.
Snapshot(t) ==
  LET stored == reg[task[t].name] IN
  /\ task[t].pc = "snap"
  /\ IF task[t].op = "remove" /\ stored = None THEN Return(t, "not found")
     ELSE IF task[t].op = "remove" /\ stored # task[t].want THEN Return(t, "conflict")
     ELSE IF Enters(task[t].rec, stored)
     THEN Becomes(t, [task[t] EXCEPT !.pc = "commit", !.seen = stored, !.base = revision])
     ELSE IF task[t].op = "remove" THEN Refused(t)
     ELSE Done(t, "superseded")
  /\ UNCHANGED <<reg, revision, now>>

\* The provider's test of a transaction of t on name n.
Applicable(t, n, expected) == task[t].base = revision /\ reg[n] = expected

\* Mutant: the put carries no expectation.
CommitBlind(t) ==
  /\ task[t].pc = "commit" /\ revision < MaxRevision
  /\ reg' = [reg EXCEPT ![task[t].name] = task[t].rec]
  /\ revision' = revision + 1
  /\ Done(t, "installed")
  /\ UNCHANGED now

\* commit_put_ctx: Committed, Conflict or Aborted, Unknown.
Commit(t) ==
  LET n == task[t].name IN
  /\ task[t].pc = "commit"
  /\ \/ /\ Applicable(t, n, task[t].seen) /\ revision < MaxRevision
        /\ reg' = [reg EXCEPT ![n] = task[t].rec]
        /\ revision' = revision + 1
        /\ Done(t, "installed") \/ Done(t, "unknown")
     \/ /\ Applicable(t, n, task[t].seen) => Faults
        /\ Refused(t) \/ Done(t, "unknown")
        /\ UNCHANGED <<reg, revision>>
  /\ UNCHANGED now

-----------------------------------------------------------------------------
Expired(r, at) == r.ts + Retention <= at

\* sweep_removed_ctx scans one snapshot for the expired removals and, beyond Cap
\* fresh ones, the oldest of them, as many as the pass may evict.
Removals == {n \in Names : reg[n] # None /\ Removed(reg[n])}
Fresh == {n \in Removals : ~Expired(reg[n], now)}
Excess == IF Cardinality(Fresh) <= Cap THEN 0
          ELSE IF Cardinality(Fresh) - Cap < Cap THEN Cardinality(Fresh) - Cap ELSE Cap

Sweep(overflow) ==
  /\ task[Supervisor].pc = "idle"
  /\ overflow \subseteq Fresh /\ Cardinality(overflow) = Excess
  /\ \A n \in overflow, m \in Fresh \ overflow : reg[n].ts <= reg[m].ts
  /\ Becomes(Supervisor,
       [Idle EXCEPT !.op = "sweep", !.pc = "delete", !.base = revision, !.at = now,
                    !.todo = [n \in Names |->
                       IF n \in (Removals \ Fresh) \cup overflow THEN reg[n] ELSE None]])
  /\ UNCHANGED <<reg, revision, now>>

\* Expired records go first, in key order, then the oldest of the fresh ones.
NextTarget(t, n) ==
  LET old == {m \in Left(t) : Expired(task[t].todo[m], task[t].at)} IN
  IF old # {} THEN n = First(old)
  ELSE n \in Left(t) /\ \A m \in Left(t) : task[t].todo[n].ts <= task[t].todo[m].ts

\* delete_exact for the next target, with the revision of the scan; whatever
\* the outcome, the pass goes on.
Delete(t) ==
  /\ task[t].op = "sweep"
  /\ \/ /\ Left(t) = {}
        /\ Return(t, "swept")
        /\ UNCHANGED <<reg, revision>>
     \/ \E n \in Names :
          /\ Left(t) # {} /\ NextTarget(t, n)
          /\ Becomes(t, [task[t] EXCEPT !.todo = Without(t, n)])
          /\ \/ /\ Applicable(t, n, task[t].todo[n]) /\ revision < MaxRevision
                /\ reg' = [reg EXCEPT ![n] = None]
                /\ revision' = revision + 1
             \/ /\ Applicable(t, n, task[t].todo[n]) => Faults
                /\ UNCHANGED <<reg, revision>>
  /\ UNCHANGED now

\* Any other error of a provider ends the operation; so does a restart.
Fail(t) ==
  /\ task[t].pc # "idle"
  /\ Return(t, "error")
  /\ UNCHANGED <<reg, revision, now>>

\* Another family of metadata is committed.
OtherCommit ==
  /\ revision < MaxRevision
  /\ revision' = revision + 1
  /\ UNCHANGED <<reg, now, task>>

Tick ==
  /\ now' \in Times \ {now}
  /\ UNCHANGED <<reg, revision, task>>

\* The steps of the task of an operation that has begun.
Step(t) ==
  \/ Sign(t) \/ Observe(t) \/ NextRecord(t) \/ Snapshot(t) \/ Commit(t) \/ Delete(t) \/ Fail(t)

Pages == [Names -> Records \cup {None}]

Next ==
  \/ \E n \in Names, d \in Digests : Put(n, d)
  \/ \E n \in Names, want \in Records : Remove(n, want)
  \/ \E overflow \in SUBSET Names : Sweep(overflow)
  \/ \E t \in Consumers, page \in [Names -> Received \cup {None}] : Receive(t, page)
  \/ \E t \in Tasks : Step(t)
  \/ OtherCommit
  \/ Tick

Spec == Init /\ [][Next]_vars

-----------------------------------------------------------------------------
Task ==
  [op : {"none", "put", "remove", "apply", "sweep"},
   pc : {"idle", "sign", "record", "snap", "commit", "delete"},
   name : 0 .. NumNames, digest : Nat, want : Records \cup {None}, rec : Records \cup {None},
   seen : Records \cup {None}, base : Nat, tries : Nat, todo : Pages, at : Times]

\* Every variable has its type; in particular a removal never ranks above 1.
TypeOK ==
  /\ reg \in Pages
  /\ revision \in Nat
  /\ now \in Times
  /\ task \in [Tasks -> Task]

\* Whatever commands, pages, sweeps and other commits interleave, a stored
\* record is replaced only by a greater one and only removals are deleted
\* (resource/store.rs: "a concurrent writer can only produce a typed conflict,
\* never an unordered overwrite").
Register == INSTANCE MaxRegister
Refines == Register!Spec

\* A removal that is installed replaced exactly the version its caller observed
\* (commit_removal_ctx: "the stored winner must still be exactly `expected`").
RemovalIsExact ==
  [][LET t == Supervisor IN
     task[t].op = "remove" /\ task'[t] # task[t] /\ reg' # reg =>
       /\ reg[task[t].name] = task[t].want
       /\ Removed(reg'[task[t].name])]_vars

\* A pass deletes each of its targets that still holds the exact record it
\* scanned, unless the provider fails (sweep_removed_ctx: "Every removal is one
\* conditional delete against the exact stored digest; a record whose expectation
\* no longer matches is left untouched").
SweepDeletes ==
  [][LET t == Supervisor IN
     \A n \in Names :
       task[t].op = "sweep" /\ task'[t].op = "sweep" /\ task[t].todo[n] # task'[t].todo[n]
         /\ reg[n] = task[t].todo[n] => reg'[n] = None]_vars
=============================================================================
