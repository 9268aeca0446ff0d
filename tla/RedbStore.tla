----------------------------- MODULE RedbStore -----------------------------
(***************************************************************************)
(* The redb storage adapter (storage/redb/store.rs): three tables of byte  *)
(* strings in one file, one write transaction at a time.                   *)
(*                                                                         *)
(* Callers share one store.  A commit runs on a blocking worker that goes  *)
(* on when its caller gives up; it works on private tables which           *)
(* write.commit publishes as a whole.  Snapshots keep the tables they were *)
(* taken from, and a scan walks the composite keys of one of them while    *)
(* commits go on.  The process may die between any two steps, and every    *)
(* table operation may fail.                                               *)
(*                                                                         *)
(* redb itself is external: its write transactions exclude each other,     *)
(* read transactions are immutable, a commit with Durability::Immediate is *)
(* on disk when it returns, and one that fails is published or not.        *)
(* Digests are the values they hash; a byte is a small number.             *)
(***************************************************************************)
EXTENDS Integers, Sequences, FiniteSets, SequencesExt

CONSTANTS
  Clients,        \* concurrent users of the store
  Transactions,   \* what they commit: id, digest validity and operations
  Scans,          \* the <<namespace, prefix>> pairs they scan
  MaxGeneration,  \* u64::MAX
  MaxCrashes      \* bound on process deaths

VARIABLES
  open,     \* whether a process has the database open
  tables,   \* the published tables: entries, receipts and the generation
  writer,   \* the write transaction of the worker that has it
  waiting,  \* commits handed to a worker that waits for the writer
  answer,   \* what every client was last told
  reader,   \* a snapshot and the scan of it
  log,      \* history: the transactions published, oldest first
  crashes

vars == <<open, tables, writer, waiting, answer, reader, log, crashes>>

NoWriter == [at |-> "none"]
NoReader == [at |-> "none"]
Silent == [kind |-> "none"]
Refusal == [kind |-> "refused"]   \* conflict, exhausted, aborted, digest conflict
EmptyTables == [entries |-> {}, receipts |-> {}, generation |-> 0]

Init ==
  /\ open = FALSE
  /\ tables = EmptyTables
  /\ writer = NoWriter
  /\ waiting = {}
  /\ answer = [c \in Clients |-> Silent]
  /\ reader = NoReader
  /\ log = <<>>
  /\ crashes = 0

-----------------------------------------------------------------------------
\* Composite keys.

\* Mutant: the namespace and the key are joined without a separator.
JoinedKey(namespace, key) == namespace \o key

\* composite_key, composite_prefix: a tag has no zero byte, a key may.
CompositeKey(namespace, key) == namespace \o <<0>> \o key

\* The unsigned-byte order of the entries table.
Before(a, b) ==
  \E n \in 0..Len(b) - 1 :
    /\ n <= Len(a)
    /\ SubSeq(a, 1, n) = SubSeq(b, 1, n)
    /\ n = Len(a) \/ a[n + 1] < b[n + 1]

Stored(t, namespace, key) ==
  {e.value : e \in {x \in t.entries : x.key = CompositeKey(namespace, key)}}

-----------------------------------------------------------------------------
\* commit_blocking.

Receipt(t, id) == {r \in t.receipts : r.id = id}

\* expectation_matches_table and its twins for deletes and receipts.
Matches(t, op) ==
  IF op.kind = "forget"
    THEN \E r \in t.receipts : r.id = op.id /\ r.digest = op.expected
    ELSE Stored(t, op.namespace, op.key) = op.expected

Applied(t, op) ==
  LET others == {e \in t.entries : e.key # CompositeKey(op.namespace, op.key)}
      entry == [key |-> CompositeKey(op.namespace, op.key), value |-> op.value]
  IN  CASE op.kind = "check"  -> t
        [] op.kind = "put"    -> [t EXCEPT !.entries = others \cup {entry}]
        [] op.kind = "delete" -> [t EXCEPT !.entries = others]
        [] op.kind = "forget" -> [t EXCEPT !.receipts = @ \ Receipt(t, op.id)]

\* The checks in the order of the code: an existing receipt is authoritative,
\* then the digest, the base revision, every expectation, and the counter.
Outcome(t, txn) ==
  IF Receipt(t, txn.id) # {}
    THEN IF \E r \in Receipt(t, txn.id) : r.digest = txn.digest THEN "replayed" ELSE "conflict"
  ELSE IF \/ ~txn.valid \/ txn.base # t.generation
          \/ \E i \in DOMAIN txn.ops : ~Matches(t, txn.ops[i])
         THEN "conflict"
  ELSE IF t.generation = MaxGeneration THEN "exhausted"
  ELSE "apply"

\* A client hands a transaction to a worker.  It is prepared from what the
\* client knows: any base revision up to the present one.
Submit(c, planned) ==
  /\ open
  /\ answer[c].kind # "pending"
  /\ \A w \in waiting : w.client # c
  /\ writer.at # "none" => writer.client # c
  /\ \E base \in 0..tables.generation :
       LET txn == [id |-> planned.id, valid |-> planned.valid, ops |-> planned.ops,
                   base |-> base, digest |-> <<base, planned.ops>>]
       IN  waiting' = waiting \cup {[client |-> c, txn |-> txn]}
  /\ answer' = [answer EXCEPT ![c] = [kind |-> "pending"]]
  /\ UNCHANGED <<open, tables, writer, reader, log, crashes>>

Tell(c, reply) ==
  answer' = IF answer[c].kind = "pending" THEN [answer EXCEPT ![c] = reply] ELSE answer

\* begin_write: the workers take turns.
BeginWrite(w) ==
  /\ writer = NoWriter
  /\ waiting' = waiting \ {w}
  /\ writer' = [at |-> "check", client |-> w.client, txn |-> w.txn, work |-> tables, done |-> 0]
  /\ UNCHANGED <<open, tables, answer, reader, log, crashes>>

\* The early returns drop the write transaction, which aborts it.
Check ==
  LET outcome == Outcome(writer.work, writer.txn)
  IN  /\ writer.at = "check"
      /\ IF outcome = "apply"
           THEN writer' = [writer EXCEPT !.at = "apply"] /\ UNCHANGED answer
           ELSE /\ writer' = NoWriter
                /\ Tell(writer.client,
                     IF outcome = "replayed"
                       THEN [kind |-> "committed",
                             receipt |-> CHOOSE r \in Receipt(writer.work, writer.txn.id) : TRUE]
                       ELSE Refusal)
      /\ UNCHANGED <<open, tables, waiting, reader, log, crashes>>

\* Mutant: the operations write the published tables.
ApplyInPlace ==
  /\ writer.at = "apply"
  /\ IF writer.done < Len(writer.txn.ops)
       THEN /\ tables' = Applied(tables, writer.txn.ops[writer.done + 1])
            /\ writer' = [writer EXCEPT !.done = @ + 1, !.work = tables']
       ELSE writer' = [writer EXCEPT !.at = "stamp"] /\ UNCHANGED tables
  /\ UNCHANGED <<open, waiting, answer, reader, log, crashes>>

\* The operations, one after the other, on the private tables.
Apply ==
  /\ writer.at = "apply"
  /\ writer' = IF writer.done < Len(writer.txn.ops)
                 THEN [writer EXCEPT !.done = @ + 1,
                                     !.work = Applied(@, writer.txn.ops[writer.done + 1])]
                 ELSE [writer EXCEPT !.at = "stamp"]
  /\ UNCHANGED <<open, tables, waiting, answer, reader, log, crashes>>

NewReceipt ==
  [id |-> writer.txn.id, digest |-> writer.txn.digest, revision |-> writer.work.generation]

\* The generation, then the receipt that names it.
Stamp ==
  /\ writer.at \in {"stamp", "receipt"}
  /\ writer' = IF writer.at = "stamp"
                 THEN [writer EXCEPT !.at = "receipt", !.work.generation = @ + 1]
                 ELSE [writer EXCEPT !.at = "publish", !.work.receipts = @ \cup {NewReceipt}]
  /\ UNCHANGED <<open, tables, waiting, answer, reader, log, crashes>>

\* write.commit: published and answered, or an error that may hide it.
Publish ==
  /\ writer.at = "publish"
  /\ \/ /\ tables' = writer.work
        /\ log' = Append(log, writer.txn)
        /\ \/ Tell(writer.client, [kind |-> "committed",
                receipt |-> CHOOSE r \in Receipt(writer.work, writer.txn.id) : TRUE])
           \/ Tell(writer.client, [kind |-> "error"])
     \/ UNCHANGED <<tables, log>> /\ Tell(writer.client, [kind |-> "error"])
  /\ writer' = NoWriter
  /\ UNCHANGED <<open, waiting, reader, crashes>>

\* A table operation fails, and with it the commit.
Fail ==
  /\ writer.at \in {"check", "apply", "stamp", "receipt"}
  /\ writer' = NoWriter
  /\ Tell(writer.client, [kind |-> "error"])
  /\ UNCHANGED <<open, tables, waiting, reader, log, crashes>>

\* The caller drops its future; the worker goes on.
GiveUp(c) ==
  /\ answer[c].kind = "pending"
  /\ answer' = [answer EXCEPT ![c] = Silent]
  /\ UNCHANGED <<open, tables, writer, waiting, reader, log, crashes>>

\* reconcile reads the published receipts; without one the commit aborted,
\* and one with another digest is a conflict.
Reconcile(c, planned, base) ==
  LET found == Receipt(tables, planned.id)
      digest == <<base, planned.ops>>
  IN  /\ open
      /\ answer[c].kind \in {"error", "none"}
      /\ answer' = [answer EXCEPT ![c] =
           IF \E r \in found : r.digest = digest
             THEN [kind |-> "committed", receipt |-> CHOOSE r \in found : TRUE]
             ELSE Refusal]
      /\ UNCHANGED <<open, tables, writer, waiting, reader, log, crashes>>

-----------------------------------------------------------------------------
\* Snapshots and scans.

\* snapshot, then scan: a range from the composite prefix on.
StartScan(scan) ==
  LET bound == CompositeKey(scan[1], scan[2])
  IN  /\ open
      /\ reader = NoReader
      /\ reader' =
           [at |-> "scanning", scan |-> scan, revision |-> tables.generation,
            range |-> {e \in tables.entries : e.key = bound \/ Before(bound, e.key)},
            out |-> <<>>]
      /\ UNCHANGED <<open, tables, writer, waiting, answer, log, crashes>>

\* RedbScan::next: the first key without the prefix ends the scan.
ScanNext ==
  LET r == reader
      first == CHOOSE e \in r.range : \A f \in r.range \ {e} : Before(e.key, f.key)
      base == Len(r.scan[1]) + 1
      entry == [key |-> SubSeq(first.key, base + 1, Len(first.key)), value |-> first.value]
  IN  /\ r.at = "scanning"
      /\ reader' =
           IF r.range = {} \/ ~IsPrefix(CompositeKey(r.scan[1], r.scan[2]), first.key)
             THEN [r EXCEPT !.at = "scanned", !.range = {}]
             ELSE [r EXCEPT !.range = @ \ {first}, !.out = Append(@, entry)]
      /\ UNCHANGED <<open, tables, writer, waiting, answer, log, crashes>>

DropSnapshot ==
  /\ reader.at = "scanned"
  /\ reader' = NoReader
  /\ UNCHANGED <<open, tables, writer, waiting, answer, log, crashes>>

-----------------------------------------------------------------------------
\* Opening and dying.

\* Database::create and initialize: a second open is refused, and tables that
\* exist are kept.
Open ==
  /\ ~open
  /\ open' = TRUE
  /\ UNCHANGED <<tables, writer, waiting, answer, reader, log, crashes>>

Crash ==
  /\ open
  /\ crashes < MaxCrashes
  /\ crashes' = crashes + 1
  /\ open' = FALSE
  /\ writer' = NoWriter
  /\ waiting' = {}
  /\ answer' = [c \in Clients |-> Silent]
  /\ reader' = NoReader
  /\ UNCHANGED <<tables, log>>

Next ==
  \/ Open \/ Crash
  \/ \E c \in Clients :
       \/ \E t \in Transactions : Submit(c, t)
       \/ \E t \in Transactions, base \in 0..tables.generation : Reconcile(c, t, base)
       \/ GiveUp(c)
  \/ \E s \in Scans : StartScan(s)
  \/ ScanNext \/ DropSnapshot
  \/ \E w \in waiting : BeginWrite(w)
  \/ Check \/ Apply \/ Stamp \/ Publish \/ Fail

Spec == Init /\ [][Next]_vars

-----------------------------------------------------------------------------
\* Properties.

\* What a prefix of the log means, on namespaces and keys instead of bytes.
Replay(n) ==
  LET write(m, op) ==
        LET others == {e \in m : ~(e.namespace = op.namespace /\ e.key = op.key)}
        IN  CASE op.kind = "put" ->
                   others \cup {[namespace |-> op.namespace, key |-> op.key, value |-> op.value]}
              [] op.kind = "delete" -> others
              [] OTHER -> m
      commit(m, txn) == FoldLeft(write, m, txn.ops)
  IN  FoldLeft(commit, {}, SubSeq(log, 1, n))

\* The tables are the log and nothing else, wherever the process died, an
\* operation failed or a caller gave up (commit_blocking): one generation per
\* transaction, every entry and no other, a receipt with its revision for
\* every transaction not forgotten since; and a caller told of a commit has
\* it in the log at that revision.
TablesAreTheLog ==
  /\ tables.generation = Len(log)
  /\ tables.entries = {[key |-> CompositeKey(e.namespace, e.key), value |-> e.value]
                         : e \in Replay(Len(log))}
  /\ tables.receipts =
       {[id |-> log[i].id, digest |-> log[i].digest, revision |-> i] :
          i \in {j \in DOMAIN log :
                   ~\E k \in j + 1..Len(log), n \in 1..2 :
                      n \in DOMAIN log[k].ops /\ log[k].ops[n].kind = "forget"
                        /\ log[k].ops[n].id = log[j].id}}
  /\ \A c \in Clients : answer[c].kind = "committed" =>
       LET r == answer[c].receipt
       IN  r.revision \in DOMAIN log /\ log[r.revision].id = r.id
                                     /\ log[r.revision].digest = r.digest

\* A scan that ends has returned, in key order, every entry of its namespace
\* with the prefix as its snapshot's revision had it, and no entry of another
\* namespace, whatever was committed meanwhile (composite_key, RedbScan).
ScanIsExact ==
  reader.at = "scanned" =>
    LET r == reader
        wanted == {e \in Replay(r.revision) : e.namespace = r.scan[1] /\ IsPrefix(r.scan[2], e.key)}
    IN  /\ ToSet(r.out) = {[key |-> e.key, value |-> e.value] : e \in wanted}
        /\ \A i \in 1..Len(r.out) - 1 : Before(r.out[i].key, r.out[i + 1].key)
=============================================================================
