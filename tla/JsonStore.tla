------------------------------ MODULE JsonStore ------------------------------
(***************************************************************************)
(* The JSON generation store (storage/json/store.rs): a directory of        *)
(* immutable generation files, each a complete snapshot naming its parent,  *)
(* written as temporary file, flush, rename, directory barrier.  Handles    *)
(* of one process compete for the directory; the process or the whole       *)
(* machine may crash between any two file operations, and every file        *)
(* operation may fail.                                                      *)
(*                                                                          *)
(* Abstractions: an entry is a key that is present or absent (put expects   *)
(* it absent, delete expects it present); the operation digest is the base  *)
(* revision with the operation it hashes; the digest of a parent file is    *)
(* the content it hashes.  The lock file's header, written once before the  *)
(* first generation, and the byte ceiling, which refuses a commit exactly   *)
(* where the generation ceiling does, are left out.                         *)
(***************************************************************************)
EXTENDS Naturals, FiniteSets, Sequences

CONSTANTS
  Handles,          \* the factories of the process that open this directory
  Ids,              \* transaction ids
  Keys,             \* keys of entries
  MaxGenerations,   \* max_generations
  BarrierMayFail,   \* whether an fsync of the directory may return an error
  OrderedLoss,      \* whether a machine crash drops renames newest first
  MaxCrashes,       \* bound on crashes
  None

ASSUME StoreAssumption ==
  /\ MaxGenerations \in Nat \ {0}
  /\ MaxCrashes \in Nat
  /\ BarrierMayFail \in BOOLEAN /\ OrderedLoss \in BOOLEAN
  /\ None \notin Handles \cup Ids

VARIABLES
  disk,       \* the generation files a process sees in the directory
  synced,     \* those whose names a machine crash cannot drop
  temps,      \* leftover temporary files, by generation and transaction
  registry,   \* OPEN_STORES: the handle whose guard holds this path
  lock,       \* the handle holding the lock file
  phase,      \* where each handle is between closed and open
  barrier,    \* needs_commit_barrier of the handle holding the directory
  head,       \* its state: newest generation, entries, receipts
  call,       \* the commit it is executing
  reported,   \* history: receipts a commit returned under OsCrashDurable
  retold,     \* history: the last receipt given from memory, likewise
  crashes     \* crashes so far

vars == <<disk, synced, temps, registry, lock, phase, barrier, head, call,
          reported, retold, crashes>>

store == <<disk, synced, temps>>
guards == <<registry, lock, phase, barrier>>
history == <<reported, retold>>

-----------------------------------------------------------------------------
(* Transactions, generations and the loaded head                            *)

Operations ==
  ({"put", "delete"} \X Keys) \cup ({"forget"} \X Ids)

\* digest_store_operations: the digest covers the base revision too.
Digests == (0 .. MaxGenerations) \X Operations

Receipts == Ids \X Digests

Transactions == [id : Ids, digest : Digests]

Base(txn) == txn.digest[1]
Operation(txn) == txn.digest[2]

\* A set of receipts is a function of transaction ids: ids do not repeat.
Holds(receipts, id) == \E r \in receipts : r[1] = id

\* The whole-file digest of a generation is the content it hashes; a
\* generation's own parent is left out of it.  Generation 0 has no file.
Files == {<<>>} \cup (Receipts \X (SUBSET Keys) \X (SUBSET Receipts))

Heads == [generation : 0 .. MaxGenerations, digest : Files,
          entries : SUBSET Keys, receipts : SUBSET Receipts]

EmptyHead == [generation |-> 0, digest |-> <<>>, entries |-> {}, receipts |-> {}]

\* GenerationDocument: the snapshot after one transaction, naming its parent.
Documents == [generation : 1 .. MaxGenerations, parent : Files,
              receipt : Receipts, forgotten : SUBSET Ids,
              entries : SUBSET Keys, receipts : SUBSET Receipts]

ConditionMatches(h, operation) ==
  CASE operation[1] = "put"    -> operation[2] \notin h.entries
    [] operation[1] = "delete" -> operation[2] \in h.entries
    [] operation[1] = "forget" -> Holds(h.receipts, operation[2])

\* The document commit_inner builds for a transaction on top of a head.
Document(h, txn) ==
  LET operation == Operation(txn)
      forgotten == IF operation[1] = "forget" THEN {operation[2]} ELSE {}
      kept == {r \in h.receipts : r[1] \notin forgotten}
  IN [generation |-> h.generation + 1,
      parent |-> h.digest,
      receipt |-> <<txn.id, txn.digest>>,
      forgotten |-> forgotten,
      entries |-> CASE operation[1] = "put" -> h.entries \cup {operation[2]}
                    [] operation[1] = "delete" -> h.entries \ {operation[2]}
                    [] operation[1] = "forget" -> h.entries,
      receipts |-> kept \cup {<<txn.id, txn.digest>>}]

FileDigest(doc) == <<doc.receipt, doc.entries, doc.receipts>>

HeadOf(doc) ==
  [generation |-> doc.generation, digest |-> FileDigest(doc),
   entries |-> doc.entries, receipts |-> doc.receipts]

\* What load_chain requires of the files it finds: generations 1..n without a
\* gap or a duplicate, each naming the file before it, each with exactly the
\* receipts its predecessor leaves it.
ChainLoads(files) ==
  /\ \A f, g \in files : f.generation = g.generation => f = g
  /\ {f.generation : f \in files} = 1 .. Cardinality(files)
  /\ \A f \in files :
       LET before == {g \in files : g.generation = f.generation - 1}
           inherited == UNION {g.receipts : g \in before}
       IN /\ f.parent = IF before = {} THEN <<>>
                        ELSE FileDigest(CHOOSE g \in before : TRUE)
          /\ \A id \in f.forgotten : Holds(inherited, id)
          /\ f.receipts = {r \in inherited : r[1] \notin f.forgotten}
                            \cup {f.receipt}

\* The head load_chain returns: the newest generation's complete snapshot.
NewestHead(files) ==
  IF files = {} THEN EmptyHead
  ELSE HeadOf(CHOOSE f \in files :
                \A g \in files : g.generation <= f.generation)

-----------------------------------------------------------------------------
Phases == {"closed", "acquired", "loaded", "cleaned", "open", "dropping"}
Steps == {"idle", "create", "write", "rename", "barrier", "clean"}

NoCall == [at |-> "idle", doc |-> None, hard |-> TRUE]

Calls == {NoCall} \cup
  [at : Steps \ {"idle"}, doc : Documents, hard : BOOLEAN]

\* The outcomes directory_barrier may have.
BarrierResults == IF BarrierMayFail THEN BOOLEAN ELSE {TRUE}

Init ==
  /\ disk = {} /\ synced = {} /\ temps = {}
  /\ registry = None /\ lock = None
  /\ phase = [h \in Handles |-> "closed"]
  /\ barrier = FALSE
  /\ head = EmptyHead
  /\ call = NoCall
  /\ reported = {} /\ retold = None
  /\ crashes = 0

-----------------------------------------------------------------------------
(* Opening and closing a store                                              *)

\* StoreGuard::acquire: a path already in OPEN_STORES is refused
\* (StorageLocked, no change), then the lock file is locked.
Acquire(h) ==
  /\ phase[h] = "closed"
  /\ registry = None /\ lock = None
  /\ registry' = h /\ lock' = h
  /\ phase' = [phase EXCEPT ![h] = "acquired"]
  /\ UNCHANGED <<store, barrier, head, call, history, crashes>>

\* An open that fails drops its guard.
GiveUp(h) == phase' = [phase EXCEPT ![h] = "dropping"]

\* JsonStorage::open up to load_chain: the barrier probe decides the
\* durability level, which must satisfy the one the caller requires.
Load(h) ==
  /\ phase[h] = "acquired"
  /\ \E probe \in BarrierResults, required \in {"process", "os"} :
       /\ barrier' = probe
       /\ synced' = IF probe THEN disk ELSE synced
       /\ IF (required = "os" => probe) /\ ChainLoads(disk)
          THEN /\ head' = NewestHead(disk)
               /\ phase' = [phase EXCEPT ![h] = "loaded"]
          ELSE GiveUp(h) /\ UNCHANGED head
  /\ UNCHANGED <<disk, temps, registry, lock, call, history, crashes>>

\* cleanup_temp_files: it removes every temporary file or stops at an error.
OpenClean(h) ==
  /\ phase[h] = "loaded"
  /\ \/ /\ temps' = {}
        /\ phase' = [phase EXCEPT ![h] = "cleaned"]
     \/ /\ temps' \in SUBSET temps
        /\ GiveUp(h)
  /\ UNCHANGED <<disk, synced, registry, lock, barrier, head, call, history,
                 crashes>>

\* The barrier that ends an open under OsCrashDurable.
OpenBarrier(h) ==
  /\ phase[h] = "cleaned"
  /\ IF barrier
     THEN \E ok \in BarrierResults :
            /\ synced' = IF ok THEN disk ELSE synced
            /\ IF ok THEN phase' = [phase EXCEPT ![h] = "open"] ELSE GiveUp(h)
     ELSE /\ UNCHANGED synced
          /\ phase' = [phase EXCEPT ![h] = "open"]
  /\ UNCHANGED <<disk, temps, registry, lock, barrier, head, call, history,
                 crashes>>

\* The owner drops an idle store.
Close(h) ==
  /\ phase[h] = "open" /\ call = NoCall
  /\ GiveUp(h)
  /\ UNCHANGED <<store, registry, lock, barrier, head, call, history, crashes>>

\* StoreGuard's fields drop in order: the lock file, then the registry entry.
DropLock(h) ==
  /\ phase[h] = "dropping" /\ lock = h
  /\ lock' = None
  /\ head' = EmptyHead /\ barrier' = FALSE
  /\ UNCHANGED <<store, registry, phase, call, history, crashes>>

DropEntry(h) ==
  /\ phase[h] = "dropping" /\ lock # h
  /\ registry' = None
  /\ phase' = [phase EXCEPT ![h] = "closed"]
  /\ UNCHANGED <<store, lock, barrier, head, call, history, crashes>>

-----------------------------------------------------------------------------
(* commit_inner, under the state mutex: one commit at a time                *)

Temp(doc) == <<doc.generation, doc.receipt[1]>>

\* The checks before the first file operation.  A transaction that fails one
\* ends in Conflict, ResourceExhausted or StorageCorrupt and changes nothing.
Begin(h, txn) ==
  LET doc == Document(head, txn) IN
  /\ phase[h] = "open" /\ call = NoCall
  /\ ~Holds(head.receipts, txn.id)
  /\ Base(txn) = head.generation
  /\ ConditionMatches(head, Operation(txn))
  /\ head.generation + 1 <= MaxGenerations
  /\ \A f \in disk : Temp(f) # Temp(doc)
  /\ call' = [at |-> "create", doc |-> doc, hard |-> TRUE]
  /\ UNCHANGED <<store, guards, head, history, crashes>>

\* A receipt answered from memory: a commit repeated with the same digest,
\* or reconcile.  Another digest is a conflict, no receipt an abort; neither
\* changes anything.
Retell(h, receipt) ==
  /\ phase[h] = "open" /\ call = NoCall
  /\ receipt \in head.receipts
  /\ retold' = IF barrier THEN receipt ELSE retold
  /\ UNCHANGED <<store, guards, head, call, reported, crashes>>

Advance(at) == call' = [call EXCEPT !.at = at]

\* The error return of write_and_rename: CommitUnknown, the head unmoved.
CommitFails == call' = NoCall

\* create_new; a stale file of the same name is removed once.
CreateTemp ==
  /\ call.at = "create"
  /\ \/ temps' = temps \cup {Temp(call.doc)} /\ Advance("write")
     \/ temps' \in {temps, temps \ {Temp(call.doc)}} /\ CommitFails
  /\ UNCHANGED <<disk, synced, guards, head, history, crashes>>

\* write_all and sync_all; on an error the file is removed if it can be.
WriteTemp ==
  /\ call.at = "write"
  /\ \/ UNCHANGED temps /\ Advance("rename")
     \/ temps' \in {temps, temps \ {Temp(call.doc)}} /\ CommitFails
  /\ UNCHANGED <<disk, synced, guards, head, history, crashes>>

Rename ==
  /\ call.at = "rename"
  /\ \/ /\ disk' = disk \cup {call.doc}
        /\ temps' = temps \ {Temp(call.doc)}
        /\ Advance("barrier")
     \/ UNCHANGED <<disk, temps>> /\ CommitFails
  /\ UNCHANGED <<synced, guards, head, history, crashes>>

\* The commit barrier, its result kept, and the head moved either way.
CommitBarrier ==
  /\ call.at = "barrier"
  /\ \E ok \in IF barrier THEN BarrierResults ELSE {TRUE} :
       /\ synced' = IF barrier /\ ok THEN disk ELSE synced
       /\ call' = [call EXCEPT !.at = "clean", !.hard = ok]
  /\ head' = HeadOf(call.doc)
  /\ UNCHANGED <<disk, temps, guards, history, crashes>>

\* Mutant: the result of the commit barrier is forgotten.
CommitCleanBlind ==
  /\ call.at = "clean"
  /\ temps' = {}
  /\ \E ok \in BarrierResults :
       synced' = IF barrier /\ ok THEN disk ELSE synced
  /\ reported' = IF barrier THEN reported \cup {call.doc.receipt} ELSE reported
  /\ call' = NoCall
  /\ UNCHANGED <<disk, guards, head, retold, crashes>>

\* Cleanup, whose error makes the outcome CommitUnknown, then the cleanup
\* barrier, whose error is ignored, then the outcome: Unknown when the commit
\* barrier failed, Committed otherwise.
CommitClean ==
  /\ call.at = "clean"
  /\ \/ /\ temps' = {}
        /\ \E ok \in BarrierResults :
             synced' = IF barrier /\ ok THEN disk ELSE synced
        /\ reported' = IF barrier /\ call.hard
                       THEN reported \cup {call.doc.receipt} ELSE reported
     \/ /\ temps' \in SUBSET temps
        /\ UNCHANGED <<synced, reported>>
  /\ call' = NoCall
  /\ UNCHANGED <<disk, guards, head, retold, crashes>>

Flush(h) ==
  /\ phase[h] = "open" /\ call = NoCall
  /\ synced' = disk
  /\ UNCHANGED <<disk, temps, guards, head, call, history, crashes>>

-----------------------------------------------------------------------------
(* Crashes                                                                  *)

\* The process dies: the operating system releases the lock.
ProcessDies ==
  /\ crashes < MaxCrashes
  /\ crashes' = crashes + 1
  /\ registry' = None /\ lock' = None
  /\ phase' = [h \in Handles |-> "closed"]
  /\ barrier' = FALSE
  /\ head' = EmptyHead
  /\ call' = NoCall
  /\ UNCHANGED history

ProcessCrash == ProcessDies /\ UNCHANGED store

\* The machine dies: renames that crossed no barrier may be dropped.
Survivors ==
  {kept \in SUBSET disk :
     /\ synced \subseteq kept
     /\ OrderedLoss => \A f \in kept, g \in disk :
                          g.generation < f.generation => g \in kept}

MachineCrash ==
  /\ ProcessDies
  /\ disk' \in Survivors
  /\ synced' = disk'
  /\ temps' \in SUBSET temps

-----------------------------------------------------------------------------
Next ==
  \/ \E h \in Handles :
       \/ Acquire(h) \/ Load(h) \/ OpenClean(h) \/ OpenBarrier(h)
       \/ Close(h) \/ DropLock(h) \/ DropEntry(h)
       \/ \E txn \in Transactions : Begin(h, txn)
       \/ \E r \in head.receipts : Retell(h, r)
       \/ Flush(h)
  \/ CreateTemp \/ WriteTemp \/ Rename \/ CommitBarrier \/ CommitClean
  \/ ProcessCrash \/ MachineCrash

Spec == Init /\ [][Next]_vars

-----------------------------------------------------------------------------
(* Properties                                                               *)

\* Every variable keeps its shape, and generations stay within the ceiling
\* that commit_inner checks before it builds a document.
TypeOK ==
  /\ disk \subseteq Documents /\ synced \subseteq disk
  /\ temps \subseteq (1 .. MaxGenerations) \X Ids
  /\ registry \in Handles \cup {None} /\ lock \in Handles \cup {None}
  /\ phase \in [Handles -> Phases]
  /\ barrier \in BOOLEAN
  /\ head \in Heads
  /\ call \in Calls
  /\ reported \subseteq Receipts /\ retold \in Receipts \cup {None}
  /\ crashes \in 0 .. MaxCrashes

\* Whatever failed and wherever it crashed, the directory the store leaves
\* behind passes every check of load_chain: no gap, no second file for a
\* generation, no generation whose parent or receipts disagree with the file
\* before it.  The store never locks itself out as StorageCorrupt.
Loadable == ChainLoads(disk)

Log == IF Loadable
       THEN [i \in 1 .. Cardinality(disk) |->
               (CHOOSE f \in disk : f.generation = i).receipt]
       ELSE <<>>

Contract == INSTANCE DurableLog
  WITH log <- Log, durable <- Cardinality(synced), reported <- reported

\* The store implements the storage contract: it appends whole transactions,
\* loses none that crossed a barrier and none out of order, and a commit that
\* returns Committed under OsCrashDurable has its generation behind a barrier.
ImplementsContract == Contract!Spec

\* The same for an answer given from memory: ADR-0003 lets a store return
\* committed only after the barrier was repeated with success.  reconcile and
\* a repeated commit read the head, which moved although the barrier failed.
RetoldSurvives ==
  retold # None => \E f \in disk : f.receipt = retold

\* A path is refused as StorageLocked only while a store holds its lock: the
\* comment on StoreGuard's drop order says so.
RefusedOnlyWhileLocked == registry # None => lock # None
=============================================================================
