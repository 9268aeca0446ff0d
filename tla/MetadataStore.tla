--------------------------- MODULE MetadataStore ---------------------------
(***************************************************************************)
(* The single-commit state machine of storage/mod.rs (struct MetadataStore) *)
(* with the journal of storage/pending.rs and the callers of                *)
(* identity/lifecycle.rs that drive it.                                     *)
(*                                                                          *)
(* Callers are tasks of one process.  A call is                             *)
(*   plain     -- snapshot, commit               (sync, resources, sweeps); *)
(*   exact     -- commit_with_reconcile          (key intents, leave);      *)
(*   journaled -- recover_journal_prologue, commit_with_reconcile of a      *)
(*                transaction that also writes its own pending record,      *)
(*                cleanup_pending_exact (genesis, admission, adoption,      *)
(*                key deletion).                                            *)
(* The provider (storage/json, storage/redb) is atomic at its commit point; *)
(* a transaction applies only on its exact base revision.  A step of the    *)
(* model is what happens between two locks of the state mutex or two awaits.*)
(*                                                                          *)
(* Abstractions: values and keys are left out, a transaction is its id, its *)
(* base revision and the pending record it writes or deletes; the 5 s entry *)
(* wait is a refusal that may come at any moment at which the state refuses *)
(* entry; transaction ids are never reused (TransactionId::generate).       *)
(***************************************************************************)
EXTENDS Naturals, FiniteSets

CONSTANTS
  Callers,          \* tasks sharing the store
  IdentityCallers,  \* those that run exact and journaled calls
  Purposes,         \* journal purposes
  IdentityPurpose,  \* LOCAL_IDENTITY_PURPOSE, recovered at open
  MaxTxn,           \* bound on transactions that reach the provider
  MaxFaults,        \* bound on indeterminate provider answers and crashes
  Detached          \* TRUE: the provider commits on a thread that outlives a
                    \* dropped future (redb); FALSE: it commits when polled (json)

ASSUME StoreAssumption ==
  /\ IdentityCallers \subseteq Callers
  /\ IdentityPurpose \in Purposes
  /\ MaxTxn \in Nat
  /\ MaxFaults \in Nat
  /\ Detached \in BOOLEAN

VARIABLES
  st,         \* CommitState: Ready, or Frozen on a pending transaction
  call,       \* the call each caller is in, or its last result
  booting,    \* open_local_identity has not returned yet
  txns,       \* the transactions prepared so far, and how far the provider is
  revision,   \* durable: the provider's revision
  receipts,   \* durable: the committed transactions
  journal,    \* durable: the pending record of each purpose (0: none)
  installed,  \* durable: whether the journaled change of a purpose is in place
  absent,     \* history: transactions a reconcile reported Aborted
  faults      \* number of indeterminate answers and crashes so far

durable == <<revision, receipts, journal, installed>>
vars == <<st, call, booting, txns, durable, absent, faults>>

Txns == 1 .. MaxTxn
Ready == [frozen |-> FALSE, pending |-> 0, proven |-> FALSE, active |-> FALSE]
Frozen(t, proven, active) ==
  [frozen |-> TRUE, pending |-> t, proven |-> proven, active |-> active]

\* is_blocked: frozen on an outcome nobody is resolving.
Blocked == st.frozen /\ ~st.active

\* A caller outside a call: mine is the transaction its last result r is about.
\* Inside a call: why is the call site that awaits reconcile, txn the
\* transaction being committed, held and proven the identity read by
\* recover_pending or cloned by begin_reconcile, attempts the counter of
\* cleanup_pending_exact.
Idle(m, r) ==
  [pc |-> "idle", kind |-> "none", purpose |-> IdentityPurpose, why |-> "none", txn |-> 0,
   mine |-> m, held |-> 0, proven |-> FALSE, attempts |-> 0, res |-> r]

NoTxn == [kind |-> "none", purpose |-> IdentityPurpose, base |-> 0, job |-> "none"]

Init ==
  /\ st = Ready
  /\ call = [c \in Callers |-> Idle(0, "none")]
  /\ booting = FALSE
  /\ txns = [t \in Txns |-> NoTxn]
  /\ revision = 0
  /\ receipts = {}
  /\ journal = [p \in Purposes |-> 0]
  /\ installed = [p \in Purposes |-> FALSE]
  /\ absent = {}
  /\ faults = 0

-----------------------------------------------------------------------------
\* The call of c goes on with new contents, at a label, or returns r.
Becomes(c, new) == call' = [call EXCEPT ![c] = new]
Goto(c, label) == Becomes(c, [call[c] EXCEPT !.pc = label])
Return(c, r) == Becomes(c, Idle(call[c].mine, r))

\* TransactionId::generate: the next identity never used before.
Fresh(t) ==
  /\ txns[t].job = "none"
  /\ \A u \in Txns : u < t => txns[u].job # "none"

\* prepare_transaction on the current snapshot.
Prepare(t, k, p) ==
  /\ Fresh(t)
  /\ txns' = [txns EXCEPT ![t] = [kind |-> k, purpose |-> p, base |-> revision, job |-> "prepared"]]

\* A prepared transaction that never reached the provider is dropped with its
\* call; its identity is as good as never generated.
Discard(dropped) ==
  txns' = [t \in Txns |-> IF t \in dropped /\ txns[t].job = "prepared" THEN NoTxn ELSE txns[t]]

Started(k, p, label) ==
  [Idle(0, "none") EXCEPT !.pc = label, !.kind = k, !.purpose = p]

(* Starting a call.  Supervisor commands and session handshakes check       *)
(* require_unblocked first; the background writers of plain commits do not. *)

StartPlain(c, t) ==
  /\ ~booting /\ call[c].pc = "idle"
  /\ Prepare(t, "plain", IdentityPurpose)
  /\ Becomes(c, [Started("plain", IdentityPurpose, "commit") EXCEPT !.txn = t, !.mine = t])
  /\ UNCHANGED <<st, booting, durable, absent, faults>>

StartExact(c, t) ==
  /\ ~booting /\ call[c].pc = "idle" /\ ~Blocked
  /\ Prepare(t, "exact", IdentityPurpose)
  /\ Becomes(c, [Started("exact", IdentityPurpose, "commit") EXCEPT !.txn = t, !.mine = t])
  /\ UNCHANGED <<st, booting, durable, absent, faults>>

\* Two calls of one purpose never overlap: the supervisor runs its commands one
\* at a time and a credential generation is reserved by one admission.
StartJournaled(c, p) ==
  /\ ~booting /\ call[c].pc = "idle" /\ ~Blocked
  /\ \A d \in Callers : ~(call[d].kind = "journaled" /\ call[d].purpose = p)
  /\ Becomes(c, Started("journaled", p, "recover"))
  /\ UNCHANGED <<st, booting, txns, durable, absent, faults>>

-----------------------------------------------------------------------------
(* recover_journal_prologue                                                 *)

\* recover_pending, its snapshot.
RecoverPending(c) ==
  /\ call[c].pc = "recover"
  /\ LET record == journal[call[c].purpose] IN
       Becomes(c, [call[c] EXCEPT !.held = record,
                                  !.pc = IF record = 0 THEN "check" ELSE "freeze"])
  /\ UNCHANGED <<st, booting, txns, durable, absent, faults>>

\* Mutant: freeze_journaled without the comparison of the pending identity.
FreezeJournaledUnchecked(c) ==
  /\ call[c].pc = "freeze"
  /\ st' = IF st.frozen THEN [st EXCEPT !.proven = TRUE] ELSE Frozen(call[c].held, TRUE, FALSE)
  /\ Becomes(c, [call[c] EXCEPT !.pc = "reconcile", !.why = "recovered", !.held = 0])
  /\ UNCHANGED <<booting, txns, durable, absent, faults>>

\* recover_pending, freeze_journaled on the identity read before.
FreezeJournaled(c) ==
  /\ call[c].pc = "freeze"
  /\ IF st.frozen /\ st.pending # call[c].held
     THEN Return(c, "NotReady") /\ UNCHANGED st
     ELSE /\ st' = IF st.frozen THEN [st EXCEPT !.proven = TRUE]
                   ELSE Frozen(call[c].held, TRUE, FALSE)
          /\ Becomes(c, [call[c] EXCEPT !.pc = "reconcile", !.why = "recovered", !.held = 0])
  /\ UNCHANGED <<booting, txns, durable, absent, faults>>

\* reconcile_if_frozen, its test of the state.
ReconcileIfFrozen(c) ==
  /\ call[c].pc = "check"
  /\ IF st.frozen THEN Becomes(c, [call[c] EXCEPT !.pc = "reconcile", !.why = "ifFrozen"])
     ELSE Goto(c, "read")
  /\ UNCHANGED <<st, booting, txns, durable, absent, faults>>

\* The caller's own snapshot: either the change is already installed, or the
\* journaled transaction is prepared (prepare_journaled_transaction).
ReadAndPrepare(c, t) ==
  /\ call[c].pc = "read"
  /\ \/ /\ installed[call[c].purpose]
        /\ Return(c, "Existing")
        /\ UNCHANGED txns
     \/ /\ ~installed[call[c].purpose]
        /\ Prepare(t, "journaled", call[c].purpose)
        /\ Becomes(c, [call[c] EXCEPT !.pc = "commit", !.txn = t, !.mine = t])
  /\ UNCHANGED <<st, booting, durable, absent, faults>>

-----------------------------------------------------------------------------
(* MetadataStore::commit                                                    *)

BeginCommit(c) ==
  /\ call[c].pc = "commit"
  /\ ~st.frozen
  /\ st' = Frozen(call[c].txn, FALSE, TRUE)
  /\ txns' = [txns EXCEPT ![call[c].txn].job = "running"]
  /\ Goto(c, "committing")
  /\ UNCHANGED <<booting, durable, absent, faults>>

\* Mutant: the entry wait has no deadline while the store is blocked.
CommitRefusedBusyOnly(c) ==
  /\ call[c].pc = "commit"
  /\ st.frozen /\ st.active
  /\ Becomes(c, Idle(0, "NotReady"))
  /\ Discard({call[c].txn})
  /\ UNCHANGED <<st, booting, durable, absent, faults>>

\* ENTRY_WAIT_BOUND passed while the store was not Ready.
CommitRefused(c) ==
  /\ call[c].pc = "commit"
  /\ st.frozen
  /\ Becomes(c, Idle(0, "NotReady"))
  /\ Discard({call[c].txn})
  /\ UNCHANGED <<st, booting, durable, absent, faults>>

\* The provider's test of the base revision and of the expectations.
Applicable(t) ==
  /\ txns[t].base = revision
  /\ txns[t].kind = "journaled" =>
       journal[txns[t].purpose] = 0 /\ ~installed[txns[t].purpose]
  /\ txns[t].kind = "cleanup" => journal[txns[t].purpose] # 0

Decide(t, outcome) == txns' = [txns EXCEPT ![t].job = outcome]

\* The provider's commit point.
ProviderCommit(t) ==
  /\ txns[t].job = "running"
  /\ \/ /\ Applicable(t)
        /\ Decide(t, "applied")
        /\ revision' = revision + 1
        /\ receipts' = receipts \cup {t}
        /\ journal' = CASE txns[t].kind = "journaled" -> [journal EXCEPT ![txns[t].purpose] = t]
                        [] txns[t].kind = "cleanup" -> [journal EXCEPT ![txns[t].purpose] = 0]
                        [] OTHER -> journal
        /\ installed' = IF txns[t].kind = "journaled"
                        THEN [installed EXCEPT ![txns[t].purpose] = TRUE] ELSE installed
     \/ ~Applicable(t) /\ Decide(t, "conflict") /\ UNCHANGED durable
     \/ Decide(t, "failed") /\ UNCHANGED durable   \* a backend failure before the commit point
  /\ UNCHANGED <<st, call, booting, absent, faults>>

\* What follows a cleanup that is over: the caller's own call returns, a
\* recovered journal continues with classification (or with opening the node).
AfterCleanup(c) ==
  IF call[c].mine # 0 THEN Return(c, "Committed") /\ UNCHANGED booting
  ELSE IF booting THEN Return(c, "Existing") /\ booting' = FALSE
  ELSE Goto(c, "read") /\ UNCHANGED booting

\* How the call site of the current transaction goes on from a known outcome.
AfterCommitted(c) ==
  CASE txns[call[c].txn].kind = "journaled" -> Goto(c, "cleanup") /\ UNCHANGED booting
    [] txns[call[c].txn].kind = "cleanup" -> AfterCleanup(c)
    [] OTHER -> Return(c, "Committed") /\ UNCHANGED booting

AfterAborted(c) ==
  /\ IF txns[call[c].txn].kind = "cleanup"
     THEN IF call[c].attempts >= 2 THEN Return(c, "CleanupConflict") ELSE Goto(c, "cleanup")
     ELSE Return(c, "Aborted")
  /\ UNCHANGED booting

AfterConflict(c) ==
  /\ Return(c, IF txns[call[c].txn].kind = "cleanup" THEN "CleanupConflict" ELSE "Aborted")
  /\ UNCHANGED booting

\* commit, an outcome that is known: finish_ready.
CommitKnown(c) ==
  /\ call[c].pc = "committing"
  /\ \/ txns[call[c].txn].job = "applied" /\ AfterCommitted(c)
     \/ txns[call[c].txn].job = "conflict" /\ AfterConflict(c)
     \/ txns[call[c].txn].job = "failed"
        /\ (AfterAborted(c) \/ (Return(c, "Error") /\ UNCHANGED booting))
  /\ st' = Ready
  /\ UNCHANGED <<txns, durable, absent, faults>>

\* commit, Ok(Unknown): finish_frozen; commit_with_reconcile and
\* cleanup_pending_exact reconcile at once, a plain caller gives up.
CommitUnknown(c) ==
  /\ call[c].pc = "committing"
  /\ txns[call[c].txn].job \in {"applied", "failed"}
  /\ faults < MaxFaults
  /\ faults' = faults + 1
  /\ st' = [st EXCEPT !.active = FALSE]
  /\ IF call[c].kind = "plain" THEN Return(c, "Unknown")
     ELSE Becomes(c, [call[c] EXCEPT !.pc = "reconcile", !.why = "own"])
  /\ UNCHANGED <<booting, txns, durable, absent>>


\* commit, Err(CommitUnknown) or an answer about another transaction: the
\* store stays frozen and the error is returned without a reconcile.
CommitErrUnknown(c) ==
  /\ call[c].pc = "committing"
  /\ txns[call[c].txn].job \in {"applied", "failed"}
  /\ faults < MaxFaults
  /\ faults' = faults + 1
  /\ st' = [st EXCEPT !.active = FALSE]
  /\ Return(c, "Unknown")
  /\ UNCHANGED <<booting, txns, durable, absent>>

-----------------------------------------------------------------------------
(* MetadataStore::reconcile                                                 *)

\* Mutant: begin_reconcile does not look at provider_call_active.
BeginReconcileUnguarded(c) ==
  /\ call[c].pc = "reconcile"
  /\ st.frozen
  /\ st' = [st EXCEPT !.active = TRUE]
  /\ Becomes(c, [call[c] EXCEPT !.pc = "reconciling", !.held = st.pending, !.proven = st.proven])
  /\ UNCHANGED <<booting, txns, durable, absent, faults>>

BeginReconcile(c) ==
  /\ call[c].pc = "reconcile"
  /\ st.frozen /\ ~st.active
  /\ st' = [st EXCEPT !.active = TRUE]
  /\ Becomes(c, [call[c] EXCEPT !.pc = "reconciling", !.held = st.pending, !.proven = st.proven])
  /\ UNCHANGED <<booting, txns, durable, absent, faults>>

\* ENTRY_WAIT_BOUND passed while begin_reconcile refused: the store was Ready,
\* or another provider call was in flight.
ReconcileRefused(c) ==
  /\ call[c].pc = "reconcile"
  /\ ~st.frozen \/ st.active
  /\ Return(c, "NotReady")
  /\ UNCHANGED <<st, booting, txns, durable, absent, faults>>

\* The provider has the receipt.
ReconcileCommitted(c) ==
  /\ call[c].pc = "reconciling"
  /\ call[c].held \in receipts
  /\ st' = Ready
  /\ \/ call[c].why = "own" /\ AfterCommitted(c)
     \/ call[c].why = "recovered" /\ Goto(c, "cleanup") /\ UNCHANGED booting
     \/ call[c].why = "ifFrozen" /\ Goto(c, "read") /\ UNCHANGED booting
  /\ UNCHANGED <<txns, durable, absent, faults>>

\* The provider has no receipt: Aborted, which a journal-proven identity
\* contradicts.
ReconcileAborted(c) ==
  /\ call[c].pc = "reconciling"
  /\ call[c].held \notin receipts
  /\ absent' = absent \cup {call[c].held}
  /\ IF call[c].proven
     THEN /\ st' = [st EXCEPT !.active = FALSE]
          /\ Return(c, "Corrupt") /\ UNCHANGED booting
     ELSE /\ st' = Ready
          /\ \/ call[c].why = "own" /\ AfterAborted(c)
             \/ call[c].why = "recovered" /\ Return(c, "Corrupt") /\ UNCHANGED booting
             \/ call[c].why = "ifFrozen" /\ Goto(c, "read") /\ UNCHANGED booting
  /\ UNCHANGED <<txns, durable, faults>>

\* The provider answers Unknown or fails: finish_frozen.
ReconcileFailed(c) ==
  /\ call[c].pc = "reconciling"
  /\ faults < MaxFaults
  /\ faults' = faults + 1
  /\ st' = [st EXCEPT !.active = FALSE]
  /\ Return(c, "Unknown")
  /\ UNCHANGED <<booting, txns, durable, absent>>

\* cleanup_pending: reads the pending record of the purpose and prepares its
\* deletion.
CleanupPending(c, t) ==
  /\ call[c].pc = "cleanup"
  /\ \/ /\ journal[call[c].purpose] = 0
        /\ AfterCleanup(c)
        /\ UNCHANGED txns
     \/ /\ journal[call[c].purpose] # 0
        /\ Prepare(t, "cleanup", call[c].purpose)
        /\ Becomes(c, [call[c] EXCEPT !.pc = "commit", !.txn = t, !.why = "none",
                                      !.attempts = @ + 1])
        /\ UNCHANGED booting
  /\ UNCHANGED <<st, durable, absent, faults>>

-----------------------------------------------------------------------------
(* Cancellation and restart                                                 *)

\* The authentication deadline drops the future of a handshake.  A future that
\* is inside a provider call drops its ProviderCall; a detached commit goes on.
Cancel(c) ==
  /\ call[c].kind = "journaled" /\ ~booting
  /\ call[c].pc = "committing" => Detached
  /\ call[c].pc # "reconciling"
  /\ st' = IF call[c].pc = "committing" THEN [st EXCEPT !.active = FALSE] ELSE st
  /\ Becomes(c, Idle(0, "Cancelled"))
  /\ Discard({call[c].txn})
  /\ UNCHANGED <<booting, durable, absent, faults>>

\* The process dies and open_local_identity opens the store again; a pending
\* record of the identity purpose freezes it and one task recovers it.
Crash(c) ==
  LET recovered == journal[IdentityPurpose] # 0 IN
  /\ faults < MaxFaults
  /\ faults' = faults + 1
  /\ call' = [d \in Callers |->
                IF d = c /\ recovered
                THEN [Started("journaled", IdentityPurpose, "reconcile") EXCEPT !.why = "recovered"]
                ELSE Idle(0, "none")]
  /\ st' = IF recovered THEN Frozen(journal[IdentityPurpose], TRUE, FALSE) ELSE Ready
  /\ booting' = recovered
  /\ txns' = [t \in Txns |-> CASE txns[t].job = "prepared" -> NoTxn
                               [] txns[t].job = "running" -> [txns[t] EXCEPT !.job = "failed"]
                               [] OTHER -> txns[t]]
  /\ UNCHANGED <<durable, absent>>

Step(c) ==
  \/ RecoverPending(c) \/ FreezeJournaled(c) \/ ReconcileIfFrozen(c)
  \/ \E t \in Txns : ReadAndPrepare(c, t) \/ CleanupPending(c, t)
  \/ BeginCommit(c) \/ CommitRefused(c)
  \/ CommitKnown(c) \/ CommitUnknown(c) \/ CommitErrUnknown(c)
  \/ BeginReconcile(c) \/ ReconcileRefused(c)
  \/ ReconcileCommitted(c) \/ ReconcileAborted(c) \/ ReconcileFailed(c)

Next ==
  \/ \E c \in Callers : Step(c) \/ Cancel(c) \/ \E t \in Txns : StartPlain(c, t)
  \/ \E c \in IdentityCallers :
       \/ Crash(c)
       \/ \E t \in Txns : StartExact(c, t)
       \/ \E p \in Purposes : StartJournaled(c, p)
  \/ \E t \in Txns : ProviderCommit(t)

Spec == Init /\ [][Next]_vars

\* A task that is runnable runs, the provider answers, and the background
\* writers come back at every tick; nothing forces an identity operation, a
\* cancellation or a crash.
FairSpec ==
  /\ Spec
  /\ \A c \in Callers : WF_vars(Step(c))
  /\ \A c \in Callers \ IdentityCallers : WF_vars(\E t \in Txns : StartPlain(c, t))
  /\ \A t \in Txns : WF_vars(ProviderCommit(t))

-----------------------------------------------------------------------------
PCs == {"idle", "recover", "freeze", "check", "read", "commit", "committing",
        "reconcile", "reconciling", "cleanup"}
Results == {"none", "Committed", "Aborted", "Existing", "NotReady", "Error", "Unknown",
            "Corrupt", "CleanupConflict", "Cancelled"}
Jobs == {"none", "prepared", "running", "applied", "conflict", "failed"}

CommitState ==
  [frozen : BOOLEAN, pending : {0} \cup Txns, proven : BOOLEAN, active : BOOLEAN]
CallState ==
  [pc : PCs, kind : {"none", "plain", "exact", "journaled"}, purpose : Purposes,
   why : {"none", "own", "recovered", "ifFrozen"}, txn : {0} \cup Txns, mine : {0} \cup Txns,
   held : {0} \cup Txns, proven : BOOLEAN, attempts : Nat, res : Results]
TxnState ==
  [kind : {"none", "plain", "exact", "journaled", "cleanup"}, purpose : Purposes, base : Nat,
   job : Jobs]

\* Every variable has its type, and a caller that is committing has a transaction.
TypeOK ==
  /\ st \in CommitState
  /\ call \in [Callers -> CallState]
  /\ \A c \in Callers : call[c].pc \in {"commit", "committing"} => call[c].txn \in Txns
  /\ booting \in BOOLEAN
  /\ txns \in [Txns -> TxnState]
  /\ revision \in Nat
  /\ receipts \in SUBSET Txns
  /\ journal \in [Purposes -> {0} \cup Txns]
  /\ installed \in [Purposes -> BOOLEAN]
  /\ absent \in SUBSET ({0} \cup Txns)
  /\ faults \in Nat

InCall(c) == call[c].pc \in {"committing", "reconciling"}

\* The state mutex with provider_call_active is a lock: two callers are never
\* both inside a provider call, the flag is set exactly while one is, and the
\* caller inside works on the frozen identity (storage/mod.rs begin_commit,
\* begin_reconcile, finish_ready, finish_frozen and ProviderCall's Drop).
ExclusiveProviderCall ==
  /\ \A c, d \in Callers : InCall(c) /\ InCall(d) => c = d
  /\ (st.frozen /\ st.active) <=> \E c \in Callers : InCall(c)
  /\ \A c \in Callers : call[c].pc = "committing" => st.pending = call[c].txn
  /\ \A c \in Callers : call[c].pc = "reconciling" => st.pending = call[c].held

\* A pending record proves its transaction committed: a journal record, and an
\* identity frozen as journal-proven, always have a receipt, so the branch of
\* reconcile that calls the store corrupt is not reached by any interleaving,
\* cancellation or restart (storage/mod.rs reconcile, freeze_journaled).
JournalProvesCommit ==
  /\ \A p \in Purposes : journal[p] # 0 => journal[p] \in receipts
  /\ st.proven => st.pending \in receipts
  /\ \A c \in Callers : call[c].pc = "reconciling" /\ call[c].proven => call[c].held \in receipts

\* A journaled change is installed by at most one transaction, however often it
\* is retried, recovered after a restart or raced (pending.rs
\* prepare_journaled_transaction writes its record with expectation Absent).
InstalledOnce ==
  \A p \in Purposes :
    Cardinality({t \in receipts : txns[t].kind = "journaled" /\ txns[t].purpose = p})
      = IF installed[p] THEN 1 ELSE 0


\* A transaction that reconcile reported Aborted never commits
\* (storage/mod.rs reconcile clears the freeze on Aborted).
AbortedIsFinal == absent \cap receipts = {}

\* reconcile_if_frozen refuses with NotReady only while the store is frozen
\* (storage/mod.rs reconcile: a reconcile racing an in-flight commit waits for
\* the Ready state instead of surfacing the transient refusal).
RefusedOnlyWhileFrozen ==
  [][\A c \in Callers :
       (call[c].pc = "reconcile" /\ call[c].why = "ifFrozen" /\ call'[c].res = "NotReady") => st.frozen]_vars

\* The bound of the model is used up: no call can prepare a transaction.
Exhausted == \A t \in Txns : txns[t].job # "none"

\* A store frozen on an indeterminate outcome becomes Ready again (storage/mod.rs
\* commit: every internal committer always restores the Ready state).
FreezeEnds == Blocked ~> (~st.frozen \/ Exhausted)

\* No caller waits for ever: every call returns (entry waits are bounded), save
\* for one that needs a transaction beyond the bound of the model.
EveryCallReturns ==
  \A c \in Callers :
    (call[c].pc # "idle") ~> (call[c].pc = "idle" \/ Exhausted)
=============================================================================
