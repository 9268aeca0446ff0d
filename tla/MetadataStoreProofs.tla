------------------------ MODULE MetadataStoreProofs ------------------------
(* Safety of the single-commit state machine, for every set of callers,      *)
(* every set of purposes and every bound.                                    *)
EXTENDS MetadataStore, TLAPS

USE DEF durable

\* The records that actions put in place of a caller's state are well typed.
LEMMA IdleType ==
  ASSUME NEW m \in {0} \cup Txns, NEW r \in Results
  PROVE  Idle(m, r) \in CallState /\ Idle(m, r).pc = "idle"
  BY StoreAssumption DEF StoreAssumption, Idle, CallState, PCs

LEMMA StartedType ==
  ASSUME NEW k \in {"plain", "exact", "journaled"}, NEW p \in Purposes, NEW label \in PCs
  PROVE  /\ Started(k, p, label) \in CallState
         /\ Started(k, p, label).pc = label
  BY StoreAssumption DEF StoreAssumption, Started, Idle, CallState, PCs, Results

LEMMA PrepareType ==
  ASSUME TypeOK, NEW t \in Txns, NEW p \in Purposes,
         NEW k \in {"plain", "exact", "journaled", "cleanup"}, Prepare(t, k, p)
  PROVE  txns' \in [Txns -> TxnState]
  BY DEF TypeOK, Prepare, TxnState, Jobs

LEMMA DiscardType ==
  ASSUME TypeOK, NEW dropped, Discard(dropped)
  PROVE  txns' \in [Txns -> TxnState]
  <1>1. NoTxn \in TxnState
    BY StoreAssumption DEF StoreAssumption, NoTxn, TxnState, Jobs
  <1> QED BY <1>1 DEF TypeOK, Discard

\* The only clause of TypeOK about a caller, after its state is replaced.
LEMMA BecomesType ==
  ASSUME TypeOK, NEW c \in Callers, NEW new \in CallState, Becomes(c, new),
         new.pc \in {"commit", "committing"} => new.txn \in Txns
  PROVE  /\ call' \in [Callers -> CallState]
         /\ \A d \in Callers : call'[d].pc \in {"commit", "committing"} => call'[d].txn \in Txns
  BY DEF TypeOK, Becomes

LEMMA InitTypeOK == Init => TypeOK
  <1>1. NoTxn \in TxnState
    BY StoreAssumption DEF StoreAssumption, NoTxn, TxnState, Jobs
  <1>2. Idle(0, "none") \in CallState /\ Idle(0, "none").pc = "idle"
    BY IdleType DEF Results
  <1>3. Ready \in CommitState
    BY DEF Ready, CommitState
  <1> SUFFICES ASSUME Init PROVE TypeOK
    OBVIOUS
  <1>4. st \in CommitState /\ txns \in [Txns -> TxnState] /\ call \in [Callers -> CallState]
    BY <1>1, <1>2, <1>3 DEF Init
  <1>5. booting \in BOOLEAN /\ installed \in [Purposes -> BOOLEAN]
    BY Zenon DEF Init
  <1>6. journal \in [Purposes -> {0} \cup Txns]
    BY DEF Init
  <1>7. \A c \in Callers : call[c].pc = "idle"
    BY <1>2 DEF Init
  <1>8. receipts = {} /\ absent = {} /\ revision = 0 /\ faults = 0
    BY DEF Init
  <1> QED BY <1>4, <1>5, <1>6, <1>7, <1>8 DEF TypeOK

\* call' is well typed.
CallOK == /\ call \in [Callers -> CallState]
          /\ \A d \in Callers : call[d].pc \in {"commit", "committing"} => call[d].txn \in Txns

LEMMA GotoType ==
  ASSUME TypeOK, NEW c \in Callers, NEW label \in PCs \ {"commit", "committing"}, Goto(c, label)
  PROVE  CallOK'
  <1>1. /\ [call[c] EXCEPT !.pc = label] \in CallState
        /\ [call[c] EXCEPT !.pc = label].pc = label
    BY DEF TypeOK, CallState
  <1> QED BY <1>1, BecomesType DEF Goto, CallOK

LEMMA ReturnType ==
  ASSUME TypeOK, NEW c \in Callers, NEW r \in Results, Return(c, r)
  PROVE  CallOK'
  <1>1. call[c].mine \in {0} \cup Txns
    BY DEF TypeOK, CallState
  <1>2. Idle(call[c].mine, r) \in CallState /\ Idle(call[c].mine, r).pc = "idle"
    BY <1>1, IdleType
  <1> QED BY <1>2, BecomesType DEF Return, CallOK

LEMMA AfterType ==
  ASSUME TypeOK, NEW c \in Callers,
         AfterCleanup(c) \/ AfterCommitted(c) \/ AfterAborted(c) \/ AfterConflict(c)
  PROVE  CallOK' /\ booting' \in BOOLEAN
  <1>0. booting \in BOOLEAN
    BY DEF TypeOK
  <1>1. CASE AfterCleanup(c)
    <2>1. booting' = booting \/ booting' = FALSE
      BY <1>1 DEF AfterCleanup
    <2>2. Return(c, "Committed") \/ Return(c, "Existing") \/ Goto(c, "read")
      BY <1>1 DEF AfterCleanup
    <2>3. CallOK'
      BY <2>2, ReturnType, GotoType DEF Results, PCs
    <2> QED BY <1>0, <2>1, <2>3
  <1>2. CASE AfterAborted(c)
    <2>1. booting' = booting
      BY <1>2 DEF AfterAborted
    <2>2. Return(c, "CleanupConflict") \/ Return(c, "Aborted") \/ Goto(c, "cleanup")
      BY <1>2 DEF AfterAborted
    <2>3. CallOK'
      BY <2>2, ReturnType, GotoType DEF Results, PCs
    <2> QED BY <1>0, <2>1, <2>3
  <1>3. CASE AfterConflict(c)
    <2>1. booting' = booting
      BY <1>3 DEF AfterConflict
    <2>2. Return(c, "CleanupConflict") \/ Return(c, "Aborted")
      BY <1>3 DEF AfterConflict
    <2>3. CallOK'
      BY <2>2, ReturnType DEF Results
    <2> QED BY <1>0, <2>1, <2>3
  <1>4. CASE AfterCommitted(c)
    <2>1. \/ Goto(c, "cleanup") /\ booting' = booting
          \/ Return(c, "Committed") /\ booting' = booting
          \/ AfterCleanup(c)
      BY <1>4 DEF AfterCommitted
    <2>2. Goto(c, "cleanup") \/ Return(c, "Committed") => CallOK'
      BY ReturnType, GotoType DEF Results, PCs
    <2> QED BY <1>0, <1>1, <2>1, <2>2
  <1> QED BY <1>1, <1>2, <1>3, <1>4

DurableOK == /\ revision \in Nat
             /\ receipts \in SUBSET Txns
             /\ journal \in [Purposes -> {0} \cup Txns]
             /\ installed \in [Purposes -> BOOLEAN]

GhostOK == absent \in SUBSET ({0} \cup Txns) /\ faults \in Nat

LEMMA TypeParts ==
  TypeOK <=> /\ st \in CommitState /\ CallOK /\ booting \in BOOLEAN
             /\ txns \in [Txns -> TxnState] /\ DurableOK /\ GhostOK
  BY DEF TypeOK, CallOK, DurableOK, GhostOK

LEMMA TypeAssembled ==
  ASSUME st' \in CommitState, CallOK', booting' \in BOOLEAN, txns' \in [Txns -> TxnState],
         DurableOK', GhostOK'
  PROVE  TypeOK'
  BY DEF TypeOK, CallOK, DurableOK, GhostOK

\* A step that replaces the state of one caller by a well-typed one.
LEMMA ReplaceType ==
  ASSUME TypeOK, NEW c \in Callers, NEW new \in CallState, Becomes(c, new),
         new.pc \in {"commit", "committing"} => new.txn \in Txns
  PROVE  CallOK'
  BY BecomesType DEF CallOK

LEMMA UnchangedDurable == ASSUME TypeOK, UNCHANGED durable PROVE DurableOK'
  BY TypeParts DEF DurableOK

LEMMA UnchangedGhost == ASSUME TypeOK, UNCHANGED <<absent, faults>> PROVE GhostOK'
  BY TypeParts DEF GhostOK

\* The state machine of the mutex stays well typed.
LEMMA ActiveType ==
  ASSUME TypeOK, NEW b \in BOOLEAN
  PROVE  /\ [st EXCEPT !.active = b] \in CommitState
         /\ [st EXCEPT !.proven = b] \in CommitState
         /\ Ready \in CommitState
         /\ \A t \in {0} \cup Txns, p, a \in BOOLEAN : Frozen(t, p, a) \in CommitState
  BY DEF TypeOK, CommitState, Ready, Frozen

LEMMA StartTypeOK ==
  ASSUME TypeOK, NEW c \in Callers,
         \/ \E t \in Txns : StartPlain(c, t) \/ StartExact(c, t)
         \/ \E p \in Purposes : StartJournaled(c, p)
  PROVE  TypeOK'
  <1>1. ASSUME NEW t \in Txns, StartPlain(c, t) \/ StartExact(c, t)
        PROVE  TypeOK'
    <2>1. PICK k \in {"plain", "exact"} :
            /\ Prepare(t, k, IdentityPurpose)
            /\ Becomes(c, [Started(k, IdentityPurpose, "commit") EXCEPT !.txn = t, !.mine = t])
      BY <1>1 DEF StartPlain, StartExact
    <2>2. /\ [Started(k, IdentityPurpose, "commit") EXCEPT !.txn = t, !.mine = t] \in CallState
          /\ [Started(k, IdentityPurpose, "commit") EXCEPT !.txn = t, !.mine = t].txn \in Txns
      BY StoreAssumption DEF StoreAssumption, Started, Idle, CallState, PCs, Results
    <2>3. CallOK'
      BY <2>1, <2>2, ReplaceType
    <2>4. txns' \in [Txns -> TxnState]
      BY <2>1, PrepareType, StoreAssumption DEF StoreAssumption
    <2>5. UNCHANGED <<st, booting, durable, absent, faults>>
      BY <1>1 DEF StartPlain, StartExact
    <2> QED BY <2>3, <2>4, <2>5, TypeAssembled, UnchangedDurable, UnchangedGhost DEF TypeOK
  <1>2. ASSUME NEW p \in Purposes, StartJournaled(c, p)
        PROVE  TypeOK'
    <2>1. CallOK'
      BY <1>2, StartedType, ReplaceType DEF StartJournaled, PCs
    <2>2. UNCHANGED <<st, booting, txns, durable, absent, faults>>
      BY <1>2 DEF StartJournaled
    <2> QED BY <2>1, <2>2, TypeAssembled, UnchangedDurable, UnchangedGhost DEF TypeOK
  <1> QED BY <1>1, <1>2

\* One step per action of the journal prologue and of cleanup_pending.
LEMMA JournalTypeOK ==
  ASSUME TypeOK, NEW c \in Callers,
         \/ RecoverPending(c) \/ FreezeJournaled(c) \/ ReconcileIfFrozen(c)
         \/ \E t \in Txns : ReadAndPrepare(c, t) \/ CleanupPending(c, t)
  PROVE  TypeOK'
  <1>0. /\ call[c] \in CallState /\ call[c].purpose \in Purposes
        /\ journal[call[c].purpose] \in {0} \cup Txns
    BY DEF TypeOK, CallState
  <1>1. CASE RecoverPending(c)
    <2> DEFINE record == journal[call[c].purpose]
               new == [call[c] EXCEPT !.held = record,
                                      !.pc = IF record = 0 THEN "check" ELSE "freeze"]
    <2>1. new \in CallState /\ new.pc \notin {"commit", "committing"}
      BY <1>0 DEF CallState, PCs
    <2>2. Becomes(c, new)
      BY <1>1 DEF RecoverPending
    <2>3. CallOK'
      BY <2>1, <2>2, ReplaceType
    <2>4. UNCHANGED <<st, booting, txns, durable, absent, faults>>
      BY <1>1 DEF RecoverPending
    <2> QED BY <2>3, <2>4, TypeAssembled, UnchangedDurable, UnchangedGhost DEF TypeOK
  <1>2. CASE FreezeJournaled(c)
    <2> DEFINE new == [call[c] EXCEPT !.pc = "reconcile", !.why = "recovered", !.held = 0]
    <2>1. new \in CallState /\ new.pc = "reconcile"
      BY <1>0 DEF CallState, PCs
    <2>2. Return(c, "NotReady") \/ Becomes(c, new)
      BY <1>2 DEF FreezeJournaled
    <2>3. CallOK'
      BY <2>1, <2>2, ReplaceType, ReturnType DEF Results
    <2>4. \/ st' = st
          \/ st' = [st EXCEPT !.proven = TRUE]
          \/ st' = Frozen(call[c].held, TRUE, FALSE)
      BY <1>2 DEF FreezeJournaled
    <2>5. st' \in CommitState
      BY <1>0, <2>4, ActiveType DEF TypeOK, CallState
    <2>6. UNCHANGED <<booting, txns, durable, absent, faults>>
      BY <1>2 DEF FreezeJournaled
    <2> QED BY <2>3, <2>5, <2>6, TypeAssembled, UnchangedDurable, UnchangedGhost DEF TypeOK
  <1>3. CASE ReconcileIfFrozen(c)
    <2> DEFINE new == [call[c] EXCEPT !.pc = "reconcile", !.why = "ifFrozen"]
    <2>1. new \in CallState /\ new.pc = "reconcile"
      BY <1>0 DEF CallState, PCs
    <2>2. Goto(c, "read") \/ Becomes(c, new)
      BY <1>3 DEF ReconcileIfFrozen
    <2>3. CallOK'
      BY <2>1, <2>2, ReplaceType, GotoType DEF PCs
    <2>4. UNCHANGED <<st, booting, txns, durable, absent, faults>>
      BY <1>3 DEF ReconcileIfFrozen
    <2> QED BY <2>3, <2>4, TypeAssembled, UnchangedDurable, UnchangedGhost DEF TypeOK
  <1>4. ASSUME NEW t \in Txns, ReadAndPrepare(c, t) PROVE TypeOK'
    <2> DEFINE new == [call[c] EXCEPT !.pc = "commit", !.txn = t, !.mine = t]
    <2>1. new \in CallState /\ new.txn \in Txns
      BY <1>0 DEF CallState, PCs
    <2>2. \/ Return(c, "Existing") /\ txns' = txns
          \/ Becomes(c, new) /\ Prepare(t, "journaled", call[c].purpose)
      BY <1>4 DEF ReadAndPrepare
    <2>3. CallOK'
      BY <2>1, <2>2, ReplaceType, ReturnType DEF Results
    <2>4. txns' \in [Txns -> TxnState]
      BY <1>0, <2>2, PrepareType DEF TypeOK
    <2>5. UNCHANGED <<st, booting, durable, absent, faults>>
      BY <1>4 DEF ReadAndPrepare
    <2> QED BY <2>3, <2>4, <2>5, TypeAssembled, UnchangedDurable, UnchangedGhost DEF TypeOK
  <1>5. ASSUME NEW t \in Txns, CleanupPending(c, t) PROVE TypeOK'
    <2> DEFINE new == [call[c] EXCEPT !.pc = "commit", !.txn = t, !.why = "none",
                                      !.attempts = @ + 1]
    <2>0. call[c].attempts + 1 \in Nat
      BY <1>0 DEF CallState
    <2>1. new \in CallState /\ new.txn \in Txns
      BY <1>0, <2>0 DEF CallState, PCs
    <2>2. \/ AfterCleanup(c) /\ txns' = txns
          \/ Becomes(c, new) /\ Prepare(t, "cleanup", call[c].purpose) /\ booting' = booting
      BY <1>5 DEF CleanupPending
    <2>3. CallOK' /\ booting' \in BOOLEAN
      <3>1. CASE AfterCleanup(c)
        BY <3>1, AfterType
      <3>2. CASE Becomes(c, new) /\ booting' = booting
        <4>1. CallOK'
          BY <3>2, <2>1, ReplaceType
        <4> QED BY <3>2, <4>1 DEF TypeOK
      <3> QED BY <2>2, <3>1, <3>2
    <2>4. txns' \in [Txns -> TxnState]
      BY <1>0, <2>2, PrepareType DEF TypeOK
    <2>5. UNCHANGED <<st, durable, absent, faults>>
      BY <1>5 DEF CleanupPending
    <2> QED BY <2>3, <2>4, <2>5, TypeAssembled, UnchangedDurable, UnchangedGhost DEF TypeOK
  <1> QED BY <1>1, <1>2, <1>3, <1>4, <1>5

\* One step per action of commit.
LEMMA CommitTypeOK ==
  ASSUME TypeOK, NEW c \in Callers,
         \/ BeginCommit(c) \/ CommitRefused(c) \/ CommitKnown(c) \/ CommitUnknown(c)
         \/ CommitErrUnknown(c)
  PROVE  TypeOK'
  <1>0. call[c] \in CallState /\ call[c].txn \in {0} \cup Txns /\ faults \in Nat
    BY DEF TypeOK, CallState
  <1>1. CASE BeginCommit(c)
    <2>1. call[c].txn \in Txns
      BY <1>1 DEF BeginCommit, TypeOK
    <2>2. /\ [call[c] EXCEPT !.pc = "committing"] \in CallState
          /\ [call[c] EXCEPT !.pc = "committing"].txn \in Txns
      BY <1>0, <2>1 DEF CallState, PCs
    <2>3. CallOK'
      BY <1>1, <2>2, ReplaceType DEF BeginCommit, Goto
    <2>4. st' \in CommitState
      BY <1>1, <2>1, ActiveType DEF BeginCommit
    <2>5. txns' \in [Txns -> TxnState]
      BY <1>1, <2>1 DEF BeginCommit, TypeOK, TxnState, Jobs
    <2>6. UNCHANGED <<booting, durable, absent, faults>>
      BY <1>1 DEF BeginCommit
    <2> QED BY <2>3, <2>4, <2>5, <2>6, TypeAssembled, UnchangedDurable, UnchangedGhost DEF TypeOK
  <1>2. CASE CommitRefused(c)
    <2>1. Idle(0, "NotReady") \in CallState /\ Idle(0, "NotReady").pc = "idle"
      BY IdleType DEF Results
    <2>2. CallOK'
      BY <1>2, <2>1, ReplaceType DEF CommitRefused
    <2>3. txns' \in [Txns -> TxnState]
      BY <1>2, DiscardType DEF CommitRefused
    <2>4. UNCHANGED <<st, booting, durable, absent, faults>>
      BY <1>2 DEF CommitRefused
    <2> QED BY <2>2, <2>3, <2>4, TypeAssembled, UnchangedDurable, UnchangedGhost DEF TypeOK
  <1>3. CASE CommitKnown(c)
    <2>1. \/ AfterCommitted(c) \/ AfterConflict(c) \/ AfterAborted(c)
          \/ Return(c, "Error") /\ booting' = booting
      BY <1>3 DEF CommitKnown
    <2>2. CallOK' /\ booting' \in BOOLEAN
      <3>1. CASE AfterCommitted(c) \/ AfterConflict(c) \/ AfterAborted(c)
        BY <3>1, AfterType
      <3>2. CASE Return(c, "Error") /\ booting' = booting
        <4>1. CallOK'
          BY <3>2, ReturnType DEF Results
        <4> QED BY <3>2, <4>1 DEF TypeOK
      <3> QED BY <2>1, <3>1, <3>2
    <2>3. st' \in CommitState
      BY <1>3, ActiveType DEF CommitKnown
    <2>4. UNCHANGED <<txns, durable, absent, faults>>
      BY <1>3 DEF CommitKnown
    <2> QED BY <2>2, <2>3, <2>4, TypeAssembled, UnchangedDurable, UnchangedGhost DEF TypeOK
  <1>4. CASE CommitUnknown(c) \/ CommitErrUnknown(c)
    <2> DEFINE new == [call[c] EXCEPT !.pc = "reconcile", !.why = "own"]
    <2>1. new \in CallState /\ new.pc = "reconcile"
      BY <1>0 DEF CallState, PCs
    <2>2. Return(c, "Unknown") \/ Becomes(c, new)
      BY <1>4 DEF CommitUnknown, CommitErrUnknown
    <2>3. CallOK'
      BY <2>1, <2>2, ReplaceType, ReturnType DEF Results
    <2>4. st' \in CommitState
      BY <1>4, ActiveType DEF CommitUnknown, CommitErrUnknown
    <2>5. UNCHANGED <<booting, txns, durable, absent>> /\ faults' \in Nat
      BY <1>0, <1>4 DEF CommitUnknown, CommitErrUnknown
    <2>6. GhostOK'
      BY <2>5 DEF GhostOK, TypeOK
    <2> QED BY <2>3, <2>4, <2>5, <2>6, TypeAssembled, UnchangedDurable DEF TypeOK
  <1> QED BY <1>1, <1>2, <1>3, <1>4

\* One step per action of reconcile.
LEMMA ReconcileTypeOK ==
  ASSUME TypeOK, NEW c \in Callers,
         \/ BeginReconcile(c) \/ ReconcileRefused(c) \/ ReconcileCommitted(c)
         \/ ReconcileAborted(c) \/ ReconcileFailed(c)
  PROVE  TypeOK'
  <1>0. /\ call[c] \in CallState /\ call[c].held \in {0} \cup Txns /\ faults \in Nat
        /\ call[c].why \in {"none", "own", "recovered", "ifFrozen"}
    BY DEF TypeOK, CallState
  <1>1. CASE BeginReconcile(c)
    <2> DEFINE new == [call[c] EXCEPT !.pc = "reconciling", !.held = st.pending, !.proven = st.proven]
    <2>1. new \in CallState /\ new.pc = "reconciling"
      BY <1>0 DEF CallState, PCs, TypeOK, CommitState
    <2>2. CallOK'
      BY <1>1, <2>1, ReplaceType DEF BeginReconcile
    <2>3. st' \in CommitState
      BY <1>1, ActiveType DEF BeginReconcile
    <2>4. UNCHANGED <<booting, txns, durable, absent, faults>>
      BY <1>1 DEF BeginReconcile
    <2> QED BY <2>2, <2>3, <2>4, TypeAssembled, UnchangedDurable, UnchangedGhost DEF TypeOK
  <1>2. CASE ReconcileRefused(c)
    <2>1. CallOK'
      BY <1>2, ReturnType DEF ReconcileRefused, Results
    <2>2. UNCHANGED <<st, booting, txns, durable, absent, faults>>
      BY <1>2 DEF ReconcileRefused
    <2> QED BY <2>1, <2>2, TypeAssembled, UnchangedDurable, UnchangedGhost DEF TypeOK
  <1>3. CASE ReconcileFailed(c)
    <2>1. CallOK'
      BY <1>3, ReturnType DEF ReconcileFailed, Results
    <2>2. st' \in CommitState
      BY <1>3, ActiveType DEF ReconcileFailed
    <2>3. UNCHANGED <<booting, txns, durable, absent>> /\ faults' \in Nat
      BY <1>0, <1>3 DEF ReconcileFailed
    <2>4. GhostOK'
      BY <2>3 DEF GhostOK, TypeOK
    <2> QED BY <2>1, <2>2, <2>3, <2>4, TypeAssembled, UnchangedDurable DEF TypeOK
  <1>4. CASE ReconcileCommitted(c)
    <2>1. \/ AfterCommitted(c)
          \/ Goto(c, "cleanup") /\ booting' = booting
          \/ Goto(c, "read") /\ booting' = booting
      BY <1>4 DEF ReconcileCommitted
    <2>2. CallOK' /\ booting' \in BOOLEAN
      <3>1. Goto(c, "cleanup") \/ Goto(c, "read") => CallOK'
        BY GotoType DEF PCs
      <3> QED BY <2>1, <3>1, AfterType DEF TypeOK
    <2>3. st' \in CommitState
      BY <1>4, ActiveType DEF ReconcileCommitted
    <2>4. UNCHANGED <<txns, durable, absent, faults>>
      BY <1>4 DEF ReconcileCommitted
    <2> QED BY <2>2, <2>3, <2>4, TypeAssembled, UnchangedDurable, UnchangedGhost DEF TypeOK
  <1>5. CASE ReconcileAborted(c)
    <2>1. \/ AfterAborted(c)
          \/ Return(c, "Corrupt") /\ booting' = booting
          \/ Goto(c, "read") /\ booting' = booting
      BY <1>5 DEF ReconcileAborted
    <2>2. CallOK' /\ booting' \in BOOLEAN
      <3>1. Return(c, "Corrupt") \/ Goto(c, "read") => CallOK'
        BY GotoType, ReturnType DEF PCs, Results
      <3> QED BY <2>1, <3>1, AfterType DEF TypeOK
    <2>3. st' \in CommitState
      BY <1>5, ActiveType DEF ReconcileAborted
    <2>4. UNCHANGED <<txns, durable, faults>> /\ absent' = absent \cup {call[c].held}
      BY <1>5 DEF ReconcileAborted
    <2>5. GhostOK'
      BY <1>0, <2>4 DEF GhostOK, TypeOK
    <2> QED BY <2>2, <2>3, <2>4, <2>5, TypeAssembled, UnchangedDurable DEF TypeOK
  <1> QED BY <1>1, <1>2, <1>3, <1>4, <1>5

LEMMA ProviderTypeOK ==
  ASSUME TypeOK, NEW t \in Txns, ProviderCommit(t)
  PROVE  TypeOK'
  <1>0. txns[t].purpose \in Purposes
    BY DEF TypeOK, TxnState
  <1>1. txns' \in [Txns -> TxnState]
    BY DEF ProviderCommit, Decide, TypeOK, TxnState, Jobs
  <1>2. revision' \in Nat /\ receipts' \in SUBSET Txns
    BY DEF ProviderCommit, TypeOK
  <1>3. journal' \in [Purposes -> {0} \cup Txns]
    BY <1>0 DEF ProviderCommit, TypeOK
  <1>4. installed' \in [Purposes -> BOOLEAN]
    <2>1. installed' = installed \/ installed' = [installed EXCEPT ![txns[t].purpose] = TRUE]
      BY DEF ProviderCommit
    <2> QED BY <2>1 DEF TypeOK
  <1>5. UNCHANGED <<st, call, booting, absent, faults>>
    BY DEF ProviderCommit
  <1>6. CallOK'
    BY <1>5 DEF TypeOK, CallOK
  <1> QED BY <1>1, <1>2, <1>3, <1>4, <1>5, <1>6, TypeAssembled, UnchangedGhost DEF TypeOK, DurableOK

LEMMA FailureTypeOK ==
  ASSUME TypeOK, NEW c \in Callers, Cancel(c) \/ Crash(c)
  PROVE  TypeOK'
  <1>0. NoTxn \in TxnState
    BY StoreAssumption DEF StoreAssumption, NoTxn, TxnState, Jobs
  <1>1. CASE Cancel(c)
    <2>1. Idle(0, "Cancelled") \in CallState /\ Idle(0, "Cancelled").pc = "idle"
      BY IdleType DEF Results
    <2>2. CallOK'
      BY <1>1, <2>1, ReplaceType DEF Cancel
    <2>3. st' \in CommitState
      BY <1>1, ActiveType DEF Cancel, TypeOK
    <2>4. txns' \in [Txns -> TxnState]
      BY <1>1, DiscardType DEF Cancel
    <2>5. UNCHANGED <<booting, durable, absent, faults>>
      BY <1>1 DEF Cancel
    <2> QED BY <2>2, <2>3, <2>4, <2>5, TypeAssembled, UnchangedDurable, UnchangedGhost DEF TypeOK
  <1>2. CASE Crash(c)
    <2> DEFINE recovering == [Started("journaled", IdentityPurpose, "reconcile")
                                EXCEPT !.why = "recovered"]
    <2>1. recovering \in CallState /\ recovering.pc = "reconcile"
      BY StoreAssumption DEF StoreAssumption, Started, Idle, CallState, PCs, Results
    <2>2. Idle(0, "none") \in CallState /\ Idle(0, "none").pc = "idle"
      BY IdleType DEF Results
    <2>3. /\ call' = [d \in Callers |-> call'[d]]
          /\ \A d \in Callers : call'[d] = recovering \/ call'[d] = Idle(0, "none")
      BY <1>2 DEF Crash
    <2>4. CallOK'
      BY <2>1, <2>2, <2>3 DEF CallOK
    <2>5. st' \in CommitState
      BY <1>2, ActiveType, StoreAssumption DEF StoreAssumption, Crash, TypeOK
    <2>6. txns' \in [Txns -> TxnState]
      BY <1>0, <1>2 DEF Crash, TypeOK, TxnState, Jobs
    <2>7. booting' \in BOOLEAN /\ faults' \in Nat /\ UNCHANGED <<durable, absent>>
      BY <1>2 DEF Crash, TypeOK
    <2>8. GhostOK'
      BY <2>7 DEF GhostOK, TypeOK
    <2> QED BY <2>4, <2>5, <2>6, <2>7, <2>8, TypeAssembled, UnchangedDurable
  <1> QED BY <1>1, <1>2

\* Every variable keeps its type in every reachable state of the store: each
\* step of each handler preserves TypeOK.
THEOREM TypeCorrect == Spec => []TypeOK
  <1>1. TypeOK /\ [Next]_vars => TypeOK'
    <2> SUFFICES ASSUME TypeOK, [Next]_vars PROVE TypeOK'
      OBVIOUS
    <2>1. CASE UNCHANGED vars
      BY <2>1 DEF vars, TypeOK
    <2>2. ASSUME NEW c \in Callers, Step(c) PROVE TypeOK'
      BY <2>2, JournalTypeOK, CommitTypeOK, ReconcileTypeOK DEF Step
    <2>3. ASSUME NEW c \in Callers, Cancel(c) \/ Crash(c) PROVE TypeOK'
      BY <2>3, FailureTypeOK
    <2>4. ASSUME NEW c \in Callers,
                 \/ \E t \in Txns : StartPlain(c, t) \/ StartExact(c, t)
                 \/ \E p \in Purposes : StartJournaled(c, p)
          PROVE TypeOK'
      BY <2>4, StartTypeOK
    <2>5. ASSUME NEW t \in Txns, ProviderCommit(t) PROVE TypeOK'
      BY <2>5, ProviderTypeOK
    <2> QED BY <2>1, <2>2, <2>3, <2>4, <2>5, StoreAssumption DEF StoreAssumption, Next
  <1> QED BY InitTypeOK, <1>1, PTL DEF Spec
-----------------------------------------------------------------------------
InCallPCs == {"committing", "reconciling"}

\* A handler of c that ends outside a provider call replaces the record of c
\* only; most do not stop between the two halves of recover_pending either.
Outside(c) == Becomes(c, call'[c]) /\ call'[c].pc \notin InCallPCs
LeavesTo(c) == Outside(c) /\ call'[c].pc # "freeze"

LEMMA BecomesLeaves ==
  ASSUME TypeOK, NEW c \in Callers, NEW new, Becomes(c, new),
         new.pc \notin InCallPCs \cup {"freeze"}
  PROVE  LeavesTo(c)
  BY DEF Becomes, LeavesTo, Outside, TypeOK

LEMMA GotoLeaves ==
  ASSUME TypeOK, NEW c \in Callers, NEW label \in PCs \ (InCallPCs \cup {"freeze"}), Goto(c, label)
  PROVE  LeavesTo(c)
  BY DEF Goto, Becomes, LeavesTo, Outside, InCallPCs, TypeOK, CallState

LEMMA ReturnLeaves ==
  ASSUME TypeOK, NEW c \in Callers, NEW r, Return(c, r)
  PROVE  LeavesTo(c)
  BY DEF Return, Becomes, Idle, LeavesTo, Outside, InCallPCs, TypeOK

\* No way of going on from a known outcome is inside a provider call.
LEMMA AfterLeaves ==
  ASSUME TypeOK, NEW c \in Callers,
         AfterCleanup(c) \/ AfterCommitted(c) \/ AfterAborted(c) \/ AfterConflict(c)
  PROVE  LeavesTo(c)
  <1>1. \/ Goto(c, "cleanup") \/ Goto(c, "read")
        \/ Return(c, "Committed") \/ Return(c, "Existing") \/ Return(c, "Aborted")
        \/ Return(c, "CleanupConflict")
    BY DEF AfterCleanup, AfterCommitted, AfterAborted, AfterConflict
  <1> QED BY <1>1, GotoLeaves, ReturnLeaves DEF PCs, InCallPCs

\* A step of a caller outside a provider call that stays outside, and leaves the
\* lock as it is or frees an unfrozen store of nothing.
LEMMA QuietStep ==
  ASSUME TypeOK, ExclusiveProviderCall, NEW c \in Callers, Outside(c), ~InCall(c),
         \/ st'.frozen = st.frozen /\ st'.active = st.active /\ st'.pending = st.pending
         \/ ~st.frozen /\ ~(st'.frozen /\ st'.active)
  PROVE  ExclusiveProviderCall'
  <1>1. \A d \in Callers : InCall(d)' <=> InCall(d)
    BY DEF Outside, Becomes, InCall, InCallPCs, TypeOK
  <1>2. \A d \in Callers : InCall(d) => call'[d] = call[d]
    BY DEF Outside, Becomes, InCall, InCallPCs, TypeOK
  <1>3. \A d \in Callers : InCall(d) => st.frozen
    BY DEF ExclusiveProviderCall
  <1> QED BY <1>1, <1>2, <1>3 DEF ExclusiveProviderCall, InCall

\* The caller inside a provider call leaves it and clears the flag.
LEMMA LeaveStep ==
  ASSUME TypeOK, ExclusiveProviderCall, NEW c \in Callers, Outside(c), InCall(c),
         ~(st'.frozen /\ st'.active)
  PROVE  ExclusiveProviderCall'
  <1>1. \A d \in Callers : ~InCall(d)'
    BY DEF Outside, Becomes, InCall, InCallPCs, TypeOK, ExclusiveProviderCall
  <1> QED BY <1>1 DEF ExclusiveProviderCall, InCall

\* A caller enters a provider call while nobody is inside.
LEMMA EnterStep ==
  ASSUME TypeOK, ExclusiveProviderCall, NEW c \in Callers, Becomes(c, call'[c]),
         ~(st.frozen /\ st.active), st'.frozen /\ st'.active,
         \/ call'[c].pc = "committing" /\ st'.pending = call'[c].txn
         \/ call'[c].pc = "reconciling" /\ st'.pending = call'[c].held
  PROVE  ExclusiveProviderCall'
  <1>1. \A d \in Callers : ~InCall(d)
    BY DEF ExclusiveProviderCall
  <1>2. \A d \in Callers : InCall(d)' <=> d = c
    BY <1>1 DEF Becomes, InCall, TypeOK
  <1> QED BY <1>2 DEF ExclusiveProviderCall, InCall

LEMMA CallerKeepsLock ==
  ASSUME TypeOK, ExclusiveProviderCall, NEW c \in Callers, Step(c)
  PROVE  ExclusiveProviderCall'
  <1> USE DEF InCallPCs
  <1>0. /\ call \in [Callers -> CallState] /\ call[c] \in CallState /\ st \in CommitState
        /\ InCall(c) => st.frozen /\ st.active
    BY DEF TypeOK, ExclusiveProviderCall
  <1>1. CASE RecoverPending(c)
    <2>1. Outside(c) /\ ~InCall(c) /\ st' = st
      BY <1>0, <1>1 DEF RecoverPending, Becomes, Outside, InCall, CallState
    <2> QED BY <2>1, QuietStep DEF LeavesTo
  <1>2. CASE FreezeJournaled(c)
    <2>1. ~InCall(c)
      BY <1>2 DEF FreezeJournaled, InCall
    <2>2. \/ Return(c, "NotReady")
          \/ Becomes(c, [call[c] EXCEPT !.pc = "reconcile", !.why = "recovered", !.held = 0])
      BY <1>2 DEF FreezeJournaled
    <2>3. LeavesTo(c)
      <3>1. [call[c] EXCEPT !.pc = "reconcile", !.why = "recovered", !.held = 0].pc = "reconcile"
        BY <1>0 DEF CallState
      <3> QED BY <2>2, <3>1, ReturnLeaves, BecomesLeaves
    <2>4. \/ st' = st
          \/ st' = [st EXCEPT !.proven = TRUE]
          \/ ~st.frozen /\ st' = Frozen(call[c].held, TRUE, FALSE)
      BY <1>2 DEF FreezeJournaled
    <2>5. \/ st'.frozen = st.frozen /\ st'.active = st.active /\ st'.pending = st.pending
          \/ ~st.frozen /\ ~(st'.frozen /\ st'.active)
      BY <1>0, <2>4 DEF CommitState, Frozen
    <2> QED BY <2>1, <2>3, <2>5, QuietStep DEF LeavesTo
  <1>3. CASE ReconcileIfFrozen(c)
    <2>1. ~InCall(c) /\ st' = st
      BY <1>3 DEF ReconcileIfFrozen, InCall
    <2>2. \/ Goto(c, "read")
          \/ Becomes(c, [call[c] EXCEPT !.pc = "reconcile", !.why = "ifFrozen"])
      BY <1>3 DEF ReconcileIfFrozen
    <2>3. LeavesTo(c)
      <3>1. [call[c] EXCEPT !.pc = "reconcile", !.why = "ifFrozen"].pc = "reconcile"
        BY <1>0 DEF CallState
      <3> QED BY <2>2, <3>1, GotoLeaves, BecomesLeaves DEF PCs
    <2> QED BY <2>1, <2>3, QuietStep DEF LeavesTo
  <1>4. ASSUME NEW t \in Txns, ReadAndPrepare(c, t) \/ CleanupPending(c, t)
        PROVE  ExclusiveProviderCall'
    <2>1. ~InCall(c) /\ st' = st
      BY <1>4 DEF ReadAndPrepare, CleanupPending, InCall
    <2>2. \/ Return(c, "Existing") \/ AfterCleanup(c)
          \/ Becomes(c, [call[c] EXCEPT !.pc = "commit", !.txn = t, !.mine = t])
          \/ Becomes(c, [call[c] EXCEPT !.pc = "commit", !.txn = t, !.why = "none",
                                        !.attempts = @ + 1])
      BY <1>4 DEF ReadAndPrepare, CleanupPending
    <2>3. LeavesTo(c)
      <3>1. /\ [call[c] EXCEPT !.pc = "commit", !.txn = t, !.mine = t].pc = "commit"
            /\ [call[c] EXCEPT !.pc = "commit", !.txn = t, !.why = "none",
                               !.attempts = @ + 1].pc = "commit"
        BY <1>0 DEF CallState
      <3> QED BY <2>2, <3>1, ReturnLeaves, AfterLeaves, BecomesLeaves
    <2> QED BY <2>1, <2>3, QuietStep DEF LeavesTo
  <1>5. CASE BeginCommit(c)
    <2> DEFINE new == [call[c] EXCEPT !.pc = "committing"]
    <2>1. new.pc = "committing" /\ new.txn = call[c].txn
      BY <1>0 DEF CallState
    <2>2. Becomes(c, new) /\ ~st.frozen /\ st' = Frozen(call[c].txn, FALSE, TRUE)
      BY <1>5 DEF BeginCommit, Goto
    <2>3. call'[c] = new
      BY <1>0, <2>2 DEF Becomes
    <2>4. st'.frozen /\ st'.active /\ st'.pending = call[c].txn
      BY <2>2 DEF Frozen
    <2> HIDE DEF new
    <2> QED BY <2>1, <2>2, <2>3, <2>4, EnterStep
  <1>6. CASE CommitRefused(c) \/ ReconcileRefused(c)
    <2>1. ~InCall(c) /\ st' = st
      BY <1>6 DEF CommitRefused, ReconcileRefused, InCall
    <2>2. Becomes(c, Idle(0, "NotReady")) \/ Return(c, "NotReady")
      BY <1>6 DEF CommitRefused, ReconcileRefused
    <2>3. Idle(0, "NotReady").pc = "idle"
      BY DEF Idle
    <2>4. LeavesTo(c)
      BY <2>2, <2>3, ReturnLeaves, BecomesLeaves
    <2> QED BY <2>1, <2>4, QuietStep DEF LeavesTo
  <1>7. CASE \/ CommitKnown(c) \/ CommitUnknown(c) \/ CommitErrUnknown(c)
             \/ ReconcileCommitted(c) \/ ReconcileAborted(c) \/ ReconcileFailed(c)
    <2> DEFINE new == [call[c] EXCEPT !.pc = "reconcile", !.why = "own"]
    <2>1. InCall(c)
      BY <1>7 DEF CommitKnown, CommitUnknown, CommitErrUnknown, ReconcileCommitted,
                  ReconcileAborted, ReconcileFailed, InCall
    <2>2. st' = Ready \/ st' = [st EXCEPT !.active = FALSE]
      BY <1>7 DEF CommitKnown, CommitUnknown, CommitErrUnknown, ReconcileCommitted,
                  ReconcileAborted, ReconcileFailed
    <2>3. ~(st'.frozen /\ st'.active)
      BY <1>0, <2>2 DEF Ready, CommitState
    <2>4. \/ AfterCommitted(c) \/ AfterAborted(c) \/ AfterConflict(c)
          \/ Goto(c, "cleanup") \/ Goto(c, "read") \/ Becomes(c, new)
          \/ \E r \in Results : Return(c, r)
      BY <1>7 DEF CommitKnown, CommitUnknown, CommitErrUnknown, ReconcileCommitted,
                  ReconcileAborted, ReconcileFailed, Results
    <2>5. new.pc = "reconcile"
      BY <1>0 DEF CallState
    <2> HIDE DEF new
    <2>6. LeavesTo(c)
      BY <2>4, <2>5, AfterLeaves, GotoLeaves, ReturnLeaves, BecomesLeaves DEF PCs
    <2> QED BY <2>1, <2>3, <2>6, LeaveStep DEF LeavesTo
  <1>8. CASE BeginReconcile(c)
    <2> DEFINE new == [call[c] EXCEPT !.pc = "reconciling", !.held = st.pending,
                                      !.proven = st.proven]
    <2>1. new.pc = "reconciling" /\ new.held = st.pending
      BY <1>0 DEF CallState
    <2>2. Becomes(c, new) /\ st.frozen /\ ~st.active /\ st' = [st EXCEPT !.active = TRUE]
      BY <1>8 DEF BeginReconcile
    <2>3. call'[c] = new
      BY <1>0, <2>2 DEF Becomes
    <2>4. st'.frozen /\ st'.active /\ st'.pending = st.pending
      BY <1>0, <2>2 DEF CommitState
    <2> HIDE DEF new
    <2> QED BY <2>1, <2>2, <2>3, <2>4, EnterStep
  <1> QED BY <1>1, <1>2, <1>3, <1>4, <1>5, <1>6, <1>7, <1>8 DEF Step

LEMMA OthersKeepLock ==
  ASSUME TypeOK, ExclusiveProviderCall, NEW c \in Callers,
         \/ Cancel(c) \/ Crash(c)
         \/ \E t \in Txns : StartPlain(c, t) \/ StartExact(c, t)
         \/ \E p \in Purposes : StartJournaled(c, p)
  PROVE  ExclusiveProviderCall'
  <1> USE DEF InCallPCs
  <1>0. /\ call \in [Callers -> CallState] /\ call[c] \in CallState /\ st \in CommitState
    BY DEF TypeOK
  <1>1. CASE Cancel(c)
    <2>1. LeavesTo(c)
      BY <1>1, BecomesLeaves DEF Cancel, Idle
    <2>2. CASE call[c].pc = "committing"
      <3>1. InCall(c) /\ ~(st'.frozen /\ st'.active)
        BY <1>0, <1>1, <2>2 DEF Cancel, InCall, CommitState
      <3> QED BY <2>1, <3>1, LeaveStep DEF LeavesTo
    <2>3. CASE call[c].pc # "committing"
      <3>1. ~InCall(c) /\ st' = st
        BY <1>1, <2>3 DEF Cancel, InCall
      <3> QED BY <2>1, <3>1, QuietStep DEF LeavesTo
    <2> QED BY <2>2, <2>3
  <1>2. CASE Crash(c)
    <2> DEFINE recovering == [Started("journaled", IdentityPurpose, "reconcile")
                                EXCEPT !.why = "recovered"]
    <2>1. recovering.pc = "reconcile" /\ Idle(0, "none").pc = "idle"
      BY DEF Started, Idle
    <2>2. \A d \in Callers : call'[d] = recovering \/ call'[d] = Idle(0, "none")
      BY <1>2 DEF Crash
    <2>3. \A d \in Callers : ~InCall(d)'
      BY <2>1, <2>2 DEF InCall
    <2>4. ~(st'.frozen /\ st'.active)
      BY <1>2 DEF Crash, Ready, Frozen
    <2> QED BY <2>3, <2>4 DEF ExclusiveProviderCall, InCall
  <1>3. ASSUME NEW t \in Txns, StartPlain(c, t) \/ StartExact(c, t)
        PROVE  ExclusiveProviderCall'
    <2>1. ~InCall(c) /\ st' = st
      BY <1>3 DEF StartPlain, StartExact, InCall
    <2>2. LeavesTo(c)
      BY <1>3, BecomesLeaves DEF StartPlain, StartExact, Started, Idle
    <2> QED BY <2>1, <2>2, QuietStep DEF LeavesTo
  <1>4. ASSUME NEW p \in Purposes, StartJournaled(c, p)
        PROVE  ExclusiveProviderCall'
    <2>1. ~InCall(c) /\ st' = st
      BY <1>4 DEF StartJournaled, InCall
    <2>2. LeavesTo(c)
      BY <1>4, BecomesLeaves DEF StartJournaled, Started, Idle
    <2> QED BY <2>1, <2>2, QuietStep DEF LeavesTo
  <1> QED BY <1>1, <1>2, <1>3, <1>4

\* The Frozen state with provider_call_active is a lock for every number of
\* callers, purposes, transactions and faults: at most one caller is inside a
\* provider call, and it works on the frozen identity.
THEOREM ProviderCallIsExclusive == Spec => []ExclusiveProviderCall
  <1>1. Init => ExclusiveProviderCall
    BY DEF Init, ExclusiveProviderCall, InCall, Idle, Ready
  <1>2. TypeOK /\ ExclusiveProviderCall /\ [Next]_vars => ExclusiveProviderCall'
    <2> SUFFICES ASSUME TypeOK, ExclusiveProviderCall, [Next]_vars PROVE ExclusiveProviderCall'
      OBVIOUS
    <2>1. CASE UNCHANGED vars
      BY <2>1 DEF vars, ExclusiveProviderCall, InCall
    <2>2. ASSUME NEW t \in Txns, ProviderCommit(t) PROVE ExclusiveProviderCall'
      BY <2>2 DEF ProviderCommit, ExclusiveProviderCall, InCall
    <2> QED
      BY <2>1, <2>2, CallerKeepsLock, OthersKeepLock, StoreAssumption DEF StoreAssumption, Next
  <1> QED BY <1>1, <1>2, TypeCorrect, PTL DEF Spec
-----------------------------------------------------------------------------
\* The strengthening of JournalProvesCommit: the identity that recover_pending
\* read before it locks the state also has a receipt.
JournalInv ==
  /\ JournalProvesCommit
  /\ \A c \in Callers : call[c].pc = "freeze" => call[c].held \in receipts

\* A step of one caller that ends outside reconcile and recover_pending keeps
\* the invariant when what it leaves in the state does.
LEMMA JournalKept ==
  ASSUME TypeOK, JournalInv, NEW c \in Callers, Becomes(c, call'[c]),
         \/ call'[c].pc \notin {"reconciling", "freeze"}
         \/ call'[c].pc = "reconciling" /\ (call'[c].proven => call'[c].held \in receipts)
         \/ call'[c].pc = "freeze" /\ call'[c].held \in receipts,
         st'.proven => st'.pending \in receipts,
         receipts' = receipts, journal' = journal
  PROVE  JournalInv'
  <1>1. \A d \in Callers : d # c => call'[d] = call[d]
    BY DEF Becomes, TypeOK
  <1> QED BY <1>1 DEF JournalInv, JournalProvesCommit

LEMMA CallerKeepsJournal ==
  ASSUME TypeOK, JournalInv, NEW c \in Callers, Step(c)
  PROVE  JournalInv'
  <1> USE DEF InCallPCs
  <1>0. /\ call \in [Callers -> CallState] /\ call[c] \in CallState /\ st \in CommitState
        /\ st.proven => st.pending \in receipts
    BY DEF TypeOK, JournalInv, JournalProvesCommit
  <1>1. CASE RecoverPending(c)
    <2> DEFINE record == journal[call[c].purpose]
               new == [call[c] EXCEPT !.held = record,
                                      !.pc = IF record = 0 THEN "check" ELSE "freeze"]
    <2>1. Becomes(c, new) /\ UNCHANGED <<st, receipts, journal>>
      BY <1>1 DEF RecoverPending
    <2>2. call'[c] = new
      BY <1>0, <2>1 DEF Becomes
    <2>3. new.pc = "check" \/ (new.pc = "freeze" /\ new.held = record /\ record # 0)
      BY <1>0 DEF CallState
    <2>4. record # 0 => record \in receipts
      BY <1>0 DEF JournalInv, JournalProvesCommit, CallState
    <2> HIDE DEF new, record
    <2> QED BY <1>0, <2>1, <2>2, <2>3, <2>4, JournalKept
  <1>2. CASE FreezeJournaled(c)
    <2> DEFINE new == [call[c] EXCEPT !.pc = "reconcile", !.why = "recovered", !.held = 0]
    <2>1. /\ Return(c, "NotReady") \/ Becomes(c, new)
          /\ UNCHANGED <<receipts, journal>>
          /\ call[c].pc = "freeze"
      BY <1>2 DEF FreezeJournaled
    <2>2. LeavesTo(c)
      <3>1. new.pc = "reconcile"
        BY <1>0 DEF CallState
      <3> HIDE DEF new
      <3> QED BY <2>1, <3>1, ReturnLeaves, BecomesLeaves
    <2>3. \/ st' = st
          \/ st' = [st EXCEPT !.proven = TRUE] /\ st.pending = call[c].held
          \/ st' = Frozen(call[c].held, TRUE, FALSE)
      BY <1>2 DEF FreezeJournaled
    <2>4. call[c].held \in receipts
      BY <2>1 DEF JournalInv
    <2>5. st'.proven => st'.pending \in receipts
      BY <1>0, <2>3, <2>4 DEF CommitState, Frozen
    <2> QED BY <2>1, <2>2, <2>5, JournalKept DEF LeavesTo, Outside
  <1>3. CASE ReconcileIfFrozen(c)
    <2> DEFINE new == [call[c] EXCEPT !.pc = "reconcile", !.why = "ifFrozen"]
    <2>1. (Goto(c, "read") \/ Becomes(c, new)) /\ UNCHANGED <<st, receipts, journal>>
      BY <1>3 DEF ReconcileIfFrozen
    <2>2. new.pc = "reconcile"
      BY <1>0 DEF CallState
    <2> HIDE DEF new
    <2>3. LeavesTo(c)
      BY <2>1, <2>2, GotoLeaves, BecomesLeaves DEF PCs
    <2> QED BY <1>0, <2>1, <2>3, JournalKept DEF LeavesTo, Outside
  <1>4. ASSUME NEW t \in Txns, ReadAndPrepare(c, t) \/ CleanupPending(c, t)
        PROVE  JournalInv'
    <2> DEFINE one == [call[c] EXCEPT !.pc = "commit", !.txn = t, !.mine = t]
               two == [call[c] EXCEPT !.pc = "commit", !.txn = t, !.why = "none",
                                      !.attempts = @ + 1]
    <2>1. /\ Return(c, "Existing") \/ AfterCleanup(c) \/ Becomes(c, one) \/ Becomes(c, two)
          /\ UNCHANGED <<st, receipts, journal>>
      BY <1>4 DEF ReadAndPrepare, CleanupPending
    <2>2. one.pc = "commit" /\ two.pc = "commit"
      BY <1>0 DEF CallState
    <2> HIDE DEF one, two
    <2>3. LeavesTo(c)
      BY <2>1, <2>2, ReturnLeaves, AfterLeaves, BecomesLeaves
    <2> QED BY <1>0, <2>1, <2>3, JournalKept DEF LeavesTo, Outside
  <1>5. CASE BeginCommit(c)
    <2> DEFINE new == [call[c] EXCEPT !.pc = "committing"]
    <2>1. /\ Becomes(c, new) /\ st' = Frozen(call[c].txn, FALSE, TRUE)
          /\ UNCHANGED <<receipts, journal>>
      BY <1>5 DEF BeginCommit, Goto
    <2>2. call'[c] = new /\ new.pc = "committing"
      BY <1>0, <2>1 DEF Becomes, CallState
    <2>3. ~st'.proven
      BY <2>1 DEF Frozen
    <2> HIDE DEF new
    <2> QED BY <2>1, <2>2, <2>3, JournalKept
  <1>6. CASE CommitRefused(c) \/ ReconcileRefused(c)
    <2>1. /\ Becomes(c, Idle(0, "NotReady")) \/ Return(c, "NotReady")
          /\ UNCHANGED <<st, receipts, journal>>
      BY <1>6 DEF CommitRefused, ReconcileRefused
    <2>2. LeavesTo(c)
      BY <2>1, ReturnLeaves, BecomesLeaves DEF Idle
    <2> QED BY <1>0, <2>1, <2>2, JournalKept DEF LeavesTo, Outside
  <1>7. CASE \/ CommitKnown(c) \/ CommitUnknown(c) \/ CommitErrUnknown(c)
             \/ ReconcileCommitted(c) \/ ReconcileAborted(c) \/ ReconcileFailed(c)
    <2> DEFINE new == [call[c] EXCEPT !.pc = "reconcile", !.why = "own"]
    <2>1. /\ st' = Ready \/ st' = [st EXCEPT !.active = FALSE]
          /\ UNCHANGED <<receipts, journal>>
      BY <1>7 DEF CommitKnown, CommitUnknown, CommitErrUnknown, ReconcileCommitted,
                  ReconcileAborted, ReconcileFailed
    <2>2. st'.proven => st'.pending \in receipts
      BY <1>0, <2>1 DEF Ready, CommitState
    <2>3. \/ AfterCommitted(c) \/ AfterAborted(c) \/ AfterConflict(c)
          \/ Goto(c, "cleanup") \/ Goto(c, "read") \/ Becomes(c, new)
          \/ \E r \in Results : Return(c, r)
      BY <1>7 DEF CommitKnown, CommitUnknown, CommitErrUnknown, ReconcileCommitted,
                  ReconcileAborted, ReconcileFailed, Results
    <2>4. new.pc = "reconcile"
      BY <1>0 DEF CallState
    <2> HIDE DEF new
    <2>5. LeavesTo(c)
      BY <2>3, <2>4, AfterLeaves, GotoLeaves, ReturnLeaves, BecomesLeaves DEF PCs
    <2> QED BY <2>1, <2>2, <2>5, JournalKept DEF LeavesTo, Outside
  <1>8. CASE BeginReconcile(c)
    <2> DEFINE new == [call[c] EXCEPT !.pc = "reconciling", !.held = st.pending,
                                      !.proven = st.proven]
    <2>1. /\ Becomes(c, new) /\ st' = [st EXCEPT !.active = TRUE]
          /\ UNCHANGED <<receipts, journal>>
      BY <1>8 DEF BeginReconcile
    <2>2. new.pc = "reconciling" /\ new.held = st.pending /\ new.proven = st.proven
      BY <1>0 DEF CallState
    <2>3. call'[c] = new
      BY <1>0, <2>1 DEF Becomes
    <2>4. st'.proven = st.proven /\ st'.pending = st.pending
      BY <1>0, <2>1 DEF CommitState
    <2> HIDE DEF new
    <2> QED BY <1>0, <2>1, <2>2, <2>3, <2>4, JournalKept
  <1> QED BY <1>1, <1>2, <1>3, <1>4, <1>5, <1>6, <1>7, <1>8 DEF Step

\* Receipts are only ever added, and the record a commit writes names itself.
LEMMA ProviderKeepsJournal ==
  ASSUME TypeOK, JournalInv, NEW t \in Txns, ProviderCommit(t)
  PROVE  JournalInv'
  <1>1. receipts \subseteq receipts' /\ UNCHANGED <<st, call>>
    BY DEF ProviderCommit
  <1>2. \A p \in Purposes : journal'[p] # 0 =>
          journal'[p] = journal[p] \/ (journal'[p] = t /\ t \in receipts')
    BY DEF ProviderCommit, TypeOK, TxnState
  <1>3. \A p \in Purposes : journal'[p] # 0 => journal'[p] \in receipts'
    BY <1>1, <1>2 DEF JournalInv, JournalProvesCommit
  <1> QED BY <1>1, <1>3 DEF JournalInv, JournalProvesCommit

LEMMA OthersKeepJournal ==
  ASSUME TypeOK, JournalInv, NEW c \in Callers,
         \/ Cancel(c) \/ Crash(c)
         \/ \E t \in Txns : StartPlain(c, t) \/ StartExact(c, t)
         \/ \E p \in Purposes : StartJournaled(c, p)
  PROVE  JournalInv'
  <1> USE DEF InCallPCs
  <1>0. /\ st \in CommitState /\ (st.proven => st.pending \in receipts)
        /\ journal[IdentityPurpose] # 0 => journal[IdentityPurpose] \in receipts
    BY StoreAssumption DEF StoreAssumption, TypeOK, JournalInv, JournalProvesCommit
  <1>1. CASE Crash(c)
    <2> DEFINE recovering == [Started("journaled", IdentityPurpose, "reconcile")
                                EXCEPT !.why = "recovered"]
    <2>1. recovering.pc = "reconcile" /\ Idle(0, "none").pc = "idle"
      BY DEF Started, Idle
    <2>2. \A d \in Callers : call'[d] = recovering \/ call'[d] = Idle(0, "none")
      BY <1>1 DEF Crash
    <2>3. \A d \in Callers : call'[d].pc \in {"reconcile", "idle"}
      BY <2>1, <2>2
    <2>4. UNCHANGED <<receipts, journal>> /\ (st'.proven => st'.pending \in receipts)
      BY <1>0, <1>1 DEF Crash, Ready, Frozen
    <2> QED BY <2>3, <2>4 DEF JournalInv, JournalProvesCommit
  <1>2. CASE ~Crash(c)
    <2>1. LeavesTo(c)
      BY <1>2, BecomesLeaves DEF Cancel, StartPlain, StartExact, StartJournaled, Started, Idle
    <2>2. /\ UNCHANGED <<receipts, journal>>
          /\ st' = st \/ st' = [st EXCEPT !.active = FALSE]
      BY <1>2 DEF Cancel, StartPlain, StartExact, StartJournaled
    <2>3. st'.proven = st.proven /\ st'.pending = st.pending
      BY <1>0, <2>2 DEF CommitState
    <2> QED BY <1>0, <2>1, <2>2, <2>3, JournalKept DEF LeavesTo, Outside
  <1> QED BY <1>1, <1>2

\* For every number of callers, purposes, transactions, faults and restarts, a
\* pending record and a journal-proven freeze name a committed transaction: the
\* Corrupt branch of reconcile is unreachable.
THEOREM JournalIsProof == Spec => []JournalProvesCommit
  <1>1. Init => JournalInv
    BY DEF Init, JournalInv, JournalProvesCommit, Idle, Ready
  <1>2. TypeOK /\ JournalInv /\ [Next]_vars => JournalInv'
    <2> SUFFICES ASSUME TypeOK, JournalInv, [Next]_vars PROVE JournalInv'
      OBVIOUS
    <2>1. CASE UNCHANGED vars
      BY <2>1 DEF vars, JournalInv, JournalProvesCommit
    <2> QED
      BY <2>1, CallerKeepsJournal, ProviderKeepsJournal, OthersKeepJournal, StoreAssumption
         DEF StoreAssumption, Next
  <1>3. JournalInv => JournalProvesCommit
    BY DEF JournalInv
  <1> QED BY <1>1, <1>2, <1>3, TypeCorrect, PTL DEF Spec
=============================================================================
