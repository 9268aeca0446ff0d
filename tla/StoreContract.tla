---------------------------- MODULE StoreContract ----------------------------
(***************************************************************************)
(* The repository's storage contract suite, run against the model.  A      *)
(* script is a sequence of calls on one storage factory, each with the     *)
(* answer the suite asserts; this module performs the calls on the         *)
(* reference engine and the metadata store built over it (storage/mod.rs,  *)
(* receipt.rs, pending.rs), through the suite's fault adapter where a      *)
(* script opens it that way.  The suite is sequential: one call at a time. *)
(***************************************************************************)
EXTENDS ReceiptPlans

CONSTANTS
    Scripts   \* the suite: a sequence of scripts

VARIABLES
    script,    \* the script being run
    pc,        \* how many of its calls have been made
    engine,    \* what the engine has stored
    opened,    \* the factory's exclusive lock is held
    fault,     \* the adapter's mode
    adapter,   \* the submission the adapter left unresolved, or none
    frozen,    \* the commit the metadata store waits to resolve, or none
    clock,     \* the wall clock
    kept,      \* snapshots and prepared transactions the script holds
    answer     \* what the last call answered

vars == <<script, pc, engine, opened, fault, adapter, frozen, clock, kept, answer>>

None == <<>>

Step == Scripts[script][pc + 1]
Calls(name) == pc < Len(Scripts[script]) /\ Step.do = name
Answers(a) == answer' = a /\ pc' = pc + 1 /\ UNCHANGED script

(* A call reads the snapshot it names; 0 is a snapshot taken for the call. *)
View == IF Step.at = 0 THEN engine ELSE kept[Step.at]
Keep(slot, x) == kept' = With(kept, slot, x)

Init ==
    /\ script \in DOMAIN Scripts
    /\ pc = 0
    /\ engine = NewEngine
    /\ opened = FALSE
    /\ fault = "none"
    /\ adapter = None
    /\ frozen = None
    /\ clock = 0
    /\ kept = <<>>
    /\ answer = <<"start">>

-----------------------------------------------------------------------------
(* Opening tests the capabilities, then takes the lock.  A store may start *)
(* frozen on an identity its caller kept, or on the one its journal holds; *)
(* a journal that cannot be read drops the storage again.                  *)
Frozen(t, proven) == <<[id |-> t.id, digest |-> t.digest, proven |-> proven]>>

Open ==
    /\ Calls("open")
    /\ LET found == DiscoverPending(engine, Step.purpose)
           may == Satisfies(Step.offers, Step.requires) /\ ~opened
       IN  /\ opened' = (opened \/ (may /\ (Step.how = "journal" => found.kind # "corrupt")))
           /\ fault' = IF may THEN Step.fault ELSE fault
           /\ adapter' = IF may THEN None ELSE adapter
           /\ frozen' = IF ~may THEN frozen
                        ELSE CASE Step.how = "recovered" ->
                                    Frozen(IF Step.slot # 0 THEN kept[Step.slot] ELSE Step.identity, FALSE)
                               [] Step.how = "journal" /\ found.kind = "found" ->
                                    Frozen(RecoverIdentity(Step.purpose, found.stored), TRUE)
                               [] OTHER -> None
           /\ Answers(CASE ~Satisfies(Step.offers, Step.requires) -> <<"unsupported">>
                        [] Satisfies(Step.offers, Step.requires) /\ opened -> <<"locked">>
                        [] may /\ Step.how = "journal" /\ found.kind = "corrupt" -> <<"corrupt">>
                        [] OTHER -> <<"opened", IF frozen' = None THEN 0 ELSE frozen'[1].id>>)
    /\ UNCHANGED <<engine, clock, kept>>

Close ==
    /\ Calls("close")
    /\ opened' = FALSE
    /\ frozen' = None
    /\ Answers(<<"ok">>)
    /\ UNCHANGED <<engine, fault, adapter, clock, kept>>

TakeSnapshot ==
    /\ Calls("snapshot")
    /\ Keep(Step.slot, engine)
    /\ Answers(<<"ok">>)
    /\ UNCHANGED <<engine, opened, fault, adapter, frozen, clock>>

Get ==
    /\ Calls("get")
    /\ Answers(<<"value", Stored(View, Step.ns, Step.key)>>)
    /\ UNCHANGED <<engine, opened, fault, adapter, frozen, clock, kept>>

Scan ==
    /\ Calls("scan")
    /\ Answers(<<"keys", ReferenceScan(View, Step.ns, Step.prefix)>>)
    /\ UNCHANGED <<engine, opened, fault, adapter, frozen, clock, kept>>

HasReceipt ==
    /\ Calls("has_receipt")
    /\ Answers(<<"has", Step.id \in DOMAIN engine.receipts>>)
    /\ UNCHANGED <<engine, opened, fault, adapter, frozen, clock, kept>>

Plan ==
    CASE Step.by = "raw" ->
           IF WellFormed(Step.ops)
           THEN [ok |-> TRUE, transaction |-> Transaction(Step.id, View.generation, Step.ops)]
           ELSE [ok |-> FALSE, kind |-> "invalid"]
      [] Step.by = "plain" -> PrepareTransaction(Step.id, View.generation, Step.ops)
      [] Step.by = "changes" -> PrepareWithChanges(View, Step.id, Step.ops, Step.changes)
      [] Step.by = "journal" ->
           PrepareJournaled(View, Step.id, Step.purpose, Step.ops, Step.changes)

(* Preparing calls no provider: it answers the operations it would submit. *)
Prepare ==
    /\ Calls("prepare")
    /\ IF Plan.ok
       THEN Keep(Step.slot, Plan.transaction) /\ Answers(<<"prepared", Len(Plan.transaction.ops)>>)
       ELSE Answers(<<Plan.kind>>) /\ UNCHANGED kept
    /\ UNCHANGED <<engine, opened, fault, adapter, frozen, clock>>

-----------------------------------------------------------------------------
(* The provider's commit, through the fault adapter: it may apply and hide *)
(* the answer, or hide it and not apply, and in either case never return,  *)
(* so that the caller is cancelled.                                        *)
ProviderCommit(t) ==
    LET done == ReferenceCommit(engine, t)
    IN  /\ engine' = IF fault \in {"none", "applied", "pending_applied"} THEN done.engine ELSE engine
        /\ adapter' = IF fault = "none" THEN adapter ELSE <<[id |-> t.id, digest |-> t.digest]>>

ProviderAnswer(t) ==
    CASE fault = "none" -> ReferenceCommit(engine, t).answer
      [] fault \in {"applied", "not_applied"} -> <<"unknown">>
      [] OTHER -> <<"cancelled">>

ProviderReconcile(id, digest) ==
    IF adapter # None /\ adapter # <<[id |-> id, digest |-> digest]>>
    THEN <<"digest_conflict">>
    ELSE ReferenceReconcile(engine, id, digest)

(* The metadata store refuses while a commit is unresolved, and freezes on *)
(* one whose outcome it did not learn.                                     *)
Submit(t, success) ==
    IF frozen # None
    THEN Answers(<<"not_ready">>) /\ UNCHANGED <<engine, adapter, frozen>>
    ELSE /\ ProviderCommit(t)
         /\ frozen' = IF ProviderAnswer(t)[1] \in {"unknown", "cancelled"}
                      THEN Frozen(t, FALSE) ELSE None
         /\ Answers(IF ProviderAnswer(t) = <<"committed">> THEN <<success>> ELSE ProviderAnswer(t))

Commit ==
    /\ Calls("commit")
    /\ Submit(kept[Step.slot], "committed")
    /\ UNCHANGED <<opened, fault, clock, kept>>

(* A call that plans and submits in one: the reference and cleanup calls.  *)
PlanAndSubmit(plan, success) ==
    /\ IF plan.ok
       THEN Keep(Step.id, plan.transaction) /\ Submit(plan.transaction, success)
       ELSE Answers(<<plan.kind>>) /\ UNCHANGED <<engine, adapter, frozen, kept>>
    /\ UNCHANGED <<opened, fault, clock>>

AddReceiptReference ==
    /\ Calls("add_reference")
    /\ PlanAndSubmit(AddReference(engine, Step.id, Step.target, Step.token), "applied")

RemoveReceiptReference ==
    /\ Calls("remove_reference")
    /\ PlanAndSubmit(RemoveReference(engine, Step.id, Step.target, Step.token), "applied")

CleanUpReceipt ==
    /\ Calls("cleanup_receipt")
    /\ LET anchoring == Stored(engine, Internal, EligibilityAnchor(Step.target)) = Missing
       IN  PlanAndSubmit(CleanupReceipt(engine, Step.id, Step.target,
                                        kept[Step.target].digest, clock),
                         IF anchoring THEN "anchored" ELSE "forgotten")

CleanUpPending ==
    /\ Calls("cleanup_pending")
    /\ PlanAndSubmit(CleanupPending(engine, Step.id, Step.purpose), "applied")

(* Resolving the frozen commit.  The absence of a commit that the journal  *)
(* proves is corruption, and the store stays frozen.                       *)
Reconcile ==
    /\ Calls("reconcile")
    /\ LET told == ProviderReconcile(frozen[1].id, frozen[1].digest)
           contradicted == told = <<"aborted">> /\ frozen[1].proven
       IN  IF frozen = None
           THEN Answers(<<"not_ready">>) /\ UNCHANGED frozen
           ELSE /\ Answers(IF contradicted THEN <<"corrupt">> ELSE told)
                /\ frozen' = IF told[1] \in {"committed", "aborted"} /\ ~contradicted
                             THEN None ELSE frozen
    /\ UNCHANGED <<engine, opened, fault, adapter, clock, kept>>

-----------------------------------------------------------------------------
(* Calls on the storage below the metadata store, and what a script does   *)
(* to the stored state or the clock behind everyone's back.                *)
RawCommit ==
    /\ Calls("raw_commit")
    /\ ProviderCommit(kept[Step.slot])
    /\ Answers(ProviderAnswer(kept[Step.slot]))
    /\ UNCHANGED <<opened, fault, frozen, clock, kept>>

RawReconcile ==
    /\ Calls("raw_reconcile")
    /\ Answers(ProviderReconcile(Step.id, Step.digest))
    /\ UNCHANGED <<engine, opened, fault, adapter, frozen, clock, kept>>

RawReconcileKept ==
    /\ Calls("raw_reconcile_kept")
    /\ Answers(ProviderReconcile(kept[Step.slot].id, kept[Step.slot].digest))
    /\ UNCHANGED <<engine, opened, fault, adapter, frozen, clock, kept>>

Tamper ==
    /\ Calls("tamper")
    /\ engine' = CASE Step.what = "insert" ->
                        [engine EXCEPT !.entries = With(@, <<Step.ns, Step.key>>, Step.value)]
                   [] Step.what = "remove" ->
                        [engine EXCEPT !.entries = Without(@, <<Step.ns, Step.key>>)]
                   [] Step.what = "receipt" ->
                        [engine EXCEPT !.receipts = With(@, Step.id, Step.value)]
                   [] Step.what = "generation" -> [engine EXCEPT !.generation = Step.value]
    /\ Answers(<<"ok">>)
    /\ UNCHANGED <<opened, fault, adapter, frozen, clock, kept>>

SetClock ==
    /\ Calls("clock")
    /\ clock' = Step.value
    /\ Answers(<<"ok">>)
    /\ UNCHANGED <<engine, opened, fault, adapter, frozen, kept>>

Next ==
    \/ Open \/ Close \/ TakeSnapshot \/ Get \/ Scan \/ HasReceipt \/ Prepare
    \/ Commit \/ AddReceiptReference \/ RemoveReceiptReference
    \/ CleanUpReceipt \/ CleanUpPending \/ Reconcile
    \/ RawCommit \/ RawReconcile \/ RawReconcileKept \/ Tamper \/ SetClock

Spec == Init /\ [][Next]_vars

-----------------------------------------------------------------------------
(* Every call of every script of the contract suite is answered as the     *)
(* suite asserts: the plans, the conditions, the receipts and the          *)
(* freezing the other modules build on are the ones the repository tests.  *)
ContractHolds == pc > 0 => answer = Scripts[script][pc].expect
=============================================================================
