---------------------------- MODULE ContractCalls ----------------------------
(***************************************************************************)
(* The vocabulary of the storage contract suite: the calls its tests make, *)
(* each with the answer expected, and the helpers several tests share      *)
(* (storage/contract/helpers.rs and the journal helpers of                 *)
(* receipt_refs.rs).  A slot names a prepared transaction by its id unless *)
(* a test prepares two under one id, and a snapshot by a negative number.  *)
(***************************************************************************)
EXTENDS ReceiptPlans

(* The suite's factories offer everything metadata needs.                  *)
Capabilities == RequiredCapabilities

Purpose == <<108, 105>>          \* "local-identity"
OtherPurpose == <<111, 116>>
ExtendedPurpose == <<108, 105, 45>>
BadPurpose == <<98, 9, 112>>     \* holds a tab

Token(n) == <<"opaque", n>>
WrongDigest(n) == [base |-> 0 - n, ops |-> <<>>]

OwnerNs == "identity-binding"
OwnerKey == <<1>>
PointerNs == "local-identity"
PointerKey == <<2>>
Binding == Put(OwnerNs, OwnerKey, Missing, Raw(1))
OwnerToken == RecordToken(OwnerNs, OwnerKey)
PointerToken == RecordToken(PointerNs, PointerKey)
PendingToken == RecordToken(Journal, Purpose)

-----------------------------------------------------------------------------
(* The calls of a script.                                                  *)
OpenAs(how, fault, slot, identity, expect) ==
    [do |-> "open", how |-> how, fault |-> fault, slot |-> slot, identity |-> identity,
     purpose |-> Purpose, offers |-> Capabilities, requires |-> RequiredCapabilities,
     expect |-> expect]
NoIdentity == [id |-> 0, digest |-> WrongDigest(0)]
OpenStore(fault) == OpenAs("plain", fault, 0, NoIdentity, <<"opened", 0>>)
OpenRecovered(fault, id) == OpenAs("recovered", fault, id, NoIdentity, <<"opened", id>>)
OpenJournal(fault, expect) == OpenAs("journal", fault, 0, NoIdentity, expect)
OpenOffering(offers, expect) == [OpenStore("none") EXCEPT !.offers = offers, !.expect = expect]
OpenRequiring(more, expect) ==
    [OpenStore("none") EXCEPT !.requires = @ \cup more, !.expect = expect]
CloseStore == [do |-> "close", expect |-> <<"ok">>]

TakeSnapshotAs(slot) == [do |-> "snapshot", slot |-> slot, expect |-> <<"ok">>]
GetAt(at, ns, key, stored) ==
    [do |-> "get", at |-> at, ns |-> ns, key |-> key, expect |-> <<"value", stored>>]
GetNow(ns, key, stored) == GetAt(0, ns, key, stored)
ScanAt(at, ns, prefix, keys) ==
    [do |-> "scan", at |-> at, ns |-> ns, prefix |-> prefix, expect |-> <<"keys", keys>>]
ReceiptIs(id, there) == [do |-> "has_receipt", id |-> id, expect |-> <<"has", there>>]

PrepareAs(slot, at, by, id, ops, changes, expect) ==
    [do |-> "prepare", slot |-> slot, at |-> at, by |-> by, id |-> id, ops |-> ops,
     changes |-> changes, purpose |-> Purpose, expect |-> expect]
PrepareRaw(id, at, ops) == PrepareAs(id, at, "raw", id, ops, <<>>, <<"prepared", Len(ops)>>)
PreparePlain(id, ops) == PrepareAs(id, 0, "plain", id, ops, <<>>, <<"prepared", Len(ops) + 1>>)
RefusedPlain(id, ops) == PrepareAs(id, 0, "plain", id, ops, <<>>, <<"invalid">>)
PrepareChanges(id, ops, changes, n) ==
    PrepareAs(id, 0, "changes", id, ops, changes, <<"prepared", n>>)
RefusedChanges(id, ops, changes, kind) == PrepareAs(id, 0, "changes", id, ops, changes, <<kind>>)
RefusedJournal(id, purpose, ops, changes) ==
    [PrepareAs(id, 0, "journal", id, ops, changes, <<"invalid">>) EXCEPT !.purpose = purpose]

CommitOf(slot, expect) == [do |-> "commit", slot |-> slot, expect |-> <<expect>>]
RawCommitOf(slot, expect) == [do |-> "raw_commit", slot |-> slot, expect |-> <<expect>>]
RawReconcileOf(id, digest, expect) ==
    [do |-> "raw_reconcile", id |-> id, digest |-> digest, expect |-> <<expect>>]
RawReconcileSlot(slot, expect) ==
    [do |-> "raw_reconcile_kept", slot |-> slot, expect |-> <<expect>>]
AddRef(id, target, token, expect) ==
    [do |-> "add_reference", id |-> id, target |-> target, token |-> token, expect |-> <<expect>>]
RemoveRef(id, target, token, expect) ==
    [do |-> "remove_reference", id |-> id, target |-> target, token |-> token,
     expect |-> <<expect>>]
Cleanup(id, target, expect) ==
    [do |-> "cleanup_receipt", id |-> id, target |-> target, expect |-> <<expect>>]
CleanupJournal(id, expect) ==
    [do |-> "cleanup_pending", id |-> id, purpose |-> Purpose, expect |-> <<expect>>]
ReconcileTo(expect) == [do |-> "reconcile", expect |-> <<expect>>]
InsertEntry(ns, key, v) ==
    [do |-> "tamper", what |-> "insert", ns |-> ns, key |-> key, value |-> v, expect |-> <<"ok">>]
RemoveEntry(ns, key) ==
    [do |-> "tamper", what |-> "remove", ns |-> ns, key |-> key, expect |-> <<"ok">>]
InsertReceipt(id, digest) ==
    [do |-> "tamper", what |-> "receipt", id |-> id, value |-> digest, expect |-> <<"ok">>]
SetGeneration(n) ==
    [do |-> "tamper", what |-> "generation", value |-> n, expect |-> <<"ok">>]
ClockTo(t) == [do |-> "clock", value |-> t, expect |-> <<"ok">>]

(* helpers.rs and the journal helpers of receipt_refs.rs.                  *)
CommitTarget(id) ==
    <<PreparePlain(id, <<Put("receipt-target", <<id>>, Missing, Raw(2))>>),
      CommitOf(id, "committed")>>
PrepareContractPut(id, key) == PreparePlain(id, <<Put("recovered-open", <<key>>, Missing, Raw(key))>>)
PreparePlainPut(id, key) ==
    PreparePlain(id, <<Put("journaled-unrelated", <<key>>, Missing, Raw(key))>>)
PrepareJournaledOwnerPut(id) ==
    PrepareAs(id, 0, "journal", id, <<Binding>>, <<AddSelf(<<OwnerToken, PointerToken>>)>>,
              <<"prepared", 7>>)
HeadIs(id, n) == GetNow(Internal, ReferenceHead(id), Exactly(Count(n)))
NoHead(id) == GetNow(Internal, ReferenceHead(id), Missing)
EdgeIs(id, token) == GetNow(Internal, ReferenceEdge(id, token), Exactly(Empty))
NoEdge(id, token) == GetNow(Internal, ReferenceEdge(id, token), Missing)
MarkerIs(id, v) == GetNow(Internal, UsedId(id), v)
NoAnchor(id) == GetNow(Internal, EligibilityAnchor(id), Missing)
NoPending == GetNow(Journal, Purpose, Missing)

Outcome(fault) == IF fault = "applied" THEN "committed" ELSE "aborted"
=============================================================================
