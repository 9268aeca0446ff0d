---------------------------- MODULE ContractSuite ----------------------------
(***************************************************************************)
(* The storage contract suite (storage/contract/) as scripts: each         *)
(* definition is one test, the calls it makes in order, each with the      *)
(* answer it asserts.  Transaction ids are the tests' numbers, times their *)
(* seconds.  A test that loops over fault modes or phases takes them as    *)
(* parameters.                                                             *)
(***************************************************************************)
EXTENDS ContractCalls

-----------------------------------------------------------------------------
(* runner.rs, all_family.rs, unknown.rs: the raw engine.                   *)
OrderedKeys == << <<>>, <<0>>, <<127>>, <<128>>, <<255>>, <<255, 0>>, <<255, 255>> >>

SnapshotLookupAndOrdering ==
    <<OpenStore("none"), TakeSnapshotAs(-1),
      PrepareRaw(1, -1, Append([i \in 1..7 |-> Put("one", OrderedKeys[i], Missing, Raw(i))],
                               Put("two", <<0>>, Missing, Raw(9)))),
      RawCommitOf(1, "committed"), GetAt(-1, "one", <<>>, Missing), TakeSnapshotAs(-2),
      GetAt(-2, "one", <<128>>, Exactly(Raw(4))), GetAt(-2, "two", <<128>>, Missing),
      ScanAt(-2, "one", <<>>, OrderedKeys), ScanAt(-2, "one", <<255>>, SubSeq(OrderedKeys, 5, 7)),
      ScanAt(-2, "one", <<1, 2>>, <<>>),
      PrepareRaw(2, -2, <<Put("one", <<128>>, Exactly(Raw(4)), Raw(10)),
                          Delete("one", <<127>>, Raw(3))>>),
      RawCommitOf(2, "committed"), GetAt(-2, "one", <<128>>, Exactly(Raw(4))),
      GetAt(-2, "one", <<127>>, Exactly(Raw(3))), ScanAt(-2, "one", <<>>, OrderedKeys),
      GetNow("one", <<128>>, Exactly(Raw(10))), GetNow("one", <<127>>, Missing)>>

(* Refused submissions leave nothing behind ...                            *)
ConflictsAndAtomicity ==
    <<OpenStore("none"), TakeSnapshotAs(-1),
      PrepareRaw(10, -1, <<Put("first", <<1>>, Missing, Raw(1))>>), RawCommitOf(10, "committed"),
      PrepareRaw(11, -1, <<Put("second", <<1>>, Missing, Raw(2))>>), RawCommitOf(11, "conflict"),
      PrepareRaw(12, 0, <<Put("first", <<1>>, Missing, Raw(3))>>), RawCommitOf(12, "conflict"),
      PrepareRaw(13, 0, <<Put("first", <<2>>, Missing, Raw(4)),
                          Put("second", <<1>>, Exactly(Raw(0)), Raw(5))>>),
      RawCommitOf(13, "conflict"), GetNow("first", <<2>>, Missing), GetNow("second", <<1>>, Missing),
      PrepareRaw(18, 0, <<Put("second", <<3>>, Missing, Raw(6)), Delete("first", <<1>>, Raw(8))>>),
      RawCommitOf(18, "conflict"), GetNow("second", <<3>>, Missing),
      GetNow("first", <<1>>, Exactly(Raw(1)))>>
    \o [i \in 1..4 |-> RawReconcileOf(<<11, 12, 13, 18>>[i], WrongDigest(0), "aborted")]

(* ... a repeated one is answered from its receipt, a different one under  *)
(* the same id is refused, until the receipt is forgotten.                 *)
IdempotenceAndForgetting ==
    <<OpenStore("none"), TakeSnapshotAs(-1),
      PrepareRaw(10, -1, <<Put("first", <<1>>, Missing, Raw(1))>>), RawCommitOf(10, "committed"),
      RawCommitOf(10, "committed"),
      PrepareAs(100, -1, "raw", 10, <<CheckKey("first", <<1>>, Missing)>>, <<>>, <<"prepared", 1>>),
      RawCommitOf(100, "conflict"),
      PrepareRaw(14, 0, <<CheckKey("first", <<1>>, Exactly(Raw(1))),
                          Put("second", <<1>>, Missing, Raw(2))>>),
      RawCommitOf(14, "committed"), RawReconcileSlot(14, "committed"),
      RawReconcileOf(14, WrongDigest(9), "digest_conflict"),
      RawReconcileOf(99, WrongDigest(0), "aborted"),
      PrepareRaw(19, 0, <<ForgetReceipt(10, WrongDigest(7)), Put("second", <<4>>, Missing, Raw(3))>>),
      RawCommitOf(19, "conflict"), GetNow("second", <<4>>, Missing), RawReconcileSlot(10, "committed"),
      PrepareRaw(20, 0, <<ForgetReceipt(10, OperationDigest(1,
                              <<Put("first", <<1>>, Missing, Raw(1))>>))>>),
      RawCommitOf(20, "committed"), RawReconcileSlot(10, "aborted"),
      RawReconcileSlot(20, "committed"),
      PrepareAs(15, 0, "raw", 15, <<CheckKey("first", <<1>>, Missing), Delete("first", <<1>>, Raw(0))>>,
                <<>>, <<"invalid">>),
      PrepareAs(16, 0, "raw", 16, <<>>, <<>>, <<"invalid">>),
      PrepareAs(17, 0, "raw", 17, <<ForgetReceipt(20, WrongDigest(1)), ForgetReceipt(20, WrongDigest(2))>>,
                <<>>, <<"invalid">>)>>

Families == <<"family-one", "family-two", "family-three">>
RoundtripKeys == << <<>>, <<109>>, <<255, 0>> >>

ForFamilies(calls(_)) == FlattenSeq([i \in DOMAIN Families |-> calls(Families[i])])

AllFamilyRoundtrip ==
    LET read(f) == [i \in 1..3 |-> GetAt(-2, f, RoundtripKeys[i], Exactly(Raw(i)))]
                   \o <<ScanAt(-2, f, <<>>, RoundtripKeys), ScanAt(-2, f, <<109>>, << <<109>> >>),
                        ScanAt(-2, f, <<255, 0>>, << <<255, 0>> >>)>>
        write(f) == [i \in 1..3 |-> Put(f, RoundtripKeys[i], Missing, Raw(i))]
        update(f) == <<Put(f, <<109>>, Exactly(Raw(2)), Raw(7)), Delete(f, <<255, 0>>, Raw(3))>>
        after(f) == <<GetNow(f, <<115>>, Missing), GetNow(f, <<109>>, Exactly(Raw(7))),
                      GetNow(f, <<255, 0>>, Missing)>>
    IN  <<OpenStore("none"), TakeSnapshotAs(-1), PrepareRaw(1, -1, ForFamilies(write)),
          RawCommitOf(1, "committed"), RawReconcileSlot(1, "committed"), TakeSnapshotAs(-2)>>
        \o ForFamilies(read)
        \o <<PrepareRaw(2, -2, ForFamilies(update)), RawCommitOf(2, "committed"),
             PrepareRaw(3, -1, <<Put(Families[1], <<115>>, Missing, Raw(8))>>),
             RawCommitOf(3, "conflict"),
             PrepareRaw(4, 0, <<Put(Families[1], <<109>>, Exactly(Raw(2)), Raw(9))>>),
             RawCommitOf(4, "conflict")>>
        \o ForFamilies(after) \o <<RawReconcileOf(4, WrongDigest(0), "aborted")>>

CrossFamilyAtomicity ==
    LET put(v) == [i \in DOMAIN Families |-> Put(Families[i], <<99>>, Missing, Raw(v))]
        absent(f) == <<GetNow(f, <<99>>, Missing)>>
        applied(f) == <<GetNow(f, <<99>>, Exactly(Raw(2)))>>
    IN  <<OpenStore("none"),
          PrepareRaw(10, 0, Append(put(1), CheckKey(Families[1], <<97>>, Exactly(Raw(5))))),
          RawCommitOf(10, "conflict")>>
        \o ForFamilies(absent)
        \o <<PrepareRaw(11, 0, put(2)), RawCommitOf(11, "committed")>>
        \o ForFamilies(applied)
        \o <<RawReconcileSlot(11, "committed"), RawReconcileOf(11, WrongDigest(7), "digest_conflict"),
             PrepareRaw(12, 0, <<ForgetReceipt(11, OperationDigest(1, put(2))),
                                 Put(Families[1], <<100>>, Missing, Raw(3))>>),
             RawCommitOf(12, "committed"), RawReconcileSlot(11, "aborted")>>

UnknownReconciliation(fault) ==
    <<OpenStore(fault), PrepareRaw(30, 0, <<Put("unknown", <<1>>, Missing, Raw(1))>>),
      RawCommitOf(30, "unknown"), RawReconcileOf(30, WrongDigest(4), "digest_conflict"),
      RawReconcileSlot(30, Outcome(fault))>>

CapabilityRefusal ==
    LET missing == SetToSeq(RequiredCapabilities)
    IN  [i \in DOMAIN missing |-> OpenOffering(Capabilities \ {missing[i]}, <<"unsupported">>)]
        \o <<OpenStore("none")>>

ExclusiveLockForStorageLifetime ==
    <<OpenStore("none"), OpenRequiring({"transactional_migration"}, <<"unsupported">>),
      OpenRequiring({}, <<"locked">>), CloseStore, OpenStore("none")>>

RevisionExhaustionIsAtomic ==
    <<OpenStore("none"), SetGeneration(MaxGeneration - 1),
      PrepareRaw(40, 0, <<Put("overflow", <<1>>, Missing, Raw(1))>>), RawCommitOf(40, "committed"),
      PrepareRaw(41, 0, <<Put("overflow", <<2>>, Missing, Raw(2))>>), RawCommitOf(41, "exhausted"),
      GetNow("overflow", <<2>>, Missing), ReceiptIs(41, FALSE)>>

-----------------------------------------------------------------------------
(* engine.rs: the receipts of the metadata store.                          *)
PreparedTransactionsArePermanentlyUsed ==
    <<ClockTo(100), OpenStore("none"),
      PreparePlain(1, <<Put("prepared-one", <<1>>, Missing, Raw(1)),
                        Put("prepared-two", <<2>>, Missing, Raw(2))>>),
      CommitOf(1, "committed"), CommitOf(1, "committed"), MarkerIs(1, Exactly(Empty)),
      Cleanup(2, 1, "anchored"), Cleanup(3, 1, "retained"),
      ClockTo(50), Cleanup(4, 1, "retained"), ClockTo(100), Cleanup(5, 1, "retained"),
      ClockTo(110), Cleanup(6, 1, "forgotten"), MarkerIs(1, Exactly(Forgotten)),
      PrepareAs(101, 0, "plain", 1, <<Put("current-reuse", <<3>>, Missing, Raw(3))>>, <<>>,
                <<"prepared", 2>>),
      CommitOf(101, "conflict"), CloseStore, OpenStore("none"),
      AddRef(7, 1, Token(99), "conflict"), RemoveRef(8, 1, Token(99), "conflict"),
      Cleanup(9, 1, "conflict"), CloseStore, OpenStore("none"),
      RawReconcileSlot(1, "aborted"), RawCommitOf(1, "conflict"), MarkerIs(1, Exactly(Forgotten))>>

OpaqueReferencesBlockCleanup ==
    <<ClockTo(200), OpenStore("none")>> \o CommitTarget(20)
    \o [i \in 1..5 |-> AddRef(20 + i, 20, Token(i), "applied")]
    \o <<Cleanup(30, 20, "referenced")>>
    \o FlattenSeq([i \in 1..4 |-> <<RemoveRef(30 + i, 20, Token(i), "applied"),
                                    Cleanup(39 + i, 20, "referenced")>>])
    \o <<RemoveRef(50, 20, Token(5), "applied"), NoHead(20), NoAnchor(20),
         Cleanup(51, 20, "anchored"), ClockTo(210), Cleanup(52, 20, "forgotten")>>

AdditionAndDisappearanceResetRetention ==
    <<ClockTo(300), OpenStore("none")>> \o CommitTarget(60)
    \o <<Cleanup(61, 60, "anchored"), ClockTo(305), AddRef(62, 60, Token(9), "applied"),
         NoAnchor(60), ClockTo(310), RemoveRef(63, 60, Token(9), "applied"), ClockTo(320),
         Cleanup(64, 60, "anchored"),
         GetNow(Internal, EligibilityAnchor(60), Exactly(WallTime(320))),
         ClockTo(329), Cleanup(65, 60, "retained"), ClockTo(330), Cleanup(66, 60, "forgotten")>>

ReservedInjectionAndCorruptionFailClosed ==
    <<ClockTo(400), OpenStore("none")>> \o CommitTarget(70)
    \o <<RefusedPlain(71, <<Put(Internal, <<9>>, Missing, Raw(9))>>),
         RefusedPlain(711, <<ForgetReceipt(70, WrongDigest(0))>>),
         AddRef(72, 70, Token(10), "applied"), AddRef(73, 70, Token(10), "conflict"),
         RemoveRef(74, 70, Token(11), "conflict"),
         RemoveEntry(Internal, ReferenceHead(70)), RemoveRef(75, 70, Token(10), "corrupt"),
         InsertEntry(Internal, ReferenceHead(70), Raw(123)), AddRef(751, 70, Token(10), "corrupt"),
         InsertEntry(Internal, ReferenceHead(70), Count(MaxCount)),
         AddRef(76, 70, Token(12), "corrupt")>>

StreamedEdgeAudit ==
    <<ClockTo(425), OpenStore("none")>> \o CommitTarget(770)
    \o <<InsertEntry(Internal, ReferenceEdge(770, Token(21)), Empty),
         Cleanup(771, 770, "corrupt"), ReceiptIs(770, TRUE)>>
    \o CommitTarget(780)
    \o <<AddRef(781, 780, Token(22), "applied"), AddRef(782, 780, Token(23), "applied"),
         InsertEntry(Internal, ReferenceHead(780), Count(1)),
         RemoveRef(783, 780, Token(22), "corrupt"), Cleanup(784, 780, "corrupt")>>
    \o CommitTarget(790)
    \o <<AddRef(791, 790, Token(24), "applied"), AddRef(792, 790, Token(25), "applied"),
         InsertEntry(Internal, ReferenceHead(790), Count(3)), Cleanup(793, 790, "corrupt")>>
    \o CommitTarget(800)
    \o <<InsertEntry(Internal, UsedId(800), Raw(77)), AddRef(801, 800, Token(26), "corrupt")>>

MalformedCountAndAnchorFail ==
    <<ClockTo(450), OpenStore("none")>> \o CommitTarget(85)
    \o <<InsertEntry(Internal, ReferenceHead(85), Raw(123)), RemoveRef(861, 85, Token(15), "corrupt"),
         Cleanup(86, 85, "corrupt"), ReceiptIs(85, TRUE), RemoveEntry(Internal, ReferenceHead(85)),
         InsertEntry(Internal, EligibilityAnchor(85), Raw(9)), Cleanup(87, 85, "corrupt"),
         ReceiptIs(85, TRUE)>>

DeadlineOverflowRetains ==
    <<ClockTo(MaxWallTime), OpenStore("none")>> \o CommitTarget(80)
    \o <<InsertEntry(Internal, EligibilityAnchor(80), WallTime(MaxWallTime)),
         Cleanup(81, 80, "retained")>>

(* The four receipt mutations an outcome can be lost of: what readies the  *)
(* target, the mutation, and its transaction.                              *)
Seed(phase) ==
    CASE phase = "remove" -> <<AddRef(92, 90, Token(13), "applied")>>
      [] phase = "forget" -> <<Cleanup(93, 90, "anchored"), ClockTo(510)>>
      [] OTHER -> <<>>
Mutation(phase, expect) ==
    CASE phase = "add" -> AddRef(94, 90, Token(13), expect)
      [] phase = "remove" -> RemoveRef(94, 90, Token(13), expect)
      [] OTHER -> Cleanup(94, 90, expect)
Seeded(phase) ==
    <<ClockTo(500), OpenStore("none")>> \o CommitTarget(90) \o CommitTarget(91) \o Seed(phase)
    \o <<CloseStore>>

UnknownReceiptMutation(fault, phase) ==
    Seeded(phase)
    \o <<OpenStore(fault), Mutation(phase, "unknown"), CloseStore, OpenRecovered(fault, 94),
         Cleanup(97, 91, "not_ready"), ReconcileTo(Outcome(fault)),
         ReceiptIs(90, ~(fault = "applied" /\ phase = "forget"))>>

CancelledReceiptMutation(phase) ==
    Seeded(phase)
    \o <<OpenStore("pending_not_applied"), Mutation(phase, "cancelled"),
         Cleanup(107, 91, "not_ready"), ReconcileTo("aborted"), ReceiptIs(90, TRUE)>>

RecoveredOpenResolves(fault) ==
    <<OpenStore(fault), PrepareContractPut(110, 0), CommitOf(110, "unknown"),
      ReceiptIs(110, fault = "applied"), CloseStore, OpenRecovered(fault, 110),
      PrepareContractPut(111, 1), CommitOf(111, "not_ready"), ReconcileTo(Outcome(fault)),
      CommitOf(111, "unknown"), CloseStore, OpenStore(fault)>>

RecoveredOpenKeepsWrongDigestFrozen ==
    <<OpenStore("applied"), PrepareContractPut(112, 0), CommitOf(112, "unknown"), CloseStore,
      OpenAs("recovered", "applied", 0, [id |-> 112, digest |-> WrongDigest(23)], <<"opened", 112>>),
      PrepareContractPut(113, 1), ReconcileTo("digest_conflict"), ReconcileTo("digest_conflict"),
      CommitOf(113, "not_ready")>>

RecoveredOpenReconcilesCancelled(applied) ==
    LET fault == IF applied THEN "pending_applied" ELSE "pending_not_applied"
    IN  <<OpenStore(fault), PrepareContractPut(114, 0), CommitOf(114, "cancelled"),
          ReceiptIs(114, applied), CloseStore, OpenRecovered(fault, 114),
          PrepareContractPut(115, 1), CommitOf(115, "not_ready"),
          ReconcileTo(IF applied THEN "committed" ELSE "aborted"), CommitOf(115, "cancelled")>>

-----------------------------------------------------------------------------
(* receipt_refs.rs: references changed together with records.              *)
OwnerPutAndSelfReferences ==
    <<ClockTo(700), OpenStore("none"),
      PrepareChanges(300, <<Binding>>, <<AddSelf(<<OwnerToken, PointerToken>>)>>, 5),
      CommitOf(300, "committed"), GetNow(OwnerNs, OwnerKey, Exactly(Raw(1))), HeadIs(300, 2),
      EdgeIs(300, OwnerToken), EdgeIs(300, PointerToken), MarkerIs(300, Exactly(Empty)),
      Cleanup(301, 300, "referenced")>>

FinalizationMovesReferences ==
    <<ClockTo(720), OpenStore("none")>> \o CommitTarget(310)
    \o <<AddRef(311, 310, PointerToken, "applied"),
         PrepareChanges(312, <<Binding>>,
             <<RemoveFrom(310, <<PointerToken>>), AddSelf(<<OwnerToken>>)>>, 6),
         CommitOf(312, "committed"), GetNow(OwnerNs, OwnerKey, Exactly(Raw(1))), NoHead(310),
         NoEdge(310, PointerToken), HeadIs(312, 1), EdgeIs(312, OwnerToken),
         MarkerIs(310, Exactly(Empty)), Cleanup(313, 310, "anchored")>>

ExistingTargetAddRemovesAnchor ==
    <<ClockTo(740), OpenStore("none")>> \o CommitTarget(320)
    \o <<Cleanup(321, 320, "anchored"),
         PrepareChanges(322, <<>>, <<AddTo(320, <<OwnerToken>>)>>, 4), CommitOf(322, "committed"),
         NoAnchor(320), HeadIs(320, 1),
         PrepareChanges(323, <<>>, <<AddTo(320, <<PointerToken>>)>>, 3), CommitOf(323, "committed"),
         HeadIs(320, 2), TakeSnapshotAs(-1)>>
    \o CommitTarget(324)
    \o <<PrepareAs(325, -1, "changes", 325, <<>>, <<AddTo(320, <<Token(30)>>)>>, <<"prepared", 3>>),
         CommitOf(325, "conflict")>>

ChangeRequestsRejected ==
    LET cases == << <<AddSelf(<<Token(31), Token(31)>>)>>,
                    <<AddSelf(<<Token(31)>>), AddTo(330, <<Token(31)>>)>>,
                    <<AddTo(330, <<Token(31)>>), RemoveFrom(330, <<Token(32)>>)>>,
                    <<AddTo(330, <<Token(31)>>), AddTo(330, <<Token(32)>>)>>,
                    <<AddSelf(<<>>)>>,
                    <<AddSelf(<<Token(31)>>), AddSelf(<<Token(32)>>)>>,
                    <<RemoveFrom(332, <<Token(31)>>)>> >>
    IN  <<ClockTo(760), OpenStore("none")>> \o CommitTarget(330)
        \o [i \in DOMAIN cases |-> RefusedChanges(332, <<>>, cases[i], "invalid")]
        \o <<RefusedChanges(333, <<Put(Internal, <<9>>, Missing, Raw(9))>>, <<>>, "invalid"),
             RefusedChanges(333, <<ForgetReceipt(330, WrongDigest(0))>>, <<>>, "invalid")>>

ChangeSnapshotMismatches ==
    <<ClockTo(780), OpenStore("none")>> \o CommitTarget(340) \o CommitTarget(341)
    \o <<Cleanup(342, 341, "anchored"), ClockTo(790), Cleanup(343, 341, "forgotten"),
         AddRef(344, 340, Token(33), "applied"),
         RefusedChanges(345, <<>>, <<RemoveFrom(340, <<Token(34)>>)>>, "conflict"),
         RefusedChanges(345, <<>>, <<AddTo(340, <<Token(33)>>)>>, "conflict"),
         RefusedChanges(345, <<>>, <<AddTo(341, <<Token(34)>>)>>, "conflict"),
         RefusedChanges(345, <<>>, <<RemoveFrom(341, <<Token(33)>>)>>, "conflict")>>
    \o CommitTarget(346)
    \o <<InsertEntry(Internal, ReferenceEdge(346, Token(35)), Empty),
         RefusedChanges(347, <<>>, <<AddTo(346, <<Token(34)>>)>>, "corrupt"),
         RefusedChanges(347, <<>>, <<RemoveFrom(346, <<Token(35)>>)>>, "corrupt")>>
    \o CommitTarget(348)
    \o <<AddRef(349, 348, Token(36), "applied"), AddRef(350, 348, Token(37), "applied"),
         InsertEntry(Internal, ReferenceHead(348), Count(1)),
         RefusedChanges(351, <<>>, <<AddTo(348, <<Token(34)>>)>>, "corrupt"),
         RefusedChanges(351, <<>>, <<RemoveFrom(348, <<Token(36)>>)>>, "corrupt"),
         InsertEntry(Internal, ReferenceHead(348), Count(MaxCount)),
         RefusedChanges(352, <<>>, <<AddTo(348, <<Token(34)>>)>>, "corrupt")>>

CombinedCommitUnknown(fault) ==
    LET there(x) == IF fault = "applied" THEN Exactly(x) ELSE Missing
    IN  <<ClockTo(800), OpenStore(fault),
          PrepareChanges(360, <<Binding>>, <<AddSelf(<<OwnerToken>>)>>, 4), CommitOf(360, "unknown"),
          PrepareContractPut(361, 1), CommitOf(361, "not_ready"), CloseStore,
          OpenRecovered(fault, 360), ReconcileTo(Outcome(fault)),
          GetNow(OwnerNs, OwnerKey, there(Raw(1))),
          GetNow(Internal, ReferenceEdge(360, OwnerToken), there(Empty))>>

CancelledCombinedCommit ==
    <<ClockTo(820), OpenStore("pending_not_applied"),
      PrepareChanges(370, <<Binding>>, <<AddSelf(<<OwnerToken>>)>>, 4), CommitOf(370, "cancelled"),
      PrepareContractPut(371, 2), CommitOf(371, "not_ready"), ReconcileTo("aborted"),
      GetNow(OwnerNs, OwnerKey, Missing), NoEdge(370, OwnerToken), MarkerIs(370, Missing)>>

-----------------------------------------------------------------------------
(* journal.rs: the pending record that proves its own commit.              *)
JournaledPlan(id) ==
    <<Binding, HeadPut(id, Missing, 3)>> \o EdgePuts(id, <<OwnerToken, PointerToken, PendingToken>>)

JournaledPrepareWritesExactPlan ==
    <<ClockTo(840), OpenStore("none"), PrepareJournaledOwnerPut(400), CommitOf(400, "committed"),
      GetNow(Journal, Purpose, Exactly(PendingRecord(Purpose, 400, 1, JournaledPlan(400)))),
      HeadIs(400, 3), EdgeIs(400, OwnerToken), EdgeIs(400, PointerToken), EdgeIs(400, PendingToken),
      MarkerIs(400, Exactly(Empty))>>

JournaledPrepareRejectsForbidden ==
    LET forbidden == <<Put(Journal, Purpose, Missing, Raw(9)), CheckKey(Journal, Purpose, Missing),
                       Delete(Journal, Purpose, Raw(0)), Put(Internal, <<9>>, Missing, Raw(9)),
                       ForgetReceipt(410, WrongDigest(0))>>
    IN  <<ClockTo(850), OpenStore("none")>>
        \o [i \in DOMAIN forbidden |-> RefusedJournal(411, Purpose, <<forbidden[i]>>, <<>>)]
        \o <<RefusedJournal(412, Purpose, <<>>, <<AddSelf(<<PendingToken>>)>>),
             RefusedJournal(413, BadPurpose, <<>>, <<>>)>>

JournaledUnknownApplied ==
    <<ClockTo(860), OpenStore("applied"), PrepareJournaledOwnerPut(420), CommitOf(420, "unknown"),
      CloseStore, ClockTo(861), OpenJournal("none", <<"opened", 420>>),
      PreparePlainPut(422, 2), CommitOf(422, "not_ready"), HeadIs(420, 3),
      EdgeIs(420, OwnerToken), EdgeIs(420, PointerToken), EdgeIs(420, PendingToken),
      ReconcileTo("committed"), CleanupJournal(423, "applied"), NoPending, HeadIs(420, 2),
      EdgeIs(420, OwnerToken), EdgeIs(420, PointerToken), NoEdge(420, PendingToken),
      GetNow(OwnerNs, OwnerKey, Exactly(Raw(1))), Cleanup(424, 420, "referenced"),
      CleanupJournal(425, "absent")>>

JournaledUnknownNotApplied ==
    <<ClockTo(860), OpenStore("not_applied"), PrepareJournaledOwnerPut(420), CommitOf(420, "unknown"),
      CloseStore, ClockTo(861), OpenJournal("none", <<"opened", 0>>), ReceiptIs(420, FALSE),
      NoPending, GetNow(OwnerNs, OwnerKey, Missing), MarkerIs(420, Missing), NoHead(420),
      PreparePlainPut(421, 1), CommitOf(421, "committed")>>

JournaledCancellationRecovers ==
    <<ClockTo(880), OpenStore("pending_applied"), PrepareJournaledOwnerPut(430),
      CommitOf(430, "cancelled"), CloseStore, ClockTo(881), OpenJournal("none", <<"opened", 430>>),
      ReconcileTo("committed"), CleanupJournal(431, "applied"), NoPending>>

JournaledDigestConflictStaysFrozen ==
    <<ClockTo(900), OpenStore("applied"), PrepareJournaledOwnerPut(432), CommitOf(432, "unknown"),
      CloseStore, InsertReceipt(432, WrongDigest(119)), ClockTo(901),
      OpenJournal("none", <<"opened", 432>>), ReconcileTo("digest_conflict"),
      ReconcileTo("digest_conflict"), PreparePlainPut(433, 3), CommitOf(433, "not_ready")>>

MalformedAndMultiplePendingFail ==
    LET record(purpose, plan) == PendingRecord(purpose, 440, 1, plan)
        valid == record(Purpose, <<Binding>>)
    IN  <<ClockTo(920), InsertEntry(Journal, Purpose, Raw(9)), OpenJournal("none", <<"corrupt">>),
          InsertEntry(Journal, Purpose, valid), OpenJournal("none", <<"opened", 440>>),
          ReconcileTo("corrupt"), PreparePlainPut(441, 4), CommitOf(441, "not_ready"), CloseStore,
          InsertEntry(Journal, Purpose, record(OtherPurpose, <<Binding>>)),
          OpenJournal("none", <<"corrupt">>),
          InsertEntry(Journal, Purpose, record(Purpose, <<Put(Journal, Purpose, Missing, Raw(9))>>)),
          OpenJournal("none", <<"corrupt">>),
          InsertEntry(Journal, Purpose, valid), InsertEntry(Journal, ExtendedPurpose, valid),
          OpenJournal("none", <<"corrupt">>), RemoveEntry(Journal, ExtendedPurpose),
          OpenJournal("none", <<"opened", 440>>)>>

DuplicatePendingInsertionConflicts ==
    <<ClockTo(940), OpenStore("none"), PrepareJournaledOwnerPut(450), CommitOf(450, "committed"),
      PrepareJournaledOwnerPut(451), CommitOf(451, "conflict"), ReceiptIs(451, FALSE)>>

CleanupUnknownRestartRetries(fault) ==
    <<ClockTo(960), OpenStore("none"), PrepareJournaledOwnerPut(460), CommitOf(460, "committed"),
      CloseStore, OpenStore(fault), CleanupJournal(461, "unknown"), PreparePlainPut(462, 5),
      CommitOf(462, "not_ready"), ReconcileTo(Outcome(fault)),
      GetNow(Journal, Purpose, IF fault = "applied" THEN Missing
                               ELSE Exactly(PendingRecord(Purpose, 460, 1, JournaledPlan(460)))),
      CloseStore, ClockTo(961)>>
    \o IF fault = "applied"
       THEN <<OpenJournal("none", <<"opened", 0>>), PreparePlainPut(463, 6), CommitOf(463, "committed")>>
       ELSE <<OpenJournal("none", <<"opened", 460>>), ReconcileTo("committed"),
              CleanupJournal(464, "applied"), NoPending, HeadIs(460, 2), EdgeIs(460, OwnerToken),
              EdgeIs(460, PointerToken), NoEdge(460, PendingToken)>>

-----------------------------------------------------------------------------
Phases == <<"add", "remove", "anchor", "forget">>

Suite ==
    <<SnapshotLookupAndOrdering, ConflictsAndAtomicity, IdempotenceAndForgetting,
      AllFamilyRoundtrip, CrossFamilyAtomicity, UnknownReconciliation("applied"),
      UnknownReconciliation("not_applied"), CapabilityRefusal, ExclusiveLockForStorageLifetime,
      RevisionExhaustionIsAtomic, PreparedTransactionsArePermanentlyUsed,
      OpaqueReferencesBlockCleanup, AdditionAndDisappearanceResetRetention,
      ReservedInjectionAndCorruptionFailClosed, StreamedEdgeAudit, MalformedCountAndAnchorFail,
      DeadlineOverflowRetains, RecoveredOpenResolves("applied"),
      RecoveredOpenResolves("not_applied"), RecoveredOpenKeepsWrongDigestFrozen,
      RecoveredOpenReconcilesCancelled(TRUE), RecoveredOpenReconcilesCancelled(FALSE),
      OwnerPutAndSelfReferences, FinalizationMovesReferences, ExistingTargetAddRemovesAnchor,
      ChangeRequestsRejected, ChangeSnapshotMismatches, CombinedCommitUnknown("applied"),
      CombinedCommitUnknown("not_applied"), CancelledCombinedCommit,
      JournaledPrepareWritesExactPlan, JournaledPrepareRejectsForbidden, JournaledUnknownApplied,
      JournaledUnknownNotApplied, JournaledCancellationRecovers, JournaledDigestConflictStaysFrozen,
      MalformedAndMultiplePendingFail, DuplicatePendingInsertionConflicts,
      CleanupUnknownRestartRetries("applied"), CleanupUnknownRestartRetries("not_applied")>>
    \o [i \in 1..4 |-> UnknownReceiptMutation("applied", Phases[i])]
    \o [i \in 1..4 |-> UnknownReceiptMutation("not_applied", Phases[i])]
    \o [i \in 1..4 |-> CancelledReceiptMutation(Phases[i])]
=============================================================================
