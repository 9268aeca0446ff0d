---------------------------- MODULE ReceiptPlans ----------------------------
(***************************************************************************)
(* What the metadata store makes of a request before it calls the engine:  *)
(* the exact list of conditional operations, or the reason for refusing.   *)
(* A plan reads one snapshot.  The keys of the receipt index carry the     *)
(* tags of receipt.rs: 1 the permanent used-id marker, 2 the reference     *)
(* head, 3 one edge per token, 4 the eligibility anchor.                   *)
(***************************************************************************)
EXTENDS StorageEngine

CONSTANTS
    MaxCount,     \* the largest reference count that can be stored
    MaxWallTime,  \* the largest representable wall time
    Retention     \* receipt_retention

Internal == "receipt-internal"
Journal == "pending-transactions"

Empty == <<"empty">>
Forgotten == <<"forgotten">>
Count(n) == <<"count", n>>
WallTime(t) == <<"time", t>>
Raw(n) == <<"raw", n>>

UsedId(id) == <<1, id>>
ReferenceHead(id) == <<2, id>>
EdgePrefix(id) == <<3, id>>
ReferenceEdge(id, token) == <<3, id, token>>
EligibilityAnchor(id) == <<4, id>>

Planned(ops) == [ok |-> TRUE, ops |-> ops, kind |-> "planned"]
Refused(kind) == [ok |-> FALSE, ops |-> <<>>, kind |-> kind]

UsesReservedNamespace(op) == op.kind = "forget" \/ op.at[1] = Internal

(* Every transaction ends with the put of its permanent used-id marker.    *)
PrepareInternal(id, base, ops) ==
    LET all == Append(ops, Put(Internal, UsedId(id), Missing, Empty))
    IN  IF WellFormed(all)
        THEN [ok |-> TRUE, transaction |-> Transaction(id, base, all), kind |-> "prepared"]
        ELSE [ok |-> FALSE, kind |-> "invalid"]

(* The marker alone decides whether a receipt is live: absent or malformed *)
(* is corruption.                                                          *)
LiveMarker(e, id) ==
    CASE Stored(e, Internal, UsedId(id)) = Exactly(Empty) -> "active"
      [] Stored(e, Internal, UsedId(id)) = Exactly(Forgotten) -> "conflict"
      [] OTHER -> "corrupt"

Edges(e, id) ==
    {at \in DOMAIN e.entries : at[1] = Internal /\ IsPrefix(EdgePrefix(id), at[2])}

(* A bug the audit is there to catch: the head believed without counting.  *)
AuditedByHead(e, id, head, anchor) ==
    /\ \A at \in Edges(e, id) : Len(at[2]) = 3 /\ e.entries[at] = Empty
    /\ head # Missing => head[1][1] = "count"

(* The stored count is the number of edges, and an anchored receipt has    *)
(* none.                                                                   *)
Audited(e, id, head, anchor) ==
    LET n == Cardinality(Edges(e, id))
    IN  /\ \A at \in Edges(e, id) : Len(at[2]) = 3 /\ e.entries[at] = Empty
        /\ IF n = 0 THEN head = Missing ELSE head = Exactly(Count(n))
        /\ n > 0 => anchor = Missing

ValidAnchor(anchor) == anchor # Missing => anchor[1][1] = "time"

HeadPut(id, head, n) == Put(Internal, ReferenceHead(id), head, Count(n))
EdgePuts(id, tokens) == [i \in DOMAIN tokens |-> Put(Internal, ReferenceEdge(id, tokens[i]), Missing, Empty)]
EdgeDeletes(id, tokens) == [i \in DOMAIN tokens |-> Delete(Internal, ReferenceEdge(id, tokens[i]), Empty)]
AnchorDelete(id, anchor) ==
    IF anchor = Missing THEN <<>> ELSE <<Delete(Internal, EligibilityAnchor(id), anchor[1])>>

(* What is read of one receipt before any change to its references.        *)
Reading(e, id) ==
    [head |-> Stored(e, Internal, ReferenceHead(id)), anchor |-> Stored(e, Internal, EligibilityAnchor(id)),
     count |-> Cardinality(Edges(e, id))]
HasEdge(e, id, token) == Stored(e, Internal, ReferenceEdge(id, token)) # Missing

-----------------------------------------------------------------------------
(* One group of changes: the receipt it is about (Self is the one of the   *)
(* transaction being prepared), the direction and the tokens.              *)
Self == 0
AddSelf(tokens) == [target |-> Self, remove |-> FALSE, tokens |-> tokens]
AddTo(id, tokens) == [target |-> id, remove |-> FALSE, tokens |-> tokens]
RemoveFrom(id, tokens) == [target |-> id, remove |-> TRUE, tokens |-> tokens]

TargetOf(id, change) == IF change.target = Self THEN id ELSE change.target

(* Groups name at least one token each, no token twice, no receipt twice,  *)
(* and never remove from the receipt that does not exist yet.              *)
ValidGroups(id, changes) ==
    LET tokens == FlattenSeq([i \in DOMAIN changes |-> changes[i].tokens])
    IN  /\ \A i \in DOMAIN changes : changes[i].tokens # <<>>
        /\ IsInjective(tokens)
        /\ \A i \in DOMAIN changes : TargetOf(id, changes[i]) = id => ~changes[i].remove
        /\ IsInjective([i \in DOMAIN changes |-> TargetOf(id, changes[i])])

SelfOperations(e, id, tokens) ==
    LET now == Reading(e, id)
    IN  IF Stored(e, Internal, UsedId(id)) # Missing THEN Refused("conflict")
        ELSE IF ~Audited(e, id, now.head, Missing) THEN Refused("corrupt")
        ELSE IF now.head # Missing THEN Refused("conflict")
        ELSE Planned(<<HeadPut(id, Missing, Len(tokens))>> \o EdgePuts(id, tokens))

AddOperations(e, id, tokens) ==
    LET now == Reading(e, id)
    IN  IF now.count + Len(tokens) > MaxCount THEN Refused("exhausted")
        ELSE IF \E i \in DOMAIN tokens : HasEdge(e, id, tokens[i]) THEN Refused("conflict")
        ELSE IF ~ValidAnchor(now.anchor) THEN Refused("corrupt")
        ELSE Planned(<<HeadPut(id, now.head, now.count + Len(tokens))>>
                     \o EdgePuts(id, tokens) \o AnchorDelete(id, now.anchor))

RemoveOperations(e, id, tokens) ==
    LET now == Reading(e, id)
        left == now.count - Len(tokens)
    IN  IF \E i \in DOMAIN tokens : ~HasEdge(e, id, tokens[i]) THEN Refused("conflict")
        ELSE Planned(EdgeDeletes(id, tokens)
                     \o <<IF left = 0 THEN Delete(Internal, ReferenceHead(id), now.head[1])
                                      ELSE HeadPut(id, now.head, left)>>)

(* build_receipt_change_operations for one group.                          *)
ChangeOperations(e, id, change) ==
    LET target == change.target
        now == Reading(e, target)
    IN  IF TargetOf(id, change) = id THEN SelfOperations(e, id, change.tokens)
        ELSE IF LiveMarker(e, target) # "active" THEN Refused(LiveMarker(e, target))
        ELSE IF ~Audited(e, target, now.head, now.anchor) THEN Refused("corrupt")
        ELSE IF change.remove THEN RemoveOperations(e, target, change.tokens)
        ELSE AddOperations(e, target, change.tokens)

AllOperations(e, id, caller, changes) ==
    FoldLeft(LAMBDA plan, change :
                LET built == ChangeOperations(e, id, change)
                IN  IF ~plan.ok THEN plan
                    ELSE IF built.ok THEN Planned(plan.ops \o built.ops) ELSE built,
             Planned(caller), changes)

-----------------------------------------------------------------------------
Prepared(id, base, plan) ==
    IF plan.ok THEN PrepareInternal(id, base, plan.ops) ELSE [ok |-> FALSE, kind |-> plan.kind]

PrepareTransaction(id, base, caller) ==
    IF \E i \in DOMAIN caller : UsesReservedNamespace(caller[i])
    THEN [ok |-> FALSE, kind |-> "invalid"]
    ELSE PrepareInternal(id, base, caller)

PrepareWithChanges(e, id, caller, changes) ==
    IF (\E i \in DOMAIN caller : UsesReservedNamespace(caller[i])) \/ ~ValidGroups(id, changes)
    THEN [ok |-> FALSE, kind |-> "invalid"]
    ELSE Prepared(id, e.generation, AllOperations(e, id, caller, changes))

(* A single added token that is already there is a conflict before its     *)
(* count is computed.                                                      *)
AddReference(e, id, target, token) ==
    LET now == Reading(e, target)
    IN  IF /\ LiveMarker(e, target) = "active"
           /\ Audited(e, target, now.head, now.anchor)
           /\ HasEdge(e, target, token)
        THEN [ok |-> FALSE, kind |-> "conflict"]
        ELSE Prepared(id, e.generation, ChangeOperations(e, id, AddTo(target, <<token>>)))

RemoveReference(e, id, target, token) ==
    Prepared(id, e.generation, ChangeOperations(e, id, RemoveFrom(target, <<token>>)))

(* An unreferenced receipt is anchored at the wall time it is first seen   *)
(* so, and forgotten once the retention has passed since; a deadline that  *)
(* cannot be represented is never reached.                                 *)
CleanupReceipt(e, id, target, digest, clock) ==
    LET now == Reading(e, target)
        free == CheckKey(Internal, ReferenceHead(target), Missing)
    IN  IF LiveMarker(e, target) # "active" THEN [ok |-> FALSE, kind |-> LiveMarker(e, target)]
        ELSE IF ~Audited(e, target, now.head, now.anchor) THEN [ok |-> FALSE, kind |-> "corrupt"]
        ELSE IF now.count > 0 THEN [ok |-> FALSE, kind |-> "referenced"]
        ELSE IF now.anchor = Missing
        THEN PrepareInternal(id, e.generation,
                <<free, Put(Internal, EligibilityAnchor(target), Missing, WallTime(clock))>>)
        ELSE IF ~ValidAnchor(now.anchor) THEN [ok |-> FALSE, kind |-> "corrupt"]
        ELSE IF \/ now.anchor[1][2] + Retention > MaxWallTime
                \/ clock < now.anchor[1][2] + Retention
        THEN [ok |-> FALSE, kind |-> "retained"]
        ELSE PrepareInternal(id, e.generation,
                <<free, Delete(Internal, EligibilityAnchor(target), now.anchor[1]),
                  Put(Internal, UsedId(target), Exactly(Empty), Forgotten),
                  ForgetReceipt(target, digest)>>)
-----------------------------------------------------------------------------
(* The journal: a record under its purpose holds the plan of a transaction *)
(* and is written by the transaction itself, so its presence proves the    *)
(* commit.  A purpose is the sequence of its character codes.              *)
ValidPurpose(purpose) == purpose # <<>> /\ \A i \in DOMAIN purpose : purpose[i] \in 32..126

RecordToken(ns, key) == <<ns, key>>
PendingRecord(purpose, id, base, plan) ==
    <<"pending", [purpose |-> purpose, id |-> id, base |-> base, plan |-> plan]>>

TargetsPending(op, purpose) == op.kind # "forget" /\ op.at = <<Journal, purpose>>

InjectSelfToken(changes, token) ==
    LET own == {i \in DOMAIN changes : changes[i].target = Self}
        first == CHOOSE i \in own : \A j \in own : i <= j
    IN  IF own = {} THEN Append(changes, AddSelf(<<token>>))
        ELSE [changes EXCEPT ![first].tokens = Append(@, token)]

PrepareJournaled(e, id, purpose, caller, changes) ==
    LET all == InjectSelfToken(changes, RecordToken(Journal, purpose))
        plan == AllOperations(e, id, caller, all)
        record == PendingRecord(purpose, id, e.generation, plan.ops)
    IN  IF \/ ~ValidPurpose(purpose)
           \/ \E i \in DOMAIN caller : \/ UsesReservedNamespace(caller[i])
                                       \/ TargetsPending(caller[i], purpose)
           \/ ~ValidGroups(id, all)
        THEN [ok |-> FALSE, kind |-> "invalid"]
        ELSE IF ~plan.ok THEN [ok |-> FALSE, kind |-> plan.kind]
        ELSE PrepareInternal(id, e.generation,
                             Append(plan.ops, Put(Journal, purpose, Missing, record)))

(* The transaction a stored record speaks of, rebuilt operation for        *)
(* operation with the record's own bytes, so that its digest is the        *)
(* submitted one.                                                          *)
RecoverIdentity(purpose, stored) ==
    LET r == stored[2]
    IN  Transaction(r.id, r.base,
            r.plan \o <<Put(Journal, purpose, Missing, stored),
                        Put(Internal, UsedId(r.id), Missing, Empty)>>)

(* Nothing, one valid record under exactly this purpose, or corruption.    *)
DiscoverPending(e, purpose) ==
    LET found == {at \in DOMAIN e.entries : at[1] = Journal /\ IsPrefix(purpose, at[2])}
        stored == e.entries[<<Journal, purpose>>]
    IN  IF found = {} THEN [kind |-> "absent"]
        ELSE IF /\ found = {<<Journal, purpose>>}
                /\ stored[1] = "pending"
                /\ stored[2].purpose = purpose
                /\ \A i \in DOMAIN stored[2].plan : ~TargetsPending(stored[2].plan[i], purpose)
             THEN [kind |-> "found", stored |-> stored]
             ELSE [kind |-> "corrupt"]

(* Deletes the record and removes only its own token from the receipt.     *)
CleanupPending(e, id, purpose) ==
    LET found == DiscoverPending(e, purpose)
        target == RecoverIdentity(purpose, found.stored)
        groups == <<RemoveFrom(target.id, <<RecordToken(Journal, purpose)>>)>>
    IN  IF found.kind # "found" THEN [ok |-> FALSE, kind |-> found.kind]
        ELSE IF ~ValidGroups(id, groups) THEN [ok |-> FALSE, kind |-> "invalid"]
        ELSE Prepared(id, e.generation,
                AllOperations(e, id, <<Delete(Journal, purpose, found.stored)>>, groups))
=============================================================================
