---------------------------- MODULE StorageEngine ----------------------------
(***************************************************************************)
(* The storage engine's contract as operators on a value: what one commit, *)
(* one reconciliation, one read and one ordered scan answer, and the state *)
(* the commit leaves.  This is the reference provider of the repository's  *)
(* contract suite (storage/contract/reference.rs) over the operations and  *)
(* the condition semantics every engine shares (provider.rs).              *)
(*                                                                         *)
(* Keys are sequences of numbers, standing for bytes.  A value is a tuple  *)
(* whose first element names its encoding.  The digest of a value is the   *)
(* value, the digest of a transaction is its base revision with its        *)
(* operations: two digests are equal when what they hash is equal.         *)
(***************************************************************************)
EXTENDS Integers, Sequences, FiniteSets, SequencesExt

CONSTANT MaxGeneration    \* the largest revision the engine can number

Missing == <<>>
Exactly(v) == <<v>>

CheckKey(ns, key, expected) == [kind |-> "check", at |-> <<ns, key>>, expected |-> expected]
Put(ns, key, expected, v) ==
    [kind |-> "put", at |-> <<ns, key>>, expected |-> expected, value |-> v]
Delete(ns, key, v) == [kind |-> "delete", at |-> <<ns, key>>, expected |-> Exactly(v)]
ForgetReceipt(id, digest) == [kind |-> "forget", id |-> id, digest |-> digest]

(* What two operations of one transaction may not share.                   *)
OperationIdentity(op) == IF op.kind = "forget" THEN <<"receipt", op.id>> ELSE <<"key", op.at>>

WellFormed(ops) ==
    /\ ops # <<>>
    /\ \A i, j \in 1..Len(ops) :
          OperationIdentity(ops[i]) = OperationIdentity(ops[j]) => i = j

OperationDigest(base, ops) == [base |-> base, ops |-> ops]
Transaction(id, base, ops) ==
    [id |-> id, base |-> base, ops |-> ops, digest |-> OperationDigest(base, ops)]

-----------------------------------------------------------------------------
NewEngine == [generation |-> 1, entries |-> <<>>, receipts |-> <<>>]

Stored(e, ns, key) ==
    IF <<ns, key>> \in DOMAIN e.entries THEN <<e.entries[<<ns, key>>]>> ELSE Missing

ConditionMatches(e, op) ==
    IF op.kind = "forget"
    THEN op.id \in DOMAIN e.receipts /\ e.receipts[op.id] = op.digest
    ELSE Stored(e, op.at[1], op.at[2]) = op.expected

Without(f, x) == [y \in DOMAIN f \ {x} |-> f[y]]
With(f, x, v) == [y \in DOMAIN f \cup {x} |-> IF y = x THEN v ELSE f[y]]

ApplyOperation(e, op) ==
    CASE op.kind = "put" -> [e EXCEPT !.entries = With(@, op.at, op.value)]
      [] op.kind = "delete" -> [e EXCEPT !.entries = Without(@, op.at)]
      [] op.kind = "forget" -> [e EXCEPT !.receipts = Without(@, op.id)]
      [] OTHER -> e

(* The receipt is looked up first, so a repeated submission is answered    *)
(* from it; then the digest, the revision and every condition are tested,  *)
(* and only then is anything applied.                                      *)
ReferenceCommit(e, t) ==
    LET refused(kind) == [engine |-> e, answer |-> <<kind>>]
        applied == FoldLeft(ApplyOperation, e, t.ops)
    IN  IF t.id \in DOMAIN e.receipts
        THEN refused(IF e.receipts[t.id] = t.digest THEN "committed" ELSE "conflict")
        ELSE IF \/ t.digest # OperationDigest(t.base, t.ops)
                \/ t.base # e.generation
                \/ \E i \in DOMAIN t.ops : ~ConditionMatches(e, t.ops[i])
        THEN refused("conflict")
        ELSE IF e.generation = MaxGeneration
        THEN refused("exhausted")
        ELSE [engine |-> [applied EXCEPT !.generation = @ + 1,
                                         !.receipts = With(@, t.id, t.digest)],
              answer |-> <<"committed">>]

ReferenceReconcile(e, id, digest) ==
    IF id \notin DOMAIN e.receipts
    THEN <<"aborted">>
    ELSE IF e.receipts[id] = digest THEN <<"committed">> ELSE <<"digest_conflict">>

(* The order of keys: byte by byte, a proper prefix first.                 *)
KeyBefore(a, b) ==
    \/ IsStrictPrefix(a, b)
    \/ \E i \in 1..Len(a) : /\ i <= Len(b)
                            /\ SubSeq(a, 1, i - 1) = SubSeq(b, 1, i - 1)
                            /\ a[i] < b[i]

ReferenceScan(e, ns, prefix) ==
    SetToSortSeq({at[2] : at \in {x \in DOMAIN e.entries : x[1] = ns /\ IsPrefix(prefix, x[2])}},
                 KeyBefore)

(* The capabilities metadata needs, in StoreRequirements::metadata.        *)
RequiredCapabilities ==
    {"os_crash_durable", "conditional_batch", "ordered_scan", "reconciliation", "exclusive_lock"}
Satisfies(capabilities, requirements) == requirements \subseteq capabilities
=============================================================================
