------------------------- MODULE ReceiptReferences -------------------------
(***************************************************************************)
(* The receipt-reference index of storage/receipt.rs: owner records keep    *)
(* the receipt of the transaction that wrote them alive through edges       *)
(* (target, token), counted in a head record; an unreferenced receipt is    *)
(* anchored in time and forgotten after the retention period.               *)
(*                                                                          *)
(* A caller reads one snapshot, prepares a transaction from it and commits  *)
(* later; between the two any other caller may commit.  The provider applies*)
(* a transaction when its base revision is the current one and every        *)
(* expectation holds.  What the commit outcome tells the caller is the      *)
(* business of MetadataStore; here a prepared transaction is applied or     *)
(* dropped.                                                                 *)
(*                                                                          *)
(* Abstractions: a transaction is its identity (its digest never differs),  *)
(* a token a model value, an absent head is 0 and an absent anchor NoTime.  *)
(***************************************************************************)
EXTENDS Naturals, FiniteSets

CONSTANTS
  NumTxns,    \* bound on committed transactions
  Tokens,     \* receipt-reference tokens
  Callers,    \* tasks preparing transactions
  Retention,  \* receipt_retention
  MaxTime,    \* bound on the wall clock
  MaxGroups   \* bound on the receipt changes of one transaction

ASSUME ReceiptAssumption ==
  /\ NumTxns \in Nat /\ Retention \in Nat /\ MaxTime \in Nat /\ MaxGroups \in Nat
  /\ IsFiniteSet(Tokens)

VARIABLES
  marker,    \* used-ID marker of each transaction: absent, active or forgotten
  head,      \* reference count in the head record
  edges,     \* tokens of the edge records
  anchor,    \* eligibility anchor
  receipts,  \* the provider's receipts
  revision,  \* the provider's revision
  now,       \* the wall clock, which may jump either way
  prep       \* the transaction each caller has prepared

index == <<marker, head, edges, anchor, receipts, revision>>
vars == <<index, now, prep>>

Txns == 1 .. NumTxns
Times == 1 .. MaxTime
NoTime == 0

\* A receipt change of one target: which tokens to add or to remove.
Changes == [remove : BOOLEAN, tokens : SUBSET Tokens]

Nothing == [kind |-> "none"]

Init ==
  /\ marker = [t \in Txns |-> "absent"]
  /\ head = [t \in Txns |-> 0]
  /\ edges = [t \in Txns |-> {}]
  /\ anchor = [t \in Txns |-> NoTime]
  /\ receipts = {}
  /\ revision = 0
  /\ now \in Times
  /\ prep = [c \in Callers |-> Nothing]

-----------------------------------------------------------------------------
\* group_receipt_changes: every group has tokens, no token occurs in two
\* groups, and a transaction removes nothing from itself.
WellGrouped(id, groups) ==
  /\ \A t \in DOMAIN groups : groups[t].tokens # {}
  /\ \A t, u \in DOMAIN groups : t # u => groups[t].tokens \cap groups[u].tokens = {}
  /\ id \in DOMAIN groups => ~groups[id].remove

\* build_receipt_change_operations and build_self_reference_operations: what
\* the snapshot must show for the change of target t to be prepared.
Buildable(id, t, change) ==
  IF t = id THEN marker[t] = "absent" /\ head[t] = 0
  ELSE /\ marker[t] = "active"
       /\ IF change.remove THEN change.tokens \subseteq edges[t]
                           ELSE change.tokens \cap edges[t] = {}

\* audit_reference_index: the head counts the edges, and a referenced receipt
\* has no anchor; otherwise the store is called corrupt.
Audited(t) ==
  /\ head[t] = Cardinality(edges[t])
  /\ edges[t] # {} => anchor[t] = NoTime

\* TransactionId::generate: distinct identities, numbered in the order of use.
InUse(id) == marker[id] # "absent" \/ \E c \in Callers : prep[c].kind # "none" /\ prep[c].id = id
FreshId(id) == ~InUse(id) /\ \A u \in Txns : u < id => InUse(u)

\* prepare_transaction_with_receipt_changes (and, with one group of one token,
\* add_receipt_reference, remove_receipt_reference and cleanup_pending).
PrepareChange(c, id, groups) ==
  /\ prep[c].kind = "none"
  /\ FreshId(id)
  /\ WellGrouped(id, groups)
  /\ \A t \in DOMAIN groups : Buildable(id, t, groups[t]) /\ Audited(t)
  /\ prep' = [prep EXCEPT ![c] =
       [kind |-> "change", id |-> id, base |-> revision, groups |-> groups,
        head |-> head, anchor |-> anchor]]
  /\ UNCHANGED <<index, now>>

\* cleanup_receipt on an unreferenced target without an anchor.
PrepareAnchor(c, id, t) ==
  /\ prep[c].kind = "none"
  /\ FreshId(id) /\ t # id
  /\ marker[t] = "active" /\ Audited(t)
  /\ edges[t] = {} /\ anchor[t] = NoTime
  /\ prep' = [prep EXCEPT ![c] =
       [kind |-> "anchor", id |-> id, base |-> revision, target |-> t, time |-> now]]
  /\ UNCHANGED <<index, now>>

\* cleanup_receipt past the deadline of the anchor.
PrepareForget(c, id, t) ==
  /\ prep[c].kind = "none"
  /\ FreshId(id) /\ t # id
  /\ marker[t] = "active" /\ Audited(t)
  /\ edges[t] = {} /\ anchor[t] # NoTime
  /\ now >= anchor[t] + Retention
  /\ prep' = [prep EXCEPT ![c] =
       [kind |-> "forget", id |-> id, base |-> revision, target |-> t, time |-> anchor[t]]]
  /\ UNCHANGED <<index, now>>

-----------------------------------------------------------------------------
\* The expectations of the prepared operations.
Expected(p) ==
  /\ marker[p.id] = "absent"
  /\ CASE p.kind = "change" ->
            \A t \in DOMAIN p.groups :
              /\ head[t] = p.head[t]
              /\ IF p.groups[t].remove THEN p.groups[t].tokens \subseteq edges[t]
                 ELSE /\ p.groups[t].tokens \cap edges[t] = {}
                      /\ t # p.id /\ p.anchor[t] # NoTime => anchor[t] = p.anchor[t]
       [] p.kind = "anchor" -> head[p.target] = 0 /\ anchor[p.target] = NoTime
       [] p.kind = "forget" ->
            /\ head[p.target] = 0 /\ anchor[p.target] = p.time
            /\ marker[p.target] = "active" /\ p.target \in receipts

\* The new head of target t, computed when the operations were built.
NewHead(p, t) ==
  IF p.groups[t].remove THEN p.head[t] - Cardinality(p.groups[t].tokens)
  ELSE p.head[t] + Cardinality(p.groups[t].tokens)

\* The changes a transaction makes to the index of its targets.
ApplyChange(p) ==
  /\ head' = [t \in Txns |-> IF t \in DOMAIN p.groups THEN NewHead(p, t) ELSE head[t]]
  /\ edges' = [t \in Txns |->
                 IF t \notin DOMAIN p.groups THEN edges[t]
                 ELSE IF p.groups[t].remove THEN edges[t] \ p.groups[t].tokens
                 ELSE edges[t] \cup p.groups[t].tokens]
  /\ anchor' = [t \in Txns |->
                  IF t \in DOMAIN p.groups /\ t # p.id /\ ~p.groups[t].remove
                     /\ p.anchor[t] # NoTime
                  THEN NoTime ELSE anchor[t]]
  /\ marker' = [marker EXCEPT ![p.id] = "active"]
  /\ receipts' = receipts \cup {p.id}

ApplyAnchor(p) ==
  /\ anchor' = [anchor EXCEPT ![p.target] = p.time]
  /\ marker' = [marker EXCEPT ![p.id] = "active"]
  /\ receipts' = receipts \cup {p.id}
  /\ UNCHANGED <<head, edges>>

\* Mutant: the used-ID marker is deleted with the receipt.
ApplyForgetDeletesMarker(p) ==
  /\ anchor' = [anchor EXCEPT ![p.target] = NoTime]
  /\ marker' = [marker EXCEPT ![p.id] = "active", ![p.target] = "absent"]
  /\ receipts' = (receipts \ {p.target}) \cup {p.id}
  /\ UNCHANGED <<head, edges>>

ApplyForget(p) ==
  /\ anchor' = [anchor EXCEPT ![p.target] = NoTime]
  /\ marker' = [marker EXCEPT ![p.id] = "active", ![p.target] = "forgotten"]
  /\ receipts' = (receipts \ {p.target}) \cup {p.id}
  /\ UNCHANGED <<head, edges>>

\* Mutant: the provider tests the expectations but not the base revision.
CommitStale(c) ==
  LET p == prep[c] IN
  /\ p.kind # "none"
  /\ Expected(p)
  /\ \/ p.kind = "change" /\ ApplyChange(p)
     \/ p.kind = "anchor" /\ ApplyAnchor(p)
     \/ p.kind = "forget" /\ ApplyForget(p)
  /\ revision' = revision + 1
  /\ prep' = [prep EXCEPT ![c] = Nothing]
  /\ UNCHANGED now

\* The provider commits the prepared transaction of c.
Commit(c) ==
  LET p == prep[c] IN
  /\ p.kind # "none"
  /\ p.base = revision
  /\ Expected(p)
  /\ \/ p.kind = "change" /\ ApplyChange(p)
     \/ p.kind = "anchor" /\ ApplyAnchor(p)
     \/ p.kind = "forget" /\ ApplyForget(p)
  /\ revision' = revision + 1
  /\ prep' = [prep EXCEPT ![c] = Nothing]
  /\ UNCHANGED now

\* Conflict, Aborted, a failed or a cancelled call.
Drop(c) ==
  /\ prep[c].kind # "none"
  /\ prep' = [prep EXCEPT ![c] = Nothing]
  /\ UNCHANGED <<index, now>>

Tick ==
  /\ now' \in Times \ {now}
  /\ UNCHANGED <<index, prep>>

\* The receipt changes of one transaction, at most MaxGroups of them.
Groups ==
  UNION {[D -> Changes] : D \in {D \in SUBSET Txns : Cardinality(D) <= MaxGroups}}

Next ==
  \/ \E c \in Callers, id \in Txns :
       /\ prep[c].kind = "none" /\ FreshId(id)
       /\ \/ \E groups \in Groups : PrepareChange(c, id, groups)
          \/ \E t \in Txns : PrepareAnchor(c, id, t) \/ PrepareForget(c, id, t)
  \/ \E c \in Callers : Commit(c) \/ Drop(c)
  \/ Tick

Spec == Init /\ [][Next]_vars

-----------------------------------------------------------------------------
Prepared ==
  {Nothing}
  \cup [kind : {"change"}, id : Txns, base : Nat, groups : Groups,
        head : [Txns -> Nat], anchor : [Txns -> {NoTime} \cup Times]]
  \cup [kind : {"anchor", "forget"}, id : Txns, base : Nat, target : Txns, time : Times]

\* Every variable has its type.
TypeOK ==
  /\ marker \in [Txns -> {"absent", "active", "forgotten"}]
  /\ head \in [Txns -> Nat]
  /\ edges \in [Txns -> SUBSET Tokens]
  /\ anchor \in [Txns -> {NoTime} \cup Times]
  /\ receipts \in SUBSET Txns
  /\ revision \in Nat
  /\ now \in Times
  /\ prep \in [Callers -> Prepared]

\* The audit never fails: whatever prepared transactions race, the head of every
\* target counts its edges and no referenced target carries an anchor, so the
\* storage_corrupt exits of audit_reference_index are unreachable.
IndexAgrees == \A t \in Txns : Audited(t)

\* A receipt that is still referenced is still there: it is neither forgotten
\* by cleanup_receipt nor missing from the provider.
ReferencedReceiptIsKept ==
  \A t \in Txns : edges[t] # {} => marker[t] = "active" /\ t \in receipts

\* The used-ID marker and the provider's receipt never disagree.
MarkerMatchesReceipt == \A t \in Txns : marker[t] = "active" <=> t \in receipts

\* A used identity stays used: once its receipt is forgotten it never becomes
\* active again, and an active one never becomes unused.
IdentityNeverReused ==
  [][\A t \in Txns :
       /\ marker[t] = "forgotten" => marker'[t] = "forgotten"
       /\ marker[t] = "active" => marker'[t] # "absent"]_vars
=============================================================================
