---------------------- MODULE ReceiptReferencesProofs ----------------------
(***************************************************************************)
(* The receipt-reference index is sound for every number of transactions,   *)
(* tokens and callers.  The invariant that makes it inductive says what a   *)
(* prepared transaction whose base revision is still current has read.      *)
(***************************************************************************)
EXTENDS ReceiptReferences, FiniteSetTheorems, TLAPS

USE DEF index

\* What a caller read when it prepared is still so while the revision is its
\* base; no prepared transaction is ahead of the store.
PrepCurrent ==
  \A c \in Callers : prep[c].kind # "none" =>
    /\ prep[c].base <= revision
    /\ prep[c].base = revision /\ prep[c].kind = "change" =>
         \A t \in DOMAIN prep[c].groups :
           /\ t # prep[c].id => marker[t] = "active"
           /\ prep[c].anchor[t] = anchor[t]
    /\ prep[c].base = revision /\ prep[c].kind = "anchor" => marker[prep[c].target] = "active"

\* Only an active receipt is anchored.
AnchorIsActive == \A t \in Txns : anchor[t] # NoTime => marker[t] = "active"

IInv ==
  /\ TypeOK /\ PrepCurrent /\ AnchorIsActive
  /\ IndexAgrees /\ ReferencedReceiptIsKept /\ MarkerMatchesReceipt

-----------------------------------------------------------------------------
\* A group map has changes for transactions only.
LEMMA GroupsType ==
  ASSUME NEW g \in Groups
  PROVE  DOMAIN g \subseteq Txns /\ \A t \in DOMAIN g : g[t] \in Changes
  BY DEF Groups

\* A prepared transaction has the fields of its kind.
LEMMA PreparedType ==
  ASSUME NEW p \in Prepared, p.kind # "none"
  PROVE  /\ p.id \in Txns /\ p.base \in Nat /\ p.kind \in {"change", "anchor", "forget"}
         /\ p.kind = "change" => /\ p.groups \in Groups /\ p.head \in [Txns -> Nat]
                                 /\ p.anchor \in [Txns -> {NoTime} \cup Times]
         /\ p.kind \in {"anchor", "forget"} => p.target \in Txns /\ p.time \in Times
  BY DEF Prepared, Nothing

\* What adding tokens to, or removing them from, the edges of a target does to
\* their number.
LEMMA EdgeCount ==
  ASSUME NEW S \in SUBSET Tokens, NEW T \in SUBSET Tokens
  PROVE  /\ Cardinality(S) \in Nat /\ Cardinality(T) \in Nat
         /\ S \cap T = {} => Cardinality(S \cup T) = Cardinality(S) + Cardinality(T)
         /\ T \subseteq S => Cardinality(S \ T) = Cardinality(S) - Cardinality(T)
         /\ Cardinality(S) = 0 <=> S = {}
  <1>1. IsFiniteSet(S) /\ IsFiniteSet(T)
    BY ReceiptAssumption, FS_Subset DEF ReceiptAssumption
  <1>2. Cardinality(S) \in Nat /\ Cardinality(T) \in Nat
    BY <1>1, FS_CardinalityType
  <1>3. S \cap T = {} => Cardinality(S \cup T) = Cardinality(S) + Cardinality(T)
    <2> SUFFICES ASSUME S \cap T = {} PROVE Cardinality(S \cup T) = Cardinality(S) + Cardinality(T)
      OBVIOUS
    <2>1. Cardinality(S \cap T) = 0
      BY FS_EmptySet
    <2>2. Cardinality(S \cup T) = Cardinality(S) + Cardinality(T) - Cardinality(S \cap T)
      BY <1>1, FS_Union, Zenon
    <2> QED BY <1>2, <2>1, <2>2
  <1>4. T \subseteq S => Cardinality(S \ T) = Cardinality(S) - Cardinality(T)
    <2> SUFFICES ASSUME T \subseteq S PROVE Cardinality(S \ T) = Cardinality(S) - Cardinality(T)
      OBVIOUS
    <2>1. S \cap T = T
      OBVIOUS
    <2> QED BY <1>1, <1>2, <2>1, FS_Difference
  <1>5. Cardinality(S) = 0 <=> S = {}
    BY <1>1, FS_EmptySet
  <1> QED BY <1>2, <1>3, <1>4, <1>5
-----------------------------------------------------------------------------
LEMMA InitIInv == Init => IInv
  <1> SUFFICES ASSUME Init PROVE IInv
    OBVIOUS
  <1>1. TypeOK
    BY DEF Init, TypeOK, Prepared, NoTime
  <1>2. \A t \in Txns : Audited(t)
    BY FS_EmptySet DEF Init, Audited
  <1> QED BY <1>1, <1>2 DEF Init, IInv, PrepCurrent, AnchorIsActive, IndexAgrees,
                        ReferencedReceiptIsKept, MarkerMatchesReceipt, Nothing

\* Preparing reads the index and leaves it alone.
LEMMA PrepareKeeps ==
  ASSUME IInv, NEW c \in Callers, NEW id \in Txns,
         \/ \E g \in Groups : PrepareChange(c, id, g)
         \/ \E t \in Txns : PrepareAnchor(c, id, t) \/ PrepareForget(c, id, t)
  PROVE  IInv'
  <1>1. UNCHANGED <<index, now>>
    BY DEF PrepareChange, PrepareAnchor, PrepareForget
  <1>2. PICK p \in Prepared :
          /\ prep' = [prep EXCEPT ![c] = p]
          /\ p.kind # "none" /\ p.base = revision
          /\ p.kind = "change" =>
               \A t \in DOMAIN p.groups : (t # p.id => marker[t] = "active") /\ p.anchor[t] = anchor[t]
          /\ p.kind = "anchor" => marker[p.target] = "active"
    <2>1. ASSUME NEW g \in Groups, PrepareChange(c, id, g)
          PROVE  \E p \in Prepared :
                   /\ prep' = [prep EXCEPT ![c] = p]
                   /\ p.kind # "none" /\ p.base = revision
                   /\ p.kind = "change" =>
                        \A t \in DOMAIN p.groups :
                          (t # p.id => marker[t] = "active") /\ p.anchor[t] = anchor[t]
                   /\ p.kind = "anchor" => marker[p.target] = "active"
      <3> DEFINE p == [kind |-> "change", id |-> id, base |-> revision, groups |-> g,
                       head |-> head, anchor |-> anchor]
      <3>1. p \in Prepared
        BY DEF Prepared, IInv, TypeOK
      <3>2. \A t \in DOMAIN g : t # id => marker[t] = "active"
        BY <2>1 DEF PrepareChange, Buildable
      <3>3. prep' = [prep EXCEPT ![c] = p]
        BY <2>1 DEF PrepareChange
      <3> QED BY <3>1, <3>2, <3>3
    <2>2. ASSUME NEW t \in Txns, PrepareAnchor(c, id, t)
          PROVE  \E p \in Prepared :
                   /\ prep' = [prep EXCEPT ![c] = p]
                   /\ p.kind = "anchor" /\ p.base = revision /\ marker[p.target] = "active"
      <3> DEFINE p == [kind |-> "anchor", id |-> id, base |-> revision, target |-> t, time |-> now]
      <3>1. p \in Prepared
        BY DEF Prepared, IInv, TypeOK
      <3> QED BY <2>2, <3>1 DEF PrepareAnchor
    <2>3. ASSUME NEW t \in Txns, PrepareForget(c, id, t)
          PROVE  \E p \in Prepared :
                   /\ prep' = [prep EXCEPT ![c] = p]
                   /\ p.kind = "forget" /\ p.base = revision
      <3> DEFINE p == [kind |-> "forget", id |-> id, base |-> revision, target |-> t,
                       time |-> anchor[t]]
      <3>1. p \in Prepared
        BY <2>3 DEF Prepared, IInv, TypeOK, PrepareForget
      <3> QED BY <2>3, <3>1 DEF PrepareForget
    <2> QED BY <2>1, <2>2, <2>3
  <1>3. TypeOK'
    BY <1>1, <1>2 DEF IInv, TypeOK
  <1>4. PrepCurrent'
    <2>1. prep'[c] = p /\ \A d \in Callers : d # c => prep'[d] = prep[d]
      BY <1>2 DEF IInv, TypeOK
    <2>2. revision \in Nat
      BY DEF IInv, TypeOK
    <2> QED BY <1>1, <1>2, <2>1, <2>2 DEF IInv, PrepCurrent
  <1> QED BY <1>1, <1>3, <1>4 DEF IInv, AnchorIsActive, IndexAgrees, Audited,
                                  ReferencedReceiptIsKept, MarkerMatchesReceipt
-----------------------------------------------------------------------------
\* Facts every commit starts from.
LEMMA CommitFacts ==
  ASSUME IInv, NEW c \in Callers, Commit(c)
  PROVE  /\ prep[c] \in Prepared /\ prep[c].kind # "none" /\ prep[c].id \in Txns
         /\ prep[c].base = revision /\ Expected(prep[c]) /\ marker[prep[c].id] = "absent"
         /\ revision \in Nat /\ revision' = revision + 1 /\ now' = now
         /\ prep' = [prep EXCEPT ![c] = Nothing]
         /\ edges[prep[c].id] = {} /\ anchor[prep[c].id] = NoTime
  <1>1. /\ prep[c] \in Prepared /\ prep[c].kind # "none"
        /\ prep[c].base = revision /\ Expected(prep[c]) /\ revision \in Nat
        /\ revision' = revision + 1 /\ now' = now /\ prep' = [prep EXCEPT ![c] = Nothing]
    BY DEF IInv, TypeOK, Commit
  <1>2. prep[c].id \in Txns
    BY <1>1, PreparedType
  <1>3. marker[prep[c].id] = "absent"
    BY <1>1 DEF Expected
  <1> QED BY <1>1, <1>2, <1>3 DEF IInv, ReferencedReceiptIsKept, AnchorIsActive

\* After a commit every other prepared transaction is behind the store.
LEMMA CommitOutdates ==
  ASSUME IInv, NEW c \in Callers, Commit(c)
  PROVE  PrepCurrent' /\ prep' \in [Callers -> Prepared] /\ revision' \in Nat /\ now' \in Times
  <1>1. prep' \in [Callers -> Prepared]
    BY CommitFacts DEF IInv, TypeOK, Prepared
  <1>2. \A d \in Callers : prep'[d].kind # "none" => d # c /\ prep'[d] = prep[d]
    BY CommitFacts DEF IInv, TypeOK, Nothing
  <1>3. \A d \in Callers : prep'[d].kind # "none" =>
          prep[d].base \in Nat /\ prep[d].base <= revision
    BY <1>2, PreparedType DEF IInv, TypeOK, PrepCurrent
  <1>4. \A d \in Callers : prep'[d].kind # "none" =>
          prep'[d].base <= revision' /\ prep'[d].base # revision'
    BY <1>2, <1>3, CommitFacts
  <1> QED BY <1>1, <1>4, CommitFacts DEF PrepCurrent, IInv, TypeOK

LEMMA ChangeKeeps ==
  ASSUME IInv, NEW c \in Callers, Commit(c), prep[c].kind = "change", ApplyChange(prep[c])
  PROVE  IInv'
  <1> DEFINE p == prep[c]
  <1>1. p.groups \in Groups /\ p.head \in [Txns -> Nat]
    BY CommitFacts, PreparedType
  <1>2. DOMAIN p.groups \subseteq Txns /\ \A t \in DOMAIN p.groups : p.groups[t] \in Changes
    BY <1>1, GroupsType
  <1>3. \A t \in DOMAIN p.groups :
          /\ head[t] = p.head[t]
          /\ p.groups[t].remove => p.groups[t].tokens \subseteq edges[t]
          /\ ~p.groups[t].remove => p.groups[t].tokens \cap edges[t] = {}
          /\ t # p.id => marker[t] = "active"
          /\ p.anchor[t] = anchor[t]
    BY CommitFacts DEF Expected, IInv, PrepCurrent
  <1>4. \A t \in Txns : /\ edges[t] \in SUBSET Tokens /\ head[t] = Cardinality(edges[t])
                        /\ edges[t] # {} => anchor[t] = NoTime
    BY DEF IInv, TypeOK, IndexAgrees, Audited
  <1>5. \A t \in Txns : /\ edges'[t] \in SUBSET Tokens
                        /\ head'[t] \in Nat /\ head'[t] = Cardinality(edges'[t])
    <2> SUFFICES ASSUME NEW t \in Txns
                 PROVE  /\ edges'[t] \in SUBSET Tokens
                        /\ head'[t] \in Nat /\ head'[t] = Cardinality(edges'[t])
      OBVIOUS
    <2>1. CASE t \notin DOMAIN p.groups
      <3>1. edges'[t] = edges[t] /\ head'[t] = head[t]
        BY <2>1 DEF ApplyChange
      <3>2. edges[t] \in SUBSET Tokens /\ head[t] = Cardinality(edges[t])
        BY <1>4
      <3>3. Cardinality(edges[t]) \in Nat
        BY <3>2, EdgeCount
      <3> QED BY <3>1, <3>2, <3>3
    <2>2. CASE t \in DOMAIN p.groups /\ p.groups[t].remove
      <3> DEFINE T == p.groups[t].tokens
      <3>1. T \in SUBSET Tokens
        BY <1>2, <2>2 DEF Changes
      <3>2. edges'[t] = edges[t] \ T /\ head'[t] = head[t] - Cardinality(T) /\ T \subseteq edges[t]
        BY <1>3, <2>2 DEF ApplyChange, NewHead
      <3>3. edges'[t] \in SUBSET Tokens
        BY <1>4, <3>2
      <3> HIDE DEF T
      <3>4. Cardinality(edges'[t]) = Cardinality(edges[t]) - Cardinality(T)
        <4>1. edges[t] \in SUBSET Tokens
          BY <1>4
        <4>2. Cardinality(edges[t] \ T) = Cardinality(edges[t]) - Cardinality(T)
          BY <3>1, <3>2, <4>1, EdgeCount, Zenon
        <4> QED BY <3>2, <4>2
      <3>5. Cardinality(edges'[t]) \in Nat
        BY <3>3, EdgeCount
      <3> QED BY <1>4, <3>2, <3>3, <3>4, <3>5
    <2>3. CASE t \in DOMAIN p.groups /\ ~p.groups[t].remove
      <3> DEFINE T == p.groups[t].tokens
      <3>1. T \in SUBSET Tokens
        BY <1>2, <2>3 DEF Changes
      <3>2. edges'[t] = edges[t] \cup T /\ head'[t] = head[t] + Cardinality(T) /\ edges[t] \cap T = {}
        BY <1>3, <2>3 DEF ApplyChange, NewHead
      <3>3. edges'[t] \in SUBSET Tokens
        BY <1>4, <3>1, <3>2
      <3> HIDE DEF T
      <3>4. Cardinality(edges'[t]) = Cardinality(edges[t]) + Cardinality(T)
        BY <1>4, <3>1, <3>2, EdgeCount
      <3>5. Cardinality(edges'[t]) \in Nat
        BY <3>3, EdgeCount
      <3> QED BY <1>4, <3>2, <3>3, <3>4, <3>5
    <2> QED BY <2>1, <2>2, <2>3
  <1>6. \A t \in Txns : /\ anchor'[t] \in {NoTime} \cup Times
                        /\ anchor'[t] # NoTime => anchor'[t] = anchor[t]
                        /\ edges'[t] # {} => anchor'[t] = NoTime
    <2> SUFFICES ASSUME NEW t \in Txns
                 PROVE  /\ anchor'[t] \in {NoTime} \cup Times
                        /\ anchor'[t] # NoTime => anchor'[t] = anchor[t]
                        /\ edges'[t] # {} => anchor'[t] = NoTime
      OBVIOUS
    <2>1. anchor[t] \in {NoTime} \cup Times
      BY DEF IInv, TypeOK
    <2>2. anchor'[t] = anchor[t] \/ anchor'[t] = NoTime
      BY DEF ApplyChange
    <2>3. edges'[t] # {} => anchor'[t] = NoTime
      BY <1>3, <1>4, <2>2, CommitFacts DEF ApplyChange
    <2> QED BY <2>1, <2>2, <2>3
  <1>7. \A t \in Txns : marker'[t] = IF t = p.id THEN "active" ELSE marker[t]
    BY DEF ApplyChange, IInv, TypeOK
  <1>8. TypeOK'
    <2>1. head' \in [Txns -> Nat] /\ edges' \in [Txns -> SUBSET Tokens]
      BY <1>5 DEF ApplyChange
    <2>2. anchor' \in [Txns -> {NoTime} \cup Times]
      BY <1>6 DEF ApplyChange
    <2>3. marker' \in [Txns -> {"absent", "active", "forgotten"}] /\ receipts' \in SUBSET Txns
      BY CommitFacts DEF ApplyChange, IInv, TypeOK
    <2> QED BY <2>1, <2>2, <2>3, CommitOutdates DEF TypeOK
  <1>9. receipts' = receipts \cup {p.id}
    BY DEF ApplyChange
  <1>10. IndexAgrees'
    BY <1>5, <1>6 DEF IndexAgrees, Audited
  <1>11. AnchorIsActive' /\ MarkerMatchesReceipt'
    BY <1>6, <1>7, <1>9 DEF IInv, AnchorIsActive, MarkerMatchesReceipt
  <1>12. ReferencedReceiptIsKept'
    <2> SUFFICES ASSUME NEW t \in Txns, edges'[t] # {}
                 PROVE  marker'[t] = "active" /\ t \in receipts'
      BY DEF ReferencedReceiptIsKept
    <2>1. marker'[t] = "active"
      <3>1. CASE t = p.id
        BY <3>1, <1>7
      <3>2. CASE t # p.id /\ t \in DOMAIN p.groups
        BY <3>2, <1>3, <1>7
      <3>3. CASE t \notin DOMAIN p.groups
        <4>1. edges'[t] = edges[t]
          BY <3>3 DEF ApplyChange
        <4> QED BY <4>1, <1>7 DEF IInv, ReferencedReceiptIsKept
      <3> QED BY <3>1, <3>2, <3>3
    <2> QED BY <2>1, <1>11 DEF MarkerMatchesReceipt
  <1> QED BY <1>8, <1>10, <1>11, <1>12, CommitOutdates DEF IInv

LEMMA AnchorKeeps ==
  ASSUME IInv, NEW c \in Callers, Commit(c), prep[c].kind = "anchor", ApplyAnchor(prep[c])
  PROVE  IInv'
  <1> DEFINE p == prep[c]
  <1>1. p.target \in Txns /\ p.time \in Times /\ head[p.target] = 0 /\ marker[p.target] = "active"
    BY CommitFacts, PreparedType DEF Expected, IInv, PrepCurrent
  <1>2. edges[p.target] = {}
    BY <1>1, EdgeCount DEF IInv, TypeOK, IndexAgrees, Audited
  <1>3. TypeOK'
    BY <1>1, CommitFacts, CommitOutdates DEF ApplyAnchor, IInv, TypeOK
  <1>4. \A t \in Txns : marker'[t] = IF t = p.id THEN "active" ELSE marker[t]
    BY DEF ApplyAnchor, IInv, TypeOK
  <1>5. \A t \in Txns : anchor'[t] = IF t = p.target THEN p.time ELSE anchor[t]
    BY DEF ApplyAnchor, IInv, TypeOK
  <1>6. receipts' = receipts \cup {p.id} /\ UNCHANGED <<head, edges>>
    BY DEF ApplyAnchor
  <1> QED BY <1>1, <1>2, <1>3, <1>4, <1>5, <1>6, CommitOutdates
          DEF IInv, AnchorIsActive, IndexAgrees, Audited, ReferencedReceiptIsKept,
              MarkerMatchesReceipt

LEMMA ForgetKeeps ==
  ASSUME IInv, NEW c \in Callers, Commit(c), prep[c].kind = "forget", ApplyForget(prep[c])
  PROVE  IInv'
  <1> DEFINE p == prep[c]
  <1>1. /\ p.target \in Txns /\ head[p.target] = 0 /\ marker[p.target] = "active"
        /\ p.target # p.id
    BY CommitFacts, PreparedType DEF Expected
  <1>2. edges[p.target] = {}
    BY <1>1, EdgeCount DEF IInv, TypeOK, IndexAgrees, Audited
  <1>3. TypeOK'
    BY <1>1, CommitFacts, CommitOutdates DEF ApplyForget, IInv, TypeOK
  <1>4. \A t \in Txns : marker'[t] = IF t = p.target THEN "forgotten"
                                     ELSE IF t = p.id THEN "active" ELSE marker[t]
    BY <1>1 DEF ApplyForget, IInv, TypeOK
  <1>5. \A t \in Txns : anchor'[t] = IF t = p.target THEN NoTime ELSE anchor[t]
    BY DEF ApplyForget, IInv, TypeOK
  <1>6. receipts' = (receipts \ {p.target}) \cup {p.id} /\ UNCHANGED <<head, edges>>
    BY DEF ApplyForget
  <1> QED BY <1>1, <1>2, <1>3, <1>4, <1>5, <1>6, CommitOutdates
          DEF IInv, AnchorIsActive, IndexAgrees, Audited, ReferencedReceiptIsKept,
              MarkerMatchesReceipt

LEMMA NextKeepsIInv == IInv /\ [Next]_vars => IInv'
  <1> SUFFICES ASSUME IInv, [Next]_vars PROVE IInv'
    OBVIOUS
  <1>1. CASE UNCHANGED vars
    BY <1>1 DEF vars, IInv, TypeOK, PrepCurrent, AnchorIsActive, IndexAgrees, Audited,
                ReferencedReceiptIsKept, MarkerMatchesReceipt
  <1>2. ASSUME NEW c \in Callers, Commit(c) PROVE IInv'
    BY <1>2, ChangeKeeps, AnchorKeeps, ForgetKeeps DEF Commit
  <1>3. ASSUME NEW c \in Callers, Drop(c) PROVE IInv'
    <2>1. prep' \in [Callers -> Prepared]
      BY <1>3 DEF Drop, IInv, TypeOK, Prepared
    <2>2. \A d \in Callers : prep'[d].kind # "none" => prep'[d] = prep[d]
      BY <1>3 DEF Drop, IInv, TypeOK, Nothing
    <2>3. UNCHANGED <<index, now>>
      BY <1>3 DEF Drop
    <2>4. PrepCurrent'
      BY <2>2, <2>3 DEF IInv, PrepCurrent
    <2> QED BY <2>1, <2>3, <2>4
            DEF IInv, TypeOK, AnchorIsActive, IndexAgrees, Audited, ReferencedReceiptIsKept,
                MarkerMatchesReceipt
  <1>4. CASE Tick
    BY <1>4 DEF Tick, IInv, TypeOK, PrepCurrent, AnchorIsActive, IndexAgrees, Audited,
                ReferencedReceiptIsKept, MarkerMatchesReceipt
  <1> QED BY <1>1, <1>2, <1>3, <1>4, PrepareKeeps DEF Next

\* Every variable of the index keeps its type.
THEOREM IndexTypeCorrect == Spec => []TypeOK
  <1>1. IInv => TypeOK
    BY DEF IInv
  <1> QED BY <1>1, InitIInv, NextKeepsIInv, PTL DEF Spec

\* The head of every target counts its edges and no referenced target has an
\* anchor, for every number of callers, transactions and tokens: the audit of
\* audit_reference_index never fails.
THEOREM IndexIsSound == Spec => []IndexAgrees
  <1>1. IInv => IndexAgrees
    BY DEF IInv
  <1> QED BY <1>1, InitIInv, NextKeepsIInv, PTL DEF Spec

\* A receipt that is still referenced has been neither forgotten nor dropped by
\* the provider, whatever cleanups and reference changes race.
THEOREM ReferencesKeepReceipts == Spec => []ReferencedReceiptIsKept
  <1>1. IInv => ReferencedReceiptIsKept
    BY DEF IInv
  <1> QED BY <1>1, InitIInv, NextKeepsIInv, PTL DEF Spec

\* The used-ID markers and the provider's receipts always agree.
THEOREM MarkersMatchReceipts == Spec => []MarkerMatchesReceipt
  <1>1. IInv => MarkerMatchesReceipt
    BY DEF IInv
  <1> QED BY <1>1, InitIInv, NextKeepsIInv, PTL DEF Spec

\* No step of any caller makes a used identity usable again.
THEOREM UsedStaysUsed == Spec => IdentityNeverReused
  <1>1. IInv /\ [Next]_vars =>
          [\A t \in Txns : /\ marker[t] = "forgotten" => marker'[t] = "forgotten"
                           /\ marker[t] = "active" => marker'[t] # "absent"]_vars
    <2> SUFFICES ASSUME IInv, [Next]_vars, NEW t \in Txns
                 PROVE  /\ marker[t] = "forgotten" => marker'[t] = "forgotten"
                        /\ marker[t] = "active" => marker'[t] # "absent"
      OBVIOUS
    <2>1. CASE marker' = marker
      BY <2>1
    <2>2. ASSUME NEW c \in Callers, Commit(c)
          PROVE  /\ marker[t] = "forgotten" => marker'[t] = "forgotten"
                 /\ marker[t] = "active" => marker'[t] # "absent"
      <3>1. CASE prep[c].kind = "forget" /\ ApplyForget(prep[c])
        <4>1. prep[c].target \in Txns /\ marker[prep[c].target] = "active"
          BY <2>2, <3>1, CommitFacts, PreparedType DEF Expected
        <4> QED BY <2>2, <3>1, <4>1, CommitFacts DEF ApplyForget, IInv, TypeOK
      <3>2. CASE ApplyChange(prep[c]) \/ ApplyAnchor(prep[c])
        BY <2>2, <3>2, CommitFacts DEF ApplyChange, ApplyAnchor, IInv, TypeOK
      <3> QED BY <2>2, <3>1, <3>2 DEF Commit
    <2> QED BY <2>1, <2>2 DEF Next, vars, PrepareChange, PrepareAnchor, PrepareForget, Drop, Tick
  <1> QED BY <1>1, InitIInv, NextKeepsIInv, PTL DEF Spec, IdentityNeverReused
=============================================================================
