---------------------------- MODULE AntiEntropy ----------------------------
(***************************************************************************)
(* The three anti-entropy lanes that spawn_sync_driver runs on every node:  *)
(* resource pages (resource/sync.rs), membership descriptor pages and the   *)
(* issuer's trust snapshot (membership/sync.rs).  A node keeps a cursor and *)
(* pushes, on a tick, at most one page or snapshot to each peer it has a    *)
(* session with; nothing is acknowledged and everything may be lost.        *)
(*                                                                          *)
(* Abstractions: keys are numbers in key order; a record is the position of *)
(* its version in the order of its register, 0 when absent; a fingerprint   *)
(* is what it is the hash of; the trust snapshot is the last key's record.  *)
(* A received record enters the store in one step, when it is greater than  *)
(* the stored one (ResourceRegister has the steps).  A record that cannot   *)
(* be applied yet (its writer is unknown, its commit is refused) counts as  *)
(* a fault, like a lost packet, a broken session or a restart.              *)
(***************************************************************************)
EXTENDS Naturals, FiniteSets, Sequences

CONSTANTS
  Nodes,
  Links,        \* the sessions that may exist, as sets of two nodes
  NumKeys,      \* keys 1 .. NumKeys
  Owner,        \* the node that writes each key
  PageLimit,    \* DEFAULT_RESOURCE_PAGE_LIMIT, DEFAULT_PAGE_LIMIT
  ResendTicks,  \* RESOURCE_PAGE_RESEND_TICKS, PAGE_RESEND_TICKS, SNAPSHOT_RESEND_TICKS
  Lanes,        \* the lanes to check
  MaxVersion,   \* bound on the versions of each key's record
  MaxFaults     \* bound on faults

Keys == 1 .. NumKeys

\* What the constants are.
SyncAssumption ==
  /\ NumKeys \in Nat /\ PageLimit \in Nat \ {0} /\ ResendTicks \in Nat
  /\ MaxVersion \in [Keys -> Nat] /\ MaxFaults \in Nat
  /\ Owner \in [Keys -> Nodes]
  /\ Lanes \subseteq {"resource", "membership", "snapshot"}
  /\ \A l \in Links : l \subseteq Nodes /\ Cardinality(l) = 2

VARIABLES
  lane,    \* which lane this behaviour is about
  store,   \* the version of each key at each node
  cursor,  \* the driver's cursor at each node
  up,      \* the links with a live session
  net,     \* payloads on their way, for each ordered pair of nodes
  fresh,   \* peers connected since the node's last tick
  faults   \* faults so far

vars == <<lane, store, cursor, up, net, fresh, faults>>

Pairs == {p \in Nodes \X Nodes : {p[1], p[2]} \in Links}
Peers(n) == {m \in Nodes : {n, m} \in up}

\* A fingerprint that no page has: the cursor of a driver that just started.
NoPage == [items |-> <<>>, more |-> FALSE, none |-> TRUE]
StartCursor == [page |-> 0, fingerprint |-> NoPage, peers |-> {}, ticks |-> 0]

Start(l) ==
  /\ lane = l
  /\ store = [n \in Nodes |-> [k \in Keys |-> 0]]
  /\ cursor = [n \in Nodes |-> StartCursor]
  /\ up = {}
  /\ net = [p \in Pairs |-> <<>>]
  /\ fresh = [n \in Nodes |-> {}]
  /\ faults = 0

Init == \E l \in Lanes : Start(l)

-----------------------------------------------------------------------------
\* put_resource, ensure_local_descriptor, refresh_issuer_snapshot: the owner of
\* a key installs its next version.
Write(k) ==
  LET n == Owner[k] IN
  /\ lane = "snapshot" => k = NumKeys
  /\ store[n][k] < MaxVersion[k]
  /\ store' = [store EXCEPT ![n][k] = @ + 1]
  /\ UNCHANGED <<lane, cursor, up, net, fresh, faults>>

\* emit_page_ctx and scan_paged: the first PageLimit records after key c, and
\* whether another one follows.
After(n, c) == {k \in Keys : k > c /\ store[n][k] # 0}
PageKeys(n, c) == {k \in After(n, c) : Cardinality({j \in After(n, c) : j <= k}) <= PageLimit}
Page(n, c) ==
  [items |-> [k \in PageKeys(n, c) |-> store[n][k]],
   more |-> PageKeys(n, c) # After(n, c), none |-> FALSE]
NextCursor(page) ==
  IF page.more THEN CHOOSE k \in DOMAIN page.items : \A j \in DOMAIN page.items : j <= k ELSE 0

\* Whether a tick sends: a round that has begun goes on; a round begins when the
\* first page or the set of peers has changed, and from time to time.
Due(n, page) ==
  \/ cursor[n].page # 0
  \/ page # cursor[n].fingerprint
  \/ lane # "snapshot" /\ Peers(n) # cursor[n].peers
  \/ cursor[n].ticks >= ResendTicks

\* send_payload: fire and forget; a payload on its way is not sent twice.
Sent(n, page, due) ==
  [p \in Pairs |->
     IF due /\ p[1] = n /\ p[2] \in Peers(n) /\ ~\E i \in DOMAIN net[p] : net[p][i] = page.items
     THEN Append(net[p], page.items) ELSE net[p]]

\* resource_sync_tick and sync_tick.  The resource lane returns early without
\* peers; the snapshot lane has nothing to do without a snapshot.
Tick(n) ==
  LET page == Page(n, cursor[n].page)
      due == Due(n, page)
  IN /\ lane = "resource" => Peers(n) # {}
     /\ lane = "snapshot" => store[n][NumKeys] # 0
     /\ cursor' = [cursor EXCEPT ![n] =
          [page |-> IF due THEN NextCursor(page) ELSE @.page,
           fingerprint |-> IF @.page = 0 THEN page ELSE @.fingerprint,
           peers |-> Peers(n),
           ticks |-> IF due THEN 0 ELSE @.ticks + 1]]
     /\ net' = Sent(n, page, due)
     /\ fresh' = [fresh EXCEPT ![n] = {}]
     /\ UNCHANGED <<lane, store, up, faults>>

\* apply_page_ctx, persist_snapshot_ctx: each record enters if it is greater.
Applied(m, items, keys) ==
  [store EXCEPT ![m] = [k \in Keys |->
     IF k \in keys /\ items[k] > store[m][k] THEN items[k] ELSE store[m][k]]]

\* A payload arrives, out of order or with some record not applied by a fault.
Deliver(p, i, keys) ==
  LET items == net[p][i]
      fault == i # 1 \/ keys # DOMAIN items
  IN /\ i \in DOMAIN net[p] /\ keys \subseteq DOMAIN items
     /\ fault => faults < MaxFaults
     /\ faults' = IF fault THEN faults + 1 ELSE faults
     /\ net' = [net EXCEPT ![p] = SubSeq(@, 1, i - 1) \o SubSeq(@, i + 1, Len(@))]
     /\ store' = Applied(p[2], items, keys)
     /\ UNCHANGED <<lane, cursor, up, fresh>>

Fault == faults < MaxFaults /\ faults' = faults + 1

\* Sessions that end lose what they carry.
Cut(S) == [p \in Pairs |-> IF {p[1], p[2]} \in S THEN <<>> ELSE net[p]]

Break(l) ==
  /\ Fault
  /\ l \in up
  /\ up' = up \ {l}
  /\ net' = Cut({l})
  /\ UNCHANGED <<lane, store, cursor, fresh>>

\* The recovery driver or a peer opens the session again.
Connect(l) ==
  /\ l \in Links \ up
  /\ up' = up \cup {l}
  /\ fresh' = [n \in Nodes |-> IF n \in l THEN fresh[n] \cup (l \ {n}) ELSE fresh[n]]
  /\ UNCHANGED <<lane, store, cursor, net, faults>>

\* The process restarts: the store stays, the driver starts over.
Restart(n) ==
  /\ Fault
  /\ cursor' = [cursor EXCEPT ![n] = StartCursor]
  /\ up' = {l \in up : n \notin l}
  /\ net' = Cut({l \in Links : n \in l})
  /\ fresh' = [fresh EXCEPT ![n] = {}]
  /\ UNCHANGED <<lane, store>>

Arrive(p) == \E i \in DOMAIN net[p] : \E keys \in SUBSET DOMAIN net[p][i] : Deliver(p, i, keys)

Next ==
  \/ \E k \in Keys : Write(k)
  \/ \E n \in Nodes : Tick(n) \/ Restart(n)
  \/ \E p \in Pairs : Arrive(p)
  \/ \E l \in Links : Break(l) \/ Connect(l)

Spec == Init /\ [][Next]_vars

\* The interval timer fires, packets of a live session arrive, and sessions are
\* dialled again (membership/recovery.rs).
FairSpec ==
  /\ Spec
  /\ \A n \in Nodes : WF_vars(Tick(n))
  /\ \A p \in Pairs : WF_vars(Arrive(p))
  /\ \A l \in Links : WF_vars(Connect(l))

-----------------------------------------------------------------------------
\* Every variable has its type.
TypeOK ==
  /\ lane \in Lanes
  /\ \A n \in Nodes : store[n] \in [Keys -> Nat] /\ \A k \in Keys : store[n][k] <= MaxVersion[k]
  /\ up \subseteq Links
  /\ \A n \in Nodes : cursor[n].page \in 0 .. NumKeys /\ cursor[n].ticks \in 0 .. ResendTicks
  /\ \A p \in Pairs : \A i \in DOMAIN net[p] : DOMAIN net[p][i] \subseteq Keys
  /\ faults \in 0 .. MaxFaults


\* A peer that has connected since the last tick is sent the first page on the
\* next one ("a newly connected peer must receive the current page immediately,
\* changed set or not", resource/sync.rs:129).
NewPeerServed ==
  [][\A n \in Nodes :
       fresh[n] # {} /\ fresh'[n] = {} /\ cursor'[n] # StartCursor /\ After(n, 0) # {} =>
         \A m \in fresh[n] \cap Peers(n) :
           \E i \in DOMAIN net'[<<n, m>>] : net'[<<n, m>>][i] = Page(n, 0).items]_vars
=============================================================================
