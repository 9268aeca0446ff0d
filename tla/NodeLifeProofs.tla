--------------------------- MODULE NodeLifeProofs ---------------------------
(***************************************************************************)
(* That a node keeps the key of its stored identity and no other, forgets  *)
(* the cluster it left and finishes a pending leave before it serves, for  *)
(* every number of clients, commands and failures.                         *)
(*                                                                         *)
(* The stored records alone do not say why a step of a procedure is safe:  *)
(* a leave deletes the former key because the swap has committed, and it   *)
(* forgets its intent because the tombstone has.  Each step of a procedure *)
(* therefore has a precondition on the records and the provider (Before),  *)
(* which its predecessor establishes and nobody else can disturb.          *)
(***************************************************************************)
EXTENDS NodeLife, TLAPS

-----------------------------------------------------------------------------
\* The inductive invariant.

Purposes == {"local", "genesis", "adoption", "deletion"}

DbType ==
  [ident : Ids \cup {None}, create : Ids \cup {None},
   leave : [former : Ids \cup {None}, replacement : Ids \cup {None}],
   deleting : SUBSET Ids, deleted : SUBSET Ids, journal : SUBSET Purposes,
   cluster : SUBSET Ids, trace : SUBSET (Ids \cup {None})]

NodeType ==
  [status : {"down", "starting", "running", "closing", "stopped", "failed"},
   reason : {"none", "explicit", "activeLeave", "fatal"},
   goal : {"none", "explicit", "activeLeave"}, ctx : Ids \cup {None}, at : Steps, then : Steps,
   purpose : Purposes \cup {"none"}, tries : Nat, attempts : Nat, stale : BOOLEAN,
   blocked : BOOLEAN, serving : Clients \cup {Nobody}]

\* The part of the state the argument is about is well typed.
Typed ==
  /\ db \in DbType
  /\ keys \in SUBSET Ids
  /\ node \in NodeType

Leaves == db.leave # NoLeave

\* The records and the provider: whom the keys belong to, and what a pending
\* creation, leave and deletion say of each other.
Custody ==
  /\ db.ident # None => db.ident \in keys /\ db.create = None
  /\ keys \subseteq {db.ident, db.create, db.leave.former, db.leave.replacement}
  /\ db.ident = None => db.deleted = {}
  /\ keys \cap db.deleted = {}
  /\ db.deleting \cap db.deleted = {}
  /\ {db.ident, db.create, db.leave.replacement} \cap (db.deleting \cup db.deleted) = {}
  /\ db.deleting \subseteq {db.leave.former}
  /\ Leaves => /\ db.leave.former # None /\ db.leave.replacement # None
               /\ db.leave.former # db.leave.replacement
               /\ db.ident \in {db.leave.former, db.leave.replacement}

\* Cluster records outside a pending leave are the stored identity's.
Membership == ~Leaves => db.cluster \subseteq {db.ident}

Swapped == Leaves /\ db.ident = db.leave.replacement
Wiped == Swapped /\ db.cluster = {}

\* What has been done when the procedure is at step l.
Before(l) ==
  /\ l = "intent" => db.ident = None /\ db.create = None
  /\ l \in {"createKey", "reconcileCreate", "finalize"} => db.create # None
  /\ l = "finalize" => db.create \in keys
  /\ l \in {"resume", "ready"} => db.ident # None /\ node.ctx = db.ident
  /\ l \in {"ready", "left", "leaveIntent"} => ~Leaves
  /\ l \in {"runLeave", "reconcileReplacement", "createReplacement", "swap"} => Leaves
  /\ l \in {"reconcileReplacement", "createReplacement"} => db.ident = db.leave.former
  /\ l = "swap" => db.leave.replacement \in keys
  /\ l = "wipeCluster" => Swapped
  /\ l \in {"wipeTrace", "deleteFormer", "retryDeletion", "deletionIntent", "reconcileDelete",
            "deleteKey", "tombstone", "complete"} => Wiped
  /\ l \in {"reconcileDelete", "deleteKey"} => db.leave.former \in db.deleting
  /\ l = "tombstone" => db.leave.former \notin keys
  /\ l = "complete" => db.leave.former \in db.deleted

StartSteps == {"open", "discover", "intent", "createKey", "reconcileCreate", "finalize", "resume", "ready"}
LeaveSteps == {"runLeave", "reconcileReplacement", "createReplacement", "swap", "wipeCluster", "wipeTrace",
               "deleteFormer", "retryDeletion", "deletionIntent", "reconcileDelete", "deleteKey",
               "tombstone", "complete"}
ServeSteps == {"idle", "leaveIntent", "genesis", "adopt", "describe", "write", "reply", "left"}

\* Which steps the node takes while it starts and while it runs.
Phase(l) ==
  /\ l \in StartSteps => node.status = "starting"
  /\ l \in ServeSteps => node.status = "running"
  /\ l \in LeaveSteps \cup {"clean", "failed"} => node.status \in {"starting", "running"}

\* The step the procedure is at, and the one a clean-up goes on with.
Procedural ==
  /\ Before(node.at) /\ Phase(node.at)
  /\ node.at = "clean" => node.then \notin {"clean", "describe"} /\ Before(node.then) /\ Phase(node.then)
  /\ node.at = "describe" => node.then \in {"write", "reply"}

\* The identity the runtime serves is the stored one while it runs, unless a
\* leave is pending, its end is uncertain or it has just ended.
Serves ==
  node.status = "running" /\ node.at # "left" /\ ~Leaves /\ ~node.blocked
    => db.ident # None /\ node.ctx = db.ident

Records == Typed /\ Custody /\ Membership

IInv == Records /\ Procedural /\ Serves

-----------------------------------------------------------------------------
\* Commits and failures.

\* What commit_with_reconcile leaves behind.
LEMMA CommitEffect ==
  ASSUME NEW new, NEW committed, NEW aborted, Commit(new, committed, aborted)
  PROVE  /\ keys' = keys
         /\ \/ db' = db /\ node' = To("failed")
            \/ db' \in {db, new} /\ node' = [To("failed") EXCEPT !.blocked = TRUE]
            \/ db' = db /\ node' = aborted
            \/ db' = new /\ node' = committed /\ ~node.blocked
BY DEF Commit

LEMMA ToType ==
  ASSUME node \in NodeType, NEW l \in Steps
  PROVE  LET n == To(l) IN
         /\ n \in NodeType
         /\ n.at = l
         /\ n.status = node.status /\ n.ctx = node.ctx /\ n.then = node.then
         /\ n.blocked = node.blocked
BY Zenon DEF To, NodeType

\* A procedure that stops leaves whatever it has committed.
LEMMA StopsKeeps ==
  ASSUME Records', node \in NodeType, node.status \in {"starting", "running"},
         node' = [To("failed") EXCEPT !.blocked = TRUE]
  PROVE  IInv'
<1>1. /\ node'.at = "failed" /\ node'.blocked = TRUE /\ node'.status = node.status
  BY ToType, Zenon DEF To, NodeType
<1>2. Procedural'
  BY <1>1 DEF Procedural, Before, Phase, StartSteps, LeaveSteps, ServeSteps
<1>3. Serves'
  BY <1>1 DEF Serves
<1>. QED
  BY <1>2, <1>3 DEF IInv

\* A procedure that fails before it has changed anything.
LEMMA FailsKeeps ==
  ASSUME IInv, node.status \in {"starting", "running"}, node' = To("failed"),
         UNCHANGED <<db, keys>>, node.at # "left"
  PROVE  IInv'
<1>1. /\ node' \in NodeType /\ node'.at = "failed" /\ node'.status = node.status
      /\ node'.ctx = node.ctx /\ node'.blocked = node.blocked
  BY ToType DEF IInv, Records, Typed, Steps
<1>2. Records'
  BY <1>1 DEF IInv, Records, Typed, Custody, Membership, Leaves
<1>3. Procedural'
  BY <1>1 DEF Procedural, Before, Phase, StartSteps, LeaveSteps, ServeSteps
<1>4. Serves'
  BY <1>1 DEF IInv, Serves, Leaves
<1>. QED
  BY <1>2, <1>3, <1>4 DEF IInv

\* A commit keeps the invariant when its new records are sound and both of its
\* known outcomes do.
LEMMA CommitKeeps ==
  ASSUME IInv, node.status \in {"starting", "running"}, node.at # "left",
         NEW STATE new, NEW STATE committed, NEW STATE aborted, Commit(new, committed, aborted),
         db' = new /\ keys' = keys /\ node' \in NodeType => Records',
         db' = new /\ keys' = keys /\ node' = committed /\ ~node.blocked => IInv',
         UNCHANGED <<db, keys>> /\ node' = aborted => IInv'
  PROVE  IInv'
<1>1. CASE UNCHANGED <<db, keys>> /\ node' = To("failed")
  BY <1>1, FailsKeeps
<1>2. CASE db' \in {db, new} /\ keys' = keys /\ node' = [To("failed") EXCEPT !.blocked = TRUE]
  <2>1. node \in NodeType
    BY DEF IInv, Records, Typed
  <2>2. node' \in NodeType
    <3>1. To("failed") \in NodeType
      BY <2>1, ToType DEF Steps
    <3>. QED
      BY <1>2, <3>1, Zenon DEF NodeType
  <2>3. UNCHANGED <<db, keys>> => Records'
    BY <2>2 DEF IInv, Records, Typed, Custody, Membership, Leaves
  <2>4. Records'
    BY <1>2, <2>2, <2>3
  <2>. QED
    BY <1>2, <2>1, <2>4, StopsKeeps
<1>. QED
  BY <1>1, <1>2, CommitEffect

\* A step that writes nothing but journals and traces.
Aside ==
  /\ db' \in DbType /\ keys' = keys
  /\ db'.ident = db.ident /\ db'.create = db.create /\ db'.leave = db.leave
  /\ db'.deleting = db.deleting /\ db'.deleted = db.deleted /\ db'.cluster = db.cluster

\* Such a step may move the procedure on, to a step whose precondition holds.
LEMMA AsideKeeps ==
  ASSUME IInv, Aside, node' \in NodeType, node.at # "left",
         node'.status = node.status, node'.ctx = node.ctx,
         node'.blocked = node.blocked \/ node'.blocked = TRUE \/ Leaves,
         Before(node'.at), Phase(node'.at),
         node'.at = "clean" =>
           node'.then \notin {"clean", "describe"} /\ Before(node'.then) /\ Phase(node'.then),
         node'.at = "describe" => node'.then \in {"write", "reply"}
  PROVE  IInv'
<1>1. Records'
  BY DEF IInv, Records, Typed, Custody, Membership, Leaves, Aside
<1>2. Leaves' = Leaves /\ Swapped' = Swapped /\ Wiped' = Wiped
  BY DEF Leaves, Swapped, Wiped, Aside
<1>3. Before(node.at)' /\ Phase(node.at)'
  BY <1>2 DEF Before, Phase, Aside
<1>4. node'.at = "clean" => Before(node.then)' /\ Phase(node.then)'
  BY <1>2 DEF Before, Phase, Aside
<1>5. Procedural'
  BY <1>3, <1>4 DEF Procedural
<1>6. Serves'
  BY <1>2 DEF IInv, Serves, Aside
<1>. QED
  BY <1>1, <1>5, <1>6 DEF IInv

LEMMA MovesKeeps ==
  ASSUME IInv, UNCHANGED <<db, keys>>, node' \in NodeType, node.at # "left",
         node'.status = node.status, node'.ctx = node.ctx,
         node'.blocked = node.blocked \/ Leaves,
         Before(node'.at), Phase(node'.at),
         node'.at = "clean" =>
           node'.then \notin {"clean", "describe"} /\ Before(node'.then) /\ Phase(node'.then),
         node'.at = "describe" => node'.then \in {"write", "reply"}
  PROVE  IInv'
<1>1. Aside
  BY DEF Aside, IInv, Records, Typed
<1>. QED
  BY <1>1, AsideKeeps, Zenon

LEMMA GoesKeeps ==
  ASSUME IInv, UNCHANGED <<db, keys>>, node.at # "left",
         NEW l \in Steps \ {"clean", "describe"}, node' = To(l), Before(l), Phase(l)
  PROVE  IInv'
<1>1. /\ node' \in NodeType /\ node'.at = l /\ node'.status = node.status
      /\ node'.ctx = node.ctx /\ node'.blocked = node.blocked
  BY ToType DEF IInv, Records, Typed
<1>. QED
  BY <1>1, MovesKeeps

\* A clean-up goes on with step l afterwards.
LEMMA CleansKeeps ==
  ASSUME IInv, UNCHANGED <<db, keys>>, node.at # "left", node.status \in {"starting", "running"},
         NEW l \in Steps \ {"clean", "describe"}, Before(l), Phase(l),
         node' \in NodeType, node'.at = "clean", node'.then = l, node'.status = node.status,
         node'.ctx = node.ctx, node'.blocked = node.blocked \/ Leaves
  PROVE  IInv'
<1>1. Before("clean")
  BY DEF Before
<1>2. Phase("clean")
  BY DEF Phase, StartSteps, ServeSteps, LeaveSteps
<1>. QED
  BY <1>1, <1>2, MovesKeeps

LEMMA CleanType ==
  ASSUME node \in NodeType, NEW purpose \in Purposes, NEW l \in Steps
  PROVE  LET n == CleanThen(purpose, l) IN
         /\ n \in NodeType /\ n.at = "clean" /\ n.then = l
         /\ n.status = node.status /\ n.ctx = node.ctx /\ n.blocked = node.blocked
<1>1. "clean" \in Steps
  BY DEF Steps
<1>. QED
  BY <1>1, Zenon DEF CleanThen, NodeType

-----------------------------------------------------------------------------
\* Starting.

LEMMA DownType ==
  /\ Down \in NodeType
  /\ Down.at = "none" /\ Down.status = "down"
BY DEF Down, NodeType, Steps, None

LEMMA StartKeeps ==
  ASSUME IInv, Start
  PROVE  IInv'
<1>1. node' \in NodeType /\ node'.at = "open" /\ node'.status = "starting"
  BY DownType, ZenonT(30) DEF Start, NodeType, Steps
<1>2. Records'
  BY <1>1 DEF Start, IInv, Records, Typed, Custody, Membership, Leaves
<1>3. Procedural' /\ Serves'
  BY <1>1 DEF Procedural, Before, Phase, StartSteps, ServeSteps, LeaveSteps, Serves
<1>. QED
  BY <1>2, <1>3 DEF IInv

LEMMA OpenKeeps ==
  ASSUME IInv, Open
  PROVE  IInv'
<1>1. node.status = "starting" /\ node.at # "left" /\ node \in NodeType /\ UNCHANGED <<db, keys>>
  BY DEF Open, IInv, Records, Typed, Procedural, Phase, StartSteps
<1>2. Before("discover") /\ Phase("discover")
  BY <1>1 DEF Before, Phase, StartSteps, ServeSteps, LeaveSteps
<1>3. CASE "local" \in db.journal
  <2>1. node' = CleanThen("local", "discover")
    BY <1>3 DEF Open
  <2>. QED
    BY <1>1, <1>2, <2>1, CleanType, CleansKeeps DEF Steps, Purposes
<1>4. CASE "local" \notin db.journal
  BY <1>1, <1>2, <1>4, GoesKeeps DEF Open, Steps
<1>. QED
  BY <1>3, <1>4

LEMMA DiscoverKeeps ==
  ASSUME IInv, Discover
  PROVE  IInv'
<1>1. node.status = "starting" /\ node.at # "left" /\ node \in NodeType /\ UNCHANGED <<db, keys>>
  BY DEF Discover, IInv, Records, Typed, Procedural, Phase, StartSteps
<1>2. CASE node' = To("failed")
  BY <1>1, <1>2, FailsKeeps
<1>3. CASE db.ident # None /\ node' = [To("resume") EXCEPT !.ctx = db.ident]
  <2>1. /\ node' \in NodeType /\ node'.at = "resume" /\ node'.status = "starting"
        /\ node'.ctx = db.ident
    <3>1. To("resume") \in NodeType /\ To("resume").at = "resume" /\ To("resume").status = "starting"
      BY <1>1, ToType DEF Steps
    <3>2. db.ident \in Ids \cup {None}
      BY DEF IInv, Records, Typed, DbType
    <3>. QED
      BY <1>3, <3>1, <3>2 DEF NodeType
  <2>2. Records'
    BY <1>1, <2>1 DEF IInv, Records, Typed, Custody, Membership, Leaves
  <2>3. Procedural' /\ Serves'
    BY <1>1, <1>3, <2>1 DEF Procedural, Before, Phase, StartSteps, ServeSteps, LeaveSteps, Serves
  <2>. QED
    BY <2>2, <2>3 DEF IInv
<1>4. CASE db.ident = None /\ db.create # None /\ node' = To("reconcileCreate")
  <2>1. Before("reconcileCreate") /\ Phase("reconcileCreate")
    BY <1>1, <1>4 DEF Before, Phase, StartSteps, ServeSteps, LeaveSteps
  <2>. QED
    BY <1>1, <1>4, <2>1, GoesKeeps DEF Steps
<1>5. CASE db.ident = None /\ db.create = None /\ node' = To("intent")
  <2>1. Before("intent") /\ Phase("intent")
    BY <1>1, <1>5 DEF Before, Phase, StartSteps, ServeSteps, LeaveSteps
  <2>. QED
    BY <1>1, <1>5, <2>1, GoesKeeps DEF Steps
<1>. QED
  BY <1>2, <1>3, <1>4, <1>5 DEF Discover

\* The identity an intent names is fresh when there is one left.
LEMMA FreshUnused ==
  ASSUME Unused # {}
  PROVE  Fresh \in Unused
BY DEF Fresh

LEMMA CreateIntentKeeps ==
  ASSUME IInv, CreateIntent, MaxCalls \in Nat
  PROVE  IInv'
<1>. DEFINE new == [db EXCEPT !.create = Fresh]
<1>1. /\ node.status = "starting" /\ node.at # "left" /\ node \in NodeType
      /\ db \in DbType /\ db.ident = None /\ db.create = None
  BY DEF CreateIntent, IInv, Records, Typed, Procedural, Phase, Before, StartSteps
<1>2. db.leave = NoLeave /\ keys = {} /\ db.deleting = {} /\ db.deleted = {}
  BY <1>1 DEF IInv, Records, Typed, Custody, Leaves, NoLeave, None, Ids, DbType
<1>3. Fresh \in Ids
  <2>1. 1 \in Ids /\ 1 # None
    BY DEF Ids, None
  <2>2. db.leave.former = None /\ db.leave.replacement = None
    BY <1>2 DEF NoLeave
  <2>3. 1 \in Unused
    BY <1>1, <1>2, <2>1, <2>2 DEF Unused
  <2>. QED
    BY <2>3, FreshUnused DEF Unused
<1>4. new \in DbType /\ new.ident = None /\ new.create = Fresh /\ new.leave = NoLeave
      /\ new.deleting = {} /\ new.deleted = {} /\ new.cluster = db.cluster
  BY <1>1, <1>2, <1>3 DEF DbType
<1>. HIDE DEF new
<1>5. db' = new /\ keys' = keys /\ node' \in NodeType => Records'
  BY <1>2, <1>3, <1>4 DEF IInv, Records, Typed, Custody, Membership, Leaves, NoLeave, None, Ids
<1>6. db' = new /\ keys' = keys /\ node' = To("createKey") => IInv'
  <2>. HAVE db' = new /\ keys' = keys /\ node' = To("createKey")
  <2>1. /\ node' \in NodeType /\ node'.at = "createKey" /\ node'.status = "starting"
    BY <1>1, ToType DEF Steps
  <2>2. Procedural' /\ Serves'
    BY <1>3, <1>4, <2>1
    DEF Procedural, Before, Phase, StartSteps, ServeSteps, LeaveSteps, Serves, None, Ids
  <2>. QED
    BY <1>5, <2>1, <2>2 DEF IInv
<1>7. Commit(new, To("createKey"), To("failed"))
  BY DEF CreateIntent, new
<1>. QED
  BY <1>1, <1>5, <1>6, <1>7, CommitKeeps, FailsKeeps

\* A provider call that creates the key a record of the store names.
LEMMA CreateUnderKeeps ==
  ASSUME IInv, node.status \in {"starting", "running"}, node.at # "left",
         NEW STATE id, id \in {db.create, db.leave.replacement}, id # None,
         NEW l \in {"finalize", "swap"}, CreateUnder(id, l),
         keys' = keys \cup {id} /\ UNCHANGED db => Before(l)', Phase(l)
  PROVE  IInv'
<1>1. node \in NodeType /\ db \in DbType /\ id \in Ids /\ id \notin db.deleted
  BY DEF IInv, Records, Typed, DbType, Custody
<1>2. db' = db /\ keys' \in {keys, keys \cup {id}}
  BY DEF CreateUnder
<1>3. node' = To("failed") \/ (node' = To(l) /\ keys' = keys \cup {id})
  BY DEF CreateUnder
<1>4. /\ node' \in NodeType /\ node'.status = node.status /\ node'.ctx = node.ctx
      /\ node'.blocked = node.blocked /\ node'.at \in {"failed", l}
      /\ node'.at = l => keys' = keys \cup {id}
  BY <1>1, <1>3, ToType DEF Steps
<1>5. Records'
  BY <1>1, <1>2, <1>4 DEF IInv, Records, Typed, Custody, Membership, Leaves
<1>6. Before(node.at)'
  <2>1. CASE node'.at = "failed"
    BY <2>1 DEF Before
  <2>2. CASE node'.at = "finalize"
    BY <1>2, <1>4, <2>2 DEF Before
  <2>3. CASE node'.at = "swap"
    BY <1>2, <1>4, <2>3 DEF Before
  <2>. QED
    BY <1>4, <2>1, <2>2, <2>3
<1>7. Phase(node.at)'
  BY <1>4 DEF Phase, StartSteps, ServeSteps, LeaveSteps
<1>8. Procedural' /\ Serves'
  BY <1>2, <1>4, <1>6, <1>7 DEF Procedural, IInv, Serves, Leaves
<1>. QED
  BY <1>5, <1>8 DEF IInv

LEMMA CreateKeyExactKeeps ==
  ASSUME IInv, CreateKeyExact
  PROVE  IInv'
<1>1. node.status = "starting" /\ node.at # "left" /\ db.create # None
  BY DEF CreateKeyExact, IInv, Procedural, Phase, Before, StartSteps
<1>2. Phase("finalize")
  BY <1>1 DEF Phase, StartSteps, ServeSteps, LeaveSteps
<1>3. keys' = keys \cup {db.create} /\ UNCHANGED db => Before("finalize")'
  BY <1>1 DEF Before
<1>. QED
  BY <1>1, <1>2, <1>3, CreateUnderKeeps DEF CreateKeyExact

\* A provider call that only asks whether a key exists.
LEMMA ReconcileUnderKeeps ==
  ASSUME IInv, node.status \in {"starting", "running"}, node.at # "left",
         NEW STATE id, NEW present \in Steps \ {"clean", "describe"},
         NEW absent \in Steps \ {"clean", "describe"},
         ReconcileUnder(id, present, absent), Phase(present), Phase(absent),
         id \in keys => Before(present), id \notin keys => Before(absent)
  PROVE  IInv'
<1>1. CASE node' = To("failed") /\ UNCHANGED <<db, keys>>
  BY <1>1, FailsKeeps
<1>2. CASE id \in keys /\ Goto(present)
  BY <1>2, GoesKeeps DEF Goto
<1>3. CASE id \notin keys /\ Goto(absent)
  BY <1>3, GoesKeeps DEF Goto
<1>. QED
  BY <1>1, <1>2, <1>3 DEF ReconcileUnder

LEMMA ReconcileCreateKeeps ==
  ASSUME IInv, ReconcileCreate
  PROVE  IInv'
<1>1. node.status = "starting" /\ node.at # "left" /\ db.create # None
  BY DEF ReconcileCreate, IInv, Procedural, Phase, Before, StartSteps
<1>2. Phase("finalize") /\ Phase("createKey")
  BY <1>1 DEF Phase, StartSteps, ServeSteps, LeaveSteps
<1>3. Before("createKey") /\ (db.create \in keys => Before("finalize"))
  BY <1>1 DEF Before
<1>. QED
  BY <1>1, <1>2, <1>3, ReconcileUnderKeeps DEF ReconcileCreate, Steps

LEMMA FinalizeIdentityKeeps ==
  ASSUME IInv, FinalizeIdentity
  PROVE  IInv'
<1>. DEFINE new == [db EXCEPT !.create = None, !.ident = db.create, !.journal = @ \cup {"local"}]
            committed == [CleanThen("local", "resume") EXCEPT !.ctx = db.create]
<1>1. /\ node.status = "starting" /\ node.at # "left" /\ node \in NodeType
      /\ db \in DbType /\ db.create # None /\ db.create \in keys /\ keys \subseteq Ids
  BY DEF FinalizeIdentity, IInv, Records, Typed, Procedural, Phase, Before, StartSteps
<1>2. db.leave = NoLeave /\ db.ident = None /\ db.create \in Ids /\ db.deleting = {} /\ db.deleted = {}
      /\ db.cluster = {}
  BY <1>1 DEF IInv, Records, Custody, Membership, Leaves, NoLeave, None, Ids, DbType
<1>3. /\ new \in DbType /\ new.ident = db.create /\ new.create = None /\ new.leave = NoLeave
      /\ new.deleting = {} /\ new.deleted = {} /\ new.cluster = {}
  BY <1>1, <1>2, ZenonT(30) DEF DbType, Purposes
<1>4. /\ committed \in NodeType /\ committed.at = "clean" /\ committed.then = "resume"
      /\ committed.status = "starting" /\ committed.ctx = db.create
  <2>. DEFINE n == CleanThen("local", "resume")
  <2>1. n \in NodeType /\ n.at = "clean" /\ n.then = "resume" /\ n.status = "starting"
    BY <1>1, CleanType DEF Steps, Purposes
  <2>. HIDE DEF n
  <2>2. db.create \in Ids \cup {None}
    BY <1>2
  <2>3. LET m == [n EXCEPT !.ctx = db.create] IN
        m \in NodeType /\ m.at = "clean" /\ m.then = "resume" /\ m.status = "starting"
          /\ m.ctx = db.create
    BY <2>1, <2>2 DEF NodeType
  <2>. QED
    BY <2>3 DEF n
<1>. HIDE DEF new, committed
<1>5. db' = new /\ keys' = keys /\ node' \in NodeType => Records'
  BY <1>1, <1>2, <1>3 DEF IInv, Records, Typed, Custody, Membership, Leaves, NoLeave
<1>6. db' = new /\ keys' = keys /\ node' = committed => IInv'
  <2>. HAVE db' = new /\ keys' = keys /\ node' = committed
  <2>1. Procedural' /\ Serves'
    BY <1>1, <1>3, <1>4
    DEF Procedural, Before, Phase, StartSteps, ServeSteps, LeaveSteps, Serves
  <2>. QED
    BY <1>4, <1>5, <2>1 DEF IInv
<1>7. CASE node' = To("failed") /\ UNCHANGED <<db, keys>>
  BY <1>1, <1>7, FailsKeeps
<1>8. CASE Commit(new, committed, To("failed"))
  BY <1>1, <1>5, <1>6, <1>8, CommitKeeps, FailsKeeps
<1>. QED
  BY <1>7, <1>8 DEF FinalizeIdentity, Fails, Goto, new, committed

LEMMA ResumeIfPendingKeeps ==
  ASSUME IInv, ResumeIfPending
  PROVE  IInv'
<1>1. node.status = "starting" /\ node.at # "left" /\ db.ident # None /\ node.ctx = db.ident
  BY DEF ResumeIfPending, IInv, Procedural, Phase, Before, StartSteps
<1>2. Phase("ready") /\ Phase("runLeave")
  BY <1>1 DEF Phase, StartSteps, ServeSteps, LeaveSteps
<1>3. CASE db.leave = NoLeave
  <2>1. Before("ready")
    BY <1>1, <1>3 DEF Before, Leaves
  <2>. QED
    BY <1>1, <1>2, <1>3, <2>1, GoesKeeps DEF ResumeIfPending, Goto, Steps
<1>4. CASE db.leave # NoLeave
  <2>1. Before("runLeave")
    BY <1>1, <1>4 DEF Before, Leaves
  <2>. QED
    BY <1>1, <1>2, <1>4, <2>1, GoesKeeps DEF ResumeIfPending, Goto, Steps
<1>. QED
  BY <1>3, <1>4

LEMMA WaitingType ==
  ASSUME node \in NodeType
  PROVE  /\ Waiting \in NodeType /\ Waiting.at = "idle" /\ Waiting.status = "running"
         /\ Waiting.ctx = node.ctx /\ Waiting.blocked = node.blocked
<1>1. "idle" \in Steps
  BY DEF Steps
<1>. QED
  BY <1>1, DownType, ZenonT(30) DEF Waiting, NodeType

\* The control loop goes back to its channel.
LEMMA WaitsKeeps ==
  ASSUME IInv, UNCHANGED <<db, keys>>, node' = Waiting, Serves'
  PROVE  IInv'
<1>1. node' \in NodeType /\ node'.at = "idle" /\ node'.status = "running"
  BY WaitingType DEF IInv, Records, Typed
<1>2. Records'
  BY <1>1 DEF IInv, Records, Typed, Custody, Membership, Leaves
<1>3. Procedural'
  BY <1>1 DEF Procedural, Before, Phase, StartSteps, ServeSteps, LeaveSteps
<1>. QED
  BY <1>2, <1>3 DEF IInv

LEMMA ReadyKeeps ==
  ASSUME IInv, Ready
  PROVE  IInv'
<1>1. db.ident # None /\ node.ctx = db.ident /\ node' = Waiting /\ UNCHANGED <<db, keys>>
  BY DEF Ready, IInv, Procedural, Before
<1>2. node'.ctx = db.ident
  BY <1>1, WaitingType DEF IInv, Records, Typed
<1>. QED
  BY <1>1, <1>2, WaitsKeeps DEF Serves

-----------------------------------------------------------------------------
\* Leaving.

LEMMA RunLeaveKeeps ==
  ASSUME IInv, RunLeave
  PROVE  IInv'
<1>1. node.status \in {"starting", "running"} /\ node.at # "left" /\ Leaves
  BY DEF RunLeave, IInv, Procedural, Phase, Before, LeaveSteps
<1>2. db.leave.former # db.leave.replacement
  BY <1>1 DEF IInv, Records, Custody
<1>3. Phase("reconcileReplacement") /\ Phase("wipeCluster")
  BY <1>1 DEF Phase, StartSteps, ServeSteps, LeaveSteps
<1>4. CASE db.ident = db.leave.former
  <2>1. Before("reconcileReplacement")
    BY <1>1, <1>4 DEF Before
  <2>2. Goto("reconcileReplacement")
    BY <1>2, <1>4 DEF RunLeave
  <2>. QED
    BY <1>1, <1>3, <2>1, <2>2, GoesKeeps DEF Goto, Steps
<1>5. CASE db.ident = db.leave.replacement /\ db.ident # db.leave.former
  <2>1. Before("wipeCluster")
    BY <1>1, <1>5 DEF Before, Swapped
  <2>2. Goto("wipeCluster")
    BY <1>5 DEF RunLeave
  <2>. QED
    BY <1>1, <1>3, <2>1, <2>2, GoesKeeps DEF Goto, Steps
<1>. QED
  BY <1>1, <1>4, <1>5 DEF IInv, Records, Custody

LEMMA ReconcileReplacementKeeps ==
  ASSUME IInv, ReconcileReplacement
  PROVE  IInv'
<1>1. node.status \in {"starting", "running"} /\ node.at # "left" /\ Leaves
      /\ db.ident = db.leave.former
  BY DEF ReconcileReplacement, IInv, Procedural, Phase, Before, LeaveSteps
<1>2. Phase("swap") /\ Phase("createReplacement")
  BY <1>1 DEF Phase, StartSteps, ServeSteps, LeaveSteps
<1>3. Before("createReplacement") /\ (db.leave.replacement \in keys => Before("swap"))
  BY <1>1 DEF Before
<1>. QED
  BY <1>1, <1>2, <1>3, ReconcileUnderKeeps DEF ReconcileReplacement, Steps

LEMMA CreateReplacementKeeps ==
  ASSUME IInv, CreateReplacement
  PROVE  IInv'
<1>1. node.status \in {"starting", "running"} /\ node.at # "left" /\ Leaves
      /\ db.leave.replacement # None
  BY DEF CreateReplacement, IInv, Records, Custody, Procedural, Phase, Before, LeaveSteps
<1>2. Phase("swap")
  BY <1>1 DEF Phase, StartSteps, ServeSteps, LeaveSteps
<1>3. keys' = keys \cup {db.leave.replacement} /\ UNCHANGED db => Before("swap")'
  BY <1>1 DEF Before, Leaves
<1>. QED
  BY <1>1, <1>2, <1>3, CreateUnderKeeps, SMTT(20) DEF CreateReplacement

LEMMA SwapIdentityKeeps ==
  ASSUME IInv, SwapIdentity
  PROVE  IInv'
<1>. DEFINE new == [db EXCEPT !.ident = db.leave.replacement]
            committed == [To("wipeCluster") EXCEPT !.tries = 0]
<1>1. /\ node.status \in {"starting", "running"} /\ node.at # "left" /\ node \in NodeType
      /\ db \in DbType /\ Leaves /\ db.leave.replacement \in keys
  BY DEF SwapIdentity, IInv, Records, Typed, Procedural, Phase, Before, LeaveSteps
<1>2. /\ new \in DbType /\ new.ident = db.leave.replacement /\ new.create = db.create
      /\ new.leave = db.leave /\ new.deleting = db.deleting /\ new.deleted = db.deleted
  BY <1>1 DEF DbType
<1>3. /\ committed \in NodeType /\ committed.at = "wipeCluster" /\ committed.status = node.status
  <2>1. To("wipeCluster") \in NodeType /\ To("wipeCluster").at = "wipeCluster"
        /\ To("wipeCluster").status = node.status
    BY <1>1, ToType DEF Steps
  <2>. QED
    BY <2>1 DEF NodeType
<1>. HIDE DEF new, committed
<1>4. CASE node' = To("failed") /\ UNCHANGED <<db, keys>>
  BY <1>1, <1>4, FailsKeeps
<1>5. CASE db.ident = db.leave.former /\ Commit(new, committed, To("failed"))
  <2>1. db.create = None /\ db.ident # None
    BY <1>1, <1>5 DEF IInv, Records, Custody
  <2>2. db' = new /\ keys' = keys /\ node' \in NodeType => Records'
    BY <1>1, <1>2, <2>1, <1>5 DEF IInv, Records, Typed, Custody, Membership, Leaves
  <2>3. db' = new /\ keys' = keys /\ node' = committed => IInv'
    <3>. HAVE db' = new /\ keys' = keys /\ node' = committed
    <3>1. Leaves' /\ Swapped'
      BY <1>1, <1>2 DEF Leaves, Swapped
    <3>2. Procedural' /\ Serves'
      BY <1>1, <1>3, <3>1
      DEF Procedural, Before, Phase, StartSteps, ServeSteps, LeaveSteps, Serves
    <3>. QED
      BY <1>3, <2>2, <3>2 DEF IInv
  <2>. QED
    BY <1>1, <1>5, <2>2, <2>3, CommitKeeps, FailsKeeps
<1>. QED
  BY <1>4, <1>5 DEF SwapIdentity, Fails, Goto, new, committed

\* A batch that lost its race is prepared again, or the wipe fails.
LEMMA RetryKeeps ==
  ASSUME IInv, node.status \in {"starting", "running"}, node.at \in Steps \ {"left", "clean", "describe"},
         UNCHANGED <<db, keys>>, NEW l, l = node.at, NEW STATE again, again \in BOOLEAN,
         node' = IF again THEN [To(l) EXCEPT !.tries = @ + 1] ELSE To("failed")
  PROVE  IInv'
<1>1. node \in NodeType
  BY DEF IInv, Records, Typed
<1>2. CASE node' = To("failed")
  BY <1>2, FailsKeeps
<1>3. CASE node' = [To(l) EXCEPT !.tries = @ + 1]
  <2>1. To(l) \in NodeType /\ To(l).at = l /\ To(l).status = node.status /\ To(l).ctx = node.ctx
        /\ To(l).blocked = node.blocked
    BY <1>1, ToType
  <2>2. node' \in NodeType /\ node'.at = node.at /\ node'.status = node.status /\ node'.ctx = node.ctx
        /\ node'.blocked = node.blocked
    BY <1>3, <2>1 DEF NodeType
  <2>3. Before(node.at) /\ Phase(node.at)
    BY DEF IInv, Procedural
  <2>. QED
    BY <2>2, <2>3, MovesKeeps
<1>. QED
  BY <1>2, <1>3

LEMMA WipeClusterKeeps ==
  ASSUME IInv, WipeFamily("wipeCluster", "cluster", "wipeTrace")
  PROVE  IInv'
<1>. DEFINE new == [db EXCEPT !.cluster = {}]
<1>1. /\ node.status \in {"starting", "running"} /\ node.at = "wipeCluster" /\ node \in NodeType
      /\ db \in DbType /\ Swapped
  BY DEF WipeFamily, IInv, Records, Typed, Procedural, Phase, Before, LeaveSteps
<1>2. CASE db.cluster = {}
  <2>1. node' = [To("wipeTrace") EXCEPT !.tries = 0] /\ UNCHANGED <<db, keys>>
    BY <1>2 DEF WipeFamily
  <2>2. To("wipeTrace") \in NodeType /\ To("wipeTrace").at = "wipeTrace"
        /\ To("wipeTrace").status = node.status /\ To("wipeTrace").ctx = node.ctx
        /\ To("wipeTrace").blocked = node.blocked
    BY <1>1, ToType DEF Steps
  <2>3. node' \in NodeType /\ node'.at = "wipeTrace" /\ node'.status = node.status
        /\ node'.ctx = node.ctx /\ node'.blocked = node.blocked
    BY <2>1, <2>2 DEF NodeType
  <2>4. Before("wipeTrace") /\ Phase("wipeTrace")
    BY <1>1, <1>2 DEF Before, Phase, Wiped, StartSteps, ServeSteps, LeaveSteps
  <2>. QED
    BY <1>1, <2>1, <2>3, <2>4, MovesKeeps
<1>3. CASE db.cluster # {}
  <2>. DEFINE aborted == IF node.tries < WipeRetries THEN [To("wipeCluster") EXCEPT !.tries = @ + 1]
                         ELSE To("failed")
  <2>1. new \in DbType /\ new.ident = db.ident /\ new.create = db.create /\ new.leave = db.leave
        /\ new.deleting = db.deleting /\ new.deleted = db.deleted /\ new.cluster = {}
    BY <1>1 DEF DbType
  <2>2. Commit(new, To("wipeCluster"), aborted)
    BY <1>3 DEF WipeFamily
  <2>. HIDE DEF new
  <2>3. db' = new /\ keys' = keys /\ node' \in NodeType => Records'
    BY <2>1 DEF IInv, Records, Typed, Custody, Membership, Leaves
  <2>4. db' = new /\ keys' = keys /\ node' = To("wipeCluster") => IInv'
    <3>. HAVE db' = new /\ keys' = keys /\ node' = To("wipeCluster")
    <3>1. node' \in NodeType /\ node'.at = "wipeCluster" /\ node'.status = node.status
      BY <1>1, ToType DEF Steps
    <3>2. Leaves' /\ Swapped'
      BY <1>1, <2>1 DEF Leaves, Swapped
    <3>3. Procedural' /\ Serves'
      BY <1>1, <3>1, <3>2
      DEF Procedural, Before, Phase, StartSteps, ServeSteps, LeaveSteps, Serves
    <3>. QED
      BY <2>3, <3>1, <3>3 DEF IInv
  <2>5. UNCHANGED <<db, keys>> /\ node' = aborted => IInv'
    BY <1>1, RetryKeeps, Zenon DEF Steps
  <2>. HIDE DEF aborted
  <2>. QED
    BY <1>1, <2>2, <2>3, <2>4, <2>5, CommitKeeps
<1>. QED
  BY <1>2, <1>3

LEMMA WipeTraceKeeps ==
  ASSUME IInv, WipeFamily("wipeTrace", "trace", "deleteFormer")
  PROVE  IInv'
<1>. DEFINE new == [db EXCEPT !.trace = {}]
<1>1. /\ node.status \in {"starting", "running"} /\ node.at = "wipeTrace" /\ node \in NodeType
      /\ db \in DbType /\ Wiped
  BY DEF WipeFamily, IInv, Records, Typed, Procedural, Phase, Before, LeaveSteps
<1>2. Before("wipeTrace") /\ Before("deleteFormer") /\ Phase("wipeTrace") /\ Phase("deleteFormer")
  BY <1>1 DEF Before, Phase, StartSteps, ServeSteps, LeaveSteps
<1>3. CASE db.trace = {}
  <2>1. node' = [To("deleteFormer") EXCEPT !.tries = 0] /\ UNCHANGED <<db, keys>>
    BY <1>3 DEF WipeFamily
  <2>2. To("deleteFormer") \in NodeType /\ To("deleteFormer").at = "deleteFormer"
        /\ To("deleteFormer").status = node.status /\ To("deleteFormer").ctx = node.ctx
        /\ To("deleteFormer").blocked = node.blocked
    BY <1>1, ToType DEF Steps
  <2>3. node' \in NodeType /\ node'.at = "deleteFormer" /\ node'.status = node.status
        /\ node'.ctx = node.ctx /\ node'.blocked = node.blocked
    BY <2>1, <2>2 DEF NodeType
  <2>. QED
    BY <1>1, <1>2, <2>1, <2>3, MovesKeeps
<1>4. CASE db.trace # {}
  <2>. DEFINE aborted == IF node.tries < WipeRetries THEN [To("wipeTrace") EXCEPT !.tries = @ + 1]
                         ELSE To("failed")
  <2>1. db' = new /\ keys' = keys => Aside
    BY <1>1 DEF DbType, Aside
  <2>2. Commit(new, To("wipeTrace"), aborted)
    BY <1>4 DEF WipeFamily
  <2>. HIDE DEF new
  <2>3. db' = new /\ keys' = keys /\ node' \in NodeType => Records'
    BY <2>1 DEF Aside, IInv, Records, Typed, Custody, Membership, Leaves
  <2>4. db' = new /\ keys' = keys /\ node' = To("wipeTrace") => IInv'
    <3>. HAVE db' = new /\ keys' = keys /\ node' = To("wipeTrace")
    <3>1. node' \in NodeType /\ node'.at = "wipeTrace" /\ node'.status = node.status
          /\ node'.ctx = node.ctx /\ node'.blocked = node.blocked
      BY <1>1, ToType DEF Steps
    <3>. QED
      BY <1>1, <1>2, <2>1, <3>1, AsideKeeps
  <2>5. UNCHANGED <<db, keys>> /\ node' = aborted => IInv'
    BY <1>1, RetryKeeps, Zenon DEF Steps
  <2>. HIDE DEF aborted
  <2>. QED
    BY <1>1, <2>2, <2>3, <2>4, <2>5, CommitKeeps
<1>. QED
  BY <1>3, <1>4

LEMMA DeletePrologueKeeps ==
  ASSUME IInv, DeletePrologue
  PROVE  IInv'
<1>1. /\ node.status \in {"starting", "running"} /\ node.at = "deleteFormer" /\ node \in NodeType
      /\ Wiped /\ Leaves /\ UNCHANGED <<db, keys>>
  BY DEF DeletePrologue, IInv, Records, Typed, Procedural, Phase, Before, LeaveSteps, Wiped, Swapped
<1>2. Before("deletionIntent") /\ Phase("deletionIntent")
  BY <1>1 DEF Before, Phase, StartSteps, ServeSteps, LeaveSteps
<1>3. CASE node' = To("failed")
  BY <1>1, <1>3, FailsKeeps
<1>4. CASE node' = [CleanThen("deletion", "deletionIntent") EXCEPT !.attempts = 1, !.blocked = FALSE]
  <2>. DEFINE n == CleanThen("deletion", "deletionIntent")
  <2>1. /\ n \in NodeType /\ n.at = "clean" /\ n.then = "deletionIntent"
        /\ n.status = node.status /\ n.ctx = node.ctx
    BY <1>1, CleanType DEF Purposes, Steps
  <2>2. node' = [n EXCEPT !.attempts = 1, !.blocked = FALSE]
    BY <1>4
  <2>. HIDE DEF n
  <2>3. /\ node' \in NodeType /\ node'.at = "clean" /\ node'.then = "deletionIntent"
        /\ node'.status = node.status /\ node'.ctx = node.ctx
    BY <2>1, <2>2, Zenon DEF NodeType
  <2>. QED
    BY <1>1, <1>2, <2>3, CleansKeeps, SMTT(20) DEF Steps
<1>5. CASE node' = [To("deletionIntent") EXCEPT !.attempts = 1, !.blocked = FALSE]
  <2>. DEFINE n == To("deletionIntent")
  <2>1. /\ n \in NodeType /\ n.at = "deletionIntent" /\ n.status = node.status /\ n.ctx = node.ctx
    BY <1>1, ToType DEF Steps
  <2>2. node' = [n EXCEPT !.attempts = 1, !.blocked = FALSE]
    BY <1>5
  <2>. HIDE DEF n
  <2>3. /\ node' \in NodeType /\ node'.at = "deletionIntent"
        /\ node'.status = node.status /\ node'.ctx = node.ctx
    BY <2>1, <2>2, Zenon DEF NodeType
  <2>. QED
    BY <1>1, <1>2, <2>3, MovesKeeps
<1>. QED
  BY <1>3, <1>4, <1>5, Zenon DEF DeletePrologue

LEMMA RetryDeletionKeeps ==
  ASSUME IInv, RetryDeletion
  PROVE  IInv'
<1>1. /\ node.status \in {"starting", "running"} /\ node.at = "retryDeletion" /\ node \in NodeType
      /\ Wiped /\ UNCHANGED <<db, keys>>
  BY DEF RetryDeletion, Fails, Goto, IInv, Records, Typed, Procedural, Phase, Before, LeaveSteps
<1>2. Before("deletionIntent") /\ Phase("deletionIntent")
  BY <1>1 DEF Before, Phase, StartSteps, ServeSteps, LeaveSteps
<1>3. CASE node' = To("failed")
  BY <1>1, <1>3, FailsKeeps
<1>4. CASE node' = [To("deletionIntent") EXCEPT !.attempts = @ + 1]
  <2>. DEFINE n == To("deletionIntent")
  <2>1. /\ n \in NodeType /\ n.at = "deletionIntent" /\ n.status = node.status /\ n.ctx = node.ctx
        /\ n.blocked = node.blocked
    BY <1>1, ToType DEF Steps
  <2>2. node' = [n EXCEPT !.attempts = @ + 1]
    BY <1>4
  <2>. HIDE DEF n
  <2>3. /\ node' \in NodeType /\ node'.at = "deletionIntent" /\ node'.blocked = node.blocked
        /\ node'.status = node.status /\ node'.ctx = node.ctx
    BY <2>1, <2>2 DEF NodeType
  <2>. QED
    BY <1>1, <1>2, <2>3, MovesKeeps
<1>. QED
  BY <1>3, <1>4 DEF RetryDeletion, Fails, Goto

LEMMA DeletionIntentKeeps ==
  ASSUME IInv, DeletionIntent
  PROVE  IInv'
<1>. DEFINE former == db.leave.former
            new == [db EXCEPT !.deleting = @ \cup {former}]
<1>1. /\ node.status \in {"starting", "running"} /\ node.at = "deletionIntent" /\ node \in NodeType
      /\ db \in DbType /\ Wiped /\ Leaves
  BY DEF DeletionIntent, IInv, Records, Typed, Procedural, Phase, Before, LeaveSteps, Wiped, Swapped
<1>2. Phase("complete") /\ Phase("reconcileDelete") /\ Phase("deleteKey") /\ Phase("retryDeletion")
  BY <1>1 DEF Phase, StartSteps, ServeSteps, LeaveSteps
<1>3. CASE former \in db.deleted /\ Goto("complete")
  <2>1. Before("complete")
    BY <1>1, <1>3 DEF Before
  <2>. QED
    BY <1>1, <1>2, <1>3, <2>1, GoesKeeps DEF Goto, Steps
<1>4. CASE Fails
  BY <1>1, <1>4, FailsKeeps DEF Fails, Goto
<1>5. CASE former \in db.deleting /\ Goto("reconcileDelete")
  <2>1. Before("reconcileDelete")
    BY <1>1, <1>5 DEF Before
  <2>. QED
    BY <1>1, <1>2, <1>5, <2>1, GoesKeeps DEF Goto, Steps
<1>6. CASE former \notin db.deleted /\ Commit(new, To("deleteKey"), To("retryDeletion"))
  <2>1. former \in Ids /\ former # db.ident /\ former # db.leave.replacement /\ db.create = None
        /\ db.ident \in keys
    BY <1>1 DEF IInv, Records, Custody, Wiped, Swapped, DbType
  <2>2. /\ new \in DbType /\ new.ident = db.ident /\ new.create = db.create /\ new.leave = db.leave
        /\ new.deleting = db.deleting \cup {former} /\ new.deleted = db.deleted
        /\ new.cluster = db.cluster
    BY <1>1, <2>1, SMTT(20) DEF DbType
  <2>. HIDE DEF new
  <2>3. db' = new /\ keys' = keys /\ node' \in NodeType => Records'
    BY <1>1, <1>6, <2>1, <2>2 DEF IInv, Records, Typed, Custody, Membership, Leaves, None, Ids
  <2>4. db' = new /\ keys' = keys /\ node' = To("deleteKey") => IInv'
    <3>. HAVE db' = new /\ keys' = keys /\ node' = To("deleteKey")
    <3>1. node' \in NodeType /\ node'.at = "deleteKey" /\ node'.status = node.status
      BY <1>1, ToType DEF Steps
    <3>2. Leaves' /\ Swapped' /\ Wiped' /\ db'.leave.former \in db'.deleting
      BY <1>1, <2>2 DEF Leaves, Swapped, Wiped
    <3>3. Procedural' /\ Serves'
      BY <1>1, <3>1, <3>2
      DEF Procedural, Before, Phase, StartSteps, ServeSteps, LeaveSteps, Serves
    <3>. QED
      BY <2>3, <3>1, <3>3 DEF IInv
  <2>5. Before("retryDeletion")
    BY <1>1 DEF Before
  <2>6. UNCHANGED <<db, keys>> /\ node' = To("retryDeletion") => IInv'
    BY <1>1, <1>2, <2>5, GoesKeeps DEF Steps
  <2>. QED
    BY <1>1, <1>6, <2>3, <2>4, <2>6, CommitKeeps
<1>. QED
  BY <1>3, <1>4, <1>5, <1>6 DEF DeletionIntent

LEMMA ReconcileDeleteKeeps ==
  ASSUME IInv, ReconcileDelete
  PROVE  IInv'
<1>1. node.status \in {"starting", "running"} /\ node.at = "reconcileDelete" /\ Wiped
      /\ db.leave.former \in db.deleting
  BY DEF ReconcileDelete, IInv, Procedural, Phase, Before, LeaveSteps
<1>2. Phase("deleteKey") /\ Phase("tombstone")
  BY <1>1 DEF Phase, StartSteps, ServeSteps, LeaveSteps
<1>3. Before("deleteKey") /\ (db.leave.former \notin keys => Before("tombstone"))
  BY <1>1, SMTT(20) DEF Before
<1>. QED
  BY <1>1, <1>2, <1>3, ReconcileUnderKeeps, SMTT(20) DEF ReconcileDelete, Steps

\* Only the former key can be deleted: the swap has committed.
LEMMA DeleteKeyKeeps ==
  ASSUME IInv, DeleteKey
  PROVE  IInv'
<1>1. node.status \in {"starting", "running"} /\ node.at = "deleteKey" /\ Wiped /\ node \in NodeType
      /\ db.leave.former \in db.deleting
  BY DEF DeleteKey, IInv, Records, Typed, Procedural, Phase, Before, LeaveSteps
<1>2. db' = db /\ keys' \in {keys, keys \ {db.leave.former}}
  BY DEF DeleteKey
<1>3. \/ node' = To("failed")
      \/ node' = To("tombstone") /\ keys' = keys \ {db.leave.former}
  BY DEF DeleteKey
<1>4. /\ node' \in NodeType /\ node'.status = node.status /\ node'.ctx = node.ctx
      /\ node'.at \in {"failed", "tombstone"}
      /\ node'.at = "tombstone" => db.leave.former \notin keys'
  BY <1>1, <1>3, ToType DEF Steps
<1>5. db.leave.former # db.ident /\ Leaves
  BY <1>1 DEF IInv, Records, Custody, Wiped, Swapped
<1>6. Records'
  BY <1>2, <1>4, <1>5 DEF IInv, Records, Typed, Custody, Membership, Leaves
<1>7. Leaves' /\ Wiped'
  BY <1>1, <1>2, <1>5 DEF Leaves, Swapped, Wiped
<1>8. Procedural' /\ Serves'
  BY <1>1, <1>2, <1>4, <1>7
  DEF Procedural, Before, Phase, StartSteps, ServeSteps, LeaveSteps, Serves
<1>. QED
  BY <1>6, <1>8 DEF IInv

LEMMA TombstoneKeeps ==
  ASSUME IInv, Tombstone
  PROVE  IInv'
<1>. DEFINE former == db.leave.former
            new == [db EXCEPT !.deleting = @ \ {former}, !.deleted = @ \cup {former},
                              !.journal = @ \cup {"deletion"}]
<1>1. /\ node.status \in {"starting", "running"} /\ node.at = "tombstone" /\ node \in NodeType
      /\ db \in DbType /\ Wiped /\ Leaves /\ former \notin keys
  BY DEF Tombstone, IInv, Records, Typed, Procedural, Phase, Before, LeaveSteps, Wiped, Swapped
<1>2. CASE Fails
  BY <1>1, <1>2, FailsKeeps DEF Fails, Goto
<1>3. CASE Commit(new, CleanThen("deletion", "complete"), To("retryDeletion"))
  <2>1. former \in Ids /\ former # db.ident /\ former # db.leave.replacement /\ db.create = None
        /\ db.ident \in keys
    BY <1>1 DEF IInv, Records, Custody, Wiped, Swapped, DbType
  <2>2. /\ new \in DbType /\ new.ident = db.ident /\ new.create = db.create /\ new.leave = db.leave
        /\ new.deleting = db.deleting \ {former} /\ new.deleted = db.deleted \cup {former}
        /\ new.cluster = db.cluster
    BY <1>1, <2>1, ZenonT(30) DEF DbType, Purposes
  <2>. HIDE DEF new
  <2>3. db' = new /\ keys' = keys /\ node' \in NodeType => Records'
    BY <1>1, <2>1, <2>2 DEF IInv, Records, Typed, Custody, Membership, Leaves, None, Ids
  <2>4. db' = new /\ keys' = keys /\ node' = CleanThen("deletion", "complete") => IInv'
    <3>. HAVE db' = new /\ keys' = keys /\ node' = CleanThen("deletion", "complete")
    <3>1. node' \in NodeType /\ node'.at = "clean" /\ node'.then = "complete"
          /\ node'.status = node.status
      BY <1>1, CleanType DEF Steps, Purposes
    <3>2. Leaves' /\ Swapped' /\ Wiped' /\ db'.leave.former \in db'.deleted
      BY <1>1, <2>2 DEF Leaves, Swapped, Wiped
    <3>3. Procedural' /\ Serves'
      BY <1>1, <3>1, <3>2
      DEF Procedural, Before, Phase, StartSteps, ServeSteps, LeaveSteps, Serves
    <3>. QED
      BY <2>3, <3>1, <3>3 DEF IInv
  <2>5. Before("retryDeletion") /\ Phase("retryDeletion")
    BY <1>1 DEF Before, Phase, StartSteps, ServeSteps, LeaveSteps
  <2>6. UNCHANGED <<db, keys>> /\ node' = To("retryDeletion") => IInv'
    BY <1>1, <2>5, GoesKeeps DEF Steps
  <2>. QED
    BY <1>1, <1>3, <2>3, <2>4, <2>6, CommitKeeps
<1>. QED
  BY <1>2, <1>3 DEF Tombstone

LEMMA CompleteLeaveKeeps ==
  ASSUME IInv, CompleteLeave
  PROVE  IInv'
<1>. DEFINE new == [db EXCEPT !.leave = NoLeave]
            resumed == [To("ready") EXCEPT !.ctx = db.ident]
            committed == IF node.status = "starting" THEN resumed ELSE To("left")
<1>1. /\ node.status \in {"starting", "running"} /\ node.at = "complete" /\ node \in NodeType
      /\ db \in DbType /\ Wiped /\ Leaves /\ db.leave.former \in db.deleted
  BY DEF CompleteLeave, IInv, Records, Typed, Procedural, Phase, Before, LeaveSteps, Wiped, Swapped
<1>2. /\ db.ident = db.leave.replacement /\ db.ident \in keys /\ db.ident # None /\ db.create = None
      /\ db.cluster = {} /\ db.deleting = {} /\ db.leave.former \notin keys
  BY <1>1 DEF IInv, Records, Custody, Wiped, Swapped
<1>3. NoLeave \in [former : Ids \cup {None}, replacement : Ids \cup {None}]
  BY DEF NoLeave
<1>4. /\ new \in DbType /\ new.ident = db.ident /\ new.create = None /\ new.leave = NoLeave
      /\ new.deleting = {} /\ new.deleted = db.deleted /\ new.cluster = {}
  BY <1>1, <1>2, <1>3 DEF DbType
<1>5. /\ resumed \in NodeType /\ resumed.at = "ready" /\ resumed.status = node.status
      /\ resumed.ctx = db.ident
  <2>1. To("ready") \in NodeType /\ To("ready").at = "ready" /\ To("ready").status = node.status
    BY <1>1, ToType DEF Steps
  <2>2. db.ident \in Ids \cup {None}
    BY <1>1 DEF DbType
  <2>. QED
    BY <2>1, <2>2 DEF NodeType
<1>6. /\ To("left") \in NodeType /\ To("left").at = "left" /\ To("left").status = node.status
  BY <1>1, ToType DEF Steps
<1>7. Commit(new, committed, To("failed"))
  BY DEF CompleteLeave
<1>. HIDE DEF new, resumed
<1>8. db' = new /\ keys' = keys /\ node' \in NodeType => Records'
  BY <1>1, <1>2, <1>4 DEF IInv, Records, Typed, Custody, Membership, Leaves, NoLeave, None, Ids
<1>9. db' = new /\ keys' = keys /\ node' = committed => IInv'
  <2>. HAVE db' = new /\ keys' = keys /\ node' = committed
  <2>1. ~Leaves'
    BY <1>4 DEF Leaves
  <2>2. CASE node.status = "starting"
    <3>1. node' \in NodeType /\ node'.at = "ready" /\ node'.status = "starting" /\ node'.ctx = db'.ident
      BY <1>4, <1>5, <2>2, SMTT(20)
    <3>2. Procedural' /\ Serves'
      BY <1>2, <1>4, <2>1, <3>1
      DEF Procedural, Before, Phase, StartSteps, ServeSteps, LeaveSteps, Serves
    <3>. QED
      BY <1>8, <3>1, <3>2 DEF IInv
  <2>3. CASE node.status = "running"
    <3>1. node' \in NodeType /\ node'.at = "left" /\ node'.status = "running"
      BY <1>6, <2>3, SMTT(20)
    <3>2. Procedural' /\ Serves'
      BY <2>1, <3>1
      DEF Procedural, Before, Phase, StartSteps, ServeSteps, LeaveSteps, Serves
    <3>. QED
      BY <1>8, <3>1, <3>2 DEF IInv
  <2>. QED
    BY <1>1, <2>2, <2>3
<1>. HIDE DEF committed
<1>. QED
  BY <1>1, <1>7, <1>8, <1>9, CommitKeeps, FailsKeeps

LEMMA CleanupPendingKeeps ==
  ASSUME IInv, CleanupPending
  PROVE  IInv'
<1>. DEFINE new == [db EXCEPT !.journal = @ \ {node.purpose}]
            aborted == IF ~node.stale /\ node.tries < 2 THEN [To("clean") EXCEPT !.tries = @ + 1]
                       ELSE IF node.then = "complete" THEN To("retryDeletion") ELSE To("failed")
<1>1. /\ node.status \in {"starting", "running"} /\ node.at = "clean" /\ node \in NodeType
      /\ db \in DbType /\ node.then \in Steps \ {"clean", "describe"}
      /\ Before(node.then) /\ Phase(node.then) /\ Before("clean") /\ Phase("clean")
  <2>1. node.then \in Steps
    BY DEF IInv, Records, Typed, NodeType
  <2>. QED
    BY <2>1 DEF CleanupPending, IInv, Records, Typed, Procedural, Phase, LeaveSteps
<1>2. ASSUME node' = To(node.then)
      PROVE  /\ node' \in NodeType /\ node'.at = node.then /\ node'.status = node.status
             /\ node'.ctx = node.ctx /\ node'.blocked = node.blocked
  BY <1>1, <1>2, Zenon DEF To, NodeType
<1>3. CASE Goto(node.then)
  BY <1>1, <1>2, <1>3, MovesKeeps DEF Goto
<1>4. CASE Commit(new, To(node.then), aborted)
  <2>1. db' = new /\ keys' = keys => Aside
    BY <1>1 DEF DbType, Aside
  <2>. HIDE DEF new
  <2>2. db' = new /\ keys' = keys /\ node' \in NodeType => Records'
    BY <2>1 DEF Aside, IInv, Records, Typed, Custody, Membership, Leaves
  <2>3. db' = new /\ keys' = keys /\ node' = To(node.then) => IInv'
    BY <1>1, <1>2, <2>1, AsideKeeps
  <2>4. UNCHANGED <<db, keys>> /\ node' = aborted => IInv'
    <3>. HAVE UNCHANGED <<db, keys>> /\ node' = aborted
    <3>1. CASE node' = [To("clean") EXCEPT !.tries = @ + 1]
      <4>1. /\ To("clean") \in NodeType /\ To("clean").at = "clean" /\ To("clean").then = node.then
            /\ To("clean").status = node.status /\ To("clean").ctx = node.ctx
            /\ To("clean").blocked = node.blocked
        BY <1>1, ToType DEF Steps
      <4>2. /\ node' \in NodeType /\ node'.at = "clean" /\ node'.then = node.then
            /\ node'.status = node.status /\ node'.ctx = node.ctx /\ node'.blocked = node.blocked
        BY <3>1, <4>1 DEF NodeType
      <4>. QED
        BY <1>1, <4>2, MovesKeeps
    <3>2. CASE node.then = "complete" /\ node' = To("retryDeletion")
      <4>1. Before("retryDeletion") /\ Phase("retryDeletion")
        BY <1>1, <3>2 DEF Before, Phase, StartSteps, ServeSteps, LeaveSteps
      <4>. QED
        BY <1>1, <3>2, <4>1, GoesKeeps DEF Steps
    <3>3. CASE node' = To("failed")
      BY <1>1, <3>3, FailsKeeps
    <3>. QED
      BY <3>1, <3>2, <3>3
  <2>. HIDE DEF aborted
  <2>. QED
    BY <1>1, <1>4, <2>2, <2>3, <2>4, CommitKeeps
<1>. QED
  BY <1>3, <1>4 DEF CleanupPending

LEMMA BeginIntentKeeps ==
  ASSUME IInv, BeginIntent
  PROVE  IInv'
<1>. DEFINE intent == [former |-> node.ctx, replacement |-> Fresh]
            new == [db EXCEPT !.leave = intent]
<1>1. /\ node.status = "running" /\ node.at = "leaveIntent" /\ node \in NodeType
      /\ db \in DbType /\ ~Leaves
  BY DEF BeginIntent, IInv, Records, Typed, Procedural, Phase, Before, ServeSteps
<1>2. Commit(new, To("runLeave"), To("failed"))
  BY DEF BeginIntent
<1>3. CASE ~node.blocked
  <2>1. db.ident # None /\ node.ctx = db.ident /\ db.ident \in keys /\ db.create = None
    BY <1>1, <1>3 DEF IInv, Serves, Records, Custody
  <2>2. Fresh \in Ids /\ Fresh \notin keys \cup db.deleting \cup db.deleted \cup {db.ident}
    BY FreshUnused DEF BeginIntent, Unused
  <2>3. /\ intent \in [former : Ids \cup {None}, replacement : Ids \cup {None}]
        /\ intent.former = db.ident /\ intent.replacement = Fresh
    BY <1>1, <2>1, <2>2 DEF DbType
  <2>4. intent # NoLeave
    BY <2>1, <2>3 DEF NoLeave
  <2>. HIDE DEF intent
  <2>5. /\ new \in DbType /\ new.ident = db.ident /\ new.create = None /\ new.leave = intent
        /\ new.deleting = db.deleting /\ new.deleted = db.deleted /\ new.cluster = db.cluster
    BY <1>1, <2>1, <2>3 DEF DbType
  <2>. HIDE DEF new
  <2>6. db.deleting = {} /\ keys = {db.ident}
    <3>1. db.leave.former = None /\ db.leave.replacement = None
      BY <1>1 DEF Leaves, NoLeave
    <3>2. None \notin Ids
      BY SMTT(20) DEF None, Ids
    <3>. QED
      BY <1>1, <2>1, <3>1, <3>2 DEF IInv, Records, Typed, Custody, DbType
  <2>7. db' = new /\ keys' = keys /\ node' \in NodeType => Records'
    <3>1. Fresh # None
      BY <2>2 DEF Ids, None
    <3>. QED
      BY <2>1, <2>2, <2>3, <2>4, <2>5, <2>6, <3>1
      DEF IInv, Records, Typed, Custody, Membership, Leaves
  <2>8. db' = new /\ keys' = keys /\ node' = To("runLeave") => IInv'
    <3>. HAVE db' = new /\ keys' = keys /\ node' = To("runLeave")
    <3>1. node' \in NodeType /\ node'.at = "runLeave" /\ node'.status = "running"
      BY <1>1, ToType DEF Steps
    <3>2. Leaves'
      BY <2>4, <2>5, SMTT(20) DEF Leaves
    <3>3. Procedural' /\ Serves'
      BY <3>1, <3>2
      DEF Procedural, Before, Phase, StartSteps, ServeSteps, LeaveSteps, Serves
    <3>. QED
      BY <2>7, <3>1, <3>3 DEF IInv
  <2>. QED
    BY <1>1, <1>2, <2>7, <2>8, CommitKeeps, FailsKeeps
<1>4. CASE node.blocked
  <2>1. node' = To("failed") /\ UNCHANGED <<db, keys>>
    BY <1>2, <1>4 DEF Commit
  <2>. QED
    BY <1>1, <2>1, FailsKeeps
<1>. QED
  BY <1>3, <1>4

-----------------------------------------------------------------------------
\* Serving.

\* A command taken from the channel begins at step l.
LEMMA ServeKeeps ==
  ASSUME IInv, UNCHANGED <<db, keys>>, node.status = "running", node.at = "idle",
         node' \in NodeType, node'.at \in {"genesis", "adopt", "describe", "failed", "leaveIntent", "runLeave"},
         node'.status = "running", node'.ctx = node.ctx, node'.blocked = node.blocked,
         node'.at = "describe" => node'.then \in {"write", "reply"},
         node'.at = "leaveIntent" => ~Leaves, node'.at = "runLeave" => Leaves
  PROVE  IInv'
<1>1. Before(node'.at)
  BY DEF Before
<1>2. Phase(node'.at)
  BY DEF Phase, StartSteps, ServeSteps, LeaveSteps
<1>. QED
  BY <1>1, <1>2, MovesKeeps

\* The node a command is served by.
LEMMA ServingType ==
  ASSUME node \in NodeType, NEW l \in Steps, NEW STATE c, c \in Clients \cup {Nobody},
         node' = [To(l) EXCEPT !.serving = c]
  PROVE  /\ node' \in NodeType /\ node'.at = l /\ node'.status = node.status
         /\ node'.ctx = node.ctx /\ node'.blocked = node.blocked
<1>1. /\ To(l) \in NodeType /\ To(l).at = l /\ To(l).status = node.status
      /\ To(l).ctx = node.ctx /\ To(l).blocked = node.blocked
  BY ToType
<1>. QED
  BY <1>1 DEF NodeType

LEMMA ServeCreateKeeps ==
  ASSUME IInv, queue \in Seq(Clients), ServeCreate
  PROVE  IInv'
<1>. DEFINE c == Head(queue)
<1>1. /\ node.status = "running" /\ node.at = "idle" /\ node \in NodeType /\ UNCHANGED <<db, keys>>
      /\ c \in Clients \cup {Nobody}
  BY DEF ServeCreate, IInv, Records, Typed
<1>. HIDE DEF c
<1>2. CASE node' = [To("genesis") EXCEPT !.serving = c]
  <2>1. node' \in NodeType /\ node'.at = "genesis" /\ node'.status = "running"
        /\ node'.ctx = node.ctx /\ node'.blocked = node.blocked
    BY <1>1, <1>2, ServingType, Zenon DEF Steps
  <2>. QED
    BY <1>1, <2>1, ServeKeeps
<1>3. CASE node' = [[To("genesis") EXCEPT !.serving = c] EXCEPT !.at = "failed"]
  <2>. DEFINE n == To("genesis")
  <2>1. n \in NodeType /\ n.status = "running" /\ n.ctx = node.ctx /\ n.blocked = node.blocked
    BY <1>1, ToType DEF Steps
  <2>2. "failed" \in Steps
    BY DEF Steps
  <2>. HIDE DEF n
  <2>3. node' = [[n EXCEPT !.serving = c] EXCEPT !.at = "failed"]
    BY <1>3 DEF n
  <2>4. node' \in NodeType /\ node'.at = "failed" /\ node'.status = "running"
        /\ node'.ctx = node.ctx /\ node'.blocked = node.blocked
    BY <1>1, <2>1, <2>2, <2>3, Zenon DEF NodeType
  <2>. QED
    BY <1>1, <2>4, ServeKeeps
<1>4. CASE node' = [CleanThen("genesis", "genesis") EXCEPT !.serving = c]
  <2>. DEFINE n == CleanThen("genesis", "genesis")
  <2>1. /\ n \in NodeType /\ n.at = "clean" /\ n.then = "genesis" /\ n.status = "running"
        /\ n.ctx = node.ctx /\ n.blocked = node.blocked
    BY <1>1, CleanType DEF Steps, Purposes
  <2>2. node' = [n EXCEPT !.serving = c]
    BY <1>4
  <2>. HIDE DEF n
  <2>3. /\ node' \in NodeType /\ node'.at = "clean" /\ node'.then = "genesis"
        /\ node'.status = "running" /\ node'.ctx = node.ctx /\ node'.blocked = node.blocked
    BY <1>1, <2>1, <2>2 DEF NodeType
  <2>4. Before("genesis") /\ Phase("genesis")
    BY <1>1 DEF Before, Phase, StartSteps, ServeSteps, LeaveSteps
  <2>. QED
    BY <1>1, <2>3, <2>4, CleansKeeps DEF Steps
<1>. QED
  BY <1>2, <1>3, <1>4 DEF ServeCreate, c

LEMMA ServeJoinKeeps ==
  ASSUME IInv, queue \in Seq(Clients), ServeJoin
  PROVE  IInv'
<1>. DEFINE c == Head(queue)
<1>1. /\ node.status = "running" /\ node.at = "idle" /\ node \in NodeType /\ UNCHANGED <<db, keys>>
      /\ c \in Clients \cup {Nobody}
  BY DEF ServeJoin, IInv, Records, Typed
<1>2. PICK l \in {"adopt", "failed"} : node' = [To(l) EXCEPT !.serving = c]
  BY DEF ServeJoin
<1>. HIDE DEF c
<1>3. node' \in NodeType /\ node'.at = l /\ node'.status = "running"
      /\ node'.ctx = node.ctx /\ node'.blocked = node.blocked
  BY <1>1, <1>2, ServingType, ZenonT(30) DEF Steps
<1>. QED
  BY <1>1, <1>3, ServeKeeps

LEMMA ServeWriteKeeps ==
  ASSUME IInv, queue \in Seq(Clients), ServeWrite
  PROVE  IInv'
<1>. DEFINE c == Head(queue)
<1>1. /\ node.status = "running" /\ node.at = "idle" /\ node \in NodeType /\ UNCHANGED <<db, keys>>
      /\ c \in Clients \cup {Nobody}
  BY DEF ServeWrite, IInv, Records, Typed
<1>2. PICK l \in {"describe", "failed"} :
        node' = [To(l) EXCEPT !.then = "write", !.serving = c, !.tries = 1]
  BY Zenon DEF ServeWrite
<1>. DEFINE n == To(l)
<1>3. n \in NodeType /\ n.at = l /\ n.status = "running" /\ n.ctx = node.ctx
      /\ n.blocked = node.blocked
  BY <1>1, ToType DEF Steps
<1>4. node' = [n EXCEPT !.then = "write", !.serving = c, !.tries = 1]
  BY <1>2
<1>. HIDE DEF c, n
<1>5. "write" \in Steps
  BY DEF Steps
<1>6. node' \in NodeType /\ node'.at = l /\ node'.then = "write" /\ node'.status = "running"
      /\ node'.ctx = node.ctx /\ node'.blocked = node.blocked
  BY <1>1, <1>3, <1>4, <1>5, Zenon DEF NodeType
<1>. QED
  BY <1>1, <1>6, ServeKeeps

LEMMA ServeQueryKeeps ==
  ASSUME IInv, queue \in Seq(Clients), ServeQuery
  PROVE  IInv'
<1>. DEFINE c == Head(queue)
<1>1. /\ node.status = "running" /\ node.at = "idle" /\ node \in NodeType /\ UNCHANGED <<db, keys>>
      /\ c \in Clients \cup {Nobody}
  BY DEF ServeQuery, IInv, Records, Typed
<1>2. CASE UNCHANGED node
  <2>1. Before(node.at) /\ Phase(node.at)
    BY DEF IInv, Procedural
  <2>. QED
    BY <1>1, <1>2, <2>1, MovesKeeps
<1>3. CASE node' = [To("describe") EXCEPT !.then = "reply", !.serving = c]
  <2>. DEFINE n == To("describe")
  <2>1. n \in NodeType /\ n.at = "describe" /\ n.status = "running" /\ n.ctx = node.ctx
        /\ n.blocked = node.blocked
    BY <1>1, ToType DEF Steps
  <2>2. node' = [n EXCEPT !.then = "reply", !.serving = c]
    BY <1>3
  <2>. HIDE DEF c, n
  <2>3. "reply" \in Steps
    BY DEF Steps
  <2>4. node' \in NodeType /\ node'.at = "describe" /\ node'.then = "reply"
        /\ node'.status = "running" /\ node'.ctx = node.ctx /\ node'.blocked = node.blocked
    BY <1>1, <2>1, <2>2, <2>3, Zenon DEF NodeType
  <2>. QED
    BY <1>1, <2>4, ServeKeeps
<1>. QED
  BY <1>2, <1>3 DEF ServeQuery

LEMMA ServeLeaveKeeps ==
  ASSUME IInv, queue \in Seq(Clients), ServeLeave
  PROVE  IInv'
<1>. DEFINE c == Head(queue)
<1>1. /\ node.status = "running" /\ node.at = "idle" /\ node \in NodeType /\ UNCHANGED <<db, keys>>
      /\ c \in Clients \cup {Nobody}
  BY DEF ServeLeave, IInv, Records, Typed
<1>2. PICK l \in {"failed", "leaveIntent", "runLeave"} :
        /\ node' = [To(l) EXCEPT !.serving = c]
        /\ l = "leaveIntent" => ~Leaves
        /\ l = "runLeave" => Leaves
  BY Zenon DEF ServeLeave, Leaves
<1>. HIDE DEF c
<1>3. node' \in NodeType /\ node'.at = l /\ node'.status = "running"
      /\ node'.ctx = node.ctx /\ node'.blocked = node.blocked
  BY <1>1, <1>2, ServingType, ZenonT(30) DEF Steps
<1>. QED
  BY <1>1, <1>2, <1>3, ServeKeeps

\* The step after a command has committed cluster records.
LEMMA EnrolKeeps ==
  ASSUME IInv, node.status = "running", ~node.blocked, node.at # "left", Records',
         db'.leave = db.leave, db'.ident = db.ident,
         node' \in NodeType, node'.at \in {"clean", "reply"}, node'.at = "clean" => node'.then = "reply",
         node'.status = "running", node'.ctx = node.ctx, node'.blocked = node.blocked
  PROVE  IInv'
<1>1. Procedural'
  BY DEF Procedural, Before, Phase, StartSteps, ServeSteps, LeaveSteps
<1>2. Serves'
  BY DEF IInv, Serves, Leaves
<1>. QED
  BY <1>1, <1>2 DEF IInv

\* create_cluster and adopt_admission enrol the identity of the context, which
\* is the stored one.
LEMMA EnrolOnceKeeps ==
  ASSUME IInv, node.status = "running", node.at # "left", db.ident = node.ctx, node.ctx \in keys,
         NEW purpose \in Purposes,
         Commit([db EXCEPT !.cluster = {node.ctx}, !.journal = @ \cup {purpose}],
                CleanThen(purpose, "reply"), To("failed"))
  PROVE  IInv'
<1>. DEFINE new == [db EXCEPT !.cluster = {node.ctx}, !.journal = @ \cup {purpose}]
<1>1. node \in NodeType /\ db \in DbType /\ node.ctx \in Ids
  BY DEF IInv, Records, Typed
<1>2. CASE node.blocked
  BY <1>2, FailsKeeps DEF Commit
<1>3. CASE ~node.blocked
  <2>1. /\ new \in DbType /\ new.ident = db.ident /\ new.create = db.create /\ new.leave = db.leave
        /\ new.deleting = db.deleting /\ new.deleted = db.deleted /\ new.cluster = {node.ctx}
    BY <1>1, Zenon DEF DbType
  <2>2. Commit(new, CleanThen(purpose, "reply"), To("failed"))
    OBVIOUS
  <2>. HIDE DEF new
  <2>3. db' = new /\ keys' = keys /\ node' \in NodeType => Records'
    BY <1>1, <2>1 DEF IInv, Records, Typed, Custody, Membership, Leaves
  <2>4. db' = new /\ keys' = keys /\ node' = CleanThen(purpose, "reply") => IInv'
    <3>. HAVE db' = new /\ keys' = keys /\ node' = CleanThen(purpose, "reply")
    <3>1. /\ node' \in NodeType /\ node'.at = "clean" /\ node'.then = "reply"
          /\ node'.status = node.status /\ node'.ctx = node.ctx /\ node'.blocked = node.blocked
      BY <1>1, CleanType DEF Steps
    <3>. QED
      BY <1>3, <2>1, <2>3, <3>1, EnrolKeeps
  <2>. QED
    BY <2>2, <2>3, <2>4, CommitKeeps, FailsKeeps
<1>. QED
  BY <1>2, <1>3

LEMMA CreateClusterKeeps ==
  ASSUME IInv, CreateCluster
  PROVE  IInv'
<1>1. node.status = "running" /\ node.at = "genesis"
  BY DEF CreateCluster, IInv, Procedural, Phase, ServeSteps
<1>2. CASE Goto("reply")
  <2>1. Before("reply") /\ Phase("reply")
    BY <1>1 DEF Before, Phase, StartSteps, ServeSteps, LeaveSteps
  <2>. QED
    BY <1>1, <1>2, <2>1, GoesKeeps DEF Goto, Steps
<1>3. CASE Fails
  BY <1>1, <1>3, FailsKeeps DEF Fails, Goto
<1>4. CASE /\ db.ident = node.ctx /\ node.ctx \in keys
           /\ Commit([db EXCEPT !.cluster = {node.ctx}, !.journal = @ \cup {"genesis"}],
                     CleanThen("genesis", "reply"), To("failed"))
  BY <1>1, <1>4, EnrolOnceKeeps DEF Purposes
<1>. QED
  BY <1>2, <1>3, <1>4 DEF CreateCluster

LEMMA AdoptAdmissionKeeps ==
  ASSUME IInv, AdoptAdmission
  PROVE  IInv'
<1>1. node.status = "running" /\ node.at = "adopt"
  BY DEF AdoptAdmission, IInv, Procedural, Phase, ServeSteps
<1>2. CASE Fails
  BY <1>1, <1>2, FailsKeeps DEF Fails, Goto
<1>3. CASE /\ db.ident = node.ctx /\ node.ctx \in keys
           /\ Commit([db EXCEPT !.cluster = {node.ctx}, !.journal = @ \cup {"adoption"}],
                     CleanThen("adoption", "reply"), To("failed"))
  BY <1>1, <1>3, EnrolOnceKeeps DEF Purposes
<1>. QED
  BY <1>2, <1>3 DEF AdoptAdmission

LEMMA WriteRecordKeeps ==
  ASSUME IInv, WriteRecord
  PROVE  IInv'
<1>. DEFINE new == [db EXCEPT !.cluster = @ \cup {node.ctx}]
            aborted == IF node.tries < 3 THEN [To("write") EXCEPT !.tries = @ + 1] ELSE To("failed")
<1>1. node.status = "running" /\ node.at = "write" /\ node \in NodeType /\ db \in DbType
  BY DEF WriteRecord, IInv, Records, Typed, Procedural, Phase, ServeSteps
<1>2. CASE Fails
  BY <1>1, <1>2, FailsKeeps DEF Fails, Goto
<1>3. CASE node.blocked /\ Commit(new, To("reply"), aborted)
  BY <1>1, <1>3, FailsKeeps DEF Commit
<1>4. CASE ~node.blocked /\ node.ctx \in keys /\ Commit(new, To("reply"), aborted)
  <2>1. node.ctx \in Ids /\ (~Leaves => node.ctx = db.ident)
    BY <1>1, <1>4 DEF IInv, Serves, Records, Typed
  <2>2. /\ new \in DbType /\ new.ident = db.ident /\ new.create = db.create /\ new.leave = db.leave
        /\ new.deleting = db.deleting /\ new.deleted = db.deleted
        /\ new.cluster = db.cluster \cup {node.ctx}
    BY <1>1, <2>1, SMTT(20) DEF DbType
  <2>. HIDE DEF new
  <2>3. db' = new /\ keys' = keys /\ node' \in NodeType => Records'
    BY <2>1, <2>2 DEF IInv, Records, Typed, Custody, Membership, Leaves
  <2>4. db' = new /\ keys' = keys /\ node' = To("reply") => IInv'
    <3>. HAVE db' = new /\ keys' = keys /\ node' = To("reply")
    <3>1. /\ node' \in NodeType /\ node'.at = "reply"
          /\ node'.status = node.status /\ node'.ctx = node.ctx /\ node'.blocked = node.blocked
      BY <1>1, ToType DEF Steps
    <3>. QED
      BY <1>1, <1>4, <2>2, <2>3, <3>1, EnrolKeeps
  <2>5. UNCHANGED <<db, keys>> /\ node' = aborted => IInv'
    BY <1>1, RetryKeeps, Zenon DEF Steps
  <2>. HIDE DEF aborted
  <2>. QED
    BY <1>1, <1>4, <2>3, <2>4, <2>5, CommitKeeps
<1>. QED
  BY <1>2, <1>3, <1>4 DEF WriteRecord

LEMMA DescribeKeeps ==
  ASSUME IInv, Describe
  PROVE  IInv'
<1>. DEFINE new == [db EXCEPT !.trace = @ \cup {node.ctx}]
            aborted == To(IF node.ctx \in db.trace THEN node.then ELSE "failed")
<1>1. node.status = "running" /\ node.at = "describe" /\ node \in NodeType /\ db \in DbType
      /\ node.then \in {"write", "reply"} /\ node.ctx \in Ids \cup {None}
  BY DEF Describe, IInv, Records, Typed, Procedural, Phase, ServeSteps, NodeType
<1>2. Before(node.then) /\ Phase(node.then) /\ node.then \in Steps
  BY <1>1 DEF Before, Phase, StartSteps, ServeSteps, LeaveSteps, Steps
<1>3. ASSUME node' = To(node.then)
      PROVE  /\ node' \in NodeType /\ node'.at = node.then /\ node'.status = node.status
             /\ node'.ctx = node.ctx /\ node'.blocked = node.blocked
  BY <1>1, <1>2, <1>3, Zenon DEF To, NodeType
<1>4. UNCHANGED <<db, keys>> /\ node' = To(node.then) => IInv'
  BY <1>1, <1>2, <1>3, MovesKeeps
<1>5. CASE Goto(node.then)
  BY <1>4, <1>5 DEF Goto
<1>6. CASE Commit(new, To(node.then), aborted)
  <2>1. db' = new /\ keys' = keys => Aside
    BY <1>1 DEF DbType, Aside
  <2>. HIDE DEF new
  <2>2. db' = new /\ keys' = keys /\ node' \in NodeType => Records'
    BY <2>1 DEF Aside, IInv, Records, Typed, Custody, Membership, Leaves
  <2>3. db' = new /\ keys' = keys /\ node' = To(node.then) => IInv'
    BY <1>1, <1>2, <1>3, <2>1, AsideKeeps
  <2>4. UNCHANGED <<db, keys>> /\ node' = aborted => IInv'
    BY <1>1, <1>4, FailsKeeps
  <2>. HIDE DEF aborted
  <2>. QED
    BY <1>1, <1>6, <2>2, <2>3, <2>4, CommitKeeps
<1>. QED
  BY <1>5, <1>6 DEF Describe

LEMMA ReplyKeeps ==
  ASSUME IInv, Reply
  PROVE  IInv'
<1>1. node.status = "running" /\ node.at = "reply" /\ node' = Waiting /\ UNCHANGED <<db, keys>>
      /\ node \in NodeType
  BY DEF Reply, IInv, Records, Typed, Procedural, Phase, ServeSteps
<1>2. Serves'
  BY <1>1, WaitingType DEF IInv, Serves, Leaves
<1>. QED
  BY <1>1, <1>2, WaitsKeeps

\* The node is down, stopped, failed or closing: no procedure runs.
LEMMA RestsKeeps ==
  ASSUME IInv, UNCHANGED <<db, keys>>, node' \in NodeType, node'.at \in {"none", "closing"},
         node'.status # "running"
  PROVE  IInv'
<1>1. Records'
  BY SMTT(20) DEF IInv, Records, Typed, Custody, Membership, Leaves
<1>2. Procedural' /\ Serves'
  BY DEF Procedural, Before, Phase, StartSteps, ServeSteps, LeaveSteps, Serves
<1>. QED
  BY <1>1, <1>2, SMTT(20) DEF IInv

LEMMA FailedKeeps ==
  ASSUME IInv, Failed
  PROVE  IInv'
<1>1. node.at = "failed" /\ node.status \in {"starting", "running"} /\ UNCHANGED <<db, keys>>
      /\ node \in NodeType
  BY DEF Failed, IInv, Records, Typed, Procedural, Phase
<1>2. CASE node' = Down
  BY <1>1, <1>2, DownType, RestsKeeps
<1>3. CASE node.status = "running" /\ node' = Waiting
  <2>1. Serves'
    BY <1>1, <1>3, WaitingType DEF IInv, Serves, Leaves
  <2>. QED
    BY <1>1, <1>3, <2>1, WaitsKeeps
<1>. QED
  BY <1>1, <1>2, <1>3, SMTT(20) DEF Failed

LEMMA ClosingKeeps ==
  ASSUME IInv, UNCHANGED <<db, keys>>, NEW goal \in {"explicit", "activeLeave"}, Closing(goal)
  PROVE  IInv'
<1>. DEFINE n == To("closing")
<1>1. n \in NodeType /\ n.at = "closing"
  BY ToType DEF IInv, Records, Typed, Steps
<1>2. node' = [n EXCEPT !.status = "closing", !.goal = goal, !.serving = Nobody]
  BY DEF Closing
<1>. HIDE DEF n
<1>3. node' \in NodeType /\ node'.at = "closing" /\ node'.status = "closing"
  BY <1>1, <1>2, Zenon DEF NodeType
<1>. QED
  BY <1>3, RestsKeeps

LEMMA EndKeeps ==
  ASSUME IInv, Stop \/ Lost \/ Crash
  PROVE  IInv'
<1>1. node \in NodeType /\ UNCHANGED <<db, keys>>
  BY Zenon DEF IInv, Records, Typed, Stop, Lost, Crash
<1>2. node.goal \in {"none", "explicit", "activeLeave", "fatal"} /\ node.ctx \in Ids \cup {None}
  BY <1>1 DEF NodeType
<1>3. CASE Stop
  <2>1. node' = [Down EXCEPT !.status = "stopped", !.reason = node.goal, !.ctx = node.ctx]
    BY <1>3, Zenon DEF Stop
  <2>2. node' \in NodeType /\ node'.at = "none" /\ node'.status = "stopped"
    BY <1>2, <2>1, DownType, Zenon DEF NodeType
  <2>. QED
    BY <1>1, <2>2, RestsKeeps, SMTT(20)
<1>4. CASE Lost
  <2>1. node' = [Down EXCEPT !.status = "failed", !.reason = "fatal", !.ctx = node.ctx]
    BY <1>4 DEF Lost
  <2>2. node' \in NodeType /\ node'.at = "none" /\ node'.status = "failed"
    BY <1>2, <2>1, DownType, Zenon DEF NodeType
  <2>. QED
    BY <1>1, <2>2, RestsKeeps
<1>5. CASE Crash
  BY <1>1, <1>5, DownType, RestsKeeps DEF Crash
<1>. QED
  BY <1>3, <1>4, <1>5

LEMMA PutTraceKeeps ==
  ASSUME IInv, NEW i \in Ids, PutTrace(i)
  PROVE  IInv'
<1>1. node \in NodeType /\ db \in DbType /\ keys' = keys
  BY DEF IInv, Records, Typed, PutTrace
<1>2. db' \in {db, [db EXCEPT !.trace = @ \cup {i}]}
  BY DEF PutTrace
<1>3. Aside
  BY <1>1, <1>2 DEF Aside, DbType
<1>4. /\ node' \in NodeType /\ node'.at = node.at /\ node'.then = node.then
      /\ node'.status = node.status /\ node'.ctx = node.ctx
      /\ node'.blocked = node.blocked \/ node'.blocked = TRUE
  <2>1. CASE node' = node
    BY <1>1, <2>1
  <2>2. CASE node' = [node EXCEPT !.stale = TRUE]
    BY <1>1, <2>2, Zenon DEF NodeType
  <2>3. CASE node' = [node EXCEPT !.stale = @ \/ db' # db, !.blocked = TRUE]
    BY <1>1, <2>3, Zenon DEF NodeType
  <2>. QED
    BY <2>1, <2>2, <2>3, Zenon DEF PutTrace
<1>5. Records'
  BY <1>3, <1>4 DEF IInv, Records, Typed, Custody, Membership, Leaves, Aside
<1>6. Leaves' = Leaves /\ Swapped' = Swapped /\ Wiped' = Wiped
  BY <1>3 DEF Leaves, Swapped, Wiped, Aside
<1>7. Procedural'
  <2>1. Before(node.at)' /\ Phase(node.at)'
    BY <1>3, <1>4, <1>6, SMTT(20) DEF IInv, Procedural, Before, Phase, Aside
  <2>2. node.at = "clean" => Before(node.then)' /\ Phase(node.then)'
    BY <1>3, <1>4, <1>6, SMTT(20) DEF IInv, Procedural, Before, Phase, Aside
  <2>. QED
    BY <1>4, <2>1, <2>2, SMTT(20) DEF IInv, Procedural
<1>8. Serves'
  BY <1>3, <1>4, <1>6 DEF IInv, Serves, Aside
<1>. QED
  BY <1>5, <1>7, <1>8 DEF IInv

-----------------------------------------------------------------------------
\* The invariant holds.

LEMMA InitEstablishes ==
  ASSUME Init
  PROVE  IInv /\ queue \in Seq(Clients)
<1>1. db.leave = NoLeave /\ db.ident = None /\ db.create = None /\ db.cluster = {} /\ keys = {}
      /\ db.deleting = {} /\ db.deleted = {} /\ queue = <<>>
  BY SMTT(20) DEF Init
<1>2. db \in DbType
  BY SMTT(20) DEF Init, DbType, NoLeave
<1>3. Records
  BY <1>1, <1>2, DownType, SMTT(20) DEF Init, Records, Typed, Custody, Membership, Leaves
<1>4. Procedural /\ Serves
  BY DownType DEF Init, Procedural, Before, Phase, StartSteps, ServeSteps, LeaveSteps, Serves
<1>. QED
  BY <1>1, <1>3, <1>4 DEF IInv

LEMMA OpeningKeeps ==
  ASSUME IInv, Opening
  PROVE  IInv'
BY OpenKeeps, DiscoverKeeps, CreateIntentKeeps, CreateKeyExactKeeps, ReconcileCreateKeeps,
   FinalizeIdentityKeeps, ResumeIfPendingKeeps, ReadyKeeps, NodeLifeAssumption DEF Opening

LEMMA LeavingKeeps ==
  ASSUME IInv, Leaving
  PROVE  IInv'
BY BeginIntentKeeps, RunLeaveKeeps, ReconcileReplacementKeeps, CreateReplacementKeeps, SMTT(20),
   SwapIdentityKeeps, WipeClusterKeeps, WipeTraceKeeps, DeletePrologueKeeps, RetryDeletionKeeps,
   DeletionIntentKeeps, ReconcileDeleteKeeps, DeleteKeyKeeps, TombstoneKeeps, CompleteLeaveKeeps
DEF Leaving, WipeOldMetadata

LEMMA ServingKeeps ==
  ASSUME IInv, queue \in Seq(Clients), Serving
  PROVE  IInv'
<1>1. CASE ServeShutdown
  BY <1>1, ClosingKeeps DEF ServeShutdown
<1>2. CASE Left
  BY <1>2, ClosingKeeps DEF Left
<1>. QED
  BY <1>1, <1>2, ServeCreateKeeps, CreateClusterKeeps, ServeJoinKeeps, AdoptAdmissionKeeps, SMTT(20),
     ServeWriteKeeps, DescribeKeeps, WriteRecordKeeps, ServeQueryKeeps, ReplyKeeps, ServeLeaveKeeps,
     EndKeeps, FailedKeeps, CleanupPendingKeeps
  DEF Serving

\* Only commands are queued, each for the client that waits for it.
LEMMA QueueKeeps ==
  ASSUME queue \in Seq(Clients), [Next]_vars
  PROVE  queue' \in Seq(Clients)
<1>1. ASSUME NEW new, NEW committed, NEW aborted, Commit(new, committed, aborted)
      PROVE  queue' = queue
  BY <1>1 DEF Commit
<1>2. ASSUME NEW l, Goto(l)
      PROVE  queue' = queue
  BY <1>2 DEF Goto
<1>3. CASE Opening
  BY <1>3, <1>1, <1>2
  DEF Opening, Open, Discover, CreateIntent, CreateKeyExact, CreateUnder, ReconcileCreate,
      ReconcileUnder, FinalizeIdentity, Fails, ResumeIfPending, Ready
<1>4. CASE Leaving
  BY <1>4, <1>1, <1>2
  DEF Leaving, BeginIntent, RunLeave, ReconcileReplacement, ReconcileUnder, CreateReplacement,
      CreateUnder, SwapIdentity, Fails, WipeOldMetadata, WipeFamily, DeletePrologue, RetryDeletion,
      DeletionIntent, ReconcileDelete, DeleteKey, Tombstone, CompleteLeave
<1>5. CASE Serving
  <2>1. CASE ServeCreate \/ ServeJoin \/ ServeWrite \/ ServeQuery \/ ServeLeave
    <3>1. queue # <<>> /\ queue' = Tail(queue)
      BY <2>1 DEF ServeCreate, ServeJoin, ServeWrite, ServeQuery, ServeLeave
    <3>. QED
      BY <3>1
  <2>2. CASE ServeShutdown \/ Left
    <3>1. queue' = <<>>
      BY <2>2 DEF ServeShutdown, Left, Closing
    <3>. QED
      BY <3>1
  <2>3. CASE CreateCluster \/ AdoptAdmission \/ Describe
    BY <2>3, <1>1, <1>2 DEF CreateCluster, AdoptAdmission, Describe, Fails
  <2>4. CASE WriteRecord \/ CleanupPending
    BY <2>4, <1>1, <1>2, SMTT(20) DEF WriteRecord, Fails, CleanupPending
  <2>5. CASE Reply \/ Stop \/ Failed
    BY <2>5, Zenon DEF Reply, Stop, Failed
  <2>. QED
    BY <1>5, <2>1, <2>2, <2>3, <2>4, <2>5 DEF Serving
<1>6. CASE Start \/ Lost \/ Crash \/ RecordTerminal \/ UNCHANGED vars
  <2>1. queue' = queue \/ queue' = <<>>
    BY <1>6 DEF Start, Lost, Crash, RecordTerminal, vars
  <2>2. <<>> \in Seq(Clients)
    OBVIOUS
  <2>. QED
    BY <2>1, <2>2, Zenon
<1>7. ASSUME NEW c \in Clients, (\E kind \in Kinds : Invoke(c, kind)) \/ Send(c) \/ WaitForShutdown(c)
      PROVE  queue' \in Seq(Clients)
  <2>1. queue' = queue \/ queue' = Append(queue, c)
    BY <1>7 DEF Invoke, Send, WaitForShutdown
  <2>. QED
    BY <2>1
<1>8. ASSUME NEW i \in Ids, PutTrace(i)
      PROVE  queue' \in Seq(Clients)
  BY <1>8 DEF PutTrace
<1>. QED
  BY <1>3, <1>4, <1>5, <1>6, <1>7, <1>8 DEF Next, Procedure

LEMMA NextKeeps ==
  ASSUME IInv, queue \in Seq(Clients), [Next]_vars
  PROVE  IInv'
<1>1. CASE UNCHANGED <<db, keys, node>>
  <2>1. Records'
    BY <1>1, SMTT(20) DEF IInv, Records, Typed, Custody, Membership, Leaves
  <2>2. Leaves' = Leaves /\ Swapped' = Swapped /\ Wiped' = Wiped
    BY <1>1, SMTT(20) DEF Leaves, Swapped, Wiped
  <2>3. Procedural'
    BY <1>1, <2>2, SMTT(20) DEF IInv, Procedural, Before, Phase
  <2>4. Serves'
    BY <1>1, <2>2 DEF IInv, Serves
  <2>. QED
    BY <2>1, <2>3, <2>4, SMTT(20) DEF IInv
<1>2. CASE UNCHANGED vars \/ RecordTerminal
  BY <1>1, <1>2 DEF vars, RecordTerminal
<1>3. ASSUME NEW c \in Clients, (\E kind \in Kinds : Invoke(c, kind)) \/ Send(c) \/ WaitForShutdown(c)
      PROVE  IInv'
  BY <1>1, <1>3 DEF Invoke, Send, WaitForShutdown
<1>. QED
  BY <1>2, <1>3, StartKeeps, OpeningKeeps, LeavingKeeps, ServingKeeps, EndKeeps, PutTraceKeeps
  DEF Next, Procedure

LEMMA InvHolds == Spec => [](IInv /\ queue \in Seq(Clients))
<1>1. Init => IInv /\ queue \in Seq(Clients)
  BY InitEstablishes
<1>2. IInv /\ queue \in Seq(Clients) /\ [Next]_vars => (IInv /\ queue \in Seq(Clients))'
  BY NextKeeps, QueueKeeps
<1>. QED
  BY <1>1, <1>2, PTL DEF Spec

(***************************************************************************)
(* Whatever fails and whenever the process dies, the key provider holds    *)
(* the key of the stored identity; and once no creation, leave or deletion *)
(* is pending it holds no other (identity/lifecycle.rs, identity/leave.rs, *)
(* identity/deletion.rs).                                                  *)
(***************************************************************************)
THEOREM KeyKept == Spec => []KeyCustody
<1>1. IInv => KeyCustody
  <2>. SUFFICES ASSUME IInv PROVE KeyCustody
    OBVIOUS
  <2>1. None \notin Ids
    BY DEF None, Ids
  <2>. QED
    BY <2>1 DEF KeyCustody, IInv, Records, Typed, Custody, NoLeave
<1>. QED
  BY <1>1, InvHolds, PTL

(***************************************************************************)
(* Outside a pending leave no cluster record of a former identity is left  *)
(* in the store: the wipe of run_leave cannot be skipped by a resume, a    *)
(* retry or a command served in between.                                   *)
(***************************************************************************)
THEOREM ClusterForgotten == Spec => []FormerClusterForgotten
<1>1. IInv => FormerClusterForgotten
  BY DEF IInv, Records, Membership, Leaves, FormerClusterForgotten
<1>. QED
  BY <1>1, InvHolds, PTL

-----------------------------------------------------------------------------
\* Only Ready begins to serve.

LEMMA StatusCommit ==
  ASSUME node \in NodeType, NEW STATE new, NEW STATE committed, NEW STATE aborted,
         Commit(new, committed, aborted),
         committed.status = node.status, aborted.status = node.status
  PROVE  node'.status = node.status
<1>1. To("failed").status = node.status /\ [To("failed") EXCEPT !.blocked = TRUE].status = node.status
  BY DEF To, NodeType
<1>. QED
  BY <1>1, CommitEffect, Zenon

\* A procedure goes on in the status it began in.
LEMMA StatusGoto ==
  ASSUME node \in NodeType, NEW STATE l, Goto(l)
  PROVE  node'.status = node.status
BY DEF Goto, To, NodeType

LEMMA OpeningStatus ==
  ASSUME IInv, Opening, ~Ready
  PROVE  node'.status = node.status
<1>1. node \in NodeType
  BY DEF IInv, Records, Typed
<1>2. To("createKey").status = node.status /\ To("failed").status = node.status
  BY <1>1, ToType DEF Steps
<1>3. CASE Open \/ Discover
  BY <1>1, <1>3, Zenon DEF Open, Discover, CleanThen, To, NodeType
<1>4. CASE CreateIntent
  BY <1>1, <1>2, <1>4, StatusCommit DEF CreateIntent
<1>5. CASE CreateKeyExact \/ ReconcileCreate
  BY <1>1, <1>5, StatusGoto, Zenon
  DEF CreateKeyExact, CreateUnder, ReconcileCreate, ReconcileUnder, To, NodeType
<1>6. CASE FinalizeIdentity
  <2>1. [CleanThen("local", "resume") EXCEPT !.ctx = db.create].status = node.status
    BY <1>1 DEF CleanThen, NodeType
  <2>. QED
    BY <1>1, <1>2, <1>6, <2>1, StatusCommit, StatusGoto, Zenon DEF FinalizeIdentity, Fails
<1>7. CASE ResumeIfPending
  BY <1>1, <1>7, StatusGoto DEF ResumeIfPending
<1>. QED
  BY <1>3, <1>4, <1>5, <1>6, <1>7 DEF Opening

LEMMA LeavingStatus ==
  ASSUME IInv, Leaving
  PROVE  node'.status = node.status
<1>1. node \in NodeType
  BY DEF IInv, Records, Typed
<1>2. /\ To("failed").status = node.status /\ To("runLeave").status = node.status
      /\ To("left").status = node.status /\ To("retryDeletion").status = node.status
      /\ To("deleteKey").status = node.status /\ To("wipeCluster").status = node.status
      /\ To("wipeTrace").status = node.status
  BY <1>1 DEF To, NodeType
<1>3. CASE BeginIntent
  BY <1>1, <1>2, <1>3, StatusCommit DEF BeginIntent
<1>4. CASE RunLeave \/ ReconcileReplacement \/ CreateReplacement
  BY <1>1, <1>4, StatusGoto, Zenon
  DEF RunLeave, ReconcileReplacement, ReconcileUnder, CreateReplacement, CreateUnder, To, NodeType
<1>5. CASE SwapIdentity
  <2>1. [To("wipeCluster") EXCEPT !.tries = 0].status = node.status
    BY <1>1 DEF To, NodeType
  <2>. QED
    BY <1>1, <1>2, <1>5, <2>1, StatusCommit, StatusGoto, Zenon DEF SwapIdentity, Fails
<1>6. ASSUME NEW at, NEW family, NEW l, WipeFamily(at, family, l)
      PROVE  node'.status = node.status
  <2>1. [To(l) EXCEPT !.tries = 0].status = node.status /\ To(at).status = node.status
        /\ [To(at) EXCEPT !.tries = @ + 1].status = node.status
    BY <1>1 DEF To, NodeType
  <2>. QED
    BY <1>1, <1>2, <1>6, <2>1, StatusCommit, Zenon DEF WipeFamily
<1>7. CASE DeletePrologue \/ RetryDeletion \/ ReconcileDelete \/ DeleteKey
  BY <1>1, <1>7, StatusGoto, ZenonT(30)
  DEF DeletePrologue, RetryDeletion, Fails, ReconcileDelete, ReconcileUnder, DeleteKey, CleanThen, To,
      NodeType
<1>8. CASE DeletionIntent
  BY <1>1, <1>2, <1>8, StatusCommit, StatusGoto DEF DeletionIntent, Fails
<1>9. CASE Tombstone
  <2>1. CleanThen("deletion", "complete").status = node.status
    BY <1>1 DEF CleanThen, NodeType
  <2>. QED
    BY <1>1, <1>2, <1>9, <2>1, StatusCommit, StatusGoto DEF Tombstone, Fails
<1>10. CASE CompleteLeave
  <2>1. [To("ready") EXCEPT !.ctx = db.ident].status = node.status
    BY <1>1 DEF To, NodeType
  <2>. QED
    BY <1>1, <1>2, <1>10, <2>1, StatusCommit, ZenonT(30) DEF CompleteLeave
<1>. QED
  BY <1>3, <1>4, <1>5, <1>6, <1>7, <1>8, <1>9, <1>10 DEF Leaving, WipeOldMetadata

(***************************************************************************)
(* A start-up that succeeds has finished any pending leave and serves the  *)
(* stored identity: resume_if_pending of identity/leave.rs runs before the *)
(* control loop, however often a leave was interrupted.                    *)
(***************************************************************************)
THEOREM LeaveResumed == Spec => ResumedBeforeServing
<1>1. ASSUME IInv, [Next]_vars, node.status = "starting", node'.status = "running"
      PROVE  db.leave = NoLeave /\ node'.ctx = db.ident
  <2>1. node \in NodeType
    BY <1>1 DEF IInv, Records, Typed
  <2>2. CASE Ready
    BY <1>1, <2>1, <2>2, WaitingType, SMTT(20) DEF Ready, IInv, Procedural, Before, Leaves
  <2>3. CASE CleanupPending
    <3>1. /\ To(node.then).status = "starting" /\ [To("clean") EXCEPT !.tries = @ + 1].status = "starting"
          /\ To("retryDeletion").status = "starting" /\ To("failed").status = "starting"
      BY <1>1, <2>1 DEF To, NodeType
    <3>. QED
      BY <1>1, <2>1, <2>3, <3>1, StatusCommit, StatusGoto, Zenon DEF CleanupPending
  <2>4. CASE Serving /\ ~CleanupPending
    <3>1. node.at \notin {"genesis", "adopt", "describe", "write", "reply", "left"}
      BY <1>1 DEF IInv, Procedural, Phase, ServeSteps
    <3>. QED
      BY <1>1, <2>4, <3>1, DownType, ZenonT(30)
      DEF Serving, ServeCreate, CreateCluster, ServeJoin, AdoptAdmission, ServeWrite, Describe,
          WriteRecord, ServeQuery, Reply, ServeLeave, ServeShutdown, Left, Stop, Failed, Down
  <2>5. CASE Start \/ Lost \/ Crash \/ RecordTerminal \/ UNCHANGED vars
    BY <1>1, <2>5 DEF Start, Lost, Crash, RecordTerminal, vars, Down
  <2>6. ASSUME NEW c \in Clients,
               (\E kind \in Kinds : Invoke(c, kind)) \/ Send(c) \/ WaitForShutdown(c)
        PROVE  FALSE
    BY <1>1, <2>6 DEF Invoke, Send, WaitForShutdown
  <2>7. ASSUME NEW i \in Ids, PutTrace(i)
        PROVE  FALSE
    BY <1>1, <2>1, <2>7, Zenon DEF PutTrace, NodeType
  <2>. QED
    BY <1>1, <2>2, <2>3, <2>4, <2>5, <2>6, <2>7, OpeningStatus, LeavingStatus DEF Next, Procedure
<1>2. IInv /\ [Next]_vars =>
        [node.status = "starting" /\ node'.status = "running"
           => db.leave = NoLeave /\ node'.ctx = db.ident]_vars
  BY <1>1
<1>. QED
  BY <1>2, InvHolds, PTL DEF Spec, ResumedBeforeServing

=============================================================================
