----------------------------- MODULE Admission -----------------------------
(***************************************************************************)
(* Joining through one receiver: the receiver's join credential generation  *)
(* (identity/credential.rs), the responder and the initiator of a join      *)
(* handshake (session/driver.rs) and the durable admission and adoption     *)
(* commits (identity/admission.rs).                                         *)
(*                                                                          *)
(* Abstractions: a generation is its number; an admission stands for its    *)
(* binding, credential use and grant, which one transaction installs; a     *)
(* proof is valid when it is made with the credential of the generation in  *)
(* the hint; the admission id is new in every attempt, so no two attempts   *)
(* propose the same admission.  A blocked store, which refuses attempts     *)
(* and rotations, is left out: MetadataStore models it.                     *)
(***************************************************************************)
EXTENDS Naturals

CONSTANTS
  Joiners,
  Connections,     \* connections that may be open at the same time
  MaxGenerations,  \* bound on rotations
  MaxFaults        \* bound on deadlines, lost deliveries and restarts

ASSUME AdmissionAssumption == Joiners # {} /\ MaxGenerations \in Nat /\ MaxFaults \in Nat

VARIABLES
  issuer,    \* JoinCredentialIssuer: the current generation
  task,      \* the responder's task on each connection
  join,      \* the initiator's side of each connection
  admitted,  \* the receiver's store: admissions
  cluster,   \* each joiner's store: the adopted grant's generation, 0 if none
  posted,    \* the hint the accept loop holds for the next connection: none yet, or
             \* a generation (0: a connection that carries no hint)
  faults

vars == <<issuer, task, join, admitted, cluster, posted, faults>>

Generations == 0 .. MaxGenerations   \* 0: no generation
Admissions == [subject : Joiners, generation : Generations]

\* The responder's stages; only "idle" holds no reservation and is not running.
Stages == {"idle", "hello", "proof", "check", "commit", "deliver", "consume", "detached"}
Reserving == {"proof", "check", "commit", "deliver", "consume"}

Issuers == [id : Generations, state : {"Absent", "Active", "Reserved", "Consumed"}, expired : BOOLEAN]
Tasks == [stage : Stages, generation : Generations]
Joins == [stage : {"idle", "hello", "proved", "granted", "gone"}, by : Joiners,
          hint : Generations, credential : Generations]

NoTask == [stage |-> "idle", generation |-> 0]
NoJoin == [stage |-> "idle", by |-> CHOOSE j \in Joiners : TRUE, hint |-> 0, credential |-> 0]

Init ==
  /\ issuer = [id |-> 0, state |-> "Absent", expired |-> FALSE]
  /\ task = [c \in Connections |-> NoTask]
  /\ join = [c \in Connections |-> NoJoin]
  /\ admitted = {}
  /\ cluster = [j \in Joiners |-> 0]
  /\ posted = {}
  /\ faults = 0

Fault == faults < MaxFaults /\ faults' = faults + 1

-----------------------------------------------------------------------------
\* The credential generation.

Live == issuer.state \in {"Active", "Reserved"} /\ ~issuer.expired

\* reserve succeeds: the generation is live and no attempt holds it.
Reservable == Live /\ issuer.state = "Active"

\* rotate_join_credential: the old generation is replaced whatever its state.
Rotate ==
  /\ issuer.id < MaxGenerations
  /\ issuer' = [id |-> issuer.id + 1, state |-> "Active", expired |-> FALSE]
  /\ UNCHANGED <<task, join, admitted, cluster, posted, faults>>

\* The ten minutes of the generation have passed.
Expire ==
  /\ issuer.state # "Absent" /\ ~issuer.expired
  /\ issuer' = [issuer EXCEPT !.expired = TRUE]
  /\ UNCHANGED <<task, join, admitted, cluster, posted, faults>>

\* release and consume name no generation: they change the current one.
Released == IF issuer.state = "Reserved" THEN [issuer EXCEPT !.state = "Active"] ELSE issuer
Consumed == IF issuer.state = "Reserved" THEN [issuer EXCEPT !.state = "Consumed"] ELSE issuer

-----------------------------------------------------------------------------
\* The accept loop of listen computes a hint and then waits for a connection, so
\* the hint a connection carries is as old as the wait.
Post ==
  /\ posted = {}
  /\ posted' = {IF issuer.state = "Absent" THEN 0 ELSE issuer.id}
  /\ UNCHANGED <<issuer, task, join, admitted, cluster, faults>>

\* A member's connection, or one of a joiner that finds no hint and gives up.
Accepted ==
  /\ posted # {}
  /\ posted' = {}
  /\ UNCHANGED <<issuer, task, join, admitted, cluster, faults>>

\* join_cluster and join_inner: a standalone node dials with the credential its
\* operator was given and presents the hint of the accepted connection.
Join(j, c, credential) ==
  /\ cluster[j] = 0
  /\ \A d \in Connections : join[d].stage # "idle" => join[d].by # j
  /\ join[c].stage = "idle" /\ task[c].stage = "idle"
  /\ credential \in 1 .. issuer.id
  /\ \E hint \in posted \ {0} :
       join' = [join EXCEPT ![c] =
         [stage |-> "hello", by |-> j, hint |-> hint, credential |-> credential]]
  /\ posted' = {}
  /\ task' = [task EXCEPT ![c] = [stage |-> "hello", generation |-> 0]]
  /\ UNCHANGED <<issuer, admitted, cluster, faults>>

\* The task ends; an initiator that has no grant yet fails with it.
End(c) ==
  /\ task' = [task EXCEPT ![c] = NoTask]
  /\ join' = [join EXCEPT ![c] = IF @.stage = "granted" THEN @ ELSE NoJoin]

\* Mutant: an armed reservation whose attempt fails is not released.
ReserveKept(c) ==
  /\ task[c].stage = "hello"
  /\ IF Reservable /\ join[c].hint = issuer.id
     THEN /\ issuer' = [issuer EXCEPT !.state = "Reserved"]
          /\ task' = [task EXCEPT ![c] = NoTask]
          /\ join' = [join EXCEPT ![c] = NoJoin]
     ELSE End(c) /\ UNCHANGED issuer
  /\ UNCHANGED <<admitted, cluster, posted, faults>>

\* respond_inner: the hint is compared with the current generation, which is
\* reserved for this attempt, in one critical section.
Reserve(c) ==
  /\ task[c].stage = "hello"
  /\ IF Reservable /\ join[c].hint = issuer.id
     THEN /\ issuer' = [issuer EXCEPT !.state = "Reserved"]
          /\ task' = [task EXCEPT ![c] = [stage |-> "proof", generation |-> issuer.id]]
          /\ UNCHANGED join
     ELSE End(c) /\ UNCHANGED issuer
  /\ UNCHANGED <<admitted, cluster, posted, faults>>

\* join_inner: the initiator proves once the responder's proof verifies, which
\* it does not when the two have different credentials.
Prove(c) ==
  /\ join[c].stage = "hello" /\ task[c].stage = "proof"
  /\ join' = [join EXCEPT ![c] =
       IF join[c].credential = task[c].generation THEN [@ EXCEPT !.stage = "proved"] ELSE NoJoin]
  /\ UNCHANGED <<issuer, task, admitted, cluster, posted, faults>>

\* Mutant: a connection that is closed before the proof is not noticed.
ReceiveProofOnly(c) ==
  /\ task[c].stage = "proof" /\ join[c].stage = "proved"
  /\ task' = [task EXCEPT ![c].stage = "check"]
  /\ UNCHANGED <<issuer, join, admitted, cluster, posted, faults>>

\* The proof arrives, or the connection is closed and the attempt fails.
ReceiveProof(c) ==
  /\ task[c].stage = "proof" /\ join[c].stage \in {"proved", "idle"}
  /\ IF join[c].stage = "proved"
     THEN task' = [task EXCEPT ![c].stage = "check"] /\ UNCHANGED <<issuer, join>>
     ELSE End(c) /\ issuer' = Released
  /\ UNCHANGED <<admitted, cluster, posted, faults>>

\* The subject or the generation has an admission: since the admission id is
\* new, it is never the one that is proposed.
Taken(j, g) == \E a \in admitted : a.subject = j \/ a.generation = g

\* commit_admission, the snapshot: an existing record fails the attempt.
Check(c) ==
  /\ task[c].stage = "check"
  /\ IF Taken(join[c].by, task[c].generation)
     THEN End(c) /\ issuer' = Released
     ELSE task' = [task EXCEPT ![c].stage = "commit"] /\ UNCHANGED <<issuer, join>>
  /\ UNCHANGED <<admitted, cluster, posted, faults>>

\* Mutant: the commit trusts the snapshot and expects nothing to be absent.
CommitBlind(c) ==
  /\ task[c].stage = "commit"
  /\ admitted' = admitted \cup {[subject |-> join[c].by, generation |-> task[c].generation]}
  /\ task' = [task EXCEPT ![c].stage = "deliver"]
  /\ UNCHANGED <<issuer, join, cluster, posted, faults>>

\* Mutant: an aborted commit goes on to deliver the grant.
CommitUnchecked(c) ==
  /\ task[c].stage = "commit"
  /\ \/ /\ ~Taken(join[c].by, task[c].generation)
        /\ admitted' = admitted \cup {[subject |-> join[c].by, generation |-> task[c].generation]}
     \/ UNCHANGED admitted
  /\ task' = [task EXCEPT ![c].stage = "deliver"]
  /\ UNCHANGED <<issuer, join, cluster, posted, faults>>

\* commit_admission, the transaction: all three records are expected absent.
Commit(c) ==
  /\ task[c].stage = "commit"
  /\ IF Taken(join[c].by, task[c].generation)
     THEN End(c) /\ issuer' = Released /\ UNCHANGED admitted
     ELSE /\ admitted' = admitted \cup {[subject |-> join[c].by, generation |-> task[c].generation]}
          /\ task' = [task EXCEPT ![c].stage = "deliver"]
          /\ UNCHANGED <<issuer, join>>
  /\ UNCHANGED <<cluster, posted, faults>>

\* The commit aborts, or its outcome is unknown and it was not applied.
Abort(c) ==
  /\ Fault
  /\ task[c].stage = "commit"
  /\ End(c) /\ issuer' = Released
  /\ UNCHANGED <<admitted, cluster, posted>>

\* commit_and_deliver: the grant reaches an initiator that still waits for it.
Deliver(c) ==
  /\ task[c].stage = "deliver"
  /\ IF join[c].stage = "proved"
     THEN /\ join' = [join EXCEPT ![c].stage = "granted"]
          /\ task' = [task EXCEPT ![c].stage = "consume"]
          /\ UNCHANGED issuer
     ELSE End(c) /\ issuer' = Released
  /\ UNCHANGED <<admitted, cluster, posted, faults>>

\* reservation.consume; when the current generation is not reserved it fails,
\* and so does the attempt.
Consume(c) ==
  /\ task[c].stage = "consume"
  /\ issuer' = Consumed
  /\ End(c)
  /\ UNCHANGED <<admitted, cluster, posted, faults>>

\* adopt_admission: one transaction on the joiner, which is standalone.
Adopt(c) ==
  /\ join[c].stage = "granted"
  /\ cluster' = [cluster EXCEPT ![join[c].by] = join[c].credential]
  /\ join' = [join EXCEPT ![c] = NoJoin]
  /\ UNCHANGED <<issuer, task, admitted, posted, faults>>

-----------------------------------------------------------------------------
\* The responder's authentication deadline drops the attempt at any await; a
\* transaction that was submitted goes on without it, and a delivery that is
\* being sent may still arrive.
Deadline(c) ==
  /\ Fault
  /\ task[c].stage \in {"hello", "proof", "check", "commit", "deliver"}
  /\ issuer' = IF task[c].stage = "hello" THEN issuer ELSE Released
  /\ \/ End(c)
     \/ /\ task[c].stage = "commit"
        /\ task' = [task EXCEPT ![c].stage = "detached"]
        /\ UNCHANGED join
     \/ /\ task[c].stage = "deliver" /\ join[c].stage = "proved"
        /\ task' = [task EXCEPT ![c] = NoTask]
        /\ join' = [join EXCEPT ![c].stage = "granted"]
  /\ UNCHANGED <<admitted, cluster, posted>>

Detached(c) ==
  /\ task[c].stage = "detached"
  /\ admitted' = IF Taken(join[c].by, task[c].generation) THEN admitted
                 ELSE admitted \cup {[subject |-> join[c].by, generation |-> task[c].generation]}
  /\ End(c)
  /\ UNCHANGED <<issuer, cluster, posted, faults>>

\* The initiator's deadline or restart: the responder notices later.  A task
\* that has not finished keeps the connection's identity.
GiveUp(c) ==
  /\ Fault
  /\ join[c].stage \in {"hello", "proved", "granted"}
  /\ join' = [join EXCEPT ![c] =
       IF task[c].stage \in {"idle", "hello", "proof"} THEN NoJoin ELSE [@ EXCEPT !.stage = "gone"]]
  /\ UNCHANGED <<issuer, task, admitted, cluster, posted>>

\* The receiver restarts: the generation and the tasks are lost.
Restart ==
  /\ Fault
  /\ issuer' = [issuer EXCEPT !.state = "Absent"]
  /\ task' = [c \in Connections |-> NoTask]
  /\ join' = [c \in Connections |-> IF join[c].stage = "granted" THEN join[c] ELSE NoJoin]
  /\ posted' = {}
  /\ UNCHANGED <<admitted, cluster>>

Step(c) ==
  \/ Reserve(c) \/ ReceiveProof(c) \/ Check(c) \/ Commit(c) \/ Deliver(c) \/ Consume(c)
  \/ Detached(c)

Next ==
  \/ Rotate \/ Expire \/ Restart \/ Post \/ Accepted
  \/ \E c \in Connections :
       \/ \E j \in Joiners, g \in Generations : Join(j, c, g)
       \/ Step(c) \/ Prove(c) \/ Adopt(c) \/ Abort(c) \/ Deadline(c) \/ GiveUp(c)

Spec == Init /\ [][Next]_vars

\* Tasks and the accept loop are scheduled, messages of an open connection
\* arrive, and the operator of a standalone node tries again with the newest
\* credential.
FairSpec ==
  /\ Spec /\ WF_vars(Post)
  /\ \A c \in Connections : WF_vars(Step(c)) /\ WF_vars(Prove(c)) /\ WF_vars(Adopt(c))
  /\ \A j \in Joiners : WF_vars(\E c \in Connections : Join(j, c, issuer.id))

-----------------------------------------------------------------------------
\* Every variable has its type.
TypeOK ==
  /\ issuer \in Issuers
  /\ task \in [Connections -> Tasks]
  /\ join \in [Connections -> Joins]
  /\ admitted \subseteq Admissions
  /\ cluster \in [Joiners -> Generations]
  /\ posted \subseteq Generations
  /\ faults \in 0 .. MaxFaults

\* However attempts, rotations, deadlines and restarts interleave, a generation
\* admits at most one subject and a subject has at most one admission (the
\* expectations of commit_admission's transaction).
SingleUse ==
  \A a, b \in admitted : a.subject = b.subject \/ a.generation = b.generation => a = b

\* What a joiner has adopted is an admission in the receiver's store, of that
\* joiner and of the generation it proved: the grant is delivered only after
\* the commit (commit_and_deliver) and survives the responder's failures.
AdoptedIsAdmitted ==
  \A j \in Joiners : cluster[j] # 0 => [subject |-> j, generation |-> cluster[j]] \in admitted

\* A reserved generation has an attempt in progress that reserved it, so that
\* no failure leaves it reserved for ever (CredentialReservation's drop).
ReservedHasHolder ==
  issuer.state = "Reserved" =>
    \E c \in Connections : task[c].stage \in Reserving /\ task[c].generation = issuer.id

\* "reserved by at most one in-progress commit" (ADR-0001:122).
OneCommitter ==
  \A c, d \in Connections :
    /\ task[c].stage \in Reserving /\ task[d].stage \in Reserving
    /\ task[c].generation = task[d].generation
    => c = d

\* "invalidated immediately by explicit rotation" (ADR-0001:121): an admission
\* is of the generation that is current when it is committed.
RotationInvalidates == [][\A a \in admitted' \ admitted : a.generation = issuer.id]_vars

\* "consumed by exactly one successfully committed new identity" (ADR-0001:123):
\* a generation is consumed only when it has an admission.
ConsumedIsUsed ==
  [][issuer.state = "Reserved" /\ issuer'.state = "Consumed" =>
       \E a \in admitted : a.generation = issuer.id]_vars

\* "A lost final response is recovered by attempting member authentication with
\* the same identity key" (ADR-0001:251): a committed subject gets its grant.
\* (member_inner needs the joiner's cluster pointer, which adoption installs, so
\* a standalone node has no step but another join.)
LostGrantRecovers ==
  \A j \in Joiners : (\E a \in admitted : a.subject = j) ~> cluster[j] # 0

\* "The join hint is computed per accepted connection" (supervisor.rs:733): the
\* hint a joiner presents names the generation that is current when it connects.
HintIsCurrent ==
  [][\A c \in Connections : join[c].stage = "idle" /\ join'[c].stage # "idle" =>
       join'[c].hint = issuer.id]_vars

\* Every attempt ends: no responder task waits for ever.
AttemptsEnd == \A c \in Connections : task[c].stage # "idle" ~> task[c].stage = "idle"
=============================================================================
