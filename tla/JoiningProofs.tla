---------------------------- MODULE JoiningProofs ----------------------------
(***************************************************************************)
(* Joining, for any number of joiners, connections, rotations, faults and  *)
(* attempts and any limits: a generation admits one subject, joiners adopt *)
(* only committed admissions, a reserved generation is held by an attempt, *)
(* and the limiter's counts are the attempts in flight.                    *)
(***************************************************************************)
EXTENDS Admission, AdmissionRate, FiniteSetTheorems, TLAPS

-----------------------------------------------------------------------------
(***************************************************************************)
(* The admission.  The invariant ties the two ends of a connection         *)
(* together: what is proved, granted or about to be delivered is the       *)
(* admission in the receiver's store.                                      *)
(***************************************************************************)

\* The admission that connection c is about, as each side knows it.
Proposed(c) == [subject |-> join[c].by, generation |-> task[c].generation]
Granted(c) == [subject |-> join[c].by, generation |-> join[c].credential]

\* The two ends of a connection agree with each other and with the store.
Agrees(c) ==
  /\ task[c].stage = "hello" => join[c].stage \in {"idle", "hello"}
  /\ join[c].stage = "proved" => join[c].credential = task[c].generation
  /\ join[c].stage = "granted" => task[c].stage \in {"idle", "consume"} /\ Granted(c) \in admitted
  /\ task[c].stage = "deliver" => Proposed(c) \in admitted

\* The inductive invariant.
AdmissionIInv ==
  /\ TypeOK
  /\ SingleUse
  /\ AdoptedIsAdmitted
  /\ ReservedHasHolder
  /\ \A c \in Connections : Agrees(c)

-----------------------------------------------------------------------------
\* The values that reset a connection have their types.
LEMMA Resets == NoTask \in Tasks /\ NoJoin \in Joins
BY AdmissionAssumption DEF AdmissionAssumption, NoTask, NoJoin, Tasks, Joins, Stages, Generations

\* What an action makes of an issuer, a task or a join has its type.
LEMMA Changes ==
  /\ \A i \in Issuers, s \in {"Absent", "Active", "Reserved", "Consumed"} :
       [i EXCEPT !.state = s] \in Issuers
  /\ \A i \in Issuers : [i EXCEPT !.expired = TRUE] \in Issuers
  /\ \A k \in Tasks, s \in Stages : [k EXCEPT !.stage = s] \in Tasks
  /\ \A k \in Joins, s \in {"proved", "granted", "gone"} : [k EXCEPT !.stage = s] \in Joins
  /\ {"check", "commit", "deliver", "consume", "detached"} \subseteq Stages
BY ZenonT(30) DEF Issuers, Tasks, Joins, Stages

\* The fields of an issuer, a task and a join.
LEMMA Fields ==
  /\ \A i \in Issuers : i.id \in Generations
  /\ \A k \in Tasks : k.generation \in Generations
  /\ \A k \in Joins : k.by \in Joiners /\ k.credential \in Generations
BY DEF Issuers, Tasks, Joins

\* The initial state satisfies the invariant.
LEMMA AdmissionInitInv == Init => AdmissionIInv
<1> SUFFICES ASSUME Init PROVE AdmissionIInv
  OBVIOUS
<1>1. TypeOK
  <2>1. 0 \in Generations /\ 0 \in 0 .. MaxFaults
    BY AdmissionAssumption DEF AdmissionAssumption, Generations
  <2> QED BY <2>1, Resets DEF Init, TypeOK, Issuers
<1>2. SingleUse /\ AdoptedIsAdmitted /\ ReservedHasHolder
  BY DEF Init, SingleUse, AdoptedIsAdmitted, ReservedHasHolder
<1>3. \A c \in Connections : Agrees(c)
  BY DEF Init, Agrees, NoTask, NoJoin
<1> QED BY <1>1, <1>2, <1>3 DEF AdmissionIInv

\* Every step preserves the types.
LEMMA TypeStep == TypeOK /\ [Next]_vars => TypeOK'
<1> SUFFICES ASSUME TypeOK, [Next]_vars PROVE TypeOK'
  OBVIOUS
<1> USE DEF TypeOK
<1>a. ASSUME NEW c \in Connections, NEW k \in Tasks PROVE [task EXCEPT ![c] = k] \in [Connections -> Tasks]
  OBVIOUS
<1>b. ASSUME NEW c \in Connections, NEW k \in Joins PROVE [join EXCEPT ![c] = k] \in [Connections -> Joins]
  OBVIOUS
<1>s. ASSUME NEW c \in Connections, NEW s \in {"check", "commit", "deliver", "consume", "detached"}
      PROVE [task EXCEPT ![c].stage = s] \in [Connections -> Tasks]
  BY DEF Tasks, Stages
<1>j. ASSUME NEW c \in Connections
      PROVE [join EXCEPT ![c].stage = "granted"] \in [Connections -> Joins]
  BY DEF Joins
<1>i. /\ issuer.id \in Generations
      /\ [issuer EXCEPT !.state = "Reserved"] \in Issuers /\ [issuer EXCEPT !.state = "Absent"] \in Issuers
  BY Changes, Fields, Zenon
<1>f. ASSUME Fault PROVE faults' \in 0 .. MaxFaults
  BY <1>f, AdmissionAssumption DEF Fault, AdmissionAssumption
<1>g. Released \in Issuers /\ Consumed \in Issuers
  BY Changes, Zenon DEF Released, Consumed
<1>e. ASSUME NEW c \in Connections, End(c)
      PROVE task' \in [Connections -> Tasks] /\ join' \in [Connections -> Joins]
  BY <1>e, Resets DEF End
<1>p. \A c \in Connections : [subject |-> join[c].by, generation |-> task[c].generation] \in Admissions
  BY Fields DEF Admissions
<1>1. CASE Rotate
  <2>1. issuer.id + 1 \in Generations
    BY <1>1, <1>i, AdmissionAssumption DEF Rotate, Generations, AdmissionAssumption
  <2> QED BY <1>1, <2>1 DEF Rotate, Issuers
<1>2. CASE Expire
  BY <1>2, Changes DEF Expire
<1>3. CASE Restart
  BY <1>3, <1>f, <1>i, Resets DEF Restart
<1>4. ASSUME NEW c \in Connections, NEW j \in Joiners, NEW g \in Generations, Join(j, c, g) PROVE TypeOK'
  <2>1. 0 \in Generations
    BY AdmissionAssumption DEF Generations, AdmissionAssumption
  <2>2. /\ \A h \in posted : [stage |-> "hello", by |-> j, hint |-> h, credential |-> g] \in Joins
        /\ [stage |-> "hello", generation |-> 0] \in Tasks
    BY <2>1 DEF Joins, Tasks, Stages
  <2> QED BY <1>4, <2>2, <1>a, <1>b DEF Join
<1>5. ASSUME NEW c \in Connections, Reserve(c) PROVE TypeOK'
  <2>1. [stage |-> "proof", generation |-> issuer.id] \in Tasks
    BY <1>i DEF Tasks, Stages
  <2> QED BY <1>5, <1>e, <2>1, <1>a, <1>i DEF Reserve
<1>6. ASSUME NEW c \in Connections, ReceiveProof(c) PROVE TypeOK'
  BY <1>6, <1>e, <1>g, <1>s, Zenon DEF ReceiveProof
<1>7. ASSUME NEW c \in Connections, Check(c) PROVE TypeOK'
  BY <1>7, <1>e, <1>g, <1>s, Zenon DEF Check
<1>8. ASSUME NEW c \in Connections, Commit(c) PROVE TypeOK'
  BY <1>8, <1>e, <1>g, <1>p, <1>s, ZenonT(30) DEF Commit
<1>9. ASSUME NEW c \in Connections, Deliver(c) PROVE TypeOK'
  BY <1>9, <1>e, <1>g, <1>j, <1>s, ZenonT(30) DEF Deliver
<1>10. ASSUME NEW c \in Connections, Consume(c) PROVE TypeOK'
  BY <1>10, <1>e, <1>g DEF Consume
<1>11. ASSUME NEW c \in Connections, Detached(c) PROVE TypeOK'
  BY <1>11, <1>e, <1>p DEF Detached
<1>12. ASSUME NEW c \in Connections, Prove(c) PROVE TypeOK'
  BY <1>12, <1>b, Resets, Changes, Zenon DEF Prove
<1>13. ASSUME NEW c \in Connections, Adopt(c) PROVE TypeOK'
  BY <1>13, <1>b, Resets, Fields DEF Adopt
<1>14. ASSUME NEW c \in Connections, Abort(c) PROVE TypeOK'
  BY <1>14, <1>e, <1>f, <1>g DEF Abort
<1>15. ASSUME NEW c \in Connections, Deadline(c) PROVE TypeOK'
  <2>1. task' \in [Connections -> Tasks] /\ join' \in [Connections -> Joins]
    <3>1. CASE End(c)
      BY <3>1, <1>e
    <3>2. CASE task' = [task EXCEPT ![c].stage = "detached"] /\ UNCHANGED join
      BY <3>2, <1>s, Zenon
    <3>3. CASE task' = [task EXCEPT ![c] = NoTask] /\ join' = [join EXCEPT ![c].stage = "granted"]
      BY <3>3, <1>a, <1>j, Resets
    <3> QED BY <1>15, <3>1, <3>2, <3>3 DEF Deadline
  <2> QED BY <1>15, <2>1, <1>f, <1>g DEF Deadline
<1>16. ASSUME NEW c \in Connections, GiveUp(c) PROVE TypeOK'
  BY <1>16, <1>f, <1>b, Resets, Changes, Zenon DEF GiveUp
<1>17. CASE UNCHANGED vars
  BY <1>17 DEF vars
<1>18. CASE Post \/ Accepted
  <2>1. 0 \in Generations
    BY AdmissionAssumption DEF Generations, AdmissionAssumption
  <2> QED BY <1>18, <2>1, <1>i DEF Post, Accepted
<1> QED
  BY <1>1, <1>2, <1>3, <1>4, <1>5, <1>6, <1>7, <1>8, <1>9, <1>10, <1>11, <1>12, <1>13, <1>14,
     <1>15, <1>16, <1>17, <1>18 DEF Next, Step

-----------------------------------------------------------------------------
\* An admission is added only when neither its subject nor its generation has
\* one, and none is ever taken back.
LEMMA AdmittedStep ==
  ASSUME TypeOK, [Next]_vars
  PROVE  /\ admitted \subseteq admitted'
         /\ \/ admitted' = admitted
            \/ \E j \in Joiners, g \in Generations :
                 ~Taken(j, g) /\ admitted' = admitted \cup {[subject |-> j, generation |-> g]}
<1>1. ASSUME NEW c \in Connections, Commit(c) \/ Detached(c)
      PROVE  \/ admitted' = admitted
             \/ \E j \in Joiners, g \in Generations :
                  ~Taken(j, g) /\ admitted' = admitted \cup {[subject |-> j, generation |-> g]}
  <2>1. join[c].by \in Joiners /\ task[c].generation \in Generations
    BY Fields DEF TypeOK
  <2> QED BY <1>1, <2>1 DEF Commit, Detached
<1>2. ASSUME ~\E c \in Connections : Commit(c) \/ Detached(c) PROVE admitted' = admitted
  BY <1>2 DEF Next, vars, Rotate, Expire, Restart, Post, Accepted, Join, Step, Reserve, ReceiveProof, Check, Deliver,
     Consume, Prove, Adopt, Abort, Deadline, GiveUp
<1>3. \/ admitted' = admitted
      \/ \E j \in Joiners, g \in Generations :
           ~Taken(j, g) /\ admitted' = admitted \cup {[subject |-> j, generation |-> g]}
  BY <1>1, <1>2
<1> QED BY <1>3

\* Every step preserves single use.
LEMMA SingleUseStep == TypeOK /\ SingleUse /\ [Next]_vars => SingleUse'
<1> SUFFICES ASSUME TypeOK, SingleUse, [Next]_vars PROVE SingleUse'
  OBVIOUS
<1>1. CASE admitted' = admitted
  BY <1>1 DEF SingleUse
<1>2. ASSUME NEW j \in Joiners, NEW g \in Generations, ~Taken(j, g),
             admitted' = admitted \cup {[subject |-> j, generation |-> g]}
      PROVE SingleUse'
  BY <1>2 DEF SingleUse, Taken
<1> QED BY <1>1, <1>2, AdmittedStep

\* Every step keeps the two ends of every connection in agreement.
LEMMA AgreesStep == AdmissionIInv /\ [Next]_vars => (\A c \in Connections : Agrees(c))'
<1> SUFFICES ASSUME AdmissionIInv, [Next]_vars, NEW d \in Connections PROVE Agrees(d)'
  OBVIOUS
<1> USE DEF AdmissionIInv
<1>t. /\ task \in [Connections -> Tasks] /\ join \in [Connections -> Joins]
      /\ admitted \subseteq admitted' /\ Agrees(d)
  BY AdmittedStep DEF TypeOK
<1>f. \A k \in Tasks, s \in Stages : /\ [k EXCEPT !.stage = s].stage = s
                                     /\ [k EXCEPT !.stage = s].generation = k.generation
  BY DEF Tasks
<1>g. \A k \in Joins, s \in {"proved", "granted", "gone"} :
        /\ [k EXCEPT !.stage = s].stage = s /\ [k EXCEPT !.stage = s].by = k.by
        /\ [k EXCEPT !.stage = s].credential = k.credential
  BY DEF Joins
<1>e. ASSUME NEW c \in Connections, End(c) PROVE Agrees(d)'
  BY <1>e, <1>t DEF End, Agrees, Granted, Proposed, NoTask, NoJoin
<1>u. ASSUME UNCHANGED <<task, join>> PROVE Agrees(d)'
  BY <1>u, <1>t DEF Agrees, Granted, Proposed
<1>s. ASSUME NEW c \in Connections, NEW s \in {"check", "commit", "consume", "detached"},
             task[c].stage \in {"proof", "check", "commit"},
             task' = [task EXCEPT ![c].stage = s], UNCHANGED join
      PROVE Agrees(d)'
  <2>1. task'[d].generation = task[d].generation /\ (d # c => task'[d] = task[d])
    BY <1>s, <1>t, <1>f, Changes
  <2>2. task'[c].stage = s
    BY <1>s, <1>t, <1>f, Changes
  <2> QED BY <1>s, <1>t, <2>1, <2>2 DEF Agrees, Granted, Proposed
<1>1. CASE Rotate \/ Expire \/ Post \/ Accepted \/ UNCHANGED vars
  BY <1>1, <1>u DEF Rotate, Expire, Post, Accepted, vars
<1>2. CASE Restart
  BY <1>2, <1>t DEF Restart, Agrees, Granted, Proposed, NoTask, NoJoin
<1>3. ASSUME NEW c \in Connections, NEW j \in Joiners, NEW g \in Generations, Join(j, c, g) PROVE Agrees(d)'
  BY <1>3, <1>t DEF Join, Agrees, Granted, Proposed
<1>4. ASSUME NEW c \in Connections, Reserve(c) PROVE Agrees(d)'
  <2>1. CASE End(c)
    BY <2>1, <1>e
  <2>2. CASE task' = [task EXCEPT ![c] = [stage |-> "proof", generation |-> issuer.id]] /\ UNCHANGED join
    BY <2>2, <1>4, <1>t DEF Reserve, Agrees, Granted, Proposed
  <2> QED BY <1>4, <2>1, <2>2 DEF Reserve
<1>5. ASSUME NEW c \in Connections, ReceiveProof(c) \/ Check(c) PROVE Agrees(d)'
  BY <1>5, <1>e, <1>s DEF ReceiveProof, Check
<1>6. ASSUME NEW c \in Connections, Commit(c) PROVE Agrees(d)'
  <2>1. CASE End(c)
    BY <2>1, <1>e
  <2>2. CASE /\ Proposed(c) \in admitted' /\ task[c].stage = "commit"
             /\ task' = [task EXCEPT ![c].stage = "deliver"] /\ UNCHANGED join
    <3>1. task'[d].generation = task[d].generation /\ (d # c => task'[d] = task[d])
      BY <2>2, <1>t, <1>f, Changes
    <3>2. task'[c].stage = "deliver"
      BY <2>2, <1>t, <1>f, Changes
    <3> QED BY <2>2, <1>t, <3>1, <3>2 DEF Agrees, Granted, Proposed
  <2> QED BY <1>6, <2>1, <2>2 DEF Commit, Proposed
<1>7. ASSUME NEW c \in Connections, join' = [join EXCEPT ![c].stage = "granted"],
             join[c].stage = "proved", task[c].stage = "deliver",
             \/ task' = [task EXCEPT ![c].stage = "consume"]
             \/ task' = [task EXCEPT ![c] = NoTask]
      PROVE Agrees(d)'
  <2>1. d # c => task'[d] = task[d] /\ join'[d] = join[d]
    BY <1>7, <1>t
  <2>2. task'[c].stage \in {"consume", "idle"}
    <3>1. CASE task' = [task EXCEPT ![c].stage = "consume"]
      BY <3>1, <1>t, <1>f, Changes
    <3>2. CASE task' = [task EXCEPT ![c] = NoTask]
      BY <3>2, <1>t DEF NoTask
    <3> QED BY <1>7, <3>1, <3>2
  <2>3. join'[c].stage = "granted" /\ join'[c].by = join[c].by /\ join'[c].credential = join[c].credential
    BY <1>7, <1>t, <1>g
  <2>4. Granted(c) \in admitted
    BY <1>7, Zenon DEF Agrees, Granted, Proposed
  <2> QED BY <1>t, <2>1, <2>2, <2>3, <2>4 DEF Agrees, Granted, Proposed
<1>8. ASSUME NEW c \in Connections, Deliver(c) PROVE Agrees(d)'
  BY <1>8, <1>e, <1>7 DEF Deliver
<1>9. ASSUME NEW c \in Connections, Consume(c) \/ Detached(c) \/ Abort(c) PROVE Agrees(d)'
  BY <1>9, <1>e DEF Consume, Detached, Abort
<1>10. ASSUME NEW c \in Connections, Deadline(c) PROVE Agrees(d)'
  BY <1>10, <1>e, <1>s, <1>7 DEF Deadline
<1>11. ASSUME NEW c \in Connections, Prove(c) PROVE Agrees(d)'
  <2>1. UNCHANGED task /\ (d # c => join'[d] = join[d])
    BY <1>11, <1>t DEF Prove
  <2>2. join'[c] = NoJoin \/ ( /\ join'[c].stage = "proved"
                              /\ join'[c].by = join[c].by
                              /\ join'[c].credential = task[c].generation )
    BY <1>11, <1>t, <1>g DEF Prove
  <2> QED BY <1>11, <1>t, <2>1, <2>2 DEF Prove, Agrees, Granted, Proposed, NoJoin
<1>12. ASSUME NEW c \in Connections, Adopt(c) PROVE Agrees(d)'
  <2>1. UNCHANGED task /\ (d # c => join'[d] = join[d]) /\ join'[c] = NoJoin
    BY <1>12, <1>t DEF Adopt
  <2>2. task[c].stage \in {"idle", "consume"}
    BY <1>12 DEF Adopt, Agrees
  <2> QED BY <1>t, <2>1, <2>2 DEF Agrees, Granted, Proposed, NoJoin
<1>13. ASSUME NEW c \in Connections, GiveUp(c) PROVE Agrees(d)'
  <2>1. UNCHANGED task /\ (d # c => join'[d] = join[d])
    BY <1>13, <1>t DEF GiveUp
  <2>2. \/ join'[c] = NoJoin /\ task[c].stage \in {"idle", "hello", "proof"}
        \/ join'[c].stage = "gone" /\ join'[c].by = join[c].by /\ task[c].stage # "hello"
    BY <1>13, <1>t, <1>g DEF GiveUp
  <2> QED BY <1>13, <1>t, <2>1, <2>2 DEF GiveUp, Agrees, Granted, Proposed, NoJoin
<1> QED
  BY <1>1, <1>2, <1>3, <1>4, <1>5, <1>6, <1>8, <1>9, <1>10, <1>11, <1>12, <1>13 DEF Next, Step

\* Every step preserves that adopted grants are admitted.
LEMMA AdoptedStep == AdmissionIInv /\ [Next]_vars => AdoptedIsAdmitted'
<1> SUFFICES ASSUME AdmissionIInv, [Next]_vars PROVE AdoptedIsAdmitted'
  OBVIOUS
<1>t. admitted \subseteq admitted' /\ cluster \in [Joiners -> Generations] /\ AdoptedIsAdmitted
  BY AdmittedStep DEF AdmissionIInv, TypeOK
<1>1. ASSUME NEW c \in Connections, Adopt(c) PROVE AdoptedIsAdmitted'
  <2>1. [subject |-> join[c].by, generation |-> join[c].credential] \in admitted
    BY <1>1, SMTT(20) DEF Adopt, AdmissionIInv, Agrees, Granted
  <2> QED BY <1>1, <1>t, <2>1 DEF Adopt, AdoptedIsAdmitted
<1>2. ASSUME ~\E c \in Connections : Adopt(c) PROVE UNCHANGED cluster
  BY <1>2 DEF Next, vars, Rotate, Expire, Restart, Post, Accepted, Join, Step, Reserve, ReceiveProof, Check, Commit,
     Deliver, Consume, Detached, Prove, Abort, Deadline, GiveUp
<1> QED BY <1>1, <1>2, <1>t DEF AdoptedIsAdmitted

\* Every step preserves that a reserved generation has a holder: a step either
\* leaves the issuer and every reserving task alone, or the issuer is not
\* reserved after it, or it is the reservation itself.
LEMMA HolderStep == TypeOK /\ ReservedHasHolder /\ [Next]_vars => ReservedHasHolder'
<1> SUFFICES ASSUME TypeOK, ReservedHasHolder, [Next]_vars PROVE ReservedHasHolder'
  OBVIOUS
<1>t. task \in [Connections -> Tasks] /\ issuer \in Issuers
  BY DEF TypeOK
<1>r. Released.state # "Reserved" /\ Consumed.state # "Reserved"
  BY <1>t DEF Released, Consumed, Issuers
<1>n. ASSUME issuer'.state # "Reserved" PROVE ReservedHasHolder'
  BY <1>n DEF ReservedHasHolder
<1>k. ASSUME issuer' = issuer,
             \A d \in Connections : task[d].stage \in Reserving =>
               task'[d].stage \in Reserving /\ task'[d].generation = task[d].generation
      PROVE ReservedHasHolder'
  BY <1>k DEF ReservedHasHolder
<1>s. ASSUME NEW c \in Connections, NEW s \in {"check", "commit", "deliver", "consume"},
             issuer' = issuer, task' = [task EXCEPT ![c].stage = s]
      PROVE ReservedHasHolder'
  <2>1. \A d \in Connections : task'[d].generation = task[d].generation /\ task'[d].stage \in {task[d].stage, s}
    BY <1>s, <1>t DEF Tasks
  <2> QED BY <1>s, <2>1, <1>k DEF Reserving
<1>e. ASSUME NEW c \in Connections, task[c].stage \notin Reserving, issuer' = issuer, End(c)
      PROVE ReservedHasHolder'
  BY <1>e, <1>t, <1>k DEF End
<1>1. CASE Rotate \/ Restart
  BY <1>1, <1>n, <1>t DEF Rotate, Restart, Issuers
<1>2. CASE Expire
  <2>1. issuer'.state = issuer.state /\ issuer'.id = issuer.id /\ UNCHANGED task
    BY <1>2, <1>t DEF Expire, Issuers
  <2> QED BY <2>1 DEF ReservedHasHolder
<1>3. CASE Post \/ Accepted \/ UNCHANGED vars
  BY <1>3, <1>k DEF Post, Accepted, vars
<1>4. ASSUME NEW c \in Connections, NEW j \in Joiners, NEW g \in Generations, Join(j, c, g) PROVE ReservedHasHolder'
  BY <1>4, <1>t, <1>k DEF Join, Reserving
<1>5. ASSUME NEW c \in Connections, Reserve(c) PROVE ReservedHasHolder'
  <2>1. CASE End(c) /\ UNCHANGED issuer
    BY <1>5, <2>1, <1>e DEF Reserve, Reserving
  <2>2. CASE /\ issuer' = [issuer EXCEPT !.state = "Reserved"]
             /\ task' = [task EXCEPT ![c] = [stage |-> "proof", generation |-> issuer.id]]
    <3>1. issuer'.id = issuer.id
      BY <2>2, <1>t DEF Issuers
    <3> QED BY <2>2, <3>1, <1>t DEF ReservedHasHolder, Reserving
  <2> QED BY <1>5, <2>1, <2>2 DEF Reserve
<1>6. ASSUME NEW c \in Connections, ReceiveProof(c) \/ Check(c) \/ Commit(c) \/ Deliver(c) PROVE ReservedHasHolder'
  <2>1. CASE issuer' = Released
    BY <2>1, <1>r, <1>n
  <2>2. CASE issuer' # Released
    BY <1>6, <2>2, <1>s DEF ReceiveProof, Check, Commit, Deliver
  <2> QED BY <2>1, <2>2
<1>7. ASSUME NEW c \in Connections, Consume(c) \/ Abort(c) PROVE ReservedHasHolder'
  BY <1>7, <1>r, <1>n DEF Consume, Abort
<1>8. ASSUME NEW c \in Connections, Detached(c) PROVE ReservedHasHolder'
  BY <1>8, <1>e DEF Detached, Reserving
<1>9. ASSUME NEW c \in Connections, Deadline(c) PROVE ReservedHasHolder'
  <2>1. CASE task[c].stage = "hello"
    BY <1>9, <2>1, <1>e DEF Deadline, Reserving
  <2>2. CASE task[c].stage # "hello"
    BY <1>9, <2>2, <1>r, <1>n DEF Deadline
  <2> QED BY <2>1, <2>2
<1>10. ASSUME NEW c \in Connections, Prove(c) \/ Adopt(c) \/ GiveUp(c) PROVE ReservedHasHolder'
  BY <1>10, <1>k DEF Prove, Adopt, GiveUp
<1> QED
  BY <1>1, <1>2, <1>3, <1>4, <1>5, <1>6, <1>7, <1>8, <1>9, <1>10 DEF Next, Step

-----------------------------------------------------------------------------
\* The invariant holds in every reachable state.
LEMMA AdmissionInvariance == Spec => []AdmissionIInv
<1>1. AdmissionIInv /\ [Next]_vars => AdmissionIInv'
  BY TypeStep, SingleUseStep, AdoptedStep, HolderStep, AgreesStep DEF AdmissionIInv
<1> QED BY AdmissionInitInv, <1>1, PTL DEF Spec

\* Every variable keeps its type, for all joiners, connections and bounds.
THEOREM AdmissionTypeCorrect == Spec => []TypeOK
BY AdmissionInvariance, PTL DEF AdmissionIInv

\* One generation never admits two subjects and one subject is never admitted
\* twice, whatever is rotated, dropped or restarted (commit_admission).
THEOREM GenerationsAreSingleUse == Spec => []SingleUse
BY AdmissionInvariance, PTL DEF AdmissionIInv

\* A joiner only ever adopts an admission that the receiver has committed for it.
THEOREM AdoptionsAreCommitted == Spec => []AdoptedIsAdmitted
BY AdmissionInvariance, PTL DEF AdmissionIInv

\* No failure leaves a generation reserved without an attempt that will release
\* or consume it (CredentialReservation).
THEOREM ReservationsAreHeld == Spec => []ReservedHasHolder
BY AdmissionInvariance, PTL DEF AdmissionIInv

-----------------------------------------------------------------------------
(***************************************************************************)
(* The admission limiter.                                                  *)
(***************************************************************************)

\* A source outside the table counts nothing, and the table is finite.
RateIInv ==
  /\ RateTypeOK
  /\ SlotsAreCounted
  /\ \A s \in Sources \ sources : bucket[s].pending = 0
  /\ IsFiniteSet(sources)

\* The limits are numbers.
LEMMA Limits ==
  /\ PendingPerSource \in Nat /\ PendingGlobal \in Nat /\ BucketLimit \in Nat
  /\ Window \in Nat /\ Lifetime \in Nat
  /\ IsFiniteSet(Attempts) /\ None \notin Addresses
BY RateAssumption DEF RateAssumption

\* A window that is recorded in or grows older is a window (RateWindow::record).
LEMMA WindowTypes ==
  ASSUME NEW w \in Windows, NEW limit \in Nat
  PROVE  Recorded(w) \in Windows /\ [w EXCEPT !.age = Older(@, limit)] \in Windows
BY DEF Windows, Recorded, Rolled, NewWindow, Older

\* A bucket whose window and count are replaced is a bucket (begin).
LEMMA ChargedType ==
  ASSUME NEW m \in [pending : Nat, window : Windows, idle : Nat], NEW w \in Windows, NEW p \in Nat
  PROVE  /\ [m EXCEPT !.window = w, !.pending = p] \in [pending : Nat, window : Windows, idle : Nat]
         /\ [m EXCEPT !.window = w, !.pending = p].pending = p
BY Zenon

\* A bucket that grows older is a bucket (Instant::now in begin).
LEMMA OlderType ==
  ASSUME NEW m \in [pending : Nat, window : Windows, idle : Nat], NEW w \in Nat, NEW l \in Nat
  PROVE  [m EXCEPT !.window.age = Older(@, w), !.idle = Older(@, l)]
           \in [pending : Nat, window : Windows, idle : Nat]
<1>1. Older(m.window.age, w) \in Nat /\ Older(m.idle, l) \in Nat
  BY DEF Windows, Older
<1>2. [m.window EXCEPT !.age = Older(m.window.age, w)] \in Windows
  BY <1>1 DEF Windows
<1>3. [m EXCEPT !.window.age = Older(@, w), !.idle = Older(@, l)] =
        [m EXCEPT !.window = [m.window EXCEPT !.age = Older(m.window.age, w)], !.idle = Older(m.idle, l)]
  OBVIOUS
<1> QED BY <1>1, <1>2, <1>3, Zenon

\* The attempts that hold a slot are finitely many.
LEMMA HoldersFinite ==
  /\ IsFiniteSet(Holders) /\ Cardinality(Holders) \in Nat
  /\ \A s : IsFiniteSet(HoldersOf(s)) /\ Cardinality(HoldersOf(s)) \in Nat
<1>1. Holders \in SUBSET Attempts
  BY DEF Holders
<1>2. IsFiniteSet(Holders)
  BY <1>1, Limits, FS_Subset
<1>3. \A s : HoldersOf(s) \in SUBSET Holders
  BY DEF HoldersOf
<1>4. \A s : IsFiniteSet(HoldersOf(s))
  BY <1>2, <1>3, FS_Subset
<1> QED BY <1>2, <1>4, FS_CardinalityType

\* The counts of a step that leaves the attempts alone and every pending count.
LEMMA SameHolders ==
  ASSUME SlotsAreCounted, held' = held, pending' = pending,
         \A s \in Sources : bucket'[s].pending = bucket[s].pending,
         Cardinality(sources') <= BucketLimit
  PROVE  SlotsAreCounted'
<1>1. Holders' = Holders /\ \A s \in Sources : HoldersOf(s)' = HoldersOf(s)
  BY DEF Holders, HoldersOf
<1> QED BY <1>1 DEF SlotsAreCounted

LEMMA RateInitEstablishes == RateInit => RateIInv
<1> SUFFICES ASSUME RateInit PROVE RateIInv
  OBVIOUS
<1>1. Holders = {} /\ \A s : HoldersOf(s) = {}
  BY DEF RateInit, Holders, HoldersOf
<1>2. RateTypeOK
  BY DEF RateInit, RateTypeOK, NewBucket, NewWindow, Windows
<1>3. SlotsAreCounted
  BY <1>1, Limits, FS_EmptySet DEF RateInit, SlotsAreCounted, NewBucket
<1> QED BY <1>2, <1>3, FS_EmptySet DEF RateIInv, RateInit, NewBucket

-----------------------------------------------------------------------------

\* An attempt that is admitted, or ends, changes the holders by itself.
LEMMA SlotTaken ==
  ASSUME RateTypeOK, NEW a \in Attempts, NEW address \in Addresses,
         held[a] = None, held' = [held EXCEPT ![a] = address]
  PROVE  /\ Cardinality(Holders') = Cardinality(Holders) + 1
         /\ \A s \in Sources : Cardinality(HoldersOf(s)') =
              Cardinality(HoldersOf(s)) + IF s = Normalize(address) THEN 1 ELSE 0
<1>1. a \notin Holders /\ \A s : a \notin HoldersOf(s)
  BY DEF Holders, HoldersOf
<1>2. Holders' = Holders \cup {a}
  BY Limits DEF RateTypeOK, Holders
<1>3. ASSUME NEW s \in Sources
      PROVE  HoldersOf(s)' = IF s = Normalize(address) THEN HoldersOf(s) \cup {a} ELSE HoldersOf(s)
  BY <1>2, Limits DEF RateTypeOK, HoldersOf, Holders
<1>4. Cardinality(Holders') = Cardinality(Holders) + 1
  BY <1>1, <1>2, HoldersFinite, FS_AddElement, Zenon
<1>5. ASSUME NEW s \in Sources
      PROVE  Cardinality(HoldersOf(s)') = Cardinality(HoldersOf(s)) + IF s = Normalize(address) THEN 1 ELSE 0
  <2>1. CASE s = Normalize(address)
    <3>1. HoldersOf(s)' = HoldersOf(s) \cup {a}
      BY <1>3, <2>1
    <3>2. Cardinality(HoldersOf(s) \cup {a}) = Cardinality(HoldersOf(s)) + 1
      BY <1>1, HoldersFinite, FS_AddElement, Zenon
    <3> QED BY <3>1, <3>2, <2>1
  <2>2. CASE s # Normalize(address)
    <3>1. HoldersOf(s)' = HoldersOf(s)
      BY <1>3, <2>2
    <3>2. Cardinality(HoldersOf(s)) \in Nat
      BY HoldersFinite
    <3> QED BY <3>1, <3>2, <2>2
  <2> QED BY <2>1, <2>2
<1> QED BY <1>4, <1>5

LEMMA SlotReleased ==
  ASSUME RateTypeOK, NEW a \in Attempts, held[a] # None,
         held' = [held EXCEPT ![a] = None]
  PROVE  /\ Cardinality(Holders') = Cardinality(Holders) - 1
         /\ \A s \in Sources : Cardinality(HoldersOf(s)') =
              Cardinality(HoldersOf(s)) - IF s = Normalize(held[a]) THEN 1 ELSE 0
<1>1. a \in Holders /\ a \in HoldersOf(Normalize(held[a]))
  BY DEF Holders, HoldersOf
<1>2. Holders' = Holders \ {a}
  BY DEF RateTypeOK, Holders
<1>3. ASSUME NEW s \in Sources
      PROVE  HoldersOf(s)' = IF s = Normalize(held[a]) THEN HoldersOf(s) \ {a} ELSE HoldersOf(s)
  BY <1>2 DEF RateTypeOK, HoldersOf, Holders
<1>4. Cardinality(Holders') = Cardinality(Holders) - 1
  BY <1>1, <1>2, HoldersFinite, FS_RemoveElement, Zenon
<1>5. ASSUME NEW s \in Sources
      PROVE  Cardinality(HoldersOf(s)') = Cardinality(HoldersOf(s)) - IF s = Normalize(held[a]) THEN 1 ELSE 0
  <2>1. CASE s = Normalize(held[a])
    <3>1. HoldersOf(s)' = HoldersOf(s) \ {a}
      BY <1>3, <2>1
    <3>2. Cardinality(HoldersOf(s) \ {a}) = Cardinality(HoldersOf(s)) - 1
      BY <1>1, <2>1, HoldersFinite, FS_RemoveElement, Zenon
    <3> QED BY <3>1, <3>2, <2>1
  <2>2. CASE s # Normalize(held[a])
    <3>1. HoldersOf(s)' = HoldersOf(s)
      BY <1>3, <2>2
    <3>2. Cardinality(HoldersOf(s)) \in Nat
      BY HoldersFinite
    <3> QED BY <3>1, <3>2, <2>2
  <2> QED BY <2>1, <2>2
<1> QED BY <1>4, <1>5

-----------------------------------------------------------------------------

\* What begin does to the counts, whether or not the attempt is admitted.
LEMMA BeginEffect ==
  ASSUME RateIInv, NEW a \in Attempts, NEW address \in Addresses, Begin(a, address)
  PROVE  \E taken \in BOOLEAN, kept \in SUBSET sources, reached \in BOOLEAN :
           LET s == Normalize(address) IN
           /\ held[a] = None
           /\ held' = IF taken THEN [held EXCEPT ![a] = address] ELSE held
           /\ pending' = IF taken THEN pending + 1 ELSE pending
           /\ taken => reached /\ pending < PendingGlobal /\ bucket[s].pending < PendingPerSource
           /\ reached => s \in kept \/ Cardinality(kept) < BucketLimit
           /\ sources' = IF reached THEN kept \cup {s} ELSE kept
           /\ \A x \in Sources \ kept : bucket[x].pending = 0
           /\ \A x \in Sources :
                bucket'[x].pending = bucket[x].pending + IF taken /\ x = s THEN 1 ELSE 0
           /\ window' \in Windows
           /\ bucket' \in [Sources -> [pending : Nat, window : Windows, idle : Nat]]
<1> DEFINE s == Normalize(address)
           kept == IF s \notin sources /\ Cardinality(sources) >= BucketLimit
                   THEN sources \ Expired ELSE sources
           roomy == s \in kept \/ Cardinality(kept) < BucketLimit
           timely == roomy /\ CanRecord(window, RateGlobal)
           reached == timely /\ pending < PendingGlobal
           mine == [(IF s \in kept THEN bucket[s] ELSE NewBucket) EXCEPT !.idle = 0]
           rated == reached /\ CanRecord(mine.window, RatePerSource)
           taken == rated /\ mine.pending < PendingPerSource
           charged == [mine EXCEPT !.window = IF rated THEN Recorded(@) ELSE @,
                                   !.pending = IF taken THEN @ + 1 ELSE @]
           Buckets == [pending : Nat, window : Windows, idle : Nat]
<1>0. /\ held[a] = None
      /\ held' = IF taken THEN [held EXCEPT ![a] = address] ELSE held
      /\ sources' = IF reached THEN kept \cup {s} ELSE kept
      /\ bucket' = [x \in Sources |-> IF x = s /\ reached THEN charged
                                      ELSE IF x \in kept THEN bucket[x] ELSE NewBucket]
      /\ pending' = IF taken THEN pending + 1 ELSE pending
      /\ window' = IF timely THEN Recorded(window) ELSE window
  BY DEF Begin
<1>1. s \in Sources /\ kept \in SUBSET sources /\ (s \in sources => s \in kept)
  BY DEF Sources
<1>2. \A x \in Sources \ kept : bucket[x].pending = 0
  BY DEF RateIInv, Expired
<1>3. NewBucket \in Buckets /\ NewBucket.pending = 0 /\ bucket \in [Sources -> Buckets] /\ window \in Windows
  BY DEF NewBucket, NewWindow, Windows, RateIInv, RateTypeOK
<1>4. mine \in Buckets /\ mine.pending = bucket[s].pending
  BY <1>1, <1>2, <1>3
<1>5. charged \in Buckets /\ charged.pending = bucket[s].pending + IF taken THEN 1 ELSE 0
  <2>1. Recorded(mine.window) \in Windows
    BY <1>4, WindowTypes, Zenon
  <2> DEFINE w == IF rated THEN Recorded(mine.window) ELSE mine.window
             p == IF taken THEN mine.pending + 1 ELSE mine.pending
  <2>2. charged = [mine EXCEPT !.window = w, !.pending = p]
    OBVIOUS
  <2> HIDE DEF mine, rated, taken, charged
  <2>3. w \in Windows /\ p \in Nat /\ p = bucket[s].pending + IF taken THEN 1 ELSE 0
    BY <1>4, <2>1
  <2> HIDE DEF w, p
  <2> QED BY <1>4, <2>2, <2>3, ChargedType, Zenon
<1>6. window' \in Windows
  BY <1>0, <1>3, WindowTypes, Zenon
<1>7. bucket' \in [Sources -> Buckets]
  <2> HIDE DEF charged, kept, reached
  <2> QED BY <1>0, <1>3, <1>5
<1>8. \A x \in Sources : bucket'[x].pending = bucket[x].pending + IF taken /\ x = s THEN 1 ELSE 0
  <2> SUFFICES ASSUME NEW x \in Sources
               PROVE  bucket'[x].pending = bucket[x].pending + IF taken /\ x = s THEN 1 ELSE 0
    OBVIOUS
  <2>1. bucket[x].pending \in Nat
    BY <1>3
  <2>2. taken => reached
    OBVIOUS
  <2> HIDE DEF charged, kept, reached, taken, s
  <2>3. CASE x = s /\ reached
    BY <1>0, <1>5, <2>1, <2>3
  <2>4. CASE ~(x = s /\ reached)
    <3>1. ~(taken /\ x = s)
      BY <2>2, <2>4
    <3>2. bucket'[x] = IF x \in kept THEN bucket[x] ELSE NewBucket
      BY <1>0, <2>4
    <3> QED BY <1>2, <1>3, <2>1, <3>1, <3>2
  <2> QED BY <2>3, <2>4
<1>9. /\ taken \in BOOLEAN /\ reached \in BOOLEAN
      /\ taken => reached /\ pending < PendingGlobal /\ bucket[s].pending < PendingPerSource
      /\ reached => s \in kept \/ Cardinality(kept) < BucketLimit
  BY <1>4
<1> HIDE DEF taken, reached, kept, s
<1>10. /\ held[a] = None
       /\ held' = IF taken THEN [held EXCEPT ![a] = address] ELSE held
       /\ pending' = IF taken THEN pending + 1 ELSE pending
       /\ sources' = IF reached THEN kept \cup {s} ELSE kept
  BY <1>0
<1>11. s = Normalize(address)
  BY DEF s
<1> QED BY <1>1, <1>2, <1>6, <1>7, <1>8, <1>9, <1>10, <1>11, Zenon

\* The table keeps to its size.
LEMMA TableBound ==
  ASSUME RateIInv, NEW kept \in SUBSET sources, NEW s \in Sources, NEW reached \in BOOLEAN,
         reached => s \in kept \/ Cardinality(kept) < BucketLimit,
         sources' = IF reached THEN kept \cup {s} ELSE kept
  PROVE  IsFiniteSet(sources') /\ Cardinality(sources') <= BucketLimit
<1>1. IsFiniteSet(kept) /\ Cardinality(kept) <= BucketLimit
  <2>1. IsFiniteSet(sources) /\ Cardinality(sources) <= BucketLimit
    BY DEF RateIInv, SlotsAreCounted
  <2>2. IsFiniteSet(kept) /\ Cardinality(kept) <= Cardinality(sources)
    BY <2>1, FS_Subset
  <2>3. Cardinality(kept) \in Nat /\ Cardinality(sources) \in Nat
    BY <2>1, <2>2, FS_CardinalityType
  <2> QED BY <2>1, <2>2, <2>3, Limits
<1>2. Cardinality(kept) \in Nat
  BY <1>1, FS_CardinalityType
<1>3. /\ IsFiniteSet(kept \cup {s})
      /\ Cardinality(kept \cup {s}) = IF s \in kept THEN Cardinality(kept) ELSE Cardinality(kept) + 1
  BY <1>1, FS_AddElement
<1> QED BY <1>1, <1>2, <1>3, Limits

LEMMA BeginKeeps ==
  ASSUME RateIInv, NEW a \in Attempts, NEW address \in Addresses, Begin(a, address)
  PROVE  RateIInv'
<1> DEFINE s == Normalize(address)
<1>0. s \in Sources
  BY DEF Sources
<1>1. PICK taken \in BOOLEAN, kept \in SUBSET sources, reached \in BOOLEAN :
        /\ held[a] = None
        /\ held' = IF taken THEN [held EXCEPT ![a] = address] ELSE held
        /\ pending' = IF taken THEN pending + 1 ELSE pending
        /\ taken => reached /\ pending < PendingGlobal /\ bucket[s].pending < PendingPerSource
        /\ reached => s \in kept \/ Cardinality(kept) < BucketLimit
        /\ sources' = IF reached THEN kept \cup {s} ELSE kept
        /\ \A x \in Sources \ kept : bucket[x].pending = 0
        /\ \A x \in Sources :
             bucket'[x].pending = bucket[x].pending + IF taken /\ x = s THEN 1 ELSE 0
        /\ window' \in Windows
        /\ bucket' \in [Sources -> [pending : Nat, window : Windows, idle : Nat]]
  BY BeginEffect
<1> HIDE DEF s
<1>2. /\ RateTypeOK
      /\ \A x \in Sources : bucket[x].pending \in Nat
      /\ pending \in Nat
  BY DEF RateIInv, RateTypeOK
<1>3. IsFiniteSet(sources') /\ Cardinality(sources') <= BucketLimit
  BY <1>0, <1>1, TableBound, ZenonT(30)
<1>4. RateTypeOK'
  BY <1>0, <1>1, <1>2 DEF RateTypeOK
<1>5. \A x \in Sources \ sources' : bucket'[x].pending = 0
  <2> SUFFICES ASSUME NEW x \in Sources \ sources' PROVE bucket'[x].pending = 0
    OBVIOUS
  <2>1. ~(taken /\ x = s)
    BY <1>1
  <2>2. x \notin kept
    BY <1>1
  <2> QED BY <1>1, <1>2, <2>1, <2>2
<1>6. SlotsAreCounted'
  <2>1. CASE ~taken
    <3>1. held' = held /\ pending' = pending /\ \A x \in Sources : bucket'[x].pending = bucket[x].pending
      BY <1>1, <1>2, <2>1
    <3> QED BY <1>3, <3>1, SameHolders DEF RateIInv
  <2>2. CASE taken
    <3>1. /\ Cardinality(Holders') = Cardinality(Holders) + 1
          /\ \A x \in Sources : Cardinality(HoldersOf(x)') =
               Cardinality(HoldersOf(x)) + IF x = s THEN 1 ELSE 0
      BY <1>1, <1>2, <2>2, SlotTaken, ZenonT(30) DEF s
    <3>2. pending = Cardinality(Holders) /\ pending < PendingGlobal
      BY <1>1, <2>2 DEF RateIInv, SlotsAreCounted
    <3>3. pending' = Cardinality(Holders') /\ pending' <= PendingGlobal
      BY <1>1, <1>2, <2>2, <3>1, <3>2, Limits
    <3>4. ASSUME NEW x \in Sources
          PROVE  bucket'[x].pending = Cardinality(HoldersOf(x)') /\ bucket'[x].pending <= PendingPerSource
      <4>1. bucket[x].pending = Cardinality(HoldersOf(x)) /\ bucket[x].pending <= PendingPerSource
        BY DEF RateIInv, SlotsAreCounted
      <4>2. bucket'[x].pending = bucket[x].pending + IF x = s THEN 1 ELSE 0
        BY <1>1, <2>2
      <4>3. x = s => bucket[x].pending < PendingPerSource
        BY <1>1, <2>2
      <4> QED BY <1>2, <3>1, <4>1, <4>2, <4>3, Limits
    <3> QED BY <1>3, <3>3, <3>4 DEF SlotsAreCounted
  <2> QED BY <2>1, <2>2
<1> QED BY <1>3, <1>4, <1>5, <1>6 DEF RateIInv

LEMMA DropKeeps ==
  ASSUME RateIInv, NEW a \in Attempts, Drop(a)
  PROVE  RateIInv'
<1> DEFINE s == Normalize(held[a])
<1>1. /\ held[a] # None
      /\ held' = [held EXCEPT ![a] = None]
      /\ pending' = Less(pending)
      /\ bucket' = IF s \in sources THEN [bucket EXCEPT ![s].pending = Less(@)] ELSE bucket
      /\ sources' = sources /\ window' = window
  BY DEF Drop
<1>2. /\ RateTypeOK /\ held[a] \in Addresses /\ s \in Sources
      /\ pending \in Nat /\ \A x \in Sources : bucket[x].pending \in Nat
  BY <1>1 DEF RateIInv, RateTypeOK, Sources
<1>3. /\ Cardinality(Holders') = Cardinality(Holders) - 1
      /\ \A x \in Sources : Cardinality(HoldersOf(x)') = Cardinality(HoldersOf(x)) - IF x = s THEN 1 ELSE 0
  BY <1>1, <1>2, SlotReleased, Zenon
<1>4. Cardinality(Holders) > 0 /\ Cardinality(HoldersOf(s)) > 0
  <2>1. a \in Holders /\ a \in HoldersOf(s)
    BY <1>1 DEF Holders, HoldersOf
  <2> QED BY <2>1, HoldersFinite, FS_EmptySet
<1>5. s \in sources
  BY <1>2, <1>4 DEF RateIInv, SlotsAreCounted
<1> HIDE DEF s
<1>6. \A x \in Sources : bucket'[x].pending = bucket[x].pending - IF x = s THEN 1 ELSE 0
  BY <1>1, <1>2, <1>4, <1>5 DEF Less, RateIInv, RateTypeOK, SlotsAreCounted
<1>7. RateTypeOK'
  BY <1>1, <1>2, <1>5 DEF RateTypeOK, Less
<1>8. SlotsAreCounted'
  <2>1. pending' = Cardinality(Holders') /\ pending' <= PendingGlobal
    BY <1>1, <1>2, <1>3, <1>4, Limits DEF Less, RateIInv, SlotsAreCounted
  <2>2. \A x \in Sources : bucket'[x].pending = Cardinality(HoldersOf(x)')
                           /\ bucket'[x].pending <= PendingPerSource
    BY <1>2, <1>3, <1>6, Limits, SMTT(20) DEF RateIInv, SlotsAreCounted
  <2> QED BY <1>1, <2>1, <2>2 DEF RateIInv, SlotsAreCounted
<1> QED BY <1>1, <1>5, <1>6, <1>2, <1>7, <1>8 DEF RateIInv

LEMMA SecondKeeps == ASSUME RateIInv, Second PROVE RateIInv'
<1>1. \A x \in Sources : bucket'[x].pending = bucket[x].pending
  BY ZenonT(30) DEF Second, RateIInv, RateTypeOK
<1>2. RateTypeOK'
  <2>1. window' \in Windows
    BY Limits, WindowTypes, ZenonT(30) DEF Second, RateIInv, RateTypeOK
  <2>2. ASSUME NEW x \in Sources
        PROVE  bucket'[x] \in [pending : Nat, window : Windows, idle : Nat]
    <3>1. bucket[x] \in [pending : Nat, window : Windows, idle : Nat]
      BY SMTT(20) DEF RateIInv, RateTypeOK
    <3>2. [bucket[x] EXCEPT !.window.age = Older(@, Window), !.idle = Older(@, Lifetime)]
            \in [pending : Nat, window : Windows, idle : Nat]
      BY <3>1, Limits, OlderType, ZenonT(30)
    <3> QED BY <3>1, <3>2, Zenon DEF Second
  <2> QED BY <2>1, <2>2, ZenonT(30) DEF Second, RateIInv, RateTypeOK
<1>3. SlotsAreCounted'
  BY <1>1, SameHolders, Zenon DEF Second, RateIInv, SlotsAreCounted
<1> QED BY <1>1, <1>2, <1>3, ZenonT(30) DEF Second, RateIInv

\* SlotsAreCounted holds in every behaviour: the counters are exactly the
\* attempts in flight and keep to their limits, and the table keeps to its size,
\* whatever is refused half way, swept or dropped (begin, evict_idle, drop).
THEOREM SlotsCounted == RateSpec => []SlotsAreCounted
<1>1. RateInit => RateIInv
  BY RateInitEstablishes
<1>2. RateIInv /\ [RateNext]_rateVars => RateIInv'
  <2>1. ASSUME RateIInv, UNCHANGED rateVars PROVE RateIInv'
    BY <2>1 DEF rateVars, RateIInv, RateTypeOK, SlotsAreCounted, Holders, HoldersOf
  <2> QED BY <2>1, BeginKeeps, DropKeeps, SecondKeeps DEF RateNext
<1>3. RateIInv => SlotsAreCounted
  BY DEF RateIInv
<1> QED BY <1>1, <1>2, <1>3, PTL DEF RateSpec
=============================================================================
