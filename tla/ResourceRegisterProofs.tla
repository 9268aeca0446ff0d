---------------------- MODULE ResourceRegisterProofs ----------------------
(***************************************************************************)
(* The register implements MaxRegister for every number of names, writers,  *)
(* consumers and attempts.  The inductive invariant says what a task has    *)
(* already established when it waits for its commit: the record it carries  *)
(* may replace the one it read, a removal read the version of its caller,   *)
(* and a sweep carries removals only.  The provider's test that the stored  *)
(* record is still the one that was read turns that into the promise of     *)
(* MaxRegister.                                                             *)
(***************************************************************************)
EXTENDS ResourceRegister, TLAPS

\* What a task has established about the records it carries.
Carries(k) ==
  /\ k.pc = "sign" => k.op \in {"put", "remove"} /\ k.name \in Names
  /\ k.op = "put" => k.digest \in Digests
  /\ k.pc \in {"snap", "commit"} =>
       k.op \in {"put", "remove", "apply"} /\ k.name \in Names /\ k.rec \in Records
  /\ k.op = "remove" /\ k.pc \in {"snap", "commit"} => Removed(k.rec)
  /\ k.pc = "commit" => Enters(k.rec, k.seen)
  /\ k.op = "remove" /\ k.pc = "commit" => k.seen = k.want
  /\ k.op = "sweep" => \A n \in Names : k.todo[n] # None => Removed(k.todo[n])

IInv == TypeOK /\ \A t \in Tasks : Carries(task[t])

-----------------------------------------------------------------------------
(* The order of records *)

\* The fields of a record are numbers.
LEMMA Fields ==
  ASSUME NEW r \in Records
  PROVE  r.ts \in Nat /\ r.writer \in Nat /\ r.rank \in {0, 1} /\ r.digest \in Nat
<1>1. r.ts \in Times /\ r.writer \in Writers /\ r.rank \in {0, 1} /\ r.digest \in Digests
  BY DEF Records
<1>2. Times \subseteq Nat /\ Writers \subseteq Nat /\ Digests \subseteq Nat
  BY RecordAssumption DEF RecordAssumption, Times
<1> QED
  BY <1>1, <1>2

\* A record is its fields.
LEMMA Extensional ==
  ASSUME NEW r \in Records, NEW s \in Records,
         r.ts = s.ts, r.writer = s.writer, r.rank = s.rank, r.digest = s.digest
  PROVE  r = s
<1>1. /\ r = [ts |-> r.ts, writer |-> r.writer, rank |-> r.rank, digest |-> r.digest]
      /\ s = [ts |-> s.ts, writer |-> s.writer, rank |-> s.rank, digest |-> s.digest]
  BY DEF Records
<1> QED
  BY <1>1

\* wins_over never holds between a record and itself: a replay of the stored
\* record changes nothing.  It is transitive and, of two different records, one
\* wins, so nodes that hold the same records agree on the winner.
THEOREM WinsIsTotalOrder ==
  /\ \A r \in Records : ~Wins(r, r)
  /\ \A r, s, u \in Records : Wins(r, s) /\ Wins(s, u) => Wins(r, u)
  /\ \A r, s \in Records : r = s \/ Wins(r, s) \/ Wins(s, r)
<1>1. \A r \in Records : ~Wins(r, r)
  BY Fields DEF Wins
<1>2. ASSUME NEW r \in Records, NEW s \in Records, NEW u \in Records, Wins(r, s), Wins(s, u)
      PROVE  Wins(r, u)
  <2>1. /\ r.ts \in Nat /\ s.ts \in Nat /\ u.ts \in Nat
        /\ r.writer \in Nat /\ s.writer \in Nat /\ u.writer \in Nat
        /\ r.rank \in {0, 1} /\ s.rank \in {0, 1} /\ u.rank \in {0, 1}
        /\ r.digest \in Nat /\ s.digest \in Nat /\ u.digest \in Nat
    BY Fields
  <2> QED
    BY <1>2, <2>1 DEF Wins
<1>3. ASSUME NEW r \in Records, NEW s \in Records, r # s
      PROVE  Wins(r, s) \/ Wins(s, r)
  <2>1. /\ r.ts \in Nat /\ s.ts \in Nat /\ r.writer \in Nat /\ s.writer \in Nat
        /\ r.rank \in {0, 1} /\ s.rank \in {0, 1} /\ r.digest \in Nat /\ s.digest \in Nat
    BY Fields
  <2>2. r.ts # s.ts \/ r.writer # s.writer \/ r.rank # s.rank \/ r.digest # s.digest
    BY <1>3, Extensional
  <2> QED
    BY <2>1, <2>2 DEF Wins
<1> QED
  BY <1>1, <1>2, <1>3

-----------------------------------------------------------------------------
(* The invariant *)

\* A task at rest carries nothing.
LEMMA IdleCarries == Idle \in Task /\ Carries(Idle)
<1>1. Empty \in Pages
  BY DEF Empty, Pages
<1>2. 0 \in Times /\ 0 \in 0 .. NumNames
  BY RecordAssumption DEF RecordAssumption, Times
<1>3. Idle \in Task
  BY <1>1, <1>2 DEF Idle, Task
<1>4. Carries(Idle)
  BY DEF Idle, Carries
<1> QED
  BY <1>3, <1>4

\* A step that replaces the record of one task preserves the invariant.
LEMMA Update ==
  ASSUME IInv, NEW t \in Tasks, NEW k \in Task, Carries(k), Becomes(t, k),
         reg' \in Pages, revision' \in Nat, now' \in Times
  PROVE  IInv'
<1>1. task' \in [Tasks -> Task]
  BY DEF IInv, TypeOK, Becomes
<1>2. \A u \in Tasks : task'[u] = IF u = t THEN k ELSE task[u]
  BY DEF IInv, TypeOK, Becomes
<1>3. \A u \in Tasks : Carries(task'[u])
  BY <1>2, Zenon DEF IInv
<1> QED
  BY <1>1, <1>3 DEF IInv, TypeOK

\* The end of an operation preserves the invariant.
LEMMA ReturnInv ==
  ASSUME IInv, NEW t \in Tasks, NEW reply, Return(t, reply),
         reg' \in Pages, revision' \in Nat, now' \in Times
  PROVE  IInv'
  BY IdleCarries, Update DEF Return

\* So does what follows a commit that is over.
LEMMA DoneInv ==
  ASSUME IInv, NEW t \in Tasks, NEW reply, Done(t, reply),
         reg' \in Pages, revision' \in Nat, now' \in Times
  PROVE  IInv'
<1>1. CASE task[t].op = "apply"
  <2> DEFINE k == [Idle EXCEPT !.op = "apply", !.pc = "record", !.todo = task[t].todo]
  <2>1. task[t] \in Task
    BY DEF IInv, TypeOK
  <2>2. task[t].todo \in Pages
    BY <2>1 DEF Task
  <2>3. k \in Task
    BY <2>2, IdleCarries DEF Task
  <2>4. Carries(k)
    BY DEF Idle, Carries
  <2>5. Becomes(t, k)
    BY <1>1 DEF Done
  <2> HIDE DEF k
  <2> QED
    BY <2>3, <2>4, <2>5, Update
<1>2. CASE task[t].op # "apply"
  BY <1>2, ReturnInv DEF Done
<1> QED
  BY <1>1, <1>2

\* So does what follows a refused commit.
LEMMA RefusedInv ==
  ASSUME IInv, NEW t \in Tasks, task[t].pc \in {"snap", "commit"}, Refused(t),
         reg' \in Pages, revision' \in Nat, now' \in Times
  PROVE  IInv'
<1>1. CASE task[t].op # "apply" /\ task[t].tries < MaxAttempts
  <2> DEFINE k == [task[t] EXCEPT !.pc = "sign", !.rec = None, !.seen = None, !.base = 0,
                                  !.tries = @ + 1]
  <2>1. task[t] \in Task /\ Carries(task[t])
    BY DEF IInv, TypeOK
  <2>0. task[t].tries + 1 \in Nat
    BY <2>1 DEF Task
  <2>2. k \in Task
    BY <2>0, <2>1 DEF Task
  <2>3. /\ k.op = task[t].op /\ k.pc = "sign" /\ k.name = task[t].name
        /\ k.digest = task[t].digest /\ k.todo = task[t].todo
    BY <2>1 DEF Task
  <2>4. task[t].op \in {"put", "remove"} /\ task[t].name \in Names
    BY <1>1, <2>1 DEF Carries
  <2>5. task[t].op = "put" => task[t].digest \in Digests
    BY <2>1 DEF Carries
  <2>6. Becomes(t, k)
    BY <1>1 DEF Refused
  <2> HIDE DEF k
  <2>7. Carries(k)
    BY <2>3, <2>4, <2>5 DEF Carries
  <2> QED
    BY <2>2, <2>6, <2>7, Update
<1>2. CASE ~(task[t].op # "apply" /\ task[t].tries < MaxAttempts)
  BY <1>2, ReturnInv DEF Refused
<1> QED
  BY <1>1, <1>2

\* The invariant holds initially.
LEMMA InitInv == Init => IInv
<1> SUFFICES ASSUME Init PROVE IInv
  OBVIOUS
<1>1. \A t \in Tasks : task[t] = Idle
  BY DEF Init
<1>2. task \in [Tasks -> Task] /\ \A t \in Tasks : Carries(task[t])
  BY <1>1, IdleCarries DEF Init
<1>3. reg \in Pages /\ revision \in Nat /\ now \in Times
  BY DEF Init, Empty, Pages
<1> QED
  BY <1>2, <1>3 DEF IInv, TypeOK

\* Every step preserves the invariant.
LEMMA NextInv == IInv /\ [Next]_vars => IInv'
<1> SUFFICES ASSUME IInv, [Next]_vars PROVE IInv'
  OBVIOUS
<1>0. reg \in Pages /\ revision \in Nat /\ now \in Times /\ Supervisor \in Tasks
  BY DEF IInv, TypeOK, Tasks
<1> DEFINE Still == reg' = reg /\ revision' = revision /\ now' = now
<1>1. ASSUME NEW n \in Names, NEW d \in Digests, Put(n, d) PROVE IInv'
  <2> DEFINE k == [Idle EXCEPT !.op = "put", !.pc = "sign", !.name = n, !.digest = d, !.tries = 1]
  <2>1. n \in 0 .. NumNames /\ d \in Nat
    BY RecordAssumption DEF RecordAssumption, Names
  <2>2. k \in Task
    BY <2>1, IdleCarries DEF Task
  <2>3. Carries(k)
    BY DEF Idle, Carries
  <2>4. Becomes(Supervisor, k) /\ Still
    BY <1>1 DEF Put
  <2> HIDE DEF k
  <2> QED
    BY <1>0, <2>2, <2>3, <2>4, Update
<1>2. ASSUME NEW n \in Names, NEW want \in Records, Remove(n, want) PROVE IInv'
  <2> DEFINE k == [Idle EXCEPT !.op = "remove", !.pc = "sign", !.name = n, !.want = want, !.tries = 1]
  <2>1. n \in 0 .. NumNames
    BY RecordAssumption DEF RecordAssumption, Names
  <2>2. k \in Task
    BY <2>1, IdleCarries DEF Task
  <2>3. Carries(k)
    BY DEF Idle, Carries
  <2>4. Becomes(Supervisor, k) /\ Still
    BY <1>2 DEF Remove
  <2> HIDE DEF k
  <2> QED
    BY <1>0, <2>2, <2>3, <2>4, Update
<1>3. ASSUME NEW overflow \in SUBSET Names, Sweep(overflow) PROVE IInv'
  <2> DEFINE todo == [n \in Names |->
                        IF n \in (Removals \ Fresh) \cup overflow THEN reg[n] ELSE None]
             k == [Idle EXCEPT !.op = "sweep", !.pc = "delete", !.base = revision, !.at = now,
                               !.todo = todo]
  <2>1. todo \in Pages
    BY <1>0 DEF Pages
  <2>2. \A n \in Names : todo[n] # None => Removed(todo[n])
    BY <1>3 DEF Sweep, Removals, Fresh
  <2>4. Becomes(Supervisor, k) /\ Still
    BY <1>3 DEF Sweep
  <2> HIDE DEF todo
  <2>3. k \in Task
    BY <1>0, <2>1, IdleCarries DEF Task
  <2>5. Carries(k)
    BY <2>2 DEF Idle, Carries
  <2> HIDE DEF k
  <2> QED
    BY <1>0, <2>3, <2>4, <2>5, Update
<1>4. ASSUME NEW t \in Consumers, NEW page \in [Names -> Received \cup {None}], Receive(t, page)
      PROVE  IInv'
  <2> DEFINE k == [Idle EXCEPT !.op = "apply", !.pc = "record", !.todo = page]
  <2>1. page \in Pages /\ t \in Tasks
    BY RegisterAssumption DEF RegisterAssumption, Pages, Tasks
  <2>2. k \in Task
    BY <2>1, IdleCarries DEF Task
  <2>3. Carries(k)
    BY DEF Idle, Carries
  <2>4. Becomes(t, k) /\ Still
    BY <1>4 DEF Receive
  <2> HIDE DEF k
  <2> QED
    BY <1>0, <2>1, <2>2, <2>3, <2>4, Update
<1>5. ASSUME NEW t \in Tasks, Step(t) PROVE IInv'
  <2>0. task[t] \in Task /\ Carries(task[t])
    BY DEF IInv, TypeOK
  <2>1. CASE Sign(t)
    <3> DEFINE r == Candidate(0, task[t].digest)
               k == [task[t] EXCEPT !.pc = "snap", !.rec = r]
    <3>1. task[t].op = "put" /\ task[t].name \in Names /\ task[t].digest \in Digests
      BY <2>0, <2>1 DEF Sign, Carries
    <3>2. r \in Records
      BY <1>0, <3>1, RegisterAssumption DEF RegisterAssumption, Candidate, Records
    <3>3. Becomes(t, k) /\ Still
      BY <2>1 DEF Sign
    <3> HIDE DEF r
    <3>4. k \in Task
      BY <2>0, <3>2 DEF Task
    <3>5. /\ k.op = task[t].op /\ k.pc = "snap" /\ k.name = task[t].name
          /\ k.digest = task[t].digest /\ k.rec = r
      BY <2>0 DEF Task
    <3> HIDE DEF k
    <3>6. Carries(k)
      BY <3>1, <3>2, <3>5 DEF Carries
    <3> QED
      BY <1>0, <3>3, <3>4, <3>6, Update
  <2>2. CASE Observe(t)
    <3> DEFINE stored == reg[task[t].name]
    <3>1. task[t].op = "remove" /\ task[t].name \in Names
      BY <2>0, <2>2 DEF Observe, Carries
    <3>2. Still
      BY <2>2 DEF Observe
    <3>3. ASSUME NEW reply, Return(t, reply) PROVE IInv'
      BY <1>0, <3>2, <3>3, ReturnInv
    <3>4. ASSUME stored # None, ~Removed(stored), NEW d \in Digests,
                 Becomes(t, [task[t] EXCEPT !.pc = "snap", !.rec = Candidate(stored.rank + 1, d)])
          PROVE  IInv'
      <4> DEFINE r == Candidate(stored.rank + 1, d)
                 k == [task[t] EXCEPT !.pc = "snap", !.rec = r]
      <4>1. stored \in Records
        BY <1>0, <3>1, <3>4 DEF Pages
      <4>2. stored.rank = 0
        BY <3>4, <4>1, Fields DEF Removed
      <4>3. r \in Records /\ Removed(r)
        BY <1>0, <4>2, RegisterAssumption DEF RegisterAssumption, Candidate, Records, Removed
      <4>4. Becomes(t, k)
        BY <3>4
      <4> HIDE DEF r
      <4>5. k \in Task
        BY <2>0, <4>3 DEF Task
      <4>6. k.op = task[t].op /\ k.pc = "snap" /\ k.name = task[t].name /\ k.rec = r
        BY <2>0 DEF Task
      <4> HIDE DEF k
      <4>7. Carries(k)
        BY <3>1, <4>3, <4>6 DEF Carries
      <4> QED
        BY <1>0, <3>2, <4>4, <4>5, <4>7, Update
    <3> QED
      BY <2>2, <3>3, <3>4 DEF Observe
  <2>3. CASE NextRecord(t)
    <3>1. Still /\ task[t].op = "apply" /\ task[t].pc = "record"
      BY <2>3 DEF NextRecord
    <3>2. CASE Return(t, "applied")
      BY <1>0, <3>1, <3>2, ReturnInv
    <3>3. ASSUME NEW n \in Left(t), Becomes(t, [task[t] EXCEPT !.todo = Without(t, n)])
          PROVE  IInv'
      <4> DEFINE w == Without(t, n)
                 k == [task[t] EXCEPT !.todo = w]
      <4>1. w \in Pages
        BY <2>0, <3>3 DEF Without, Pages, Task, Left
      <4>2. Becomes(t, k)
        BY <3>3
      <4> HIDE DEF w
      <4>3. k \in Task
        BY <2>0, <4>1 DEF Task
      <4>4. k.op = "apply" /\ k.pc = "record"
        BY <2>0, <3>1 DEF Task
      <4> HIDE DEF k
      <4>5. Carries(k)
        BY <4>4 DEF Carries
      <4> QED
        BY <1>0, <3>1, <4>2, <4>3, <4>5, Update
    <3>4. ASSUME NEW n \in Left(t),
                 Becomes(t, [task[t] EXCEPT !.pc = "snap", !.name = n, !.rec = task[t].todo[n],
                                            !.todo = Without(t, n)])
          PROVE  IInv'
      <4> DEFINE w == Without(t, n)
                 r == task[t].todo[n]
                 k == [task[t] EXCEPT !.pc = "snap", !.name = n, !.rec = r, !.todo = w]
      <4>1. w \in Pages
        BY <2>0, <3>4 DEF Without, Pages, Task, Left
      <4>2. n \in Names /\ r \in Records
        BY <2>0, <3>4 DEF Pages, Task, Left
      <4>3. n \in 0 .. NumNames
        BY <4>2, RecordAssumption DEF RecordAssumption, Names
      <4>4. Becomes(t, k)
        BY <3>4
      <4> HIDE DEF w, r
      <4>5. k \in Task
        BY <2>0, <4>1, <4>2, <4>3 DEF Task
      <4>6. k.op = "apply" /\ k.pc = "snap" /\ k.name = n /\ k.rec = r
        BY <2>0, <3>1 DEF Task
      <4> HIDE DEF k
      <4>7. Carries(k)
        BY <4>2, <4>6 DEF Carries
      <4> QED
        BY <1>0, <3>1, <4>4, <4>5, <4>7, Update
    <3> QED
      BY <2>3, <3>2, <3>3, <3>4 DEF NextRecord
  <2>4. CASE Snapshot(t)
    <3> DEFINE stored == reg[task[t].name]
    <3>1. /\ Still /\ task[t].pc = "snap" /\ task[t].name \in Names /\ task[t].rec \in Records
          /\ task[t].op \in {"put", "remove", "apply"}
          /\ task[t].op = "remove" => Removed(task[t].rec)
      BY <2>0, <2>4 DEF Snapshot, Carries
    <3>2. ASSUME NEW reply, Return(t, reply) \/ Done(t, reply) PROVE IInv'
      BY <1>0, <3>1, <3>2, ReturnInv, DoneInv
    <3>3. CASE Refused(t)
      BY <1>0, <3>1, <3>3, RefusedInv
    <3>4. ASSUME task[t].op = "remove" => stored = task[t].want,
                 Enters(task[t].rec, stored),
                 Becomes(t, [task[t] EXCEPT !.pc = "commit", !.seen = stored, !.base = revision])
          PROVE  IInv'
      <4> DEFINE k == [task[t] EXCEPT !.pc = "commit", !.seen = stored, !.base = revision]
      <4>1. stored \in Records \cup {None}
        BY <1>0, <3>1 DEF Pages
      <4>2. Becomes(t, k)
        BY <3>4
      <4> HIDE DEF stored
      <4>3. k \in Task
        BY <1>0, <2>0, <4>1 DEF Task
      <4>4. /\ k.op = task[t].op /\ k.pc = "commit" /\ k.name = task[t].name
            /\ k.rec = task[t].rec /\ k.seen = stored /\ k.want = task[t].want
            /\ k.digest = task[t].digest
        BY <2>0 DEF Task
      <4>5. task[t].op = "put" => task[t].digest \in Digests
        BY <2>0 DEF Carries
      <4> HIDE DEF k
      <4>6. Carries(k)
        BY <3>1, <3>4, <4>4, <4>5 DEF Carries
      <4> QED
        BY <1>0, <3>1, <4>2, <4>3, <4>6, Update
    <3> QED
      BY <2>4, <3>2, <3>3, <3>4 DEF Snapshot
  <2>5. CASE Commit(t)
    <3>1. /\ now' = now /\ task[t].pc = "commit" /\ task[t].name \in Names
          /\ task[t].rec \in Records
      BY <2>0, <2>5 DEF Commit, Carries
    <3>2. reg' \in Pages /\ revision' \in Nat
      BY <1>0, <2>5, <3>1 DEF Commit, Pages
    <3> QED
      BY <1>0, <2>5, <3>1, <3>2, DoneInv, RefusedInv DEF Commit
  <2>6. CASE Delete(t)
    <3>1. task[t].op = "sweep" /\ now' = now
      BY <2>6 DEF Delete
    <3>2. reg' \in Pages /\ revision' \in Nat
      <4>1. ASSUME NEW n \in Names, reg' = [reg EXCEPT ![n] = None] PROVE reg' \in Pages
        BY <1>0, <4>1 DEF Pages
      <4>2. revision + 1 \in Nat
        BY <1>0
      <4> QED
        BY <1>0, <2>6, <4>1, <4>2 DEF Delete
    <3>3. CASE Return(t, "swept")
      BY <1>0, <3>1, <3>2, <3>3, ReturnInv
    <3>4. ASSUME NEW n \in Names, Becomes(t, [task[t] EXCEPT !.todo = Without(t, n)])
          PROVE  IInv'
      <4> DEFINE w == Without(t, n)
                 k == [task[t] EXCEPT !.todo = w]
      <4>1. w \in Pages
        BY <2>0 DEF Without, Pages, Task
      <4>2. \A m \in Names : w[m] # None => Removed(w[m])
        BY <2>0, <3>1 DEF Carries, Without, Pages, Task
      <4>3. Becomes(t, k)
        BY <3>4
      <4> HIDE DEF w
      <4>4. k \in Task
        BY <2>0, <4>1 DEF Task
      <4>5. k.op = "sweep" /\ k.pc = task[t].pc /\ k.todo = w
        BY <2>0, <3>1 DEF Task
      <4>6. task[t].pc \notin {"sign", "snap", "commit"}
        BY <2>0, <3>1 DEF Carries
      <4> HIDE DEF k
      <4>7. Carries(k)
        BY <4>2, <4>5, <4>6 DEF Carries
      <4> QED
        BY <1>0, <3>1, <3>2, <4>3, <4>4, <4>7, Update
    <3> QED
      BY <2>6, <3>3, <3>4 DEF Delete
  <2>7. CASE Fail(t)
    BY <1>0, <2>7, ReturnInv DEF Fail
  <2> QED
    BY <1>5, <2>1, <2>2, <2>3, <2>4, <2>5, <2>6, <2>7 DEF Step
<1>6. CASE OtherCommit
  BY <1>0, <1>6 DEF OtherCommit, IInv, TypeOK
<1>7. CASE Tick
  BY <1>7 DEF Tick, IInv, TypeOK
<1>8. CASE UNCHANGED vars
  BY <1>8 DEF vars, IInv, TypeOK
<1> QED
  BY <1>1, <1>2, <1>3, <1>4, <1>5, <1>6, <1>7, <1>8 DEF Next

-----------------------------------------------------------------------------
(* The theorems *)

\* Type correctness: in particular no removal ever ranks above 1, so the rank of
\* remove_resource cannot overflow.
THEOREM RegisterTypeCorrect == Spec => []TypeOK
<1>1. IInv => TypeOK
  BY DEF IInv
<1> QED
  BY <1>1, InitInv, NextInv, PTL DEF Spec

\* A step of the register is a step of MaxRegister or leaves reg unchanged.
LEMMA StepRefines == IInv /\ [Next]_vars => [Register!Next]_reg
<1> SUFFICES ASSUME IInv, [Next]_vars, reg' # reg PROVE Register!Next
  BY DEF Register!Next
<1>1. PICK t \in Tasks : Commit(t) \/ Delete(t)
  BY DEF Next, vars, Step, Put, Remove, Sweep, Receive, Sign, Observe, NextRecord, Snapshot,
         Fail, OtherCommit, Tick
<1>2. task[t] \in Task /\ Carries(task[t]) /\ reg \in Pages
  BY DEF IInv, TypeOK
<1>3. CASE Commit(t)
  <2>1. task[t].name \in Names /\ task[t].rec \in Records /\ Enters(task[t].rec, task[t].seen)
    BY <1>2, <1>3 DEF Commit, Carries
  <2>2. reg[task[t].name] = task[t].seen /\ reg' = [reg EXCEPT ![task[t].name] = task[t].rec]
    BY <1>3 DEF Commit, Applicable
  <2>3. Register!Raise(task[t].name, task[t].rec)
    BY <2>1, <2>2 DEF Register!Raise, Register!Enters, Register!Wins, Enters, Wins
  <2> QED
    BY <2>1, <2>3 DEF Register!Next, Register!Names, Register!Records, Register!Times, Names, Records, Times
<1>4. CASE Delete(t)
  <2>1. PICK n \in Names : /\ n \in Left(t) \/ NextTarget(t, n)
                           /\ reg[n] = task[t].todo[n] /\ reg' = [reg EXCEPT ![n] = None]
    BY <1>4 DEF Delete, Applicable
  <2>2. reg[n] # None
    BY <1>2, <2>1 DEF Pages
  <2>3. Removed(reg[n])
    BY <1>2, <1>4, <2>1, <2>2 DEF Delete, Carries
  <2>4. Register!Evict(n)
    BY <2>1, <2>2, <2>3 DEF Register!Evict, Register!Removed, Removed
  <2> QED
    BY <2>4 DEF Register!Next, Register!Names, Names
<1> QED
  BY <1>1, <1>3, <1>4

\* The register implements MaxRegister: whatever commands, pages, sweeps and
\* other commits interleave, a record is replaced only by a greater one and only
\* removals are deleted.
THEOREM ImplementsMaxRegister == Spec => Refines
<1>1. Init => Register!Init
  BY DEF Init, Empty, Register!Init, Register!Names, Names
<1> QED
  BY <1>1, InitInv, NextInv, StepRefines, PTL DEF Spec, Refines, Register!Spec

\* A removal replaces exactly the version its caller observed.
THEOREM RemovalsAreExact == Spec => RemovalIsExact
<1> DEFINE Exact == task[Supervisor].op = "remove" /\ task'[Supervisor] # task[Supervisor] /\ reg' # reg =>
              /\ reg[task[Supervisor].name] = task[Supervisor].want
              /\ Removed(reg'[task[Supervisor].name])
<1>1. IInv /\ [Next]_vars => [Exact]_vars
  <2> SUFFICES ASSUME IInv, Next, task[Supervisor].op = "remove",
                      task'[Supervisor] # task[Supervisor], reg' # reg
               PROVE  /\ reg[task[Supervisor].name] = task[Supervisor].want
                      /\ Removed(reg'[task[Supervisor].name])
    OBVIOUS
  <2>1. PICK t \in Tasks : Commit(t) \/ Delete(t)
    BY DEF Next, vars, Step, Put, Remove, Sweep, Receive, Sign, Observe, NextRecord, Snapshot,
           Fail, OtherCommit, Tick
  <2>2. \E k : Becomes(t, k)
    BY <2>1 DEF Commit, Delete, Done, Refused, Return
  <2>3. t = Supervisor
    BY <2>2 DEF Becomes, IInv, TypeOK, Tasks
  <2>4. Commit(Supervisor)
    BY <2>1, <2>3 DEF Delete
  <2>5. task[Supervisor] \in Task /\ Carries(task[Supervisor]) /\ reg \in Pages
    BY DEF IInv, TypeOK, Tasks
  <2>6. /\ task[Supervisor].name \in Names /\ Removed(task[Supervisor].rec)
        /\ task[Supervisor].seen = task[Supervisor].want
    BY <2>4, <2>5 DEF Commit, Carries
  <2>7. /\ reg[task[Supervisor].name] = task[Supervisor].seen
        /\ reg' = [reg EXCEPT ![task[Supervisor].name] = task[Supervisor].rec]
    BY <2>4 DEF Commit, Applicable
  <2> QED
    BY <2>5, <2>6, <2>7 DEF Pages
<1> QED
  BY <1>1, InitInv, NextInv, PTL DEF Spec, RemovalIsExact

=============================================================================
