---------------------------- MODULE RoutingProofs ----------------------------
(***************************************************************************)
(* Relayed packets, for any packets, sessions, bodies and capacities.       *)
(***************************************************************************)
EXTENDS Forwarding, TLAPS

Steps == {"new", "waiting", "streaming", "done", "failed"}
Origins == [pc : Steps, sent : Nat]
Readers == [pc : {"idle", "open", "chunk", "end"}, trace : Traces \cup {None}]
Queued == [kind : {"Open", "Chunk", "End"}, trace : Traces, sequence : Int]
Answers == [trace : Traces, status : Statuses]
Legs == [open : BOOLEAN, got : Nat, ended : BOOLEAN, broken : BOOLEAN]

Typed ==
  /\ origin \in [Traces -> Origins]
  /\ up \in [Ups -> {"unused", "serving", "ended", "closing"}]
  /\ reader \in [Ups -> Readers]
  /\ closer \in [Ups -> SUBSET Traces]
  /\ ending \in [Ups -> Traces \cup {None}]
  /\ hops \subseteq Traces
  /\ lock \in [Traces -> Ups \cup {NoSession}]
  /\ open \in BOOLEAN
  /\ pending \subseteq Traces
  /\ queue \in Seq(Queued)
  /\ acks \in Seq(Answers)
  /\ leg \in [Traces -> Legs]

\* The reader of a session works only while the session serves, on a packet of
\* that session; while it relays a chunk it holds the lock of a registered hop.
Reading ==
  \A s \in Ups : reader[s] # Idle =>
    /\ up[s] = "serving"
    /\ reader[s].trace \in Traces /\ Owner[reader[s].trace] = s
    /\ reader[s].pc # "idle"
    /\ reader[s].pc = "open" => origin[reader[s].trace].pc # "new"
    /\ reader[s].pc = "chunk" => reader[s].trace \in hops /\ lock[reader[s].trace] = s

\* A hop belongs to a session that has been registered; a closer that has
\* looked knows every hop of its session.
Closing ==
  \A t \in hops : /\ up[Owner[t]] # "unused"
                  /\ up[Owner[t]] = "closing" => t \in closer[Owner[t]]

Does(pc, t) == reader[Owner[t]] = [pc |-> pc, trace |-> t]
Is(f, kind, t) == f.kind = kind /\ f.trace = t
InQueue(kind, t) == \E i \in 1 .. Len(queue) : Is(queue[i], kind, t)
Ends(t) == \E s \in Ups : ending[s] = t

\* A packet that has no open yet has nothing at all.
Fresh(t) == origin[t].pc = "new" \/ Does("open", t)

Unsent(t) ==
  Fresh(t) => /\ t \notin hops /\ ~Does("end", t) /\ ~Ends(t) /\ ~leg[t].open
              /\ \A i \in 1 .. Len(queue) : queue[i].trace # t

\* Before the next hop admits a packet, none of its chunks is on its way.
Unopened(t) ==
  /\ \A i, j \in 1 .. Len(queue) : Is(queue[i], "Open", t) /\ Is(queue[j], "Open", t) => i = j
  /\ InQueue("Open", t) => ~leg[t].open
  /\ ~leg[t].open =>
       /\ origin[t].sent = 0 /\ origin[t].pc # "streaming" /\ ~Does("chunk", t)
       /\ leg[t].got = 0 /\ ~leg[t].ended
       /\ ~InQueue("Chunk", t)
       /\ \A i \in 1 .. Len(acks) : acks[i] # [trace |-> t, status |-> "Admitted"]

\* One task at a time can end a leg, and nothing follows the end.
OneEnd(t) ==
  /\ t \in hops => ~Does("end", t) /\ ~Ends(t)
  /\ Does("end", t) => ~Ends(t)
  /\ t \in hops \/ Does("end", t) \/ Ends(t) => ~leg[t].ended /\ ~InQueue("End", t)
  /\ \A s, r \in Ups : ending[s] = t /\ ending[r] = t => s = r
  /\ leg[t].ended => \A i \in 1 .. Len(queue) : queue[i].trace # t
  /\ \A i \in 1 .. Len(queue) : Is(queue[i], "End", t) =>
       \A j \in i + 1 .. Len(queue) : queue[j].trace # t

\* The sequence of the next chunk to be queued.
Due(t) == IF Does("chunk", t) THEN origin[t].sent - 1 ELSE origin[t].sent

\* The chunks in the queue are those the next hop still expects, in order.
Before(q, got, t, i, n) ==
  n >= got /\ \A m \in got .. n - 1 : \E k \in 1 .. i - 1 : Is(q[k], "Chunk", t) /\ q[k].sequence = m

InOrder(t) ==
  Live(t) =>
    /\ \A i, j \in 1 .. Len(queue) : Is(queue[i], "Chunk", t) /\ Is(queue[j], "Chunk", t) /\ i < j =>
         queue[i].sequence < queue[j].sequence
    /\ \A i \in 1 .. Len(queue) : Is(queue[i], "Chunk", t) => Before(queue, leg[t].got, t, i, queue[i].sequence)
    /\ open /\ t \in hops /\ up[Owner[t]] = "serving" =>
         /\ Before(queue, leg[t].got, t, Len(queue) + 1, Due(t))
         /\ \A i \in 1 .. Len(queue) : Is(queue[i], "Chunk", t) => queue[i].sequence < Due(t)

Sound(t) == Unsent(t) /\ Unopened(t) /\ OneEnd(t) /\ InOrder(t)

IInv == Typed /\ Reading /\ Closing /\ \A t \in Traces : Sound(t)

-----------------------------------------------------------------------------
\* The records an answer, a packet and its leg start from.
LEMMA Fields ==
  /\ \A a, t, status : a = [trace |-> t, status |-> status] => a.trace = t
  /\ \A o : o = [pc |-> "new", sent |-> 0] => o.pc = "new" /\ o.sent = 0
  /\ \A l : l = [open |-> FALSE, got |-> 0, ended |-> FALSE, broken |-> FALSE] =>
              ~l.open /\ l.got = 0 /\ ~l.ended
OBVIOUS

\* Sequences that grow at the end and shrink at the front.
LEMMA Appended ==
  ASSUME NEW S, NEW q \in Seq(S), NEW f \in S
  PROVE  /\ Append(q, f) \in Seq(S) /\ Len(q) \in Nat /\ Len(Append(q, f)) = Len(q) + 1
         /\ \A i \in 1 .. Len(q) : Append(q, f)[i] = q[i]
         /\ Append(q, f)[Len(q) + 1] = f
OBVIOUS

LEMMA Tailed ==
  ASSUME NEW S, NEW q \in Seq(S), q # <<>>
  PROVE  /\ Tail(q) \in Seq(S) /\ Len(q) \in Nat \ {0} /\ Len(Tail(q)) = Len(q) - 1
         /\ \A i \in 1 .. Len(q) - 1 : Tail(q)[i] = q[i + 1]
         /\ Head(q) = q[1] /\ Head(q) \in S
OBVIOUS

\* A packet keeps its invariant in a step that sends or delivers none of its
\* frames, registers no hop for it and begins no end of it.
LEMMA StreamKeeps ==
  ASSUME Typed, Typed', NEW t \in Traces, Sound(t),
         Fresh(t)' => Fresh(t),
         t \in hops' => t \in hops,
         Does("end", t)' => Does("end", t),
         \A s \in Ups : ending'[s] = t => ending[s] = t,
         leg'[t].open = leg[t].open, leg'[t].got = leg[t].got, leg'[t].ended = leg[t].ended,
         Live(t)' => Live(t),
         ~leg[t].open =>
           /\ origin'[t].sent = origin[t].sent /\ origin'[t].pc # "streaming" /\ ~Does("chunk", t)'
           /\ \A i \in 1 .. Len(acks') : acks'[i] # [trace |-> t, status |-> "Admitted"],
         open' /\ t \in hops' /\ up'[Owner[t]] = "serving" =>
           open /\ up[Owner[t]] = "serving" /\ Due(t)' = Due(t),
         \/ queue' = queue
         \/ \E f \in Queued : f.trace # t /\ queue' = Append(queue, f)
         \/ queue # <<>> /\ Head(queue).trace # t /\ queue' = Tail(queue)
  PROVE  Sound(t)'
<1>1. Owner[t] \in Ups
  BY ForwardingAssumption, Zenon DEF ForwardingAssumption
<1>2. PICK d \in {0, 1} :
        /\ \A i \in 1 .. Len(queue') : queue'[i].trace = t =>
             i + d \in 1 .. Len(queue) /\ queue'[i] = queue[i + d]
        /\ \A j \in 1 .. Len(queue) : queue[j].trace = t =>
             j - d \in 1 .. Len(queue') /\ queue'[j - d] = queue[j]
  <2>0. queue \in Seq(Queued)
    BY Zenon DEF Typed
  <2>1. CASE queue' = queue
    <3> WITNESS 0 \in {0, 1}
    <3> QED BY <2>0, <2>1
  <2>2. CASE \E f \in Queued : f.trace # t /\ queue' = Append(queue, f)
    <3> WITNESS 0 \in {0, 1}
    <3> QED BY <2>0, <2>2, Appended
  <2>3. CASE queue # <<>> /\ Head(queue).trace # t /\ queue' = Tail(queue)
    <3> WITNESS 1 \in {0, 1}
    <3> QED BY <2>0, <2>3, Tailed
  <2> QED BY <2>1, <2>2, <2>3, Zenon
<1>3. Len(queue) \in Nat /\ Len(queue') \in Nat
  BY DEF Typed
<1>4. Unsent(t)'
  BY <1>2 DEF Sound, Unsent, Ends
<1>5. OneEnd(t)'
  <2>1. InQueue("End", t)' => InQueue("End", t)
    BY <1>2, SMTT(20) DEF InQueue, Is
  <2>2. leg[t].ended => \A i \in 1 .. Len(queue') : queue'[i].trace # t
    BY <1>2 DEF Sound, OneEnd
  <2>3. ASSUME NEW i \in 1 .. Len(queue'), Is(queue'[i], "End", t), NEW j \in i + 1 .. Len(queue')
        PROVE  queue'[j].trace # t
    <3>1. i + d \in 1 .. Len(queue) /\ Is(queue[i + d], "End", t)
      BY <1>2, <2>3, Zenon DEF Is
    <3>2. \A k \in i + d + 1 .. Len(queue) : queue[k].trace # t
      BY <3>1, Zenon DEF Sound, OneEnd
    <3>3. j \in 1 .. Len(queue')
      BY <1>3, <2>3
    <3> QED BY <1>2, <1>3, <3>2, <3>3
  <2>4. Ends(t)' => Ends(t)
    BY Zenon DEF Ends
  <2> QED BY <2>1, <2>2, <2>3, <2>4, Zenon DEF Sound, OneEnd
<1>6. Unopened(t)'
  <2>1. \A kind : InQueue(kind, t)' => InQueue(kind, t)
    BY <1>2 DEF InQueue, Is
  <2>2. ASSUME NEW i \in 1 .. Len(queue'), NEW j \in 1 .. Len(queue'), Is(queue'[i], "Open", t), Is(queue'[j], "Open", t)
        PROVE  i = j
    <3>1. /\ i + d \in 1 .. Len(queue) /\ Is(queue[i + d], "Open", t)
          /\ j + d \in 1 .. Len(queue) /\ Is(queue[j + d], "Open", t)
      BY <1>2, <2>2, Zenon DEF Is
    <3>2. i + d = j + d
      BY <3>1, Zenon DEF Sound, Unopened
    <3> QED BY <1>3, <3>2
  <2> QED BY <2>1, <2>2, Zenon DEF Sound, Unopened
<1>7. InOrder(t)'
  <2> SUFFICES ASSUME Live(t)' PROVE InOrder(t)'
    BY Zenon DEF InOrder
  <2>0. Live(t) /\ leg[t].got \in Nat
    BY Zenon DEF Live, Typed, Legs
  <2>1. ASSUME NEW i \in 1 .. Len(queue'), NEW j \in 1 .. Len(queue'),
               Is(queue'[i], "Chunk", t), Is(queue'[j], "Chunk", t), i < j
        PROVE  queue'[i].sequence < queue'[j].sequence
    <3>1. /\ i + d \in 1 .. Len(queue) /\ Is(queue[i + d], "Chunk", t) /\ queue'[i] = queue[i + d]
          /\ j + d \in 1 .. Len(queue) /\ Is(queue[j + d], "Chunk", t) /\ queue'[j] = queue[j + d]
      BY <1>2, <2>1, Zenon DEF Is
    <3>2. i + d < j + d
      BY <1>3, <2>1
    <3> QED BY <2>0, <3>1, <3>2, Zenon DEF Sound, InOrder
  <2>2. ASSUME NEW i \in 1 .. Len(queue') + 1, NEW j \in 1 .. Len(queue) + 1, NEW n \in Int,
               Before(queue, leg[t].got, t, j, n),
               \A k \in 1 .. j - 1 : queue[k].trace = t => k - d < i
        PROVE  Before(queue', leg'[t].got, t, i, n)
    <3> SUFFICES ASSUME NEW m \in leg[t].got .. n - 1
                 PROVE  \E k \in 1 .. i - 1 : Is(queue'[k], "Chunk", t) /\ queue'[k].sequence = m
      BY <2>2 DEF Before
    <3>1. PICK k \in 1 .. j - 1 : Is(queue[k], "Chunk", t) /\ queue[k].sequence = m
      BY <2>2, Zenon DEF Before
    <3>a. queue[k].trace = t
      BY <3>1, Zenon DEF Is
    <3>b. k - d < i
      BY <3>a, <2>2, Zenon
    <3>c. k \in 1 .. Len(queue)
      BY <1>3
    <3>2. k \in 1 .. Len(queue) /\ k - d < i
      BY <3>b, <3>c, Zenon
    <3>3. k - d \in 1 .. Len(queue') /\ queue'[k - d] = queue[k]
      BY <1>2, <3>1, <3>2, Zenon DEF Is
    <3>4. k - d \in 1 .. i - 1
      BY <1>3, <3>2, <3>3
    <3> QED BY <3>1, <3>3, <3>4, Zenon DEF Is
  <2>3. ASSUME NEW i \in 1 .. Len(queue'), Is(queue'[i], "Chunk", t)
        PROVE  Before(queue', leg'[t].got, t, i, queue'[i].sequence)
    <3>1. i + d \in 1 .. Len(queue) /\ Is(queue[i + d], "Chunk", t) /\ queue'[i] = queue[i + d]
      BY <1>2, <2>3, Zenon DEF Is
    <3>2. Before(queue, leg[t].got, t, i + d, queue[i + d].sequence) /\ queue[i + d].sequence \in Int
      <4>1. queue[i + d] \in Queued
        BY <3>1 DEF Typed
      <4> QED BY <2>0, <3>1, <4>1, Zenon DEF Sound, InOrder, Queued
    <3>3. /\ i \in 1 .. Len(queue') + 1 /\ i + d \in 1 .. Len(queue) + 1
          /\ \A k \in 1 .. i + d - 1 : k - d < i
      BY <1>3, <3>1
    <3> QED BY <2>2, <3>1, <3>2, <3>3
  <2>4. ASSUME open', t \in hops', up'[Owner[t]] = "serving"
        PROVE  /\ Before(queue', leg'[t].got, t, Len(queue') + 1, Due(t)')
               /\ \A i \in 1 .. Len(queue') : Is(queue'[i], "Chunk", t) => queue'[i].sequence < Due(t)'
    <3>1. /\ Before(queue, leg[t].got, t, Len(queue) + 1, Due(t)) /\ Due(t)' = Due(t) /\ Due(t) \in Int
          /\ \A i \in 1 .. Len(queue) : Is(queue[i], "Chunk", t) => queue[i].sequence < Due(t)
      BY <2>0, <2>4 DEF Sound, InOrder, Due, Typed, Origins
    <3>2. \A k \in 1 .. Len(queue) : queue[k].trace = t => k - d < Len(queue') + 1
      BY <1>2, <1>3
    <3>3. Before(queue', leg'[t].got, t, Len(queue') + 1, Due(t)')
      <4>1. /\ Len(queue') + 1 \in 1 .. Len(queue') + 1 /\ Len(queue) + 1 \in 1 .. Len(queue) + 1
            /\ (Len(queue) + 1) - 1 = Len(queue)
        BY <1>3
      <4> QED BY <2>2, <3>1, <3>2, <4>1, Zenon
    <3> QED BY <1>2, <3>1, <3>3, SMTT(20) DEF Is
  <2> QED BY <2>1, <2>3, <2>4, Zenon DEF InOrder
<1> QED BY <1>4, <1>5, <1>6, <1>7, Zenon DEF Sound

-----------------------------------------------------------------------------
\* A frame that a sender hands to the downstream queue.
LEMMA Sends ==
  ASSUME Typed, NEW kind \in {"Open", "Chunk", "End"}, NEW t \in Traces, Send(kind, t)
  PROVE  /\ queue' \in Seq(Queued) /\ Len(queue) \in Nat /\ Len(queue') = Len(queue) + 1
         /\ \A i \in 1 .. Len(queue) : queue'[i] = queue[i]
         /\ Is(queue'[Len(queue')], kind, t)
         /\ queue'[Len(queue')].sequence = origin[t].sent - 1
         /\ \E f \in Queued : f.trace = t /\ queue' = Append(queue, f)
<1> DEFINE f == [kind |-> kind, trace |-> t, sequence |-> origin[t].sent - 1]
<1>1. f \in Queued
  BY DEF Typed, Origins, Queued
<1>2. queue' = Append(queue, f) /\ queue \in Seq(Queued) /\ f.trace = t /\ Is(f, kind, t)
  BY DEF Send, Typed, Is
<1> HIDE DEF f
<1>3. /\ queue' \in Seq(Queued) /\ Len(queue) \in Nat /\ Len(queue') = Len(queue) + 1
      /\ \A i \in 1 .. Len(queue) : queue'[i] = queue[i]
      /\ queue'[Len(queue')] = f
  BY <1>1, <1>2, Appended
<1> QED BY <1>1, <1>2, <1>3 DEF f

\* A frame at the end of the queue leaves what is before an earlier place.
LEMMA BeforeGrows ==
  ASSUME NEW q, NEW p, NEW l \in Nat, \A i \in 1 .. l : p[i] = q[i],
         NEW got \in Nat, NEW t, NEW i \in 1 .. l + 1, NEW n \in Int, Before(q, got, t, i, n)
  PROVE  Before(p, got, t, i, n)
<1> SUFFICES ASSUME NEW m \in got .. n - 1
             PROVE  \E k \in 1 .. i - 1 : Is(p[k], "Chunk", t) /\ p[k].sequence = m
  BY DEF Before
<1>1. PICK k \in 1 .. i - 1 : Is(q[k], "Chunk", t) /\ q[k].sequence = m
  BY DEF Before
<1>2. k \in 1 .. l
  OBVIOUS
<1> QED BY <1>1, <1>2

\* A chunk queued last is the one that was due.
LEMMA BeforeNext ==
  ASSUME NEW q, NEW p, NEW l \in Nat, \A i \in 1 .. l : p[i] = q[i],
         NEW got \in Nat, NEW t, NEW n \in Int, Before(q, got, t, l + 1, n),
         Is(p[l + 1], "Chunk", t), p[l + 1].sequence = n
  PROVE  Before(p, got, t, l + 2, n + 1)
<1>1. n >= got
  BY DEF Before
<1>2. ASSUME NEW m \in got .. n
      PROVE  \E k \in 1 .. l + 1 : Is(p[k], "Chunk", t) /\ p[k].sequence = m
  <2>1. CASE m = n
    BY <2>1
  <2>2. CASE m \in got .. n - 1
    <3>1. PICK k \in 1 .. l : Is(q[k], "Chunk", t) /\ q[k].sequence = m
      BY <2>2 DEF Before
    <3> QED BY <3>1
  <2> QED BY <2>1, <2>2
<1>3. (n + 1) - 1 = n /\ (l + 2) - 1 = l + 1 /\ n + 1 >= got
  BY <1>1
<1> QED BY <1>2, <1>3 DEF Before

\* The chunk at the head of the queue is the one that is expected.
LEMMA BeforeFirst ==
  ASSUME NEW q, NEW got \in Nat, NEW t, NEW n \in Int, Before(q, got, t, 1, n)
  PROVE  n = got
<1>1. n >= got /\ \A m \in got .. n - 1 : \E k \in 1 .. 0 : TRUE
  BY DEF Before
<1>2. ~(n > got)
  <2>1. ASSUME n > got PROVE got \in got .. n - 1
    BY <2>1
  <2> QED BY <1>1, <2>1
<1> QED BY <1>1, <1>2

\* A chunk is queued under the lock: it is the next one the queue lacks.
LEMMA ChunkSent ==
  ASSUME IInv, NEW t \in Traces, Send("Chunk", t), open, t \in hops, Does("chunk", t), ~Does("chunk", t)',
         up[Owner[t]] = "serving",
         Does("open", t)' => Does("open", t), Does("end", t)' => Does("end", t),
         UNCHANGED <<origin, ending, hops, open, acks, leg>>
  PROVE  Sound(t)'
<1>0. queue \in Seq(Queued)
  BY DEF IInv, Typed
<1>1. /\ Len(queue) \in Nat /\ Len(queue') = Len(queue) + 1
      /\ \A i \in 1 .. Len(queue) : queue'[i] = queue[i]
      /\ Is(queue'[Len(queue')], "Chunk", t) /\ queue'[Len(queue')].sequence = origin[t].sent - 1
  BY Sends, Zenon DEF IInv
<1>2. \A i \in 1 .. Len(queue') : queue'[i].kind # "Chunk" => i \in 1 .. Len(queue) /\ queue'[i] = queue[i]
  BY <1>1 DEF Is
<1>3. /\ ~Fresh(t) /\ leg[t].open /\ ~Does("end", t) /\ ~Ends(t) /\ ~leg[t].ended
      /\ ~InQueue("End", t) /\ ~InQueue("Open", t)
  BY Zenon DEF IInv, Sound, Unsent, OneEnd, Unopened
<1>4. Unsent(t)'
  BY <1>3, Zenon DEF Unsent, Fresh
<1>5. \A kind \in {"Open", "End"} : ~InQueue(kind, t)'
  BY <1>2, <1>3, Zenon DEF InQueue, Is
<1>6. Unopened(t)'
  BY <1>3, <1>5, Zenon DEF Unopened, InQueue
<1>7. OneEnd(t)'
  BY <1>3, <1>5, Zenon DEF OneEnd, InQueue, Ends
<1>8. InOrder(t)'
  <2> SUFFICES ASSUME Live(t)' PROVE InOrder(t)'
    BY Zenon DEF InOrder
  <2> DEFINE got == leg[t].got
             due == origin[t].sent - 1
  <2>1. Live(t) /\ got \in Nat /\ origin[t].sent \in Nat /\ due \in Int
    BY DEF Live, IInv, Typed, Legs, Origins
  <2>2. /\ Before(queue, got, t, Len(queue) + 1, due)
        /\ \A i \in 1 .. Len(queue) : Is(queue[i], "Chunk", t) => queue[i].sequence < due
    BY <2>1, Zenon DEF IInv, Sound, InOrder, Due
  <2>3. \A i, j \in 1 .. Len(queue') : Is(queue'[i], "Chunk", t) /\ Is(queue'[j], "Chunk", t) /\ i < j =>
          queue'[i].sequence < queue'[j].sequence
    <3>1. \A i, j \in 1 .. Len(queue) : Is(queue[i], "Chunk", t) /\ Is(queue[j], "Chunk", t) /\ i < j =>
            queue[i].sequence < queue[j].sequence
      BY <2>1, Zenon DEF IInv, Sound, InOrder
    <3> SUFFICES ASSUME NEW i \in 1 .. Len(queue'), NEW j \in 1 .. Len(queue'),
                        Is(queue'[i], "Chunk", t), Is(queue'[j], "Chunk", t), i < j
                 PROVE  queue'[i].sequence < queue'[j].sequence
      BY Zenon
    <3>2. i \in 1 .. Len(queue) /\ queue'[i] = queue[i]
      BY <1>1
    <3>3. CASE j \in 1 .. Len(queue)
      BY <1>1, <3>1, <3>2, <3>3, Zenon
    <3>4. CASE j = Len(queue')
      BY <1>1, <2>2, <3>2, <3>4, Zenon
    <3> QED BY <1>1, <3>3, <3>4
  <2>4. ASSUME NEW i \in 1 .. Len(queue'), Is(queue'[i], "Chunk", t)
        PROVE  Before(queue', got, t, i, queue'[i].sequence)
    <3>1. CASE i \in 1 .. Len(queue)
      <4>1. queue'[i] = queue[i] /\ queue[i] \in Queued
        BY <1>0, <1>1, <3>1
      <4>2. Before(queue, got, t, i, queue[i].sequence) /\ queue[i].sequence \in Int
        BY <2>1, <2>4, <3>1, <4>1, Zenon DEF IInv, Sound, InOrder, Queued
      <4>3. i \in 1 .. Len(queue) + 1
        BY <1>1, <3>1
      <4> QED BY <1>1, <2>1, <4>1, <4>2, <4>3, BeforeGrows, Zenon
    <3>2. CASE i = Len(queue) + 1
      <4>1. Before(queue', got, t, Len(queue) + 1, due)
        <5>1. Len(queue) + 1 \in 1 .. Len(queue) + 1
          BY <1>1
        <5> HIDE DEF got, due
        <5> QED BY <1>1, <2>1, <2>2, <5>1, BeforeGrows, Zenon
      <4>2. queue'[i].sequence = due
        BY <1>1, <3>2, Zenon
      <4> QED BY <3>2, <4>1, <4>2, Zenon
    <3> QED BY <1>1, <3>1, <3>2
  <2>5. Due(t)' = due + 1
    BY <2>1 DEF Due
  <2>6. Before(queue', got, t, Len(queue') + 1, due + 1)
    <3>1. Len(queue') + 1 = Len(queue) + 2
      BY <1>1
    <3>2. Before(queue', got, t, Len(queue) + 2, due + 1)
      <4> HIDE DEF got, due
      <4> QED BY <1>1, <2>1, <2>2, BeforeNext, Zenon DEF due
    <3> QED BY <3>1, <3>2, Zenon
  <2>7. \A i \in 1 .. Len(queue') : Is(queue'[i], "Chunk", t) => queue'[i].sequence < due + 1
    <3> SUFFICES ASSUME NEW i \in 1 .. Len(queue'), Is(queue'[i], "Chunk", t)
                 PROVE  queue'[i].sequence < due + 1
      BY Zenon
    <3>1. CASE i \in 1 .. Len(queue)
      <4>1. queue[i] \in Queued /\ queue'[i] = queue[i]
        BY <1>0, <1>1, <3>1
      <4>2. queue[i].sequence \in Int /\ queue[i].sequence < due
        BY <2>2, <3>1, <4>1, Zenon DEF Queued
      <4> QED BY <2>1, <4>1, <4>2
    <3>2. CASE i = Len(queue')
      BY <1>1, <2>1, <3>2
    <3> QED BY <1>1, <3>1, <3>2
  <2> HIDE DEF due
  <2> QED BY <2>3, <2>4, <2>5, <2>6, <2>7, Zenon DEF InOrder
<1> QED BY <1>4, <1>6, <1>7, <1>8, Zenon DEF Sound

\* An end is queued last, by the one task that may send it.
LEMMA EndSent ==
  ASSUME IInv, NEW t \in Traces, Send("End", t), ~Fresh(t), ~InQueue("End", t), ~leg[t].ended,
         t \notin hops', ~Does("end", t)', ~Ends(t)',
         Does("open", t)' => Does("open", t), Does("chunk", t)' => Does("chunk", t),
         UNCHANGED <<origin, open, acks, leg>>
  PROVE  Sound(t)'
<1>1. /\ Len(queue) \in Nat /\ Len(queue') = Len(queue) + 1
      /\ \A i \in 1 .. Len(queue) : queue'[i] = queue[i]
      /\ Is(queue'[Len(queue')], "End", t)
  BY Sends, Zenon DEF IInv
<1>2. \A i \in 1 .. Len(queue') : queue'[i].kind # "End" => i \in 1 .. Len(queue) /\ queue'[i] = queue[i]
  BY <1>1 DEF Is
<1>3. Unsent(t)'
  BY Zenon DEF Unsent, Fresh
<1>4. Unopened(t)'
  <2>1. \A kind \in {"Open", "Chunk"} : InQueue(kind, t)' => InQueue(kind, t)
    BY <1>2, Zenon DEF InQueue, Is
  <2>2. \A i, j \in 1 .. Len(queue') : Is(queue'[i], "Open", t) /\ Is(queue'[j], "Open", t) => i = j
    <3>1. \A i, j \in 1 .. Len(queue) : Is(queue[i], "Open", t) /\ Is(queue[j], "Open", t) => i = j
      BY Zenon DEF IInv, Sound, Unopened
    <3> QED BY <1>2, <3>1, Zenon DEF Is
  <2> QED BY <2>1, <2>2, Zenon DEF IInv, Sound, Unopened
<1>5. OneEnd(t)'
  <2>1. \A i \in 1 .. Len(queue') : Is(queue'[i], "End", t) => i = Len(queue')
    BY <1>1 DEF InQueue
  <2>2. \A i \in 1 .. Len(queue') : Is(queue'[i], "End", t) =>
          \A j \in i + 1 .. Len(queue') : queue'[j].trace # t
    BY <1>1, <2>1
  <2>3. \A r, s \in Ups : ~(ending'[s] = t /\ ending'[r] = t)
    BY Zenon DEF Ends
  <2> QED BY <2>2, <2>3, Zenon DEF OneEnd
<1>6. InOrder(t)'
  <2> SUFFICES ASSUME Live(t)' PROVE InOrder(t)'
    BY Zenon DEF InOrder
  <2>1. Live(t) /\ leg[t].got \in Nat
    BY DEF Live, IInv, Typed, Legs
  <2>2. ASSUME NEW i \in 1 .. Len(queue'), Is(queue'[i], "Chunk", t)
        PROVE  Before(queue', leg[t].got, t, i, queue'[i].sequence)
    <3>1. i \in 1 .. Len(queue) /\ queue'[i] = queue[i] /\ queue[i] \in Queued
      BY <1>2, <2>2 DEF Is, IInv, Typed
    <3>2. Before(queue, leg[t].got, t, i, queue[i].sequence) /\ queue[i].sequence \in Int
      BY <2>1, <2>2, <3>1, Zenon DEF IInv, Sound, InOrder, Queued
    <3>3. i \in 1 .. Len(queue) + 1
      BY <1>1, <3>1, Zenon
    <3> QED BY <1>1, <2>1, <3>1, <3>2, <3>3, BeforeGrows, ZenonT(30)
  <2>3. \A i, j \in 1 .. Len(queue') : Is(queue'[i], "Chunk", t) /\ Is(queue'[j], "Chunk", t) /\ i < j =>
          queue'[i].sequence < queue'[j].sequence
    BY <1>2, <2>1, Zenon DEF IInv, Sound, InOrder, Is
  <2> QED BY <2>2, <2>3 DEF InOrder
<1> QED BY <1>3, <1>4, <1>5, <1>6 DEF Sound

\* The packets whose frame a step does not send.
LEMMA SendOthers ==
  ASSUME IInv, Typed', NEW kind \in {"Open", "Chunk", "End"}, NEW t \in Traces, Send(kind, t),
         NEW u \in Traces, u # t,
         \A pc \in {"open", "chunk", "end"} : Does(pc, u)' <=> Does(pc, u),
         u \in hops' => u \in hops, \A s \in Ups : ending'[s] = u => ending[s] = u,
         UNCHANGED <<origin, up, open, acks, leg>>
  PROVE  Sound(u)'
<1>1. \E f \in Queued : f.trace # u /\ queue' = Append(queue, f)
  BY Sends, Zenon DEF IInv
<1>2. (Fresh(u)' => Fresh(u)) /\ (Live(u)' => Live(u)) /\ Due(u)' = Due(u)
  BY Zenon DEF Fresh, Live, Due
<1>3. ~leg[u].open =>
        /\ origin'[u].sent = origin[u].sent /\ origin'[u].pc # "streaming" /\ ~Does("chunk", u)'
        /\ \A i \in 1 .. Len(acks') : acks'[i] # [trace |-> u, status |-> "Admitted"]
  BY DEF IInv, Sound, Unopened
<1> QED BY <1>1, <1>2, <1>3, StreamKeeps, Zenon DEF IInv

-----------------------------------------------------------------------------
\* What is left of a packet's frames when its first one is delivered.
LEMMA Delivered ==
  ASSUME Typed, queue # <<>>, queue' = Tail(queue), NEW t \in Traces, Head(queue).trace = t
  PROVE  /\ queue' \in Seq(Queued) /\ Len(queue) \in Nat \ {0} /\ Len(queue') = Len(queue) - 1
         /\ queue[1] = Head(queue) /\ 1 \in 1 .. Len(queue)
         /\ \A i \in 1 .. Len(queue') : i + 1 \in 1 .. Len(queue) /\ queue'[i] = queue[i + 1]
         /\ \A kind : InQueue(kind, t)' => InQueue(kind, t)
<1>1. /\ queue' \in Seq(Queued) /\ Len(queue) \in Nat \ {0} /\ Len(queue') = Len(queue) - 1
      /\ queue[1] = Head(queue)
      /\ \A i \in 1 .. Len(queue) - 1 : queue'[i] = queue[i + 1]
  BY Tailed DEF Typed
<1>2. /\ 1 \in 1 .. Len(queue)
      /\ \A i \in 1 .. Len(queue') : i + 1 \in 1 .. Len(queue) /\ queue'[i] = queue[i + 1]
  BY <1>1
<1>3. \A kind : InQueue(kind, t)' => InQueue(kind, t)
  BY <1>2 DEF InQueue
<1> QED BY <1>1, <1>2, <1>3

LEMMA ChunkDelivered ==
  ASSUME IInv, Typed', queue # <<>>, queue' = Tail(queue), NEW t \in Traces, Is(Head(queue), "Chunk", t),
         leg' = [leg EXCEPT ![t].got = IF Live(t) THEN @ + 1 ELSE @],
         UNCHANGED <<origin, reader, ending, hops, up, open, acks>>
  PROVE  Sound(t)'
<1>1. /\ 1 \in 1 .. Len(queue) /\ Is(queue[1], "Chunk", t) /\ Len(queue) \in Nat \ {0}
      /\ Len(queue') = Len(queue) - 1
      /\ \A i \in 1 .. Len(queue') : i + 1 \in 1 .. Len(queue) /\ queue'[i] = queue[i + 1]
      /\ \A kind : InQueue(kind, t)' => InQueue(kind, t)
  BY Delivered, Zenon DEF IInv, Is
<1>2. /\ leg'[t].open = leg[t].open /\ leg'[t].broken = leg[t].broken /\ leg'[t].ended = leg[t].ended
      /\ leg'[t].got = IF Live(t) THEN leg[t].got + 1 ELSE leg[t].got
      /\ leg[t].got \in Nat
  BY DEF IInv, Typed, Legs, Live
<1>3. ~Fresh(t) /\ leg[t].open /\ ~InQueue("Open", t) /\ ~leg[t].ended
  BY <1>1, ZenonT(30) DEF IInv, Sound, Unsent, Unopened, OneEnd, InQueue, Is
<1>4. \A pc : Does(pc, t)' <=> Does(pc, t)
  BY DEF Does
<1>5. Unsent(t)'
  BY <1>3, <1>4 DEF Unsent, Fresh
<1>6. Unopened(t)'
  BY <1>1, <1>2, <1>3, Zenon DEF Unopened, InQueue
<1>7. OneEnd(t)'
  <2>1. \A i \in 1 .. Len(queue') : Is(queue'[i], "End", t) =>
          \A j \in i + 1 .. Len(queue') : queue'[j].trace # t
    <3> SUFFICES ASSUME NEW i \in 1 .. Len(queue'), Is(queue'[i], "End", t), NEW j \in i + 1 .. Len(queue')
                 PROVE  queue'[j].trace # t
      OBVIOUS
    <3>1. j \in 1 .. Len(queue') /\ j + 1 \in (i + 1) + 1 .. Len(queue)
      BY <1>1
    <3>2. \A k \in (i + 1) + 1 .. Len(queue) : queue[k].trace # t
      BY <1>1, Zenon DEF IInv, Sound, OneEnd
    <3> QED BY <1>1, <3>1, <3>2
  <2>2. Ends(t)' <=> Ends(t)
    BY DEF Ends
  <2> QED BY <1>1, <1>2, <1>3, <1>4, <2>1, <2>2, Zenon DEF IInv, Sound, OneEnd
<1>8. InOrder(t)'
  <2> SUFFICES ASSUME Live(t)' PROVE InOrder(t)'
    BY DEF InOrder
  <2> DEFINE got == leg[t].got
  <2>1. Live(t) /\ leg'[t].got = got + 1
    BY <1>2 DEF Live
  <2>2. queue[1].sequence = got
    <3>1. Before(queue, got, t, 1, queue[1].sequence) /\ queue[1].sequence \in Int
      <4>1. queue[1] \in Queued
        BY <1>1 DEF IInv, Typed
      <4> QED BY <1>1, <2>1, <4>1, Zenon DEF IInv, Sound, InOrder, Queued
    <3> QED BY <1>2, <3>1 DEF Before
  <2>3. \A i, j \in 1 .. Len(queue) : Is(queue[i], "Chunk", t) /\ Is(queue[j], "Chunk", t) /\ i < j =>
          queue[i].sequence < queue[j].sequence
    BY <2>1, Zenon DEF IInv, Sound, InOrder
  <2>4. \A i, j \in 1 .. Len(queue') : Is(queue'[i], "Chunk", t) /\ Is(queue'[j], "Chunk", t) /\ i < j =>
          queue'[i].sequence < queue'[j].sequence
    BY <1>1, <2>3
  <2>5. ASSUME NEW i \in 2 .. Len(queue) + 1, NEW n \in Int, Before(queue, got, t, i, n), n > got
        PROVE  Before(queue', got + 1, t, i - 1, n)
    <3> SUFFICES ASSUME NEW m \in got + 1 .. n - 1
                 PROVE  \E k \in 1 .. (i - 1) - 1 : Is(queue'[k], "Chunk", t) /\ queue'[k].sequence = m
      BY <1>2, <2>5, SMTT(20) DEF Before
    <3>1. PICK k \in 1 .. i - 1 : Is(queue[k], "Chunk", t) /\ queue[k].sequence = m
      BY <1>2, <2>5, SMTT(20) DEF Before
    <3>2. k # 1
      BY <1>2, <2>2, <3>1, SMTT(20)
    <3>3. k - 1 \in 1 .. (i - 1) - 1 /\ k - 1 \in 1 .. Len(queue') /\ (k - 1) + 1 = k
      <4>1. Len(queue) \in Nat \ {0} /\ Len(queue') = Len(queue) - 1
        BY <1>1
      <4> QED BY <3>2, <4>1, SMTT(20)
    <3>4. queue'[k - 1] = queue[k]
      BY <1>1, <3>3
    <3> QED BY <3>1, <3>3, <3>4, Zenon
  <2>6. ASSUME NEW i \in 1 .. Len(queue'), Is(queue'[i], "Chunk", t)
        PROVE  Before(queue', got + 1, t, i, queue'[i].sequence)
    <3>1. /\ i + 1 \in 1 .. Len(queue) /\ queue'[i] = queue[i + 1] /\ queue[i + 1] \in Queued
          /\ i + 1 \in 2 .. Len(queue) + 1 /\ (i + 1) - 1 = i /\ 1 < i + 1
      BY <1>1 DEF IInv, Typed
    <3>2. Before(queue, got, t, i + 1, queue[i + 1].sequence) /\ queue[i + 1].sequence \in Int
      BY <2>1, <2>6, <3>1, Zenon DEF IInv, Sound, InOrder, Queued
    <3>3. queue[i + 1].sequence > got
      BY <1>1, <1>2, <2>2, <2>3, <2>6, <3>1, <3>2, Zenon
    <3> QED BY <2>5, <3>1, <3>2, <3>3, Zenon
  <2>7. ASSUME open', t \in hops', up'[Owner[t]] = "serving"
        PROVE  /\ Before(queue', got + 1, t, Len(queue') + 1, Due(t)')
               /\ \A i \in 1 .. Len(queue') : Is(queue'[i], "Chunk", t) => queue'[i].sequence < Due(t)'
    <3>1. /\ Before(queue, got, t, Len(queue) + 1, Due(t))
          /\ \A i \in 1 .. Len(queue) : Is(queue[i], "Chunk", t) => queue[i].sequence < Due(t)
      BY <2>1, <2>7 DEF IInv, Sound, InOrder
    <3>2. Due(t)' = Due(t) /\ Due(t) \in Int
      BY <1>4 DEF Due, IInv, Typed, Origins
    <3>3. Due(t) > got
      BY <1>1, <1>2, <2>2, <3>1, <3>2, Zenon
    <3>4. Len(queue) + 1 \in 2 .. Len(queue) + 1 /\ (Len(queue) + 1) - 1 = Len(queue') + 1
      BY <1>1
    <3>5. Before(queue', got + 1, t, Len(queue') + 1, Due(t))
      BY <2>5, <3>1, <3>2, <3>3, <3>4
    <3> QED BY <1>1, <3>1, <3>2, <3>5, Zenon
  <2> QED BY <2>1, <2>4, <2>6, <2>7 DEF InOrder
<1> QED BY <1>5, <1>6, <1>7, <1>8 DEF Sound

\* The steps of Deliver on the packet whose frame it delivers.
LEMMA OpenDelivered ==
  ASSUME IInv, Typed', queue # <<>>, queue' = Tail(queue), NEW t \in Traces, Is(Head(queue), "Open", t),
         NEW status \in Statuses, acks' = Append(acks, [trace |-> t, status |-> status]),
         leg' = [leg EXCEPT ![t].open = (status = "Admitted")],
         UNCHANGED <<origin, reader, ending, hops, up, open>>
  PROVE  Sound(t)'
<1>1. /\ 1 \in 1 .. Len(queue) /\ Is(queue[1], "Open", t)
      /\ \A i \in 1 .. Len(queue') : i + 1 \in 1 .. Len(queue) /\ queue'[i] = queue[i + 1] /\ i + 1 # 1
      /\ \A kind : InQueue(kind, t)' => InQueue(kind, t)
  BY Delivered DEF IInv, Is
<1>2. /\ leg'[t].open = (status = "Admitted") /\ leg'[t].got = leg[t].got
      /\ leg'[t].ended = leg[t].ended /\ leg'[t].broken = leg[t].broken
  BY DEF IInv, Typed, Legs
<1>3. ~Fresh(t) /\ ~leg[t].open
  BY <1>1, Zenon DEF IInv, Sound, Unsent, Unopened, InQueue, Is
<1>4. /\ origin[t].sent = 0 /\ origin[t].pc # "streaming" /\ ~Does("chunk", t)
      /\ leg[t].got = 0 /\ ~leg[t].ended /\ ~InQueue("Chunk", t)
      /\ \A i \in 1 .. Len(acks) : acks[i] # [trace |-> t, status |-> "Admitted"]
  BY <1>3 DEF IInv, Sound, Unopened
<1>5. \A pc : Does(pc, t)' <=> Does(pc, t)
  BY DEF Does
<1>6. Unsent(t)'
  BY <1>3, <1>5 DEF Unsent, Fresh
<1>7. Unopened(t)'
  <2>1. ~InQueue("Open", t)'
    BY <1>1, Zenon DEF IInv, Sound, Unopened, InQueue
  <2>2. status # "Admitted" => \A i \in 1 .. Len(acks') : acks'[i] # [trace |-> t, status |-> "Admitted"]
    <3>1. acks \in Seq(Answers) /\ [trace |-> t, status |-> status] \in Answers
      BY DEF IInv, Typed, Answers
    <3> QED BY <1>4, <3>1, Appended
  <2> QED BY <1>1, <1>2, <1>4, <1>5, <2>1, <2>2, Zenon DEF Unopened, InQueue
<1>8. OneEnd(t)'
  <2>1. \A i \in 1 .. Len(queue') : Is(queue'[i], "End", t) =>
          \A j \in i + 1 .. Len(queue') : queue'[j].trace # t
    <3> SUFFICES ASSUME NEW i \in 1 .. Len(queue'), Is(queue'[i], "End", t), NEW j \in i + 1 .. Len(queue')
                 PROVE  queue'[j].trace # t
      OBVIOUS
    <3>1. Len(queue') \in Nat /\ j \in 1 .. Len(queue')
      BY DEF Typed
    <3>2. j + 1 \in (i + 1) + 1 .. Len(queue)
      BY <1>1, <3>1
    <3>3. \A k \in (i + 1) + 1 .. Len(queue) : queue[k].trace # t
      BY <1>1, Zenon DEF IInv, Sound, OneEnd
    <3> QED BY <1>1, <3>1, <3>2, <3>3
  <2>2. Ends(t)' <=> Ends(t)
    BY DEF Ends
  <2> QED BY <1>1, <1>2, <1>4, <1>5, <2>1, <2>2 DEF IInv, Sound, OneEnd
<1>9. InOrder(t)'
  <2>1. \A i \in 1 .. Len(queue') : ~Is(queue'[i], "Chunk", t)
    BY <1>1, <1>4 DEF InQueue
  <2>2. Due(t)' = 0 /\ leg'[t].got = 0
    BY <1>2, <1>4, <1>5 DEF Due
  <2>3. Before(queue', leg'[t].got, t, Len(queue') + 1, Due(t)')
    BY <2>2 DEF Before
  <2> QED BY <2>1, <2>3 DEF InOrder
<1> QED BY <1>6, <1>7, <1>8, <1>9 DEF Sound

LEMMA EndDelivered ==
  ASSUME IInv, Typed', queue # <<>>, queue' = Tail(queue), NEW t \in Traces, Is(Head(queue), "End", t),
         leg' = [leg EXCEPT ![t].ended = Live(t) \/ @], UNCHANGED <<origin, reader, ending, hops, up, open, acks>>
  PROVE  Sound(t)'
<1>1. /\ 1 \in 1 .. Len(queue) /\ Is(queue[1], "End", t) /\ Len(queue) \in Nat
      /\ \A i \in 1 .. Len(queue') : i + 1 \in 1 .. Len(queue) /\ queue'[i] = queue[i + 1]
  BY Delivered DEF IInv, Is
<1>2. \A i \in 1 .. Len(queue') : queue'[i].trace # t
  <2>1. \A j \in 1 + 1 .. Len(queue) : queue[j].trace # t
    BY <1>1, Zenon DEF IInv, Sound, OneEnd
  <2> QED BY <1>1, <2>1
<1>3. /\ leg'[t].open = leg[t].open /\ leg'[t].got = leg[t].got /\ leg'[t].broken = leg[t].broken
      /\ ~leg[t].open => leg'[t].ended = leg[t].ended
  BY DEF IInv, Typed, Legs, Live
<1>4. ~Fresh(t) /\ t \notin hops /\ ~Does("end", t) /\ ~Ends(t)
  BY <1>1 DEF IInv, Sound, Unsent, OneEnd, InQueue, Is
<1>5. \A pc : Does(pc, t)' <=> Does(pc, t)
  BY DEF Does
<1>6. Unsent(t)'
  BY <1>4, <1>5, Zenon DEF Unsent, Fresh
<1>7. Unopened(t)'
  BY <1>2, <1>3, <1>5 DEF IInv, Sound, Unopened, InQueue, Is
<1>8. OneEnd(t)'
  BY <1>2, <1>4, <1>5 DEF OneEnd, Ends, Is
<1>9. InOrder(t)'
  BY <1>2, <1>4 DEF InOrder, Is
<1> QED BY <1>6, <1>7, <1>8, <1>9 DEF Sound

-----------------------------------------------------------------------------
\* Statuses change the pumps that wait for one (Hear).
LEMMA Hears ==
  ASSUME NEW STATE o, o \in [Traces -> Origins], NEW STATE ts, NEW status \in Statuses,
         Hear(o, ts, status)
  PROVE  /\ origin' \in [Traces -> Origins]
         /\ \A t \in Traces :
              /\ origin'[t].sent = o[t].sent
              /\ origin'[t].pc = "new" => o[t].pc = "new"
              /\ origin'[t].pc = "streaming" =>
                   o[t].pc = "streaming" \/ (status = "Admitted" /\ t \in ts)
<1>1. PICK heard \in SUBSET ts :
        origin' = [t \in Traces |->
          IF t \in heard /\ o[t].pc = "waiting"
            THEN [o[t] EXCEPT !.pc = IF status = "Admitted" THEN "streaming" ELSE "failed"]
            ELSE o[t]]
  <2>1. PICK lost \in SUBSET ts :
          LET heard == {t \in ts \ lost : up[Owner[t]] = "serving"}
          IN  origin' = [t \in Traces |->
                IF t \in heard /\ o[t].pc = "waiting"
                  THEN [o[t] EXCEPT !.pc = IF status = "Admitted" THEN "streaming" ELSE "failed"]
                  ELSE o[t]]
    BY Zenon DEF Hear
  <2> DEFINE heard == {t \in ts \ lost : up[Owner[t]] = "serving"}
  <2>2. heard \in SUBSET ts
    BY Zenon
  <2> QED BY <2>1, <2>2, Zenon
<1>2. ASSUME NEW t \in Traces
      PROVE  /\ origin'[t] \in Origins
             /\ origin'[t].sent = o[t].sent
             /\ origin'[t].pc = "new" => o[t].pc = "new"
             /\ origin'[t].pc = "streaming" =>
                  o[t].pc = "streaming" \/ (status = "Admitted" /\ t \in ts)
  <2>1. o[t] \in Origins
    OBVIOUS
  <2>2. \/ origin'[t] = o[t]
        \/ t \in ts /\ origin'[t] = [o[t] EXCEPT !.pc = IF status = "Admitted" THEN "streaming" ELSE "failed"]
    BY <1>1
  <2> QED BY <2>1, <2>2 DEF Origins, Steps
<1>3. DOMAIN origin' = Traces
  BY <1>1
<1>4. origin' = [t \in Traces |-> origin'[t]]
  BY <1>1
<1> QED BY <1>2, <1>4

\* A step that only lets statuses travel, or ends the downstream session.
LEMMA StatusKeeps ==
  ASSUME IInv, UNCHANGED <<ups, hops, lock, open, queue, leg>>,
         origin' \in [Traces -> Origins], pending' \subseteq Traces, acks' \in Seq(Answers),
         \A t \in Traces : /\ origin'[t].sent = origin[t].sent
                           /\ origin'[t].pc = "new" => origin[t].pc = "new"
                           /\ origin'[t].pc = "streaming" => leg[t].open,
         \A i \in 1 .. Len(acks') : acks'[i].status = "Admitted" => leg[acks'[i].trace].open
  PROVE  IInv'
<1>1. Typed' /\ Reading' /\ Closing'
  <2>1. Typed'
    BY Zenon DEF IInv, Typed, ups
  <2>2. Reading'
    <3>1. Reading /\ UNCHANGED <<up, reader, hops, lock>>
      BY Zenon DEF IInv, ups
    <3>2. SUFFICES ASSUME NEW s \in Ups, reader[s] # Idle
                   PROVE  reader[s].pc = "open" => origin'[reader[s].trace].pc # "new"
      BY <3>1 DEF Reading
    <3>3. /\ reader[s].trace \in Traces
          /\ reader[s].pc = "open" => origin[reader[s].trace].pc # "new"
      BY <3>1, <3>2, Zenon DEF Reading
    <3> QED BY <3>3, Zenon
  <2>3. Closing'
    BY Zenon DEF IInv, Closing, ups
  <2> QED BY <2>1, <2>2, <2>3
<1>2. ASSUME NEW t \in Traces PROVE Sound(t)'
  <2>1. \A pc : Does(pc, t)' <=> Does(pc, t)
    BY Zenon DEF Does, ups
  <2>2. (Fresh(t)' => Fresh(t)) /\ (Live(t)' => Live(t)) /\ Due(t)' = Due(t)
    BY <2>1, Zenon DEF Fresh, Live, Due
  <2>3. ~leg[t].open =>
          /\ origin'[t].sent = origin[t].sent /\ origin'[t].pc # "streaming" /\ ~Does("chunk", t)'
          /\ \A i \in 1 .. Len(acks') : acks'[i] # [trace |-> t, status |-> "Admitted"]
    <3> SUFFICES ASSUME ~leg[t].open
                 PROVE  /\ origin'[t].sent = origin[t].sent /\ origin'[t].pc # "streaming"
                        /\ ~Does("chunk", t)'
                        /\ \A i \in 1 .. Len(acks') : acks'[i] # [trace |-> t, status |-> "Admitted"]
      BY Zenon
    <3>1. ~Does("chunk", t)'
      BY <2>1, Zenon DEF IInv, Sound, Unopened
    <3>2. ASSUME NEW i \in 1 .. Len(acks'), acks'[i] = [trace |-> t, status |-> "Admitted"] PROVE FALSE
      <4>1. acks'[i].trace = t /\ acks'[i].status = "Admitted"
        BY <3>2
      <4> QED BY <4>1, Zenon
    <3> QED BY <3>1, <3>2, Zenon
  <2> QED BY <1>1, <2>1, <2>2, <2>3, StreamKeeps, Zenon DEF IInv, ups
<1> QED BY <1>1, <1>2, Zenon DEF IInv

LEMMA Owned == ASSUME NEW t \in Traces PROVE Owner[t] \in Ups
BY ForwardingAssumption, Zenon DEF ForwardingAssumption

\* An acknowledgement that says "Admitted" is about an open leg.
LEMMA AdmittedOpens ==
  ASSUME IInv, NEW i \in 1 .. Len(acks), acks[i].status = "Admitted"
  PROVE  acks[i].trace \in Traces /\ leg[acks[i].trace].open
<1>1. acks[i] \in Answers
  BY DEF IInv, Typed
<1>2. acks[i] = [trace |-> acks[i].trace, status |-> "Admitted"] /\ acks[i].trace \in Traces
  BY <1>1 DEF Answers
<1> QED BY <1>2, Zenon DEF IInv, Sound, Unopened

\* A pump that streams has an open leg, and what it has sent is counted.
LEMMA StreamingOpens ==
  ASSUME IInv, NEW t \in Traces, origin[t].pc = "streaming"
  PROVE  leg[t].open
BY Zenon DEF IInv, Sound, Unopened

-----------------------------------------------------------------------------
LEMMA GiveUpKeeps == ASSUME IInv, NEW t \in Traces, GiveUp(t) PROVE IInv'
<1>1. origin \in [Traces -> Origins] /\ origin' = [origin EXCEPT ![t].pc = "failed"]
  BY DEF IInv, Typed, GiveUp
<1>2. /\ origin' \in [Traces -> Origins]
      /\ \A u \in Traces : /\ origin'[u].sent = origin[u].sent
                           /\ origin'[u].pc = "new" => origin[u].pc = "new"
                           /\ origin'[u].pc = "streaming" => origin[u].pc = "streaming"
  BY <1>1 DEF Origins, Steps
<1>3. UNCHANGED <<ups, hops, lock, open, queue, leg>> /\ acks' = acks /\ pending' = pending
  BY DEF GiveUp, downs
<1>4. pending' \subseteq Traces /\ acks' \in Seq(Answers)
  BY <1>3, Zenon DEF IInv, Typed
<1> QED BY <1>2, <1>3, <1>4, StatusKeeps, StreamingOpens, AdmittedOpens

LEMMA RelayAckKeeps == ASSUME IInv, RelayAck PROVE IInv'
<1> DEFINE ack == Head(acks)
<1>1. /\ acks \in Seq(Answers) /\ acks # <<>> /\ acks' = Tail(acks)
      /\ origin \in [Traces -> Origins] /\ pending \subseteq Traces
      /\ UNCHANGED <<ups, hops, lock, open, queue, leg>>
  BY DEF IInv, Typed, RelayAck
<1>2. /\ acks' \in Seq(Answers) /\ ack = acks[1] /\ ack \in Answers /\ 1 \in 1 .. Len(acks)
      /\ \A i \in 1 .. Len(acks') : i + 1 \in 1 .. Len(acks) /\ acks'[i] = acks[i + 1]
  BY <1>1, Tailed
<1>3. /\ origin' \in [Traces -> Origins]
      /\ \A u \in Traces :
           /\ origin'[u].sent = origin[u].sent
           /\ origin'[u].pc = "new" => origin[u].pc = "new"
           /\ origin'[u].pc = "streaming" =>
                origin[u].pc = "streaming" \/ (ack.status = "Admitted" /\ u = ack.trace)
  <2>1. CASE Tell({ack.trace}, ack.status)
    <3>1. ack.status \in Statuses
      BY <1>2 DEF Answers
    <3> QED BY <1>1, <2>1, <3>1, Hears DEF Tell
  <2>2. CASE TellNone
    BY <1>1, <2>2, Zenon DEF TellNone
  <2> QED BY <2>1, <2>2, Zenon DEF RelayAck
<1>4. pending' \subseteq Traces
  BY <1>1, Zenon DEF RelayAck
<1>5. \A u \in Traces : origin'[u].pc = "streaming" => leg[u].open
  BY <1>2, <1>3, StreamingOpens, AdmittedOpens
<1>6. \A i \in 1 .. Len(acks') : acks'[i].status = "Admitted" => leg[acks'[i].trace].open
  BY <1>2, AdmittedOpens
<1> QED BY <1>1, <1>2, <1>3, <1>4, <1>5, <1>6, StatusKeeps, ZenonT(30)

LEMMA DownKeeps == ASSUME IInv, DownEnds \/ DownDrain PROVE IInv'
<1>1. /\ UNCHANGED <<ups, hops, lock, open, queue, leg>> /\ acks' = acks
      /\ acks \in Seq(Answers) /\ pending' \subseteq Traces /\ origin \in [Traces -> Origins]
  BY Zenon DEF DownEnds, DownDrain, IInv, Typed
<1>2. CASE DownEnds
  BY <1>1, <1>2, StatusKeeps, StreamingOpens, AdmittedOpens, Zenon DEF DownEnds
<1>3. CASE DownDrain
  <2>1. Hear(origin, pending, "Failed") /\ "Failed" \in Statuses
    BY <1>3 DEF DownDrain, Tell, Statuses
  <2>2. /\ origin' \in [Traces -> Origins]
        /\ \A t \in Traces :
             /\ origin'[t].sent = origin[t].sent
             /\ origin'[t].pc = "new" => origin[t].pc = "new"
             /\ origin'[t].pc = "streaming" => origin[t].pc = "streaming"
    BY <1>1, <2>1, Hears
  <2> QED BY <1>1, <2>2, StatusKeeps, StreamingOpens, AdmittedOpens
<1> QED BY <1>2, <1>3, Zenon

\* A newer session to the same peer is registered.
LEMMA RegisterKeeps == ASSUME IInv, NEW s \in Ups, Register(s) PROVE IInv'
<1>1. /\ up[s] = "unused" /\ up' = [up EXCEPT ![s] = "serving"]
      /\ UNCHANGED <<origin, reader, closer, ending, hops, lock, open, pending, queue, acks, leg>>
  BY ZenonT(30) DEF Register, downs
<1>2. Typed' /\ Reading' /\ Closing'
  BY <1>1 DEF IInv, Typed, Reading, Closing
<1>3. ASSUME NEW t \in Traces PROVE Sound(t)'
  <2>1. Owner[t] \in Ups
    BY Owned, Zenon
  <2>2. \A pc : Does(pc, t)' <=> Does(pc, t)
    BY <1>1, Zenon DEF Does
  <2>3. (Fresh(t)' => Fresh(t)) /\ (Live(t)' => Live(t)) /\ Due(t)' = Due(t)
    BY <1>1, <2>2, Zenon DEF Fresh, Live, Due
  <2>4. t \in hops => up'[Owner[t]] = up[Owner[t]]
    BY <1>1, <2>1 DEF IInv, Typed, Closing
  <2>5. ~leg[t].open =>
          /\ origin'[t].sent = origin[t].sent /\ origin'[t].pc # "streaming" /\ ~Does("chunk", t)'
          /\ \A i \in 1 .. Len(acks') : acks'[i] # [trace |-> t, status |-> "Admitted"]
    BY <1>1, <2>2, Zenon DEF IInv, Sound, Unopened
  <2> QED BY <1>1, <1>2, <2>2, <2>3, <2>4, <2>5, StreamKeeps, Zenon DEF IInv
<1> QED BY <1>2, <1>3 DEF IInv

\* The session ends: its reader is dropped wherever it waits, and its lock with it.
LEMMA UpEndsKeeps == ASSUME IInv, NEW s \in Ups, UpEnds(s) PROVE IInv'
<1>1. /\ up[s] = "serving" /\ up' = [up EXCEPT ![s] = "ended"]
      /\ reader' = [reader EXCEPT ![s] = Idle]
      /\ lock' = [t \in Traces |-> IF lock[t] = s THEN NoSession ELSE lock[t]]
      /\ origin' = [t \in Traces |-> IF Owner[t] = s /\ origin[t].pc # "done"
                                      THEN [origin[t] EXCEPT !.pc = "failed"] ELSE origin[t]]
      /\ UNCHANGED <<closer, ending, hops, open, pending, queue, acks, leg>>
  BY DEF UpEnds, downs
<1>2. /\ origin' \in [Traces -> Origins]
      /\ \A t \in Traces : /\ origin'[t].sent = origin[t].sent
                           /\ origin'[t].pc \in {origin[t].pc, "failed"}
  <2>1. ASSUME NEW t \in Traces
        PROVE  /\ origin'[t] \in Origins /\ origin'[t].sent = origin[t].sent
               /\ origin'[t].pc \in {origin[t].pc, "failed"}
    <3>1. origin[t] \in Origins /\ origin'[t] \in {origin[t], [origin[t] EXCEPT !.pc = "failed"]}
      BY <1>1, Zenon DEF IInv, Typed
    <3> QED BY <3>1 DEF Origins, Steps
  <2>2. origin' = [t \in Traces |-> origin'[t]]
    BY <1>1
  <2> QED BY <2>1, <2>2
<1>3. Idle \in Readers
  BY DEF Idle, Readers
<1>4. Typed'
  BY <1>1, <1>2, <1>3, SMTT(20) DEF IInv, Typed
<1>5. Reading'
  BY <1>1, <1>2, <1>3 DEF IInv, Typed, Reading
<1>6. Closing'
  BY <1>1 DEF IInv, Typed, Closing
<1>7. ASSUME NEW t \in Traces PROVE Sound(t)'
  <2>1. Owner[t] \in Ups
    BY Owned
  <2>2. \A pc \in {"open", "chunk", "end"} : Does(pc, t)' => Does(pc, t) /\ Owner[t] # s
    BY <1>1, <2>1 DEF Does, IInv, Typed, Idle
  <2>3. Owner[t] # s => Due(t)' = Due(t)
    BY <1>1, <2>1 DEF Due, Does, IInv, Typed
  <2>4. (Fresh(t)' => Fresh(t)) /\ (Live(t)' => Live(t))
    BY <1>1, <1>2, <2>2 DEF Fresh, Live
  <2>5. up'[Owner[t]] = "serving" => up[Owner[t]] = "serving" /\ Owner[t] # s
    BY <1>1, <2>1 DEF IInv, Typed
  <2>6. ~leg[t].open =>
          /\ origin'[t].sent = origin[t].sent /\ origin'[t].pc # "streaming" /\ ~Does("chunk", t)'
          /\ \A i \in 1 .. Len(acks') : acks'[i] # [trace |-> t, status |-> "Admitted"]
    BY <1>1, <1>2, <2>2, ZenonT(30) DEF IInv, Sound, Unopened
  <2> QED BY <1>1, <1>4, <2>2, <2>3, <2>4, <2>5, <2>6, StreamKeeps, Zenon DEF IInv
<1> QED BY <1>4, <1>5, <1>6, <1>7 DEF IInv

\* close_for_peer collects every hop of its own session, at least.
LEMMA CloseForPeerKeeps == ASSUME IInv, NEW s \in Ups, CloseForPeer(s) PROVE IInv'
<1>1. /\ up[s] = "ended" /\ up' = [up EXCEPT ![s] = "closing"]
      /\ closer' = [closer EXCEPT ![s] = Fed(s)]
      /\ UNCHANGED <<origin, reader, ending, hops, lock, open, pending, queue, acks, leg>>
  BY DEF CloseForPeer, downs
<1>2. Typed'
  BY <1>1, Zenon DEF IInv, Typed, Fed
<1>3. Reading'
  BY <1>1, SMTT(20) DEF IInv, Typed, Reading
<1>4. Closing'
  BY <1>1, Owned DEF IInv, Typed, Closing, Fed
<1>5. ASSUME NEW t \in Traces PROVE Sound(t)'
  <2>1. Owner[t] \in Ups
    BY Owned
  <2>2. \A pc : Does(pc, t)' <=> Does(pc, t)
    BY <1>1, Zenon DEF Does
  <2>3. (Fresh(t)' => Fresh(t)) /\ (Live(t)' => Live(t)) /\ Due(t)' = Due(t)
    BY <1>1, <2>2, Zenon DEF Fresh, Live, Due
  <2>4. up'[Owner[t]] = "serving" => up[Owner[t]] = "serving"
    BY <1>1, <2>1 DEF IInv, Typed
  <2>5. ~leg[t].open =>
          /\ origin'[t].sent = origin[t].sent /\ origin'[t].pc # "streaming" /\ ~Does("chunk", t)'
          /\ \A i \in 1 .. Len(acks') : acks'[i] # [trace |-> t, status |-> "Admitted"]
    BY <1>1, <2>2, Zenon DEF IInv, Sound, Unopened
  <2> QED BY <1>1, <1>2, <2>2, <2>3, <2>4, <2>5, StreamKeeps, Zenon DEF IInv
<1> QED BY <1>2, <1>3, <1>4, <1>5 DEF IInv

\* What a reader that turns to something else does, packet by packet.
LEMMA Turns ==
  ASSUME Typed, NEW s \in Ups, NEW r, reader' = [reader EXCEPT ![s] = r], NEW t \in Traces
  PROVE  \A pc : Does(pc, t)' <=> IF Owner[t] = s THEN r = [pc |-> pc, trace |-> t] ELSE Does(pc, t)
BY Owned DEF Does, Typed

LEMMA RelayOpenKeeps == ASSUME IInv, NEW t \in Traces, RelayOpen(t) PROVE IInv'
<1> DEFINE s == Owner[t]
           waiting == [origin EXCEPT ![t].pc = "waiting"]
<1>1. /\ s \in Ups /\ up[s] = "serving" /\ reader[s] = Idle /\ origin[t].pc = "new"
      /\ UNCHANGED <<up, closer, ending, hops, lock, open, queue, acks, leg>>
      /\ Typed
  BY Owned DEF RelayOpen, Ready, IInv
<1>2. /\ waiting \in [Traces -> Origins]
      /\ \A u \in Traces : /\ waiting[u].sent = origin[u].sent
                           /\ u # t => waiting[u].pc = origin[u].pc
                           /\ waiting[t].pc = "waiting"
  BY <1>1, Zenon DEF Typed, Origins, Steps
<1>3. CASE \E status \in {"Unsupported", "Overloaded", "Failed"} :
             Hear(waiting, {t}, status) /\ UNCHANGED <<reader, pending>>
  <2>1. PICK status \in {"Unsupported", "Overloaded", "Failed"} : Hear(waiting, {t}, status)
    BY <1>3
  <2>2. status \in Statuses
    BY Zenon DEF Statuses
  <2>3. /\ origin' \in [Traces -> Origins]
        /\ \A u \in Traces :
             /\ origin'[u].sent = waiting[u].sent
             /\ origin'[u].pc = "new" => waiting[u].pc = "new"
             /\ origin'[u].pc = "streaming" => waiting[u].pc = "streaming"
    <3>1. status # "Admitted"
      BY Zenon
    <3> HIDE DEF waiting
    <3>2. /\ origin' \in [Traces -> Origins]
          /\ \A u \in Traces :
               /\ origin'[u].sent = waiting[u].sent
               /\ origin'[u].pc = "new" => waiting[u].pc = "new"
               /\ origin'[u].pc = "streaming" =>
                    waiting[u].pc = "streaming" \/ (status = "Admitted" /\ u \in {t})
      <4>1. waiting \in [Traces -> Origins] /\ Hear(waiting, {t}, status)
        BY <1>2, <2>1, Zenon
      <4> QED BY <4>1, <2>2, Hears, SMTT(20)
    <3> QED BY <3>1, <3>2, Zenon
  <2>4. \A u \in Traces : /\ origin'[u].sent = origin[u].sent
                          /\ origin'[u].pc = "new" => origin[u].pc = "new"
                          /\ origin'[u].pc = "streaming" => origin[u].pc = "streaming"
    BY <1>2, <2>3
  <2>5. pending' \subseteq Traces /\ acks' \in Seq(Answers) /\ acks' = acks /\ UNCHANGED ups
    BY <1>1, <1>3 DEF Typed, ups
  <2> QED BY <1>1, <2>3, <2>4, <2>5, StatusKeeps, StreamingOpens, AdmittedOpens, Zenon
<1>4. CASE pending' = pending \cup {t} /\ Do(s, "open", t) /\ origin' = waiting
  <2>1. reader' = [reader EXCEPT ![s] = [pc |-> "open", trace |-> t]]
    BY <1>4 DEF Do
  <2>2. Typed'
    BY <1>1, <1>2, <1>4, <2>1, Zenon DEF Typed, Readers
  <2>3. Reading'
    BY <1>1, <1>2, <1>4, <2>1 DEF IInv, Typed, Reading
  <2>4. Closing'
    BY <1>1, ZenonT(30) DEF IInv, Closing
  <2>5. ASSUME NEW u \in Traces PROVE Sound(u)'
    <3>1. \A pc : Does(pc, u)' => Does(pc, u) \/ (pc = "open" /\ u = t)
      <4>1. \A pc : Does(pc, u)' <=> IF Owner[u] = s THEN [pc |-> "open", trace |-> t] = [pc |-> pc, trace |-> u] ELSE Does(pc, u)
        BY <1>1, <2>1, Turns, Zenon
      <4> QED BY <4>1, Zenon
    <3>2. Does("chunk", u) => Does("chunk", u)'
      BY <1>1, <2>1, Owned DEF Does, Typed, Idle
    <3>3. Due(u)' = Due(u)
      BY <1>2, <1>4, <3>1, <3>2 DEF Due
    <3>4. (Fresh(u)' => Fresh(u)) /\ (Live(u)' => Live(u))
      BY <1>1, <1>2, <1>4, <3>1, Zenon DEF Fresh, Live
    <3>5. ~leg[u].open =>
            /\ origin'[u].sent = origin[u].sent /\ origin'[u].pc # "streaming" /\ ~Does("chunk", u)'
            /\ \A i \in 1 .. Len(acks') : acks'[i] # [trace |-> u, status |-> "Admitted"]
      BY <1>1, <1>2, <1>4, <3>1 DEF IInv, Sound, Unopened
    <3>6. Does("end", u)' => Does("end", u)
      BY <3>1
    <3> QED BY <1>1, <2>2, <3>3, <3>4, <3>5, <3>6, StreamKeeps DEF IInv
  <2> QED BY <2>2, <2>3, <2>4, <2>5 DEF IInv
<1> QED BY <1>3, <1>4 DEF RelayOpen

LEMMA RelayChunkKeeps == ASSUME IInv, NEW t \in Traces, RelayChunk(t) PROVE IInv'
<1> DEFINE s == Owner[t]
<1>1. /\ s \in Ups /\ up[s] = "serving" /\ reader[s] = Idle /\ origin[t].pc = "streaming"
      /\ origin' = [origin EXCEPT ![t].sent = @ + 1]
      /\ UNCHANGED <<up, closer, ending, hops, open, pending, queue, acks, leg>>
      /\ Typed
  BY Owned DEF RelayChunk, Ready, IInv, downs
<1>2. /\ origin' \in [Traces -> Origins]
      /\ \A u \in Traces : /\ origin'[u].pc = origin[u].pc
                           /\ origin'[u].sent = IF u = t THEN origin[t].sent + 1 ELSE origin[u].sent
  <2>1. origin \in [Traces -> Origins] /\ origin[t] \in Origins
    BY <1>1 DEF Typed
  <2>2. origin[t].sent + 1 \in Nat
    BY <2>1 DEF Origins
  <2>3. /\ [origin[t] EXCEPT !.sent = @ + 1] \in Origins
        /\ [origin[t] EXCEPT !.sent = @ + 1].pc = origin[t].pc
        /\ [origin[t] EXCEPT !.sent = @ + 1].sent = origin[t].sent + 1
    BY <2>1, <2>2 DEF Origins
  <2>4. \A u \in Traces : origin'[u] = IF u = t THEN [origin[t] EXCEPT !.sent = @ + 1] ELSE origin[u]
    BY <1>1, <2>1, Zenon
  <2>5. origin' \in [Traces -> Origins]
    BY <1>1, <2>1, <2>3
  <2> QED BY <2>3, <2>4, <2>5, Zenon
<1>3. leg[t].open
  BY <1>1, StreamingOpens, Zenon
<1>4. \/ t \notin hops /\ UNCHANGED <<reader, lock>>
      \/ /\ t \in hops /\ lock' = [lock EXCEPT ![t] = s]
         /\ reader' = [reader EXCEPT ![s] = [pc |-> "chunk", trace |-> t]]
  BY DEF RelayChunk, Do
<1>5. Typed'
  <2>1. reader' \in [Ups -> Readers] /\ lock' \in [Traces -> Ups \cup {NoSession}]
    <3>1. [pc |-> "chunk", trace |-> t] \in Readers
      BY DEF Readers
    <3>2. reader \in [Ups -> Readers] /\ lock \in [Traces -> Ups \cup {NoSession}] /\ s \in Ups
      BY <1>1, Zenon DEF Typed
    <3>3. reader' \in [Ups -> Readers]
      BY <1>4, <3>1, <3>2
    <3>4. lock' \in [Traces -> Ups \cup {NoSession}]
      BY <1>4, <3>2
    <3> QED BY <3>3, <3>4, Zenon
  <2> QED BY <1>1, <1>2, <2>1, Zenon DEF Typed
<1>6. Reading'
  <2> SUFFICES ASSUME NEW r \in Ups, reader'[r] # Idle
               PROVE  /\ up'[r] = "serving"
                      /\ reader'[r].trace \in Traces /\ Owner[reader'[r].trace] = r
                      /\ reader'[r].pc # "idle"
                      /\ reader'[r].pc = "open" => origin'[reader'[r].trace].pc # "new"
                      /\ reader'[r].pc = "chunk" =>
                           reader'[r].trace \in hops' /\ lock'[reader'[r].trace] = r
    BY Zenon DEF Reading
  <2>1. reader \in [Ups -> Readers] /\ lock \in [Traces -> Ups \cup {NoSession}] /\ Reading
    BY Zenon DEF IInv, Typed
  <2>2. CASE reader'[r] = reader[r]
    <3>1. /\ up[r] = "serving" /\ reader[r].trace \in Traces /\ Owner[reader[r].trace] = r
          /\ reader[r].pc # "idle"
          /\ reader[r].pc = "open" => origin[reader[r].trace].pc # "new"
          /\ reader[r].pc = "chunk" => reader[r].trace \in hops /\ lock[reader[r].trace] = r
      BY <2>1, <2>2, Zenon DEF Reading
    <3>2. lock'[reader[r].trace] \in {lock[reader[r].trace], r}
      BY <1>1, <1>4, <2>1, <3>1
    <3> QED BY <1>1, <1>2, <2>2, <3>1, <3>2, Zenon
  <2>3. CASE r = s /\ t \in hops /\ reader'[s] = [pc |-> "chunk", trace |-> t] /\ lock'[t] = s
    BY <1>1, <2>3
  <2> QED BY <1>1, <1>4, <2>1, <2>2, <2>3
<1>7. Closing'
  BY <1>1, Zenon DEF IInv, Closing
<1>8. ASSUME NEW u \in Traces PROVE Sound(u)'
  <2>1. /\ \A pc \in {"open", "end"} : Does(pc, u)' => Does(pc, u)
        /\ Does("chunk", u)' <=> (Does("chunk", u) \/ (u = t /\ t \in hops))
        /\ Does("chunk", u) => u # t
    BY <1>1, <1>4, Owned DEF Does, Typed, Idle
  <2>2. u # t \/ t \in hops => Due(u)' = Due(u)
    <3>1. origin[u].sent \in Nat
      BY <1>1 DEF Typed, Origins
    <3> QED BY <1>2, <2>1, <3>1 DEF Due
  <2>3. (Fresh(u)' => Fresh(u)) /\ (Live(u)' => Live(u))
    BY <1>1, <1>2, <2>1 DEF Fresh, Live
  <2>4. ~leg[u].open =>
          /\ origin'[u].sent = origin[u].sent /\ origin'[u].pc # "streaming" /\ ~Does("chunk", u)'
          /\ \A i \in 1 .. Len(acks') : acks'[i] # [trace |-> u, status |-> "Admitted"]
    BY <1>1, <1>2, <1>3, <2>1, Zenon DEF IInv, Sound, Unopened
  <2> QED BY <1>1, <1>5, <2>1, <2>2, <2>3, <2>4, StreamKeeps, Zenon DEF IInv
<1> QED BY <1>5, <1>6, <1>7, <1>8 DEF IInv

LEMMA BreakKeeps == ASSUME IInv, NEW t \in Traces, Break(t) PROVE IInv'
<1>1. /\ leg' = [leg EXCEPT ![t].broken = TRUE]
      /\ acks' = Append(acks, [trace |-> t, status |-> "Failed"])
      /\ UNCHANGED <<origin, up, reader, closer, ending, hops, lock, open, pending, queue>>
      /\ Typed
  BY DEF Break, IInv, ups
<1>2. [trace |-> t, status |-> "Failed"] \in Answers
  BY DEF Answers, Statuses
<1>3. /\ acks' \in Seq(Answers)
      /\ \A i \in 1 .. Len(acks') :
           acks'[i].status = "Failed" \/ (i \in 1 .. Len(acks) /\ acks'[i] = acks[i])
  BY <1>1, <1>2, Appended DEF Typed
<1>4. /\ leg' \in [Traces -> Legs]
      /\ \A u \in Traces : /\ leg'[u].open = leg[u].open /\ leg'[u].got = leg[u].got
                           /\ leg'[u].ended = leg[u].ended /\ (~leg'[u].broken => ~leg[u].broken)
  BY <1>1, ZenonT(30) DEF Typed, Legs
<1>5. Typed'
  BY <1>1, <1>3, <1>4 DEF Typed
<1>6. Reading' /\ Closing'
  BY <1>1, Zenon DEF IInv, Reading, Closing
<1>7. ASSUME NEW u \in Traces PROVE Sound(u)'
  <2>1. \A pc : Does(pc, u)' <=> Does(pc, u)
    BY <1>1 DEF Does
  <2>2. (Fresh(u)' => Fresh(u)) /\ (Live(u)' => Live(u)) /\ Due(u)' = Due(u)
    BY <1>1, <1>4, <2>1 DEF Fresh, Live, Due
  <2>3. ~leg[u].open =>
          /\ origin'[u].sent = origin[u].sent /\ origin'[u].pc # "streaming" /\ ~Does("chunk", u)'
          /\ \A i \in 1 .. Len(acks') : acks'[i] # [trace |-> u, status |-> "Admitted"]
    BY <1>1, <1>3, <2>1 DEF IInv, Sound, Unopened
  <2> QED BY <1>1, <1>4, <1>5, <2>1, <2>2, <2>3, StreamKeeps, Zenon DEF IInv
<1> QED BY <1>5, <1>6, <1>7 DEF IInv

LEMMA DownAbortKeeps == ASSUME IInv, DownAbort PROVE IInv'
<1>1. /\ open' = FALSE /\ queue' = <<>>
      /\ UNCHANGED <<origin, up, reader, closer, ending, hops, lock, pending, acks, leg>>
  BY Zenon DEF DownAbort, ups
<1>2. Typed'
  <2>1. <<>> \in Seq(Queued)
    BY SMTT(20)
  <2> QED BY <1>1, <2>1, Zenon DEF IInv, Typed
<1>3. Reading' /\ Closing'
  BY <1>1 DEF IInv, Reading, Closing
<1>4. Len(queue') = 0
  BY <1>1
<1>5. ASSUME NEW t \in Traces PROVE Sound(t)'
  <2>1. \A kind : ~InQueue(kind, t)'
    BY <1>4, SMTT(20) DEF InQueue
  <2>2. Unsent(t)' /\ OneEnd(t)'
    BY <1>1, <1>4, <2>1, SMTT(20) DEF IInv, Sound, Unsent, OneEnd, Fresh, Does, Ends
  <2>3. Unopened(t)'
    BY <1>1, <1>4, <2>1, SMTT(20) DEF IInv, Sound, Unopened, Does
  <2>4. InOrder(t)'
    BY <1>1, <1>4 DEF InOrder
  <2> QED BY <2>2, <2>3, <2>4 DEF Sound
<1> QED BY <1>2, <1>3, <1>5 DEF IInv

-----------------------------------------------------------------------------
\* What a reader works on is a packet of its session (Reading).
LEMMA Works ==
  ASSUME IInv, NEW s \in Ups, NEW pc \in {"open", "chunk", "end"}, reader[s].pc = pc
  PROVE  /\ reader[s].trace \in Traces /\ Owner[reader[s].trace] = s /\ up[s] = "serving"
         /\ Does(pc, reader[s].trace)
         /\ pc = "chunk" => reader[s].trace \in hops
<1>1. reader[s] # Idle /\ reader[s] \in Readers
  BY DEF Idle, IInv, Typed
<1>2. reader[s] = [pc |-> pc, trace |-> reader[s].trace]
  BY <1>1, Zenon DEF Readers
<1> QED BY <1>1, <1>2, Zenon DEF IInv, Reading, Does

\* The reader of a session is done with packet t: it does nothing, and the
\* readers of the others go on.
LEMMA Finishes ==
  ASSUME IInv, NEW s \in Ups, reader' = [reader EXCEPT ![s] = Idle],
         NEW t \in Traces, reader[s].trace = t, reader[s].pc # "idle", NEW u \in Traces
  PROVE  \A pc \in {"open", "chunk", "end"} : Does(pc, u)' <=> (Does(pc, u) /\ u # t)
<1>1. Owner[u] \in Ups /\ Owner[t] = s
  BY Owned DEF IInv, Reading, Idle
<1> QED BY <1>1, SMTT(20) DEF Does, Idle, IInv, Typed

\* A reader whose wait ends because the downstream queue is closed.
LEMMA ClosedKeeps ==
  ASSUME IInv, NEW s \in Ups, reader[s].pc # "idle", reader' = [reader EXCEPT ![s] = Idle],
         NEW t \in Traces, reader[s].trace = t,
         hops' \in {hops, hops \ {t}}, lock' \in {lock, [lock EXCEPT ![t] = NoSession]},
         ~open, UNCHANGED <<up, closer, ending, open, queue, acks, leg>>,
         pending' \subseteq Traces, origin' \in [Traces -> Origins],
         \A u \in Traces : /\ origin'[u].sent = origin[u].sent
                           /\ origin'[u].pc = "new" => origin[u].pc = "new"
                           /\ origin'[u].pc = "streaming" => origin[u].pc = "streaming"
  PROVE  IInv'
<1>1. Idle \in Readers
  BY DEF Idle, Readers
<1>2. Typed'
  BY <1>1, Zenon DEF IInv, Typed
<1>3. Reading'
  <2> SUFFICES ASSUME NEW r \in Ups, reader'[r] # Idle
               PROVE  /\ up'[r] = "serving"
                      /\ reader'[r].trace \in Traces /\ Owner[reader'[r].trace] = r
                      /\ reader'[r].pc # "idle"
                      /\ reader'[r].pc = "open" => origin'[reader'[r].trace].pc # "new"
                      /\ reader'[r].pc = "chunk" =>
                           reader'[r].trace \in hops' /\ lock'[reader'[r].trace] = r
    BY Zenon DEF Reading
  <2>1. reader \in [Ups -> Readers] /\ lock \in [Traces -> Ups \cup {NoSession}] /\ Reading
    BY Zenon DEF IInv, Typed
  <2>2. r # s /\ reader'[r] = reader[r] /\ reader[s] # Idle
    BY <2>1 DEF Idle
  <2>5. reader[r] # Idle
    BY <2>2, Zenon
  <2>3. /\ up[r] = "serving" /\ reader[r].trace \in Traces /\ Owner[reader[r].trace] = r
        /\ reader[r].pc # "idle"
        /\ reader[r].pc = "open" => origin[reader[r].trace].pc # "new"
        /\ reader[r].pc = "chunk" => reader[r].trace \in hops /\ lock[reader[r].trace] = r
    BY <2>1, <2>5, Zenon DEF Reading
  <2>4. /\ reader[r].trace # t
        /\ reader[r].trace \in hops => reader[r].trace \in hops'
        /\ lock'[reader[r].trace] = lock[reader[r].trace]
    <3>1. Owner[t] = s
      BY <2>1, <2>2, ZenonT(30) DEF Reading
    <3> QED BY <2>1, <2>2, <2>3, <3>1
  <2> QED BY <2>2, <2>3, <2>4
<1>4. Closing'
  BY DEF IInv, Closing
<1>5. ASSUME NEW u \in Traces PROVE Sound(u)'
  <2>1. \A pc \in {"open", "chunk", "end"} : Does(pc, u)' => Does(pc, u)
    <3>1. Owner[u] \in Ups /\ reader \in [Ups -> Readers]
      BY Owned, Zenon DEF IInv, Typed
    <3>2. \/ reader'[Owner[u]] = Idle
          \/ reader'[Owner[u]] = reader[Owner[u]]
      BY <3>1, Zenon
    <3>3. \A pc \in {"open", "chunk", "end"} : Idle # [pc |-> pc, trace |-> u]
      BY SMTT(20) DEF Idle
    <3> QED BY <3>2, <3>3, ZenonT(30) DEF Does
  <2>2. (Fresh(u)' => Fresh(u)) /\ (Live(u)' => Live(u))
    BY <2>1, Zenon DEF Fresh, Live
  <2>3. ~leg[u].open =>
          /\ origin'[u].sent = origin[u].sent /\ origin'[u].pc # "streaming" /\ ~Does("chunk", u)'
          /\ \A i \in 1 .. Len(acks') : acks'[i] # [trace |-> u, status |-> "Admitted"]
    BY <2>1, ZenonT(30) DEF IInv, Sound, Unopened
  <2> QED BY <1>2, <2>1, <2>2, <2>3, StreamKeeps, Zenon DEF IInv
<1> QED BY <1>2, <1>3, <1>4, <1>5, Zenon DEF IInv

LEMMA OpenRelayedKeeps == ASSUME IInv, NEW s \in Ups, OpenRelayed(s) PROVE IInv'
<1>1. /\ reader[s].pc = "open" /\ reader' = [reader EXCEPT ![s] = Idle]
      /\ UNCHANGED <<up, closer, ending, lock, open, acks, leg>>
  BY Zenon DEF OpenRelayed
<1>2. PICK t \in Traces : reader[s].trace = t /\ Owner[t] = s /\ up[s] = "serving" /\ Does("open", t)
  BY <1>1, Works, Zenon
<1>3. CASE Send("Open", t) /\ hops' = hops \cup {t} /\ TellNone /\ UNCHANGED pending
  <2>1. /\ queue' \in Seq(Queued) /\ Len(queue) \in Nat /\ Len(queue') = Len(queue) + 1
        /\ \A i \in 1 .. Len(queue) : queue'[i] = queue[i]
        /\ Is(queue'[Len(queue')], "Open", t)
    BY <1>2, <1>3, Sends, Zenon DEF IInv
  <2>2. origin' = origin
    BY <1>3 DEF TellNone
  <2>3. Typed'
    <3>1. Idle \in Readers
      BY DEF Idle, Readers
    <3> QED BY <1>1, <1>2, <1>3, <2>1, <2>2, <3>1, Zenon DEF IInv, Typed
  <2>4. Reading'
    BY <1>1, <1>2, <1>3, <2>2, ZenonT(30) DEF IInv, Typed, Reading
  <2>5. Closing'
    BY <1>1, <1>2, <1>3, Zenon DEF IInv, Closing
  <2>6. \A u \in Traces, pc \in {"open", "chunk", "end"} : Does(pc, u)' <=> (Does(pc, u) /\ u # t)
    BY <1>1, <1>2, Finishes, Zenon
  <2>7. Sound(t)'
    <3>1. /\ t \notin hops /\ ~Ends(t) /\ ~leg[t].open /\ origin[t].pc # "new"
          /\ \A i \in 1 .. Len(queue) : queue[i].trace # t
      <4>1. Sound(t) /\ Reading
        BY Zenon DEF IInv
      <4>2. reader[s] # Idle
        BY <1>1, SMTT(20) DEF Idle
      <4>3. origin[t].pc # "new"
        BY <1>1, <1>2, <4>1, <4>2, Zenon DEF Reading
      <4> QED BY <1>2, <4>1, <4>3, Zenon DEF Sound, Unsent, Fresh
    <3>2. Unsent(t)'
      BY <1>2, <2>2, <2>6, <3>1, ZenonT(30) DEF Unsent, Fresh
    <3>3. \A i \in 1 .. Len(queue') : queue'[i].trace = t => i = Len(queue') /\ queue'[i].kind = "Open"
      BY <2>1, <3>1, SMTT(20) DEF Is
    <3>4. Unopened(t)'
      BY <1>1, <1>2, <2>2, <2>6, <3>1, <3>3, SMTT(20) DEF IInv, Sound, Unopened, InQueue, Is
    <3>5. OneEnd(t)'
      BY <1>1, <1>2, <2>6, <3>1, <3>3, <3>4, ZenonT(30) DEF OneEnd, Unopened, InQueue, Is, Ends
    <3>6. InOrder(t)'
      BY <1>1, <3>1, SMTT(20) DEF InOrder, Live
    <3> QED BY <3>2, <3>4, <3>5, <3>6, SMTT(20) DEF Sound
  <2>8. ASSUME NEW u \in Traces, u # t PROVE Sound(u)'
    BY <1>1, <1>2, <1>3, <2>2, <2>3, <2>6, <2>8, SendOthers, ZenonT(30)
  <2> QED BY <2>3, <2>4, <2>5, <2>7, <2>8, Zenon DEF IInv
<1>4. CASE ~open /\ pending' = pending \ {t} /\ Tell({t}, "Failed") /\ UNCHANGED <<queue, hops>>
  <2>1. origin \in [Traces -> Origins] /\ pending' \subseteq Traces /\ "Failed" \in Statuses
    BY <1>4, Zenon DEF IInv, Typed, Statuses
  <2>2. /\ origin' \in [Traces -> Origins]
        /\ \A u \in Traces : /\ origin'[u].sent = origin[u].sent
                             /\ origin'[u].pc = "new" => origin[u].pc = "new"
                             /\ origin'[u].pc = "streaming" => origin[u].pc = "streaming"
    BY <1>4, <2>1, Hears, SMTT(20) DEF Tell
  <2> QED BY <1>1, <1>2, <1>4, <2>1, <2>2, ClosedKeeps, Zenon
<1> QED BY <1>2, <1>3, <1>4 DEF OpenRelayed

LEMMA EndRelayedKeeps == ASSUME IInv, NEW s \in Ups, EndRelayed(s) PROVE IInv'
<1>1. /\ reader[s].pc = "end" /\ reader' = [reader EXCEPT ![s] = Idle]
      /\ UNCHANGED <<up, closer, ending, hops, lock, open, pending, acks, leg>>
  BY ZenonT(30) DEF EndRelayed
<1>2. PICK t \in Traces : reader[s].trace = t /\ Owner[t] = s /\ up[s] = "serving" /\ Does("end", t)
  BY <1>1, Works
<1>3. CASE Send("End", t) /\ TellNone
  <2>1. queue' \in Seq(Queued)
    BY <1>3, Sends DEF IInv
  <2>2. origin' = origin
    BY <1>3, Zenon DEF TellNone
  <2>3. Typed'
    <3>1. Idle \in Readers
      BY DEF Idle, Readers
    <3> QED BY <1>1, <2>1, <2>2, <3>1, ZenonT(30) DEF IInv, Typed
  <2>4. Reading' /\ Closing'
    BY <1>1, <2>2, ZenonT(30) DEF IInv, Typed, Reading, Closing
  <2>5. \A u \in Traces, pc \in {"open", "chunk", "end"} : Does(pc, u)' <=> (Does(pc, u) /\ u # t)
    BY <1>1, <1>2, Finishes, ZenonT(30)
  <2>6. Sound(t)'
    <3>1. ~Fresh(t) /\ t \notin hops /\ ~Ends(t) /\ ~leg[t].ended /\ ~InQueue("End", t)
      BY <1>2, Zenon DEF IInv, Sound, Unsent, OneEnd
    <3>2. ~Ends(t)'
      BY <1>1, <3>1, Zenon DEF Ends
    <3> QED BY <1>1, <1>3, <2>2, <2>5, <3>1, <3>2, EndSent, Zenon
  <2>7. ASSUME NEW u \in Traces, u # t PROVE Sound(u)'
    BY <1>1, <1>3, <2>2, <2>3, <2>5, <2>7, SendOthers
  <2> QED BY <2>3, <2>4, <2>6, <2>7, ZenonT(30) DEF IInv
<1>4. CASE ~open /\ Tell({t}, "Failed") /\ UNCHANGED queue
  <2>1. origin \in [Traces -> Origins] /\ pending' \subseteq Traces /\ "Failed" \in Statuses
    BY <1>1, Zenon DEF IInv, Typed, Statuses
  <2>2. /\ origin' \in [Traces -> Origins]
        /\ \A u \in Traces : /\ origin'[u].sent = origin[u].sent
                             /\ origin'[u].pc = "new" => origin[u].pc = "new"
                             /\ origin'[u].pc = "streaming" => origin[u].pc = "streaming"
    BY <1>4, <2>1, Hears DEF Tell
  <2> QED BY <1>1, <1>2, <1>4, <2>1, <2>2, ClosedKeeps, Zenon
<1> QED BY <1>2, <1>3, <1>4 DEF EndRelayed

LEMMA CloseSendKeeps == ASSUME IInv, NEW s \in Ups, CloseSend(s) PROVE IInv'
<1>1. /\ ending[s] # None /\ ending' = [ending EXCEPT ![s] = None]
      /\ UNCHANGED <<origin, up, reader, closer, hops, lock, open, pending, acks, leg>>
  BY Zenon DEF CloseSend
<1>2. PICK t \in Traces : ending[s] = t
  BY <1>1, Zenon DEF IInv, Typed
<1>3. /\ None \notin Traces /\ Ends(t)
      /\ \A u \in Traces, r \in Ups : ending'[r] = u => ending[r] = u
      /\ \A u \in Traces : \A pc : Does(pc, u)' <=> Does(pc, u)
  BY <1>1, <1>2, ForwardingAssumption DEF ForwardingAssumption, None, Ends, IInv, Typed, Does
<1>4. Reading' /\ Closing'
  BY <1>1, Zenon DEF IInv, Reading, Closing
<1>5. CASE Send("End", t)
  <2>1. queue' \in Seq(Queued)
    BY <1>5, Sends, Zenon DEF IInv
  <2>2. Typed'
    BY <1>1, <2>1 DEF IInv, Typed
  <2>3. Sound(t)'
    <3>1. /\ ~Fresh(t) /\ t \notin hops /\ ~Does("end", t) /\ ~leg[t].ended /\ ~InQueue("End", t)
          /\ \A r \in Ups : ending[r] = t => r = s
      BY <1>2, <1>3, Zenon DEF IInv, Sound, Unsent, OneEnd
    <3>2. ~Ends(t)'
      BY <1>1, <1>3, <3>1 DEF Ends, IInv, Typed
    <3> QED BY <1>1, <1>3, <1>5, <3>1, <3>2, EndSent, Zenon
  <2>4. ASSUME NEW u \in Traces, u # t PROVE Sound(u)'
    BY <1>1, <1>3, <1>5, <2>2, <2>4, SendOthers, Zenon
  <2> QED BY <1>4, <2>2, <2>3, <2>4, Zenon DEF IInv
<1>6. CASE UNCHANGED queue
  <2>1. Typed'
    BY <1>1, <1>6 DEF IInv, Typed
  <2>2. ASSUME NEW u \in Traces PROVE Sound(u)'
    <3>1. (Fresh(u)' => Fresh(u)) /\ (Live(u)' => Live(u)) /\ Due(u)' = Due(u)
      BY <1>1, <1>3, Zenon DEF Fresh, Live, Due
    <3>2. ~leg[u].open =>
            /\ origin'[u].sent = origin[u].sent /\ origin'[u].pc # "streaming" /\ ~Does("chunk", u)'
            /\ \A i \in 1 .. Len(acks') : acks'[i] # [trace |-> u, status |-> "Admitted"]
      BY <1>1, <1>3, Zenon DEF IInv, Sound, Unopened
    <3> QED BY <1>1, <1>3, <1>6, <2>1, <3>1, <3>2, StreamKeeps, Zenon DEF IInv
  <2> QED BY <1>4, <2>1, <2>2, Zenon DEF IInv
<1> QED BY <1>2, <1>5, <1>6, Zenon DEF CloseSend

LEMMA ChunkRelayedKeeps == ASSUME IInv, NEW s \in Ups, ChunkRelayed(s) PROVE IInv'
<1>1. /\ reader[s].pc = "chunk" /\ reader' = [reader EXCEPT ![s] = Idle]
      /\ UNCHANGED <<up, closer, ending, open, pending, acks, leg>>
  BY Zenon DEF ChunkRelayed
<1>2. PICK t \in Traces :
        /\ reader[s].trace = t /\ Owner[t] = s /\ up[s] = "serving" /\ Does("chunk", t) /\ t \in hops
  BY <1>1, Works
<1>3. lock' = [lock EXCEPT ![t] = NoSession]
  BY <1>2, Zenon DEF ChunkRelayed
<1>4. CASE open /\ Send("Chunk", t) /\ TellNone /\ UNCHANGED hops
  <2>1. queue' \in Seq(Queued)
    BY <1>4, Sends DEF IInv
  <2>2. origin' = origin
    BY <1>4, Zenon DEF TellNone
  <2>3. Typed'
    <3>1. Idle \in Readers
      BY DEF Idle, Readers
    <3> QED BY <1>1, <1>3, <1>4, <2>1, <2>2, <3>1, ZenonT(30) DEF IInv, Typed
  <2>4. Reading'
    <3> SUFFICES ASSUME NEW r \in Ups, reader'[r] # Idle
                 PROVE  /\ up'[r] = "serving"
                        /\ reader'[r].trace \in Traces /\ Owner[reader'[r].trace] = r
                        /\ reader'[r].pc # "idle"
                        /\ reader'[r].pc = "open" => origin'[reader'[r].trace].pc # "new"
                        /\ reader'[r].pc = "chunk" =>
                             reader'[r].trace \in hops' /\ lock'[reader'[r].trace] = r
      BY Zenon DEF Reading
    <3>1. r # s /\ reader'[r] = reader[r] /\ reader[r] # Idle
      BY <1>1 DEF IInv, Typed
    <3>2. /\ up[r] = "serving" /\ reader[r].trace \in Traces /\ Owner[reader[r].trace] = r
          /\ reader[r].pc # "idle"
          /\ reader[r].pc = "open" => origin[reader[r].trace].pc # "new"
          /\ reader[r].pc = "chunk" => reader[r].trace \in hops /\ lock[reader[r].trace] = r
      BY <3>1, ZenonT(30) DEF IInv, Reading
    <3>3. reader[r].trace # t /\ lock'[reader[r].trace] = lock[reader[r].trace]
      <4>1. lock \in [Traces -> Ups \cup {NoSession}]
        BY Zenon DEF IInv, Typed
      <4> QED BY <1>2, <1>3, <3>1, <3>2, <4>1
    <3> QED BY <1>1, <1>4, <2>2, <3>1, <3>2, <3>3
  <2>5. Closing'
    BY <1>1, <1>4, Zenon DEF IInv, Closing
  <2>6. \A u \in Traces, pc \in {"open", "chunk", "end"} : Does(pc, u)' <=> (Does(pc, u) /\ u # t)
    BY <1>1, <1>2, Finishes, ZenonT(30)
  <2>7. Sound(t)'
    BY <1>1, <1>2, <1>4, <2>2, <2>6, ChunkSent, Zenon
  <2>8. ASSUME NEW u \in Traces, u # t PROVE Sound(u)'
    BY <1>1, <1>4, <2>2, <2>3, <2>6, <2>8, SendOthers
  <2> QED BY <2>3, <2>4, <2>5, <2>7, <2>8, SMTT(20) DEF IInv
<1>5. CASE ~open /\ hops' = hops \ {t} /\ Tell({t}, "Failed") /\ UNCHANGED queue
  <2>1. origin \in [Traces -> Origins] /\ pending' \subseteq Traces /\ "Failed" \in Statuses
    BY <1>1, Zenon DEF IInv, Typed, Statuses
  <2>2. /\ origin' \in [Traces -> Origins]
        /\ \A u \in Traces : /\ origin'[u].sent = origin[u].sent
                             /\ origin'[u].pc = "new" => origin[u].pc = "new"
                             /\ origin'[u].pc = "streaming" => origin[u].pc = "streaming"
    BY <1>5, <2>1, Hears, SMTT(20) DEF Tell
  <2> QED BY <1>1, <1>2, <1>3, <1>5, <2>1, <2>2, ClosedKeeps, Zenon
<1> QED BY <1>2, <1>4, <1>5, Zenon DEF ChunkRelayed, Room

\* The hop becomes an end that its reader, or a closer, is about to send.
LEMMA EndBegins ==
  ASSUME IInv, NEW t \in Traces, t \in hops, hops' = hops \ {t},
         UNCHANGED <<open, queue, acks, leg>>,
         origin'[t].sent = origin[t].sent, origin'[t].pc \in {origin[t].pc, "done"},
         Does("open", t)' => Does("open", t), Does("chunk", t)' => Does("chunk", t),
         ~(Does("end", t)' /\ Ends(t)'),
         \A s, r \in Ups : ending'[s] = t /\ ending'[r] = t => s = r
  PROVE  Sound(t)'
<1>1. ~Fresh(t) /\ ~Does("end", t) /\ ~Ends(t) /\ ~leg[t].ended /\ ~InQueue("End", t)
  BY Zenon DEF IInv, Sound, Unsent, OneEnd
<1>2. Unsent(t)'
  BY <1>1, Zenon DEF Unsent, Fresh
<1>3. Unopened(t)'
  BY Zenon DEF IInv, Sound, Unopened, InQueue
<1>4. OneEnd(t)'
  BY <1>1, Zenon DEF IInv, Sound, OneEnd, InQueue
<1>5. InOrder(t)'
  BY Zenon DEF IInv, Sound, InOrder, Live
<1> QED BY <1>2, <1>3, <1>4, <1>5 DEF Sound

LEMMA RelayEndKeeps == ASSUME IInv, NEW t \in Traces, RelayEnd(t) PROVE IInv'
<1>1. PICK s \in Ups : s = Owner[t]
  BY Owned
<1>2. /\ up[s] = "serving" /\ reader[s] = Idle /\ origin[t].pc = "streaming"
      /\ origin' = [origin EXCEPT ![t].pc = "done"]
      /\ UNCHANGED <<up, closer, ending, lock, open, pending, queue, acks, leg>>
      /\ Typed
  BY <1>1 DEF RelayEnd, Ready, IInv, downs
<1>3. /\ origin' \in [Traces -> Origins]
      /\ \A u \in Traces : /\ origin'[u].sent = origin[u].sent
                           /\ origin'[u].pc = IF u = t THEN "done" ELSE origin[u].pc
  BY <1>2, Zenon DEF Typed, Origins, Steps
<1>4. CASE t \notin hops /\ UNCHANGED <<reader, hops>>
  <2>1. pending' \subseteq Traces /\ acks' \in Seq(Answers) /\ UNCHANGED ups
    BY <1>2, <1>4, Zenon DEF Typed, ups
  <2> QED BY <1>2, <1>3, <1>4, <2>1, StatusKeeps, StreamingOpens, AdmittedOpens
<1>5. CASE /\ t \in hops /\ lock[t] = NoSession /\ hops' = hops \ {t}
           /\ reader' = [reader EXCEPT ![s] = [pc |-> "end", trace |-> t]]
  <2>1. Typed'
    <3>1. [pc |-> "end", trace |-> t] \in Readers
      BY Zenon DEF Readers
    <3> QED BY <1>2, <1>3, <1>5, <3>1, Zenon DEF Typed
  <2>2. Reading'
    <3> SUFFICES ASSUME NEW r \in Ups, reader'[r] # Idle
                 PROVE  /\ up'[r] = "serving"
                        /\ reader'[r].trace \in Traces /\ Owner[reader'[r].trace] = r
                        /\ reader'[r].pc # "idle"
                        /\ reader'[r].pc = "open" => origin'[reader'[r].trace].pc # "new"
                        /\ reader'[r].pc = "chunk" =>
                             reader'[r].trace \in hops' /\ lock'[reader'[r].trace] = r
      BY Zenon DEF Reading
    <3>1. CASE r = s
      BY <1>1, <1>2, <1>5, <3>1, Zenon DEF Typed
    <3>2. CASE r # s
      <4>1. reader'[r] = reader[r] /\ reader[r].trace # t
        BY <1>1, <1>5, <3>2, <1>2 DEF Typed, IInv, Reading
      <4> QED BY <1>2, <1>3, <1>5, <4>1, SMTT(20) DEF IInv, Reading
    <3> QED BY <3>1, <3>2, Zenon
  <2>3. Closing'
    BY <1>2, <1>5, Zenon DEF IInv, Closing
  <2>4. \A u \in Traces : /\ \A pc \in {"open", "chunk"} : Does(pc, u)' <=> Does(pc, u)
                          /\ Does("end", u)' <=> (Does("end", u) \/ u = t)
    BY <1>1, <1>2, <1>5, Owned DEF Does, Typed, Idle
  <2>5. Sound(t)'
    <3>1. ~Ends(t)' /\ \A r, q \in Ups : ending'[r] = t /\ ending'[q] = t => r = q
      BY <1>2, <1>5, Zenon DEF IInv, Sound, OneEnd, Ends
    <3> QED BY <1>2, <1>3, <1>5, <2>4, <3>1, EndBegins, Zenon
  <2>6. ASSUME NEW u \in Traces, u # t PROVE Sound(u)'
    <3>1. (Fresh(u)' => Fresh(u)) /\ (Live(u)' => Live(u)) /\ Due(u)' = Due(u)
      BY <1>2, <1>3, <2>4, <2>6, Zenon DEF Fresh, Live, Due
    <3>2. ~leg[u].open =>
            /\ origin'[u].sent = origin[u].sent /\ origin'[u].pc # "streaming" /\ ~Does("chunk", u)'
            /\ \A i \in 1 .. Len(acks') : acks'[i] # [trace |-> u, status |-> "Admitted"]
      BY <1>2, <1>3, <2>4, <2>6, Zenon DEF IInv, Sound, Unopened
    <3> QED BY <1>2, <1>5, <2>1, <2>4, <2>6, <3>1, <3>2, StreamKeeps, Zenon DEF IInv
  <2> QED BY <2>1, <2>2, <2>3, <2>5, <2>6, Zenon DEF IInv
<1> QED BY <1>1, <1>4, <1>5 DEF RelayEnd, Do

LEMMA CloseTakeKeeps == ASSUME IInv, NEW s \in Ups, CloseTake(s) PROVE IInv'
<1>1. PICK t \in closer[s] :
        /\ t \in hops => lock[t] = NoSession
        /\ hops' = hops \ {t}
        /\ closer' = [closer EXCEPT ![s] = @ \ {t}]
        /\ ending' = [ending EXCEPT ![s] = IF t \in hops THEN t ELSE None]
  BY Zenon DEF CloseTake
<1>2. /\ t \in Traces /\ ending[s] = None /\ Typed /\ None \notin Traces
      /\ UNCHANGED <<origin, up, reader, lock, open, pending, queue, acks, leg>>
  BY ForwardingAssumption, Zenon DEF ForwardingAssumption, None, CloseTake, IInv, Typed, downs
<1>3. Typed'
  BY <1>1, <1>2, ZenonT(30) DEF Typed
<1>4. Reading'
  <2> SUFFICES ASSUME NEW r \in Ups, reader[r] # Idle
               PROVE  /\ up[r] = "serving"
                      /\ reader[r].trace \in Traces /\ Owner[reader[r].trace] = r
                      /\ reader[r].pc # "idle"
                      /\ reader[r].pc = "open" => origin[reader[r].trace].pc # "new"
                      /\ reader[r].pc = "chunk" => reader[r].trace \in hops' /\ lock[reader[r].trace] = r
    BY <1>2, ZenonT(30) DEF Reading
  <2>1. /\ up[r] = "serving" /\ reader[r].trace \in Traces /\ Owner[reader[r].trace] = r
        /\ reader[r].pc # "idle"
        /\ reader[r].pc = "open" => origin[reader[r].trace].pc # "new"
        /\ reader[r].pc = "chunk" => reader[r].trace \in hops /\ lock[reader[r].trace] = r
    BY Zenon DEF IInv, Reading
  <2>2. r # NoSession
    BY ForwardingAssumption DEF ForwardingAssumption
  <2> QED BY <1>1, <2>1, <2>2
<1>5. Closing'
  BY <1>1, <1>2, Owned, Zenon DEF IInv, Closing, Typed
<1>6. \A u \in Traces : \A pc : Does(pc, u)' <=> Does(pc, u)
  BY <1>2, Zenon DEF Does
<1>7. ASSUME NEW u \in Traces, u # t \/ t \notin hops PROVE Sound(u)'
  <2>1. \A r \in Ups : ending'[r] = u => ending[r] = u
    BY <1>1, <1>2, <1>7, ZenonT(30) DEF Typed
  <2>2. (Fresh(u)' => Fresh(u)) /\ (Live(u)' => Live(u)) /\ Due(u)' = Due(u)
    BY <1>2, <1>6 DEF Fresh, Live, Due
  <2>3. ~leg[u].open =>
          /\ origin'[u].sent = origin[u].sent /\ origin'[u].pc # "streaming" /\ ~Does("chunk", u)'
          /\ \A i \in 1 .. Len(acks') : acks'[i] # [trace |-> u, status |-> "Admitted"]
    BY <1>2, <1>6, Zenon DEF IInv, Sound, Unopened
  <2> QED BY <1>1, <1>2, <1>3, <1>6, <2>1, <2>2, <2>3, StreamKeeps, Zenon DEF IInv
<1>8. CASE t \in hops
  <2>1. ~Ends(t) /\ ~Does("end", t)
    BY <1>2, <1>8, ZenonT(30) DEF IInv, Sound, OneEnd
  <2>2. \A r, q \in Ups : ending'[r] = t /\ ending'[q] = t => r = q
    BY <1>1, <1>2, <2>1 DEF Typed, Ends
  <2>3. Sound(t)'
    BY <1>1, <1>2, <1>6, <1>8, <2>1, <2>2, EndBegins, Zenon
  <2> QED BY <1>3, <1>4, <1>5, <1>7, <2>3 DEF IInv
<1> QED BY <1>3, <1>4, <1>5, <1>7, <1>8 DEF IInv

LEMMA DeliverKeeps == ASSUME IInv, Deliver PROVE IInv'
<1>1. /\ queue # <<>> /\ queue' = Tail(queue) /\ Typed
      /\ UNCHANGED <<origin, up, reader, closer, ending, hops, lock, open, pending>>
  BY DEF Deliver, IInv, ups
<1>2. PICK t \in Traces : Head(queue).trace = t
  <2>1. Head(queue) \in Queued
    BY <1>1, Tailed, Zenon DEF Typed
  <2> QED BY <2>1, Zenon DEF Queued
<1>3. queue' \in Seq(Queued)
  BY <1>1, <1>2, Delivered, Zenon
<1>4. ASSUME Typed', \A u \in Traces \ {t} : leg'[u] = leg[u],
             \A i \in 1 .. Len(acks') : acks'[i].trace # t =>
               \E j \in 1 .. Len(acks) : acks'[i] = acks[j],
             Sound(t)'
      PROVE  IInv'
  <2>1. Reading' /\ Closing'
    BY <1>1, Zenon DEF IInv, Reading, Closing
  <2>2. ASSUME NEW u \in Traces, u # t PROVE Sound(u)'
    <3>1. leg'[u] = leg[u] /\ \A pc : Does(pc, u)' <=> Does(pc, u)
      BY <1>1, <1>4, <2>2, Zenon DEF Does
    <3>2. (Fresh(u)' => Fresh(u)) /\ (Live(u)' => Live(u)) /\ Due(u)' = Due(u)
      BY <1>1, <3>1, Zenon DEF Fresh, Live, Due
    <3>3. ~leg[u].open =>
            /\ origin'[u].sent = origin[u].sent /\ origin'[u].pc # "streaming" /\ ~Does("chunk", u)'
            /\ \A i \in 1 .. Len(acks') : acks'[i] # [trace |-> u, status |-> "Admitted"]
      <4> SUFFICES ASSUME ~leg[u].open
                   PROVE  /\ origin'[u].sent = origin[u].sent /\ origin'[u].pc # "streaming"
                          /\ ~Does("chunk", u)'
                          /\ \A i \in 1 .. Len(acks') : acks'[i] # [trace |-> u, status |-> "Admitted"]
        BY Zenon
      <4>1. /\ origin[u].pc # "streaming" /\ ~Does("chunk", u)
            /\ \A i \in 1 .. Len(acks) : acks[i] # [trace |-> u, status |-> "Admitted"]
        BY Zenon DEF IInv, Sound, Unopened
      <4>2. ASSUME NEW i \in 1 .. Len(acks'), acks'[i] = [trace |-> u, status |-> "Admitted"] PROVE FALSE
        <5>0. acks'[i].trace = u
          BY <4>2, Fields, Zenon
        <5>1. acks'[i].trace # t
          BY <2>2, <5>0, ZenonT(30)
        <5> QED BY <1>4, <4>1, <4>2, <5>1, ZenonT(30)
      <4> QED BY <1>1, <3>1, <4>1, <4>2, Zenon
    <3> QED BY <1>1, <1>2, <1>4, <2>2, <3>1, <3>2, <3>3, StreamKeeps, Zenon DEF IInv
  <2> QED BY <1>4, <2>1, <2>2, Zenon DEF IInv
<1>5. CASE \E status \in Statuses :
             /\ Head(queue).kind = "Open"
             /\ acks' = Append(acks, [trace |-> t, status |-> status])
             /\ leg' = [leg EXCEPT ![t].open = (status = "Admitted")]
  <2>1. PICK status \in Statuses :
          /\ Head(queue).kind = "Open"
          /\ acks' = Append(acks, [trace |-> t, status |-> status])
          /\ leg' = [leg EXCEPT ![t].open = (status = "Admitted")]
    BY <1>5, ZenonT(30)
  <2>2. [trace |-> t, status |-> status] \in Answers /\ acks \in Seq(Answers)
    BY <1>1 DEF Answers, Typed
  <2>3. /\ acks' \in Seq(Answers)
        /\ \A i \in 1 .. Len(acks') : acks'[i].trace # t => i \in 1 .. Len(acks) /\ acks'[i] = acks[i]
    BY <2>1, <2>2, Appended
  <2>4. leg' \in [Traces -> Legs] /\ \A u \in Traces \ {t} : leg'[u] = leg[u]
    <3>1. leg \in [Traces -> Legs] /\ leg[t] \in Legs
      BY <1>1 DEF Typed
    <3>2. (status = "Admitted") \in BOOLEAN
      BY Zenon
    <3>3. [leg[t] EXCEPT !.open = (status = "Admitted")] \in Legs
      BY <3>1, <3>2, Zenon DEF Legs
    <3> QED BY <2>1, <3>1, <3>3, Zenon
  <2>5. Typed'
    BY <1>1, <1>3, <2>3, <2>4, Zenon DEF Typed
  <2>6. Sound(t)'
    BY <1>1, <1>2, <2>1, <2>5, OpenDelivered, Zenon DEF Is
  <2> QED BY <1>4, <2>3, <2>4, <2>5, <2>6
<1>6. CASE /\ Head(queue).kind = "Chunk" /\ acks' = acks
           /\ leg' = [leg EXCEPT ![t].got = IF Live(t) THEN @ + 1 ELSE @]
  <2>1. leg' \in [Traces -> Legs] /\ \A u \in Traces \ {t} : leg'[u] = leg[u]
    <3>1. leg \in [Traces -> Legs] /\ leg[t] \in Legs
      BY <1>1, Zenon DEF Typed
    <3>2. (IF Live(t) THEN leg[t].got + 1 ELSE leg[t].got) \in Nat
      BY <3>1 DEF Legs
    <3>3. [leg[t] EXCEPT !.got = IF Live(t) THEN @ + 1 ELSE @] \in Legs
      BY <3>1, <3>2 DEF Legs
    <3> QED BY <1>6, <3>1, <3>3, Zenon
  <2>2. Typed'
    BY <1>1, <1>3, <1>6, <2>1 DEF Typed
  <2>3. Sound(t)'
    BY <1>1, <1>2, <1>6, <2>2, ChunkDelivered, Zenon DEF Is
  <2> QED BY <1>4, <1>6, <2>1, <2>2, <2>3
<1>7. CASE Head(queue).kind = "End" /\ acks' = acks /\ leg' = [leg EXCEPT ![t].ended = Live(t) \/ @]
  <2>1. leg' \in [Traces -> Legs] /\ \A u \in Traces \ {t} : leg'[u] = leg[u]
    <3>1. leg \in [Traces -> Legs] /\ leg[t] \in Legs
      BY <1>1 DEF Typed
    <3>2. (Live(t) \/ leg[t].ended) \in BOOLEAN
      BY Zenon
    <3>3. [leg[t] EXCEPT !.ended = Live(t) \/ @] \in Legs
      BY <3>1, <3>2, Zenon DEF Legs
    <3> QED BY <1>7, <3>1, <3>3, SMTT(20)
  <2>2. Typed'
    BY <1>1, <1>3, <1>7, <2>1 DEF Typed
  <2>3. Sound(t)'
    BY <1>1, <1>2, <1>7, <2>2, EndDelivered, Zenon DEF Is
  <2> QED BY <1>4, <1>7, <2>1, <2>2, <2>3
<1> QED BY <1>2, <1>5, <1>6, <1>7, ZenonT(30) DEF Deliver

-----------------------------------------------------------------------------
LEMMA InitEstablishes == Init => IInv
<1> SUFFICES ASSUME Init PROVE IInv
  BY Zenon
<1>1. /\ Idle \in Readers /\ <<>> \in Seq(Queued) /\ <<>> \in Seq(Answers)
      /\ Len(queue) = 0 /\ Len(acks) = 0
  BY SMTT(20) DEF Idle, Readers, Init
<1>2. Typed
  BY <1>1 DEF Init, Typed, Origins, Steps, Legs
<1>3. Reading /\ Closing
  BY Zenon DEF Init, Reading, Closing
<1>4. ASSUME NEW t \in Traces PROVE Sound(t)
  <2>1. None \notin Traces /\ Owner[t] \in Ups
    BY Owned, ForwardingAssumption DEF ForwardingAssumption, None
  <2>2. \A pc \in {"open", "chunk", "end"} : ~Does(pc, t)
    BY <2>1, Zenon DEF Init, Does, Idle
  <2>3. ~Ends(t) /\ \A s \in Ups : ending[s] # t
    BY <2>1, Zenon DEF Init, Ends
  <2>4. /\ t \notin hops /\ leg[t] = [open |-> FALSE, got |-> 0, ended |-> FALSE, broken |-> FALSE]
        /\ origin[t] = [pc |-> "new", sent |-> 0]
    BY ZenonT(30) DEF Init
  <2>5. ~leg[t].open /\ leg[t].got = 0 /\ ~leg[t].ended /\ origin[t].sent = 0 /\ origin[t].pc = "new"
    BY <2>4, Fields, Zenon
  <2>6. 1 .. Len(queue) = {} /\ 1 .. Len(acks) = {}
    BY <1>1
  <2>7. Unsent(t)
    BY <2>2, <2>3, <2>4, <2>5, <2>6, Zenon DEF Unsent
  <2>8. Unopened(t)
    BY <2>2, <2>5, <2>6, Zenon DEF Unopened, InQueue
  <2>9. OneEnd(t)
    BY <2>2, <2>3, <2>4, <2>5, <2>6, Zenon DEF OneEnd
  <2>10. InOrder(t)
    BY <2>5, Zenon DEF InOrder, Live
  <2> QED BY <2>7, <2>8, <2>9, <2>10, Zenon DEF Sound
<1> QED BY <1>2, <1>3, <1>4 DEF IInv

LEMMA NextKeeps == IInv /\ [Next]_vars => IInv'
<1> SUFFICES ASSUME IInv, [Next]_vars PROVE IInv'
  BY Zenon
<1>1. ASSUME NEW t \in Traces, RelayNext(t) \/ GiveUp(t) \/ Break(t) PROVE IInv'
  BY <1>1, RelayOpenKeeps, RelayChunkKeeps, RelayEndKeeps, GiveUpKeeps, BreakKeeps, Zenon DEF RelayNext
<1>2. ASSUME NEW s \in Ups, ReaderNext(s) \/ CloserNext(s) \/ Register(s) \/ UpEnds(s) PROVE IInv'
  BY Zenon, <1>2, OpenRelayedKeeps, ChunkRelayedKeeps, EndRelayedKeeps, CloseForPeerKeeps, CloseTakeKeeps,
     CloseSendKeeps, RegisterKeeps, UpEndsKeeps DEF ReaderNext, CloserNext
<1>3. CASE DownNext \/ DownEnds
  BY <1>3, DeliverKeeps, RelayAckKeeps, DownKeeps, DownAbortKeeps, Zenon DEF DownNext
<1>4. CASE UNCHANGED vars
  <2>1. /\ UNCHANGED <<ups, hops, lock, open, queue, leg>> /\ origin' = origin /\ acks' = acks
        /\ pending' = pending
    BY <1>4, Zenon DEF vars, downs
  <2>2. origin' \in [Traces -> Origins] /\ pending' \subseteq Traces /\ acks' \in Seq(Answers)
    BY <2>1 DEF IInv, Typed
  <2> QED BY <2>1, <2>2, StatusKeeps, StreamingOpens, AdmittedOpens, Zenon
<1> QED BY <1>1, <1>2, <1>3, <1>4 DEF Next

\* LegInOrder holds in every behaviour of a forwarding node: the chunks of a
\* leg reach the next hop in sequence and nothing follows its end, for any
\* packets, sessions, bodies and queue, whatever reader is cancelled while it
\* waits, whatever closer races it (relay_chunk, relay_end, close_for_peer and
\* the relay lock of forward.rs).
THEOREM LegsInOrder == Spec => []LegInOrder
<1>1. IInv => LegInOrder
  <2> SUFFICES ASSUME IInv, queue # <<>>, Head(queue).kind # "Open", Live(Head(queue).trace)
               PROVE  /\ ~leg[Head(queue).trace].ended
                      /\ Head(queue).kind = "Chunk" => Head(queue).sequence = leg[Head(queue).trace].got
    BY Zenon DEF LegInOrder
  <2>1. Head(queue) = queue[1] /\ Head(queue) \in Queued /\ 1 \in 1 .. Len(queue)
    BY Tailed DEF IInv, Typed
  <2>2. PICK t \in Traces : queue[1].trace = t
    BY <2>1, Zenon DEF Queued
  <2>3. ~leg[t].ended /\ leg[t].got \in Nat
    BY <2>1, <2>2, ZenonT(30) DEF IInv, Sound, OneEnd, Typed, Legs
  <2>4. ASSUME queue[1].kind = "Chunk" PROVE queue[1].sequence = leg[t].got
    <3>1. Before(queue, leg[t].got, t, 1, queue[1].sequence) /\ queue[1].sequence \in Int
      BY <2>1, <2>2, <2>4, Zenon DEF IInv, Sound, InOrder, Is, Queued
    <3> QED BY <2>3, <3>1, BeforeFirst
  <2> QED BY <2>1, <2>2, <2>3, <2>4, Zenon
<1> QED BY <1>1, InitEstablishes, NextKeeps, PTL DEF Spec

\* ClosedLeavesNoHop holds in every behaviour: when the closer of an ended
\* session is through, no hop of that session is registered, for any sessions
\* and packets and whatever its reader was waiting for (close_for_peer runs
\* after the read loop is dropped).
THEOREM ClosersLeaveNoHop == Spec => []ClosedLeavesNoHop
<1>1. IInv => ClosedLeavesNoHop
  BY DEF IInv, Closing, ClosedLeavesNoHop
<1> QED BY <1>1, InitEstablishes, NextKeeps, PTL DEF Spec

=============================================================================
