---------------------------- MODULE SessionProofs ----------------------------
(***************************************************************************)
(* A session as it is established and registered, for any offers, bindings,*)
(* credentials, connections and faults: two authenticated sides agree, and *)
(* a session that serves is the entry of its peer.                         *)
(***************************************************************************)
EXTENDS Handshake, SessionTable, TLAPS

-----------------------------------------------------------------------------
(***************************************************************************)
(* The session table.                                                      *)
(***************************************************************************)

\* What the invariant rests on: the types, without the bounds of the model.
TableTyped ==
  /\ end \in [Nodes -> [Connections -> Stages]]
  /\ table \in [Nodes -> Connections \cup {None}]

TableIInv == TableTyped /\ ServingIsRegistered

\* An end that is closed neither serves nor is an entry, so a free connection
\* is nobody's.
LEMMA FreeIsNoEntry ==
  ASSUME TableIInv, NEW n \in Nodes, NEW c \in Connections, Free(c)
  PROVE  table[n] # c
BY DEF TableIInv, ServingIsRegistered, Free

\* Dropping an end that is no entry keeps the invariant (Close).
LEMMA CloseKeeps ==
  ASSUME TableIInv, NEW n \in Nodes, NEW c \in Connections, Close(n, c), table[n] # c, table' = table
  PROVE  TableIInv'
<1>1. end' = [end EXCEPT ![n][c] = "closed"]
  BY DEF Close
<1>2. TableTyped'
  BY <1>1 DEF TableIInv, TableTyped, Stages
<1>3. ServingIsRegistered'
  BY <1>1 DEF TableIInv, TableTyped, ServingIsRegistered
<1> QED BY <1>2, <1>3 DEF TableIInv

LEMMA TableInitEstablishes == Init => TableIInv
BY TableAssumption DEF Init, TableIInv, TableTyped, Stages, ServingIsRegistered

\* Every step preserves the invariant.
LEMMA TableNextKeeps == TableIInv /\ [Next]_vars => TableIInv'
<1> SUFFICES ASSUME TableIInv, [Next]_vars PROVE TableIInv'
  OBVIOUS
<1> USE TableAssumption DEF TableIInv, TableTyped
<1>1. ASSUME NEW n \in Nodes, NEW c \in Connections, NEW s \in {"opening", "awaited"}, Open(n, c, s)
      PROVE  TableIInv'
  <2>1. Free(c)
    BY <1>1 DEF Open
  <2>2. end' = [m \in Nodes |-> [end[m] EXCEPT ![c] = IF m = n THEN s ELSE "opening"]] /\ table' = table
    BY <1>1 DEF Open
  <2>3. TableTyped'
    BY <2>2, <1>1 DEF Stages
  <2>4. \A m \in Nodes : table[m] # c
    BY <2>1, FreeIsNoEntry
  <2>5. ServingIsRegistered'
    BY <2>2, <2>4, <1>1 DEF ServingIsRegistered
  <2> QED BY <2>3, <2>5
<1>2. ASSUME NEW n \in Nodes, NEW c \in Connections, ConnectMember(n, c) PROVE TableIInv'
  BY <1>1, <1>2 DEF ConnectMember
<1>3. ASSUME NEW n \in Nodes, NEW c \in Connections, RecoveryDial(n, c) PROVE TableIInv'
  BY <1>1, <1>3 DEF RecoveryDial
<1>4. ASSUME NEW n \in Nodes, NEW c \in Connections, Fail(n, c) \/ Yield(n, c) PROVE TableIInv'
  <2>1. table[n] # c /\ Close(n, c) /\ table' = table
    BY <1>4 DEF Fail, Yield, Opening, ServingIsRegistered
  <2> QED BY <2>1, CloseKeeps
<1>5. ASSUME NEW n \in Nodes, NEW c \in Connections, Register(n, c) PROVE TableIInv'
  <2>1. /\ table' = [table EXCEPT ![n] = c]
        /\ end' = [end EXCEPT ![n] = [d \in Connections |->
                     IF d = c THEN "live"
                     ELSE IF d = table[n] /\ Direct(n) THEN "replaced" ELSE end[n][d]]]
    BY <1>5 DEF Register
  <2>2. TableTyped'
    BY <2>1 DEF Stages
  <2>3. \A d \in Connections : end[n][d] = "live" => d = table[n] /\ Direct(n)
    BY DEF ServingIsRegistered, Direct, Alive
  <2>4. ServingIsRegistered'
    BY <2>1, <2>3 DEF ServingIsRegistered
  <2> QED BY <2>2, <2>4
<1>6. ASSUME NEW n \in Nodes, NEW c \in Connections, Retire(n, c) \/ Stop(n, c) PROVE TableIInv'
  <2>1. PICK s \in {"retired", "stopped"} :
          /\ end' = [end EXCEPT ![n][c] = s] /\ table' = table
          /\ s = "retired" => end[n][c] = "replaced"
    BY <1>6 DEF Retire, Stop
  <2>2. TableTyped'
    BY <2>1 DEF Stages
  <2>3. ServingIsRegistered'
    BY <2>1 DEF ServingIsRegistered
  <2> QED BY <2>2, <2>3
<1>7. ASSUME NEW n \in Nodes, NEW c \in Connections, Remove(n, c) PROVE TableIInv'
  <2>1. /\ end[n][c] = "stopped" /\ end' = [end EXCEPT ![n][c] = "closed"]
        /\ table' = [table EXCEPT ![n] = IF Direct(n) THEN @ ELSE None]
    BY <1>7 DEF Remove, Close
  <2>2. TableTyped'
    BY <2>1 DEF Stages
  <2>3. Direct(n) => table[n] # c
    BY <2>1 DEF Direct, Alive
  <2>4. \A d \in Connections : end[n][d] = "live" => d = table[n] /\ Direct(n)
    BY DEF ServingIsRegistered, Direct, Alive
  <2>5. ServingIsRegistered'
    BY <2>1, <2>3, <2>4 DEF ServingIsRegistered
  <2> QED BY <2>2, <2>5
<1>8. ASSUME NEW n \in Nodes, DisconnectPeer(n) PROVE TableIInv'
  <2>1. /\ table[n] \in Connections
        /\ table' = [table EXCEPT ![n] = None]
        /\ end' = [end EXCEPT ![n][table[n]] = IF @ = "live" THEN "replaced" ELSE @]
    BY <1>8 DEF DisconnectPeer
  <2>2. TableTyped'
    BY <2>1 DEF Stages
  <2>3. ServingIsRegistered'
    BY <2>1 DEF ServingIsRegistered
  <2> QED BY <2>2, <2>3
<1>9. ASSUME NEW n \in Nodes, Restart(n) PROVE TableIInv'
  <2>1. /\ table' = [table EXCEPT ![n] = None]
        /\ end' = [end EXCEPT ![n] = [c \in Connections |-> "closed"]]
    BY <1>9 DEF Restart
  <2>2. TableTyped'
    BY <2>1 DEF Stages
  <2>3. ServingIsRegistered'
    BY <2>1 DEF ServingIsRegistered
  <2> QED BY <2>2, <2>3
<1>10. ASSUME UNCHANGED <<end, table>> PROVE TableIInv'
  BY <1>10 DEF ServingIsRegistered
<1> QED
  BY <1>2, <1>3, <1>4, <1>5, <1>6, <1>7, <1>8, <1>9, <1>10 DEF Next, Step, Observe, Lose, vars

\* ServingIsRegistered holds in every behaviour: a session that serves is its
\* peer's entry, and an entry serves or is about to be removed, however
\* registrations, replacements, stops, removals, disconnects and restarts
\* interleave (run_session, retire_session).
THEOREM ServingRegistered == Spec => []ServingIsRegistered
<1>1. TableIInv => ServingIsRegistered
  BY DEF TableIInv
<1> QED BY <1>1, TableInitEstablishes, TableNextKeeps, PTL DEF Spec

-----------------------------------------------------------------------------
(***************************************************************************)
(* The handshake.  The messages to a side come in the order of the other's *)
(* steps, and each step rests on what the side has accepted or verified.   *)
(***************************************************************************)

\* What side s keeps of the other's hello, once it has accepted it.
Seen(s) == [peer |-> conf[Other(s)].node, transcript |-> Transcript(s, Hello(Other(s)))]
Known(s) ==
  /\ view[s] = Seen(s)
  /\ Accepts(s, Hello(Other(s)))
  /\ conf["i"].mode = "member" => conf[s].trusts
Mutual ==
  /\ Known("i") /\ Known("r")
  /\ view["i"].transcript = view["r"].transcript
  /\ conf["i"].mode = "join" => conf["i"].credential = conf["r"].credential

\* How many messages a side has read, and sent, by its step.
Heard(s) ==
  IF s = "r" THEN IF step["r"] \in {"accept", "checked"} THEN 0 ELSE 1
  ELSE IF step["i"] \in {"dial", "hello"} THEN 0
  ELSE IF step["i"] = "proof" THEN 1 ELSE IF step["i"] = "confirm" THEN 2 ELSE 3
Told(s) ==
  IF s = "i" THEN IF step["i"] = "dial" THEN 0 ELSE 1
  ELSE IF step["r"] \in {"accept", "checked"} THEN 0
  ELSE IF step["r"] = "sign" THEN 1 ELSE IF step["r"] = "await" THEN 2 ELSE 3

Reads(s) == step[s] \in IF s = "i" THEN {"dial", "hello", "proof", "confirm", "grant"}
                        ELSE {"accept", "checked", "sign", "await"}
Writes(s) == step[s] \in IF s = "i" THEN {"dial", "hello", "proof"}
                         ELSE {"accept", "checked", "sign", "await", "commit"}

\* The n-th message that side s sends.
Said(s, n, m) ==
  /\ n = 1 => m = Hello(s)
  /\ n = 2 => m = Proof(s) /\ Known(s)

\* The messages to a side that reads are the next ones the other has sent.
InTurn(s) ==
  Reads(s) =>
    /\ \A k \in 1 .. Len(wire[Other(s)]) : Said(Other(s), Heard(s) + k, wire[Other(s)][k])
    /\ Writes(Other(s)) => Heard(s) + Len(wire[Other(s)]) = Told(Other(s))

Shape ==
  /\ conf["i"].mode \in {"join", "member"} /\ conf["r"].mode = conf["i"].mode
  /\ step = [s \in Sides |-> step[s]]
  /\ view = [s \in Sides |-> view[s]]
  /\ \E M : wire \in [Sides -> Seq(M)]

\* What each step of a side rests on.
Rests ==
  /\ step["i"] = "hello" /\ conf["i"].mode = "member" => conf["i"].trusts
  /\ step["r"] = "checked" => wire["i"] # <<>> /\ (conf["i"].mode = "member" => conf["r"].trusts)
  /\ step["i"] = "proof" => Known("i")
  /\ step["r"] \in {"sign", "await"} => Known("r")
  /\ step["i"] \in {"confirm", "grant"} \cup Done => Mutual
  /\ step["r"] \in {"commit"} \cup Done => Mutual

HandshakeIInv == Shape /\ Rests /\ \A s \in Sides : InTurn(s)
-----------------------------------------------------------------------------
LEMMA Widened ==
  ASSUME NEW M, NEW q \in Seq(M), NEW m
  PROVE  /\ q \in Seq(M \cup {m}) /\ Append(q, m) \in Seq(M \cup {m})
         /\ Len(Append(q, m)) = Len(q) + 1 /\ Len(q) \in Nat /\ Append(q, m) # <<>>
         /\ \A k \in 1 .. Len(q) + 1 : Append(q, m)[k] = IF k = Len(q) + 1 THEN m ELSE q[k]
<1>1. q \in Seq(M \cup {m})
  OBVIOUS
<1>2. Append(q, m) \in Seq(M \cup {m}) /\ Len(Append(q, m)) = Len(q) + 1 /\ Len(q) \in Nat
  BY <1>1
<1>3. Append(q, m) # <<>>
  BY <1>2
<1> QED BY <1>1, <1>2, <1>3

LEMMA Advanced ==
  ASSUME NEW M, NEW q \in Seq(M), q # <<>>
  PROVE  /\ Head(q) = q[1] /\ Tail(q) \in Seq(M) /\ Len(q) \in Nat \ {0}
         /\ Len(Tail(q)) = Len(q) - 1
         /\ \A k \in 1 .. Len(q) - 1 : Tail(q)[k] = q[k + 1]
OBVIOUS

LEMMA HandshakeInitInv == HandshakeInit => HandshakeIInv
<1> SUFFICES ASSUME HandshakeInit PROVE HandshakeIInv
  OBVIOUS
<1>1. conf["i"].mode \in {"join", "member"} /\ conf["r"].mode = conf["i"].mode
  <2>1. conf \in Configurations
    BY DEF HandshakeInit
  <2>2. PICK mode \in {"join", "member"}, l \in Listeners, ci \in Clusters, cr \in Clusters,
             oi \in Offers, or \in Offers, ti \in BOOLEAN, tr \in BOOLEAN,
             h \in Credentials, gi \in Credentials, gr \in Credentials :
          conf = [i |-> [mode |-> mode, node |-> Dialer, cluster |-> ci, offer |-> oi,
                         trusts |-> ti, hint |-> h, credential |-> gi],
                  r |-> [mode |-> mode, node |-> l, cluster |-> cr, offer |-> or,
                         trusts |-> tr, hint |-> gr, credential |-> gr]]
    BY <2>1, SMTT(30) DEF Configurations
  <2>3. /\ conf["i"] = [mode |-> mode, node |-> Dialer, cluster |-> ci, offer |-> oi,
                         trusts |-> ti, hint |-> h, credential |-> gi]
        /\ conf["r"] = [mode |-> mode, node |-> l, cluster |-> cr, offer |-> or,
                         trusts |-> tr, hint |-> gr, credential |-> gr]
    BY <2>2
  <2>4. conf["i"].mode = mode /\ conf["r"].mode = mode
    BY <2>3
  <2> QED BY <2>2, <2>4
<1>2. step = [s \in Sides |-> step[s]] /\ step["i"] = "dial" /\ step["r"] = "accept"
  <2>1. step = [s \in Sides |-> IF s = "i" THEN "dial" ELSE "accept"]
    BY Zenon DEF HandshakeInit
  <2> QED BY <2>1 DEF Sides
<1>3. /\ wire["i"] = <<>> /\ wire["r"] = <<>> /\ view = [s \in Sides |-> view[s]]
      /\ wire \in [Sides -> Seq({})]
  BY DEF HandshakeInit, Sides
<1>4. Shape
  BY <1>1, <1>2, <1>3 DEF Shape
<1>5. Rests
  BY <1>2 DEF Rests, Done
<1>6. \A s \in Sides : InTurn(s)
  BY <1>2, <1>3 DEF InTurn, Sides, Other, Heard, Told
<1> QED BY <1>4, <1>5, <1>6 DEF HandshakeIInv

-----------------------------------------------------------------------------
\* A step that leaves what the sides keep alone, and one by which a side keeps
\* the other's hello.
LEMMA ViewsKept ==
  ASSUME conf' = conf, view' = view
  PROVE  /\ \A s \in Sides : Known(s)' = Known(s) /\ Hello(s)' = Hello(s) /\ Proof(s)' = Proof(s)
         /\ \A s \in Sides : \A n, m : Said(s, n, m) => Said(s, n, m)'
         /\ Mutual' = Mutual
<1>1. \A s \in Sides : Known(s)' = Known(s) /\ Hello(s)' = Hello(s) /\ Proof(s)' = Proof(s)
  <2> TAKE s \in Sides
  <2>1. Hello(s)' = Hello(s) /\ Hello(Other(s))' = Hello(Other(s)) /\ Seen(s)' = Seen(s)
    BY Zenon DEF Hello, Seen, Transcript
  <2>2. Accepts(s, Hello(Other(s)))' = Accepts(s, Hello(Other(s)))
    BY <2>1, Zenon DEF Accepts
  <2>3. Known(s)' = Known(s)
    BY <2>1, <2>2, Zenon DEF Known
  <2>4. Proof(s)' = Proof(s)
    BY Zenon DEF Proof
  <2> QED BY <2>1, <2>3, <2>4, Zenon
<1> QED BY <1>1 DEF Said, Mutual, Sides

LEMMA ViewSet ==
  ASSUME Shape, NEW s \in Sides, conf' = conf,
         view' = [view EXCEPT ![s] = Seen(s)],
         Accepts(s, Hello(Other(s))), conf["i"].mode = "member" => conf[s].trusts
  PROVE  /\ Known(s)' /\ Other(s) \in Sides /\ view' = [x \in Sides |-> view'[x]]
         /\ Known(Other(s))' = Known(Other(s))
         /\ \A n, m : Said(Other(s), n, m) => Said(Other(s), n, m)'
         /\ \A n, m : n # 2 /\ Said(s, n, m) => Said(s, n, m)'
         /\ \A x \in Sides : Hello(x)' = Hello(x)
         /\ Mutual => Mutual'
<1>1. /\ s # Other(s) /\ Other(s) \in Sides /\ view' = [x \in Sides |-> view'[x]]
      /\ view'[s] = Seen(s) /\ view'[Other(s)] = view[Other(s)]
  BY Zenon DEF Shape, Sides, Other
<1>2. \A x \in Sides : Hello(x)' = Hello(x) /\ Seen(x)' = Seen(x)
                       /\ (Accepts(x, Hello(Other(x)))' = Accepts(x, Hello(Other(x))))
  <2> TAKE x \in Sides
  <2>1. Hello(x)' = Hello(x) /\ Hello(Other(x))' = Hello(Other(x)) /\ Seen(x)' = Seen(x)
    BY Zenon DEF Hello, Seen, Transcript
  <2>2. Accepts(x, Hello(Other(x)))' = Accepts(x, Hello(Other(x)))
    BY <2>1 DEF Accepts
  <2> QED BY <2>1, <2>2
<1>3. Known(s)' /\ Known(Other(s))' = Known(Other(s))
  BY <1>1, <1>2 DEF Known
<1>4. Proof(Other(s))' = Proof(Other(s))
  BY <1>1 DEF Proof
<1>5. ASSUME Mutual PROVE Mutual'
  <2>1. Known("i") /\ Known("r") /\ view'["i"] = view["i"] /\ view'["r"] = view["r"]
    BY <1>1, <1>5 DEF Mutual, Known, Sides
  <2>2. Known("i")' /\ Known("r")'
    BY <1>3, <2>1 DEF Sides, Other
  <2> QED BY <1>5, <2>1, <2>2 DEF Mutual
<1> QED BY <1>1, <1>2, <1>3, <1>4, <1>5 DEF Said

\* The messages to s stay in turn when none of them moves, when one is added and
\* when s reads one.
LEMMA TurnSame ==
  ASSUME NEW s \in Sides, InTurn(s), wire'[Other(s)] = wire[Other(s)],
         Reads(s)' => Reads(s) /\ Heard(s)' = Heard(s),
         Writes(Other(s))' => Writes(Other(s)) /\ Told(Other(s))' = Told(Other(s)),
         \E M : wire[Other(s)] \in Seq(M),
         \A n, m : Reads(s) /\ (Writes(Other(s)) => n <= Told(Other(s))) /\ Said(Other(s), n, m)
                     => Said(Other(s), n, m)'
  PROVE  InTurn(s)'
<1> DEFINE q == wire[Other(s)]
<1>1. Heard(s) \in Nat /\ Told(Other(s)) \in Nat /\ Len(q) \in Nat
  BY DEF Heard, Told
<1>2. Other(s)' = Other(s) /\ q' = q
  BY DEF Other
<1>3. ASSUME Reads(s)', NEW k \in 1 .. Len(q) PROVE Said(Other(s), Heard(s) + k, q[k])'
  <2>1. Said(Other(s), Heard(s) + k, q[k])
    BY <1>3 DEF InTurn
  <2>2. Reads(s) /\ (Writes(Other(s)) => Heard(s) + k <= Told(Other(s)))
    BY <1>1, <1>3 DEF InTurn
  <2> QED BY <1>2, <1>3, <2>1, <2>2 DEF Said
<1> QED BY <1>2, <1>3 DEF InTurn

LEMMA TurnSent ==
  ASSUME NEW s \in Sides, InTurn(s), NEW m, wire'[Other(s)] = Append(wire[Other(s)], m),
         Reads(s)' => Reads(s) /\ Heard(s)' = Heard(s),
         Writes(Other(s)),
         Writes(Other(s))' => Told(Other(s))' = Told(Other(s)) + 1,
         \E M : wire[Other(s)] \in Seq(M),
         \A n : n = Told(Other(s)) + 1 => Said(Other(s), n, m)',
         \A n, x : n <= Told(Other(s)) /\ Said(Other(s), n, x) => Said(Other(s), n, x)'
  PROVE  InTurn(s)'
<1> DEFINE q == wire[Other(s)]
<1>1. PICK M : q \in Seq(M)
  OBVIOUS
<1>2. /\ Other(s)' = Other(s) /\ Len(q) \in Nat /\ Len(q') = Len(q) + 1
      /\ \A k \in 1 .. Len(q) + 1 : q'[k] = IF k = Len(q) + 1 THEN m ELSE q[k]
  BY <1>1, Widened DEF Other
<1>3. Heard(s) \in Nat /\ Told(Other(s)) \in Nat
  BY DEF Heard, Told
<1>4. Reads(s) => Heard(s) + Len(q) = Told(Other(s))
  BY DEF InTurn
<1> HIDE DEF q
<1>5. ASSUME Reads(s)', NEW k \in 1 .. Len(q) + 1 PROVE Said(Other(s), Heard(s) + k, q[k])'
  <2>1. CASE k = Len(q) + 1
    <3>1. q'[k] = m /\ Heard(s)' + k = Told(Other(s)) + 1
      BY <1>2, <1>3, <1>4, <1>5, <2>1
    <3> QED BY <1>2, <3>1 DEF Said
  <2>2. CASE k # Len(q) + 1
    <3>1. k \in 1 .. Len(q) /\ q'[k] = q[k] /\ Heard(s)' = Heard(s) /\ Heard(s) + k <= Told(Other(s))
      BY <1>2, <1>3, <1>4, <1>5, <2>2
    <3>2. Said(Other(s), Heard(s) + k, q[k])
      BY <1>5, <3>1 DEF InTurn, q
    <3> QED BY <1>2, <3>1, <3>2, Zenon DEF Said
  <2> QED BY <2>1, <2>2
<1>6. Reads(s)' /\ Writes(Other(s))' => Heard(s)' + Len(q') = Told(Other(s))'
  BY <1>2, <1>3, <1>4
<1> QED BY <1>2, <1>5, <1>6 DEF InTurn, q

LEMMA TurnRead ==
  ASSUME NEW s \in Sides, InTurn(s), Reads(s), wire'[Other(s)] = Tail(wire[Other(s)]),
         wire[Other(s)] # <<>>,
         Reads(s)' => Heard(s)' = Heard(s) + 1,
         Writes(Other(s))' => Writes(Other(s)) /\ Told(Other(s))' = Told(Other(s)),
         \E M : wire[Other(s)] \in Seq(M),
         \A n, m : Said(Other(s), n, m) => Said(Other(s), n, m)'
  PROVE  InTurn(s)'
<1> DEFINE q == wire[Other(s)]
<1>1. PICK M : q \in Seq(M)
  OBVIOUS
<1>2. /\ Other(s)' = Other(s) /\ Len(q) \in Nat \ {0} /\ Len(q') = Len(q) - 1
      /\ \A k \in 1 .. Len(q) - 1 : q'[k] = q[k + 1]
  BY <1>1, Advanced DEF Other
<1>3. Heard(s) \in Nat
  BY DEF Heard
<1> HIDE DEF q
<1>4. ASSUME Reads(s)', NEW k \in 1 .. Len(q) - 1 PROVE Said(Other(s), Heard(s) + k, q[k])'
  <2>0. k \in Nat /\ Heard(s)' = Heard(s) + 1
    BY <1>4
  <2>1. k + 1 \in 1 .. Len(q) /\ q'[k] = q[k + 1]
    BY <1>2
  <2>3. Heard(s)' + k = Heard(s) + (k + 1)
    BY <1>3, <2>0
  <2>2. Said(Other(s), Heard(s) + (k + 1), q[k + 1])
    BY <2>1 DEF InTurn, q
  <2> QED BY <1>2, <2>1, <2>2, <2>3, Zenon DEF Said
<1>5. ASSUME Reads(s)', Writes(Other(s))' PROVE Heard(s)' + Len(q') = Told(Other(s))'
  <2>1. Heard(s)' = Heard(s) + 1 /\ Heard(s) + Len(q) = Told(Other(s)) /\ Told(Other(s))' = Told(Other(s))
    BY <1>5, Zenon DEF InTurn, q
  <2> QED BY <1>2, <1>3, <2>1
<1> QED BY <1>2, <1>4, <1>5 DEF InTurn, q

-----------------------------------------------------------------------------
\* What moving a side, sending and reading do.
LEMMA Moves ==
  ASSUME Shape, NEW s \in Sides, NEW to, Move(s, to)
  PROVE  step'[s] = to /\ step'[Other(s)] = step[Other(s)] /\ step' = [x \in Sides |-> step'[x]]
BY Zenon DEF Shape, Move, Sides, Other

LEMMA Sends ==
  ASSUME Shape, NEW s \in Sides, NEW m, wire' = [wire EXCEPT ![s] = Append(@, m)]
  PROVE  /\ wire'[s] = Append(wire[s], m) /\ wire'[Other(s)] = wire[Other(s)] /\ wire'[s] # <<>>
         /\ \E M : wire' \in [Sides -> Seq(M)]
<1>1. PICK M : wire \in [Sides -> Seq(M)]
  BY DEF Shape
<1>2. Other(s) \in Sides /\ Other(s) # s
  BY DEF Sides, Other
<1>3. \A x \in Sides : /\ wire[x] \in Seq(M \cup {m}) /\ Append(wire[x], m) \in Seq(M \cup {m})
                       /\ Append(wire[x], m) # <<>>
  BY <1>1, Widened
<1> QED BY <1>1, <1>2, <1>3, Zenon

LEMMA Takes ==
  ASSUME Shape, NEW s \in Sides, wire[Other(s)] # <<>>, wire' = Take(s)
  PROVE  /\ wire'[Other(s)] = Tail(wire[Other(s)]) /\ wire'[s] = wire[s]
         /\ \E M : wire' \in [Sides -> Seq(M)]
<1>1. PICK M : wire \in [Sides -> Seq(M)]
  BY DEF Shape
<1>2. Other(s) \in Sides /\ Other(s) # s
  BY DEF Sides, Other
<1>3. Tail(wire[Other(s)]) \in Seq(M)
  BY <1>1, <1>2, Advanced
<1> QED BY <1>1, <1>2, <1>3 DEF Take

LEMMA Answers ==
  ASSUME Shape, NEW s \in Sides, NEW m, wire[Other(s)] # <<>>,
         wire' = [Take(s) EXCEPT ![s] = Append(@, m)]
  PROVE  /\ wire'[Other(s)] = Tail(wire[Other(s)]) /\ wire'[s] = Append(wire[s], m) /\ wire'[s] # <<>>
         /\ \E M : wire' \in [Sides -> Seq(M)]
<1>1. PICK M : wire \in [Sides -> Seq(M)]
  BY DEF Shape
<1>2. Other(s) \in Sides /\ Other(s) # s
  BY DEF Sides, Other
<1>3. Tail(wire[Other(s)]) \in Seq(M)
  BY <1>1, <1>2, Advanced
<1>4. /\ Tail(wire[Other(s)]) \in Seq(M \cup {m}) /\ Append(wire[s], m) \in Seq(M \cup {m})
      /\ Append(wire[s], m) # <<>>
  BY <1>1, <1>3, Widened
<1>5. Take(s) \in [Sides -> Seq(M)] /\ Take(s)[s] = wire[s] /\ Take(s)[Other(s)] = Tail(wire[Other(s)])
  BY <1>1, <1>2, <1>3 DEF Take
<1>6. wire'[Other(s)] = Tail(wire[Other(s)]) /\ wire'[s] = Append(wire[s], m)
  BY <1>2, <1>5
<1>7. wire' \in [Sides -> Seq(M \cup {m})]
  <2>1. \A x \in Sides : x = s \/ x = Other(s)
    BY DEF Sides, Other
  <2> QED BY <1>4, <1>5, <1>6, <2>1
<1> QED BY <1>4, <1>6, <1>7

\* A side that fails, however it does, keeps the invariant: it claims nothing.
LEMMA FailKeeps ==
  ASSUME HandshakeIInv, NEW s \in Sides, Abandon(s), step[s] \notin Done,
         \/ wire' = wire
         \/ wire[Other(s)] # <<>> /\ wire' = Take(s)
  PROVE  HandshakeIInv'
<1>0. Shape /\ Rests /\ InTurn(s) /\ InTurn(Other(s)) /\ Other(s) \in Sides /\ Other(Other(s)) = s
  BY DEF HandshakeIInv, Sides, Other
<1>1. /\ conf' = conf /\ view' = view /\ step'[s] = "failed" /\ step'[Other(s)] = step[Other(s)]
      /\ step' = [x \in Sides |-> step'[x]]
  BY <1>0, Moves DEF Abandon
<1>2. wire'[s] = wire[s] /\ \E M : wire' \in [Sides -> Seq(M)]
  <2>1. CASE wire' = wire
    BY <1>0, <2>1 DEF Shape
  <2>2. CASE wire[Other(s)] # <<>> /\ wire' = Take(s)
    BY <1>0, <2>2, Takes
  <2> QED BY <2>1, <2>2
<1>3. Shape'
  BY <1>0, <1>1, <1>2 DEF Shape
<1>4. Rests'
  BY <1>0, <1>1, <1>2, ViewsKept DEF Rests, Sides, Other, Done
<1>5. InTurn(s)'
  BY <1>1 DEF InTurn, Reads
<1>6. InTurn(Other(s))'
  <2>1. Reads(Other(s))' = Reads(Other(s)) /\ Heard(Other(s))' = Heard(Other(s)) /\ ~Writes(s)'
    BY <1>1 DEF Reads, Heard, Writes, Sides, Other
  <2>2. \E M : wire[s] \in Seq(M)
    BY <1>0 DEF Shape
  <2> QED BY <1>0, <1>1, <1>2, <2>1, <2>2, ViewsKept, TurnSame, Zenon
<1> QED BY <1>0, <1>3, <1>4, <1>5, <1>6 DEF HandshakeIInv, Sides, Other

-----------------------------------------------------------------------------
\* The facts an action starts from.
LEMMA Starts ==
  ASSUME HandshakeIInv
  PROVE  /\ Shape /\ Rests /\ InTurn("i") /\ InTurn("r")
         /\ "i" \in Sides /\ "r" \in Sides /\ Other("i") = "r" /\ Other("r") = "i"
         /\ \A s \in Sides : \E M : wire[s] \in Seq(M)
BY DEF HandshakeIInv, Shape, Sides, Other

LEMMA Ends ==
  ASSUME Shape', Rests', InTurn("i")', InTurn("r")'
  PROVE  HandshakeIInv'
BY DEF HandshakeIInv, Sides

LEMMA DialKeeps ==
  ASSUME HandshakeIInv, Dial PROVE HandshakeIInv'
<1>0. /\ Shape /\ Rests /\ InTurn("i") /\ InTurn("r")
      /\ "i" \in Sides /\ "r" \in Sides /\ Other("i") = "r" /\ Other("r") = "i"
      /\ \A s \in Sides : \E M : wire[s] \in Seq(M)
  BY Starts
<1>1. CASE ~(conf["i"].mode = "member" => Trusted("i"))
  BY <1>0, <1>1, FailKeeps DEF Dial, Done
<1>2. CASE conf["i"].mode = "member" => Trusted("i")
  <2>1. /\ conf' = conf /\ view' = view /\ step["i"] = "dial"
        /\ Move("i", "hello") /\ wire' = [wire EXCEPT !["i"] = Append(@, Hello("i"))]
        /\ conf["i"].mode = "member" => conf["i"].trusts
    BY <1>2 DEF Dial, Send, Trusted
  <2>2. step'["i"] = "hello" /\ step'["r"] = step["r"] /\ step' = [x \in Sides |-> step'[x]]
    BY <1>0, <2>1, Moves
  <2>3. /\ wire'["i"] = Append(wire["i"], Hello("i")) /\ wire'["r"] = wire["r"] /\ wire'["i"] # <<>>
        /\ \E M : wire' \in [Sides -> Seq(M)]
    BY <1>0, <2>1, Sends, Zenon
  <2>4. Shape'
    BY <1>0, <2>1, <2>2, <2>3 DEF Shape
  <2>5. Rests'
    BY <1>0, <2>1, <2>2, <2>3, ViewsKept DEF Rests, Done
  <2>6. InTurn("i")'
    <3>1. Reads("i") /\ Heard("i")' = Heard("i")
      BY <2>1, <2>2 DEF Reads, Heard
    <3>2. Writes("r")' = Writes("r") /\ Told("r")' = Told("r")
      BY <2>2 DEF Writes, Told
    <3> QED BY <1>0, <2>1, <2>3, <3>1, <3>2, ViewsKept, TurnSame, Zenon
  <2>7. InTurn("r")'
    <3>1. Reads("r")' = Reads("r") /\ Heard("r")' = Heard("r")
      BY <2>2 DEF Reads, Heard
    <3>2. Writes("i") /\ Told("i") = 0 /\ Told("i")' = 1
      BY <2>1, <2>2 DEF Writes, Told
    <3>3. PICK m : m = Hello("i")
      OBVIOUS
    <3>4. \A n : n = Told("i") + 1 => Said("i", n, m)'
      BY <1>0, <2>1, <3>2, <3>3, ViewsKept DEF Said
    <3>5. Told("i")' = Told("i") + 1
      BY <3>2
    <3> QED BY <1>0, <2>1, <2>3, <3>1, <3>2, <3>3, <3>4, <3>5, ViewsKept, TurnSent, Zenon
  <2> QED BY <2>4, <2>5, <2>6, <2>7, Ends, Zenon
<1> QED BY <1>1, <1>2

\* The message a side reads next.
LEMMA NextSaid ==
  ASSUME HandshakeIInv, NEW s \in Sides, Reads(s), wire[Other(s)] # <<>>
  PROVE  Said(Other(s), Heard(s) + 1, Received(s))
<1>1. PICK M : wire[Other(s)] \in Seq(M)
  BY DEF HandshakeIInv, Shape, Sides, Other
<1>2. Received(s) = wire[Other(s)][1] /\ 1 \in 1 .. Len(wire[Other(s)])
  BY <1>1, Advanced DEF Received
<1> QED BY <1>2 DEF HandshakeIInv, InTurn

LEMMA ResponderHelloKeeps ==
  ASSUME HandshakeIInv, ReceiveResponderHello PROVE HandshakeIInv'
<1>0. /\ Shape /\ Rests /\ InTurn("i") /\ InTurn("r")
      /\ "i" \in Sides /\ "r" \in Sides /\ Other("i") = "r" /\ Other("r") = "i"
      /\ \A s \in Sides : \E M : wire[s] \in Seq(M)
  BY Starts
<1>1. /\ step["i"] = "hello" /\ wire["r"] # <<>> /\ wire' = Take("i")
      /\ Reads("i") /\ Heard("i") = 0 /\ Writes("i") /\ Told("i") = 1
  BY <1>0 DEF ReceiveResponderHello, Arrived, Reads, Heard, Writes, Told
<1>2. Received("i") = Hello("r")
  BY <1>0, <1>1, NextSaid DEF Said
<1>3. CASE ~Accepts("i", Received("i"))
  BY <1>0, <1>1, <1>3, FailKeeps DEF ReceiveResponderHello, Done
<1>4. CASE Accepts("i", Received("i"))
  <2>1. /\ conf' = conf /\ Move("i", "proof") /\ view' = [view EXCEPT !["i"] = Seen("i")]
        /\ Accepts("i", Hello("r")) /\ (conf["i"].mode = "member" => conf["i"].trusts)
    <3>1. Received("i").node = conf["r"].node
      BY <1>2 DEF Hello
    <3> QED BY <1>0, <1>1, <1>2, <1>4, <3>1 DEF ReceiveResponderHello, Seen, Rests
  <2>2. step'["i"] = "proof" /\ step'["r"] = step["r"] /\ step' = [x \in Sides |-> step'[x]]
    BY <1>0, <2>1, Moves
  <2>3. /\ wire'["r"] = Tail(wire["r"]) /\ wire'["i"] = wire["i"]
        /\ \E M : wire' \in [Sides -> Seq(M)]
    BY <1>0, <1>1, Takes
  <2>4. /\ Known("i")' /\ view' = [x \in Sides |-> view'[x]] /\ Known("r")' = Known("r")
        /\ \A n, m : Said("r", n, m) => Said("r", n, m)'
        /\ \A n, m : n # 2 /\ Said("i", n, m) => Said("i", n, m)'
        /\ Mutual => Mutual'
    <3>1. /\ Known("i")' /\ view' = [x \in Sides |-> view'[x]] /\ Known(Other("i"))' = Known(Other("i"))
          /\ \A n, m : Said(Other("i"), n, m) => Said(Other("i"), n, m)'
          /\ \A n, m : n # 2 /\ Said("i", n, m) => Said("i", n, m)'
          /\ Mutual => Mutual'
      BY <1>0, <2>1, ViewSet, Zenon
    <3> QED BY <3>1 DEF Other
  <2>5. Shape'
    BY <1>0, <2>1, <2>2, <2>3, <2>4 DEF Shape
  <2>6. Rests'
    BY <1>0, <2>1, <2>2, <2>3, <2>4 DEF Rests, Done
  <2>7. InTurn("i")'
    <3>1. Heard("i")' = Heard("i") + 1 /\ Writes("r")' = Writes("r") /\ Told("r")' = Told("r")
      BY <1>1, <2>2 DEF Heard, Writes, Told
    <3> QED BY <1>0, <1>1, <2>3, <2>4, <3>1, TurnRead, Zenon
  <2>8. InTurn("r")'
    <3>1. Reads("r")' = Reads("r") /\ Heard("r")' = Heard("r") /\ Told("i")' = 1
      BY <2>2 DEF Reads, Heard, Told
    <3>2. \A n, m : Reads("r") /\ (Writes("i") => n <= Told("i")) /\ Said("i", n, m) => Said("i", n, m)'
      BY <1>1, <2>4
    <3> QED BY <1>0, <1>1, <2>3, <3>1, <3>2, TurnSame, Zenon
  <2> QED BY <2>5, <2>6, <2>7, <2>8, Ends, Zenon
<1> QED BY <1>3, <1>4, Zenon

LEMMA ResponderProofKeeps ==
  ASSUME HandshakeIInv, ReceiveResponderProof PROVE HandshakeIInv'
<1>0. /\ Shape /\ Rests /\ InTurn("i") /\ InTurn("r")
      /\ "i" \in Sides /\ "r" \in Sides /\ Other("i") = "r" /\ Other("r") = "i"
      /\ \A s \in Sides : \E M : wire[s] \in Seq(M)
  BY Starts
<1>1. /\ step["i"] = "proof" /\ wire["r"] # <<>>
      /\ Reads("i") /\ Heard("i") = 1 /\ Writes("i") /\ Told("i") = 1
  BY <1>0 DEF ReceiveResponderProof, Arrived, Reads, Heard, Writes, Told
<1>2. Received("i") = Proof("r") /\ Known("r") /\ Known("i")
  BY <1>0, <1>1, NextSaid DEF Said, Rests
<1>3. CASE ~Verifies("i", Received("i"))
  BY <1>0, <1>1, <1>3, FailKeeps DEF ReceiveResponderProof, Done
<1>4. CASE Verifies("i", Received("i"))
  <2>1. /\ conf' = conf /\ Move("i", "confirm") /\ view' = view
        /\ wire' = [Take("i") EXCEPT !["i"] = Append(@, Proof("i"))]
    BY <1>4 DEF ReceiveResponderProof
  <2>2. step'["i"] = "confirm" /\ step'["r"] = step["r"] /\ step' = [x \in Sides |-> step'[x]]
    BY <1>0, <2>1, Moves
  <2>3. /\ wire'["r"] = Tail(wire["r"]) /\ wire'["i"] = Append(wire["i"], Proof("i")) /\ wire'["i"] # <<>>
        /\ \E M : wire' \in [Sides -> Seq(M)]
    BY <1>0, <1>1, <2>1, Answers, Zenon
  <2>4. Mutual
    BY <1>0, <1>2, <1>4 DEF Verifies, Proof, Mutual, Shape
  <2>5. Shape'
    BY <1>0, <2>1, <2>2, <2>3 DEF Shape
  <2>6. Rests'
    BY <1>0, <2>1, <2>2, <2>3, <2>4, ViewsKept DEF Rests, Done
  <2>7. InTurn("i")'
    <3>1. Heard("i")' = Heard("i") + 1 /\ Writes("r")' = Writes("r") /\ Told("r")' = Told("r")
      BY <1>1, <2>2 DEF Heard, Writes, Told
    <3> QED BY <1>0, <1>1, <2>1, <2>3, <3>1, ViewsKept, TurnRead, Zenon
  <2>8. InTurn("r")'
    <3>1. Reads("r")' = Reads("r") /\ Heard("r")' = Heard("r") /\ ~Writes("i")'
      BY <2>2 DEF Reads, Heard, Writes
    <3>2. \A n : n = Told("i") + 1 => Said("i", n, Proof("i"))'
      BY <1>0, <1>1, <1>2, <2>1, ViewsKept DEF Said
    <3> QED BY <1>0, <1>1, <2>1, <2>3, <3>1, <3>2, ViewsKept, TurnSent, Zenon
  <2> QED BY <2>5, <2>6, <2>7, <2>8, Ends, Zenon
<1> QED BY <1>3, <1>4, Zenon

\* The confirmation and the grant are read by an initiator that has verified.
LEMMA InitiatorReads ==
  ASSUME HandshakeIInv, NEW to \in {"grant", "established"}, Move("i", to), wire["r"] # <<>>,
         wire' = Take("i"), conf' = conf, view' = view,
         \/ step["i"] = "confirm"
         \/ step["i"] = "grant" /\ to = "established"
  PROVE  HandshakeIInv'
<1>0. /\ Shape /\ Rests /\ InTurn("i") /\ InTurn("r")
      /\ "i" \in Sides /\ "r" \in Sides /\ Other("i") = "r" /\ Other("r") = "i"
      /\ \A s \in Sides : \E M : wire[s] \in Seq(M)
  BY Starts
<1>1. step'["i"] = to /\ step'["r"] = step["r"] /\ step' = [x \in Sides |-> step'[x]]
  BY <1>0, Moves
<1>2. wire'["r"] = Tail(wire["r"]) /\ wire'["i"] = wire["i"] /\ \E M : wire' \in [Sides -> Seq(M)]
  BY <1>0, Takes
<1>3. Shape'
  BY <1>0, <1>1, <1>2 DEF Shape
<1>4. Rests'
  BY <1>0, <1>1, <1>2, ViewsKept DEF Rests, Done
<1>5. InTurn("i")'
  <2>1. Reads("i") /\ (Reads("i")' => Heard("i")' = Heard("i") + 1)
    BY <1>1 DEF Reads, Heard
  <2>2. Writes("r")' = Writes("r") /\ Told("r")' = Told("r")
    BY <1>1 DEF Writes, Told
  <2> QED BY <1>0, <1>2, <2>1, <2>2, ViewsKept, TurnRead, Zenon
<1>6. InTurn("r")'
  <2>1. Reads("r")' = Reads("r") /\ Heard("r")' = Heard("r") /\ ~Writes("i")'
    BY <1>1 DEF Reads, Heard, Writes
  <2> QED BY <1>0, <1>2, <2>1, ViewsKept, TurnSame, Zenon
<1> QED BY <1>3, <1>4, <1>5, <1>6, Ends, Zenon

LEMMA ConfirmationKeeps == ASSUME HandshakeIInv, ReceiveConfirmation PROVE HandshakeIInv'
<1>0. Other("i") = "r" /\ "i" \in Sides /\ wire["r"] # <<>> /\ step["i"] = "confirm" /\ wire' = Take("i")
  BY DEF ReceiveConfirmation, Arrived, Other, Sides
<1>1. CASE Received("i").selection = view["i"].transcript.selection
  BY <1>0, <1>1, InitiatorReads DEF ReceiveConfirmation
<1>2. CASE Received("i").selection # view["i"].transcript.selection
  BY <1>0, <1>2, FailKeeps DEF ReceiveConfirmation, Done
<1> QED BY <1>1, <1>2

LEMMA GrantKeeps == ASSUME HandshakeIInv, ReceiveGrant PROVE HandshakeIInv'
<1>0. Other("i") = "r" /\ "i" \in Sides /\ wire["r"] # <<>> /\ step["i"] = "grant" /\ wire' = Take("i")
  BY DEF ReceiveGrant, Arrived, Other, Sides
<1>1. CASE Revoked("i")
  BY <1>0, <1>1, FailKeeps DEF ReceiveGrant, Done
<1>2. CASE ~Revoked("i")
  BY <1>0, <1>2, InitiatorReads DEF ReceiveGrant
<1> QED BY <1>1, <1>2

LEMMA PeekKeeps == ASSUME HandshakeIInv, Peek PROVE HandshakeIInv'
<1>0. /\ Shape /\ Rests /\ InTurn("i") /\ InTurn("r")
      /\ "i" \in Sides /\ "r" \in Sides /\ Other("i") = "r" /\ Other("r") = "i"
      /\ \A s \in Sides : \E M : wire[s] \in Seq(M)
  BY Starts
<1>1. /\ step["r"] = "accept" /\ wire["i"] # <<>> /\ wire' = wire
      /\ Reads("r") /\ Heard("r") = 0
  BY <1>0 DEF Peek, Arrived, Reads, Heard
<1>2. Received("r") = Hello("i")
  BY <1>0, <1>1, NextSaid DEF Said
<1>3. CASE Abandon("r")
  BY <1>0, <1>1, <1>3, FailKeeps DEF Done
<1>4. CASE ~Abandon("r")
  <2>1. /\ conf' = conf /\ view' = view /\ Move("r", "checked")
        /\ conf["i"].mode = "member" => conf["r"].trusts
    <3>1. Received("r").mode = conf["i"].mode
      BY <1>2 DEF Hello
    <3> QED BY <1>4, <3>1 DEF Peek, Trusted
  <2>2. step'["r"] = "checked" /\ step'["i"] = step["i"] /\ step' = [x \in Sides |-> step'[x]]
    BY <1>0, <2>1, Moves
  <2>3. Shape'
    BY <1>0, <1>1, <2>1, <2>2 DEF Shape
  <2>4. Rests'
    BY <1>0, <1>1, <2>1, <2>2, ViewsKept DEF Rests, Done
  <2>5. /\ Reads("r")' /\ Heard("r")' = Heard("r") /\ Writes("i")' = Writes("i") /\ Told("i")' = Told("i")
        /\ Reads("i")' = Reads("i") /\ Heard("i")' = Heard("i")
        /\ Writes("r") /\ Told("r")' = Told("r")
    BY <1>1, <2>2 DEF Reads, Heard, Writes, Told
  <2>6. InTurn("i")' /\ InTurn("r")'
    BY <1>0, <1>1, <2>1, <2>5, ViewsKept, TurnSame, Zenon
  <2> QED BY <2>3, <2>4, <2>6, Ends, Zenon
<1> QED BY <1>3, <1>4, Zenon

LEMMA InitiatorHelloKeeps == ASSUME HandshakeIInv, ReceiveInitiatorHello PROVE HandshakeIInv'
<1>0. /\ Shape /\ Rests /\ InTurn("i") /\ InTurn("r")
      /\ "i" \in Sides /\ "r" \in Sides /\ Other("i") = "r" /\ Other("r") = "i"
      /\ \A s \in Sides : \E M : wire[s] \in Seq(M)
  BY Starts
<1>1. /\ step["r"] = "checked" /\ wire["i"] # <<>>
      /\ Reads("r") /\ Heard("r") = 0 /\ Writes("r") /\ Told("r") = 0
  BY <1>0 DEF ReceiveInitiatorHello, Rests, Reads, Heard, Writes, Told
<1>2. Received("r") = Hello("i")
  BY <1>0, <1>1, NextSaid DEF Said
<1>3. CASE ~Accepts("r", Received("r"))
  BY <1>0, <1>1, <1>3, FailKeeps DEF ReceiveInitiatorHello, Done
<1>4. CASE Accepts("r", Received("r"))
  <2>1. /\ conf' = conf /\ Move("r", "sign") /\ view' = [view EXCEPT !["r"] = Seen("r")]
        /\ wire' = [Take("r") EXCEPT !["r"] = Append(@, Hello("r"))]
        /\ Accepts("r", Hello("i")) /\ (conf["i"].mode = "member" => conf["r"].trusts)
    <3>1. Received("r").node = conf["i"].node
      BY <1>2 DEF Hello
    <3> QED BY <1>0, <1>1, <1>2, <1>4, <3>1 DEF ReceiveInitiatorHello, Seen, Rests
  <2>2. step'["r"] = "sign" /\ step'["i"] = step["i"] /\ step' = [x \in Sides |-> step'[x]]
    BY <1>0, <2>1, Moves
  <2>3. /\ wire'["i"] = Tail(wire["i"]) /\ wire'["r"] = Append(wire["r"], Hello("r"))
        /\ \E M : wire' \in [Sides -> Seq(M)]
    BY <1>0, <1>1, <2>1, Answers, Zenon
  <2>4. /\ Known("r")' /\ view' = [x \in Sides |-> view'[x]] /\ Known("i")' = Known("i")
        /\ \A n, m : Said("i", n, m) => Said("i", n, m)'
        /\ \A n, m : n # 2 /\ Said("r", n, m) => Said("r", n, m)'
        /\ Hello("r")' = Hello("r") /\ (Mutual => Mutual')
    <3>1. /\ Known("r")' /\ view' = [x \in Sides |-> view'[x]] /\ Known(Other("r"))' = Known(Other("r"))
          /\ \A n, m : Said(Other("r"), n, m) => Said(Other("r"), n, m)'
          /\ \A n, m : n # 2 /\ Said("r", n, m) => Said("r", n, m)'
          /\ Hello("r")' = Hello("r") /\ (Mutual => Mutual')
      BY <1>0, <2>1, ViewSet, Zenon
    <3> QED BY <3>1 DEF Other
  <2>5. Shape'
    BY <1>0, <2>1, <2>2, <2>3, <2>4 DEF Shape
  <2>6. Rests'
    BY <1>0, <2>1, <2>2, <2>3, <2>4 DEF Rests, Done
  <2>7. InTurn("r")'
    <3>1. Heard("r")' = Heard("r") + 1 /\ Writes("i")' = Writes("i") /\ Told("i")' = Told("i")
      BY <1>1, <2>2 DEF Heard, Writes, Told
    <3> QED BY <1>0, <1>1, <2>3, <2>4, <3>1, TurnRead, Zenon
  <2>8. InTurn("i")'
    <3>1. Reads("i")' = Reads("i") /\ Heard("i")' = Heard("i") /\ Told("r")' = Told("r") + 1
      BY <1>1, <2>2 DEF Reads, Heard, Told
    <3>0. PICK m : m = Hello("r")
      OBVIOUS
    <3>2. \A n : n = Told("r") + 1 => Said("r", n, m)'
      BY <1>1, <2>4, <3>0 DEF Said
    <3>3. \A n, x : n <= Told("r") /\ Said("r", n, x) => Said("r", n, x)'
      BY <1>1, <2>4
    <3> QED BY <1>0, <1>1, <2>3, <3>0, <3>1, <3>2, <3>3, TurnSent, Zenon
  <2> QED BY <2>5, <2>6, <2>7, <2>8, Ends, Zenon
<1> QED BY <1>3, <1>4, Zenon

\* The responder speaks without reading: its proof, and the grant.
LEMMA SendProofKeeps == ASSUME HandshakeIInv, SendProof PROVE HandshakeIInv'
<1>0. /\ Shape /\ Rests /\ InTurn("i") /\ InTurn("r")
      /\ "i" \in Sides /\ "r" \in Sides /\ Other("i") = "r" /\ Other("r") = "i"
      /\ \A s \in Sides : \E M : wire[s] \in Seq(M)
  BY Starts
<1>1. /\ step["r"] = "sign" /\ conf' = conf /\ view' = view /\ Move("r", "await") /\ Known("r")
      /\ wire' = [wire EXCEPT !["r"] = Append(@, Proof("r"))]
  BY <1>0 DEF SendProof, Send, Rests
<1>2. step'["r"] = "await" /\ step'["i"] = step["i"] /\ step' = [x \in Sides |-> step'[x]]
  BY <1>0, <1>1, Moves
<1>3. /\ wire'["r"] = Append(wire["r"], Proof("r")) /\ wire'["i"] = wire["i"]
      /\ \E M : wire' \in [Sides -> Seq(M)]
  BY <1>0, <1>1, Sends, Zenon
<1>4. Shape'
  BY <1>0, <1>1, <1>2, <1>3 DEF Shape
<1>5. Rests'
  BY <1>0, <1>1, <1>2, <1>3, ViewsKept DEF Rests, Done
<1>6. /\ Reads("r") /\ Heard("r")' = Heard("r") /\ Writes("i")' = Writes("i") /\ Told("i")' = Told("i")
      /\ Reads("i")' = Reads("i") /\ Heard("i")' = Heard("i")
      /\ Writes("r") /\ Told("r") = 1 /\ Told("r")' = 2
  BY <1>1, <1>2 DEF Reads, Heard, Writes, Told
<1>7. InTurn("r")'
  BY <1>0, <1>1, <1>3, <1>6, ViewsKept, TurnSame, Zenon
<1>8. InTurn("i")'
  <2>1. PICK m : m = Proof("r")
    OBVIOUS
  <2>2. \A n : n = Told("r") + 1 => Said("r", n, m)'
    BY <1>0, <1>1, <1>6, <2>1, ViewsKept DEF Said
  <2>3. Told("r")' = Told("r") + 1
    BY <1>6
  <2> QED BY <1>0, <1>1, <1>3, <1>6, <2>1, <2>2, <2>3, ViewsKept, TurnSent, Zenon
<1> QED BY <1>4, <1>5, <1>7, <1>8, Ends, Zenon

LEMMA DeliverKeeps == ASSUME HandshakeIInv, DeliverGrant PROVE HandshakeIInv'
<1>0. /\ Shape /\ Rests /\ InTurn("i") /\ InTurn("r")
      /\ "i" \in Sides /\ "r" \in Sides /\ Other("i") = "r" /\ Other("r") = "i"
      /\ \A s \in Sides : \E M : wire[s] \in Seq(M)
  BY Starts
<1>1. /\ step["r"] = "commit" /\ conf' = conf /\ view' = view /\ Move("r", "established")
      /\ wire' = [wire EXCEPT !["r"] = Append(@, Grant)]
  BY DEF DeliverGrant, Send
<1>2. step'["r"] = "established" /\ step'["i"] = step["i"] /\ step' = [x \in Sides |-> step'[x]]
  BY <1>0, <1>1, Moves
<1>3. /\ wire'["r"] = Append(wire["r"], Grant) /\ wire'["i"] = wire["i"]
      /\ \E M : wire' \in [Sides -> Seq(M)]
  BY <1>0, <1>1, Sends, Zenon
<1>4. Shape'
  BY <1>0, <1>1, <1>2, <1>3 DEF Shape
<1>5. Rests'
  BY <1>0, <1>1, <1>2, <1>3, ViewsKept DEF Rests, Done
<1>6. /\ ~Reads("r")' /\ Reads("i")' = Reads("i") /\ Heard("i")' = Heard("i")
      /\ Writes("r") /\ Told("r") = 3 /\ ~Writes("r")'
  BY <1>1, <1>2 DEF Reads, Heard, Writes, Told
<1>7. InTurn("r")'
  BY <1>6 DEF InTurn
<1>8. InTurn("i")'
  <2>1. PICK m : m = Grant
    OBVIOUS
  <2>2. \A n : n = Told("r") + 1 => Said("r", n, m)'
    BY <1>6 DEF Said
  <2> QED BY <1>0, <1>1, <1>3, <1>6, <2>1, <2>2, ViewsKept, TurnSent, Zenon
<1> QED BY <1>4, <1>5, <1>7, <1>8, Ends, Zenon

LEMMA InitiatorProofKeeps == ASSUME HandshakeIInv, ReceiveInitiatorProof PROVE HandshakeIInv'
<1>0. /\ Shape /\ Rests /\ InTurn("i") /\ InTurn("r")
      /\ "i" \in Sides /\ "r" \in Sides /\ Other("i") = "r" /\ Other("r") = "i"
      /\ \A s \in Sides : \E M : wire[s] \in Seq(M)
  BY Starts
<1>1. /\ step["r"] = "await" /\ wire["i"] # <<>>
      /\ Reads("r") /\ Heard("r") = 1 /\ Writes("r") /\ Told("r") = 2
  BY <1>0 DEF ReceiveInitiatorProof, Arrived, Reads, Heard, Writes, Told
<1>2. Received("r") = Proof("i") /\ Known("i") /\ Known("r")
  BY <1>0, <1>1, NextSaid DEF Said, Rests
<1>3. CASE ~Verifies("r", Received("r"))
  BY <1>0, <1>1, <1>3, FailKeeps DEF ReceiveInitiatorProof, Done
<1>4. CASE Verifies("r", Received("r"))
  <2> DEFINE to == IF conf["r"].mode = "join" THEN "commit" ELSE "established"
  <2>1. /\ conf' = conf /\ Move("r", to) /\ view' = view
        /\ wire' = [Take("r") EXCEPT !["r"] = Append(@, Confirmation)]
    BY <1>4 DEF ReceiveInitiatorProof
  <2>2. step'["r"] = to /\ step'["i"] = step["i"] /\ step' = [x \in Sides |-> step'[x]]
    BY <1>0, <2>1, Moves
  <2>3. /\ wire'["i"] = Tail(wire["i"]) /\ wire'["r"] = Append(wire["r"], Confirmation)
        /\ \E M : wire' \in [Sides -> Seq(M)]
    BY <1>0, <1>1, <2>1, Answers
  <2>4. Mutual
    BY <1>0, <1>2, <1>4 DEF Verifies, Proof, Mutual, Shape
  <2>5. Shape'
    BY <1>0, <2>1, <2>2, <2>3 DEF Shape
  <2>6. Rests'
    BY <1>0, <2>1, <2>2, <2>3, <2>4, ViewsKept DEF Rests, Done
  <2>7. InTurn("r")'
    BY <2>2 DEF InTurn, Reads
  <2>8. InTurn("i")'
    <3>1. /\ Reads("i")' = Reads("i") /\ Heard("i")' = Heard("i")
          /\ Writes("r")' => Told("r")' = Told("r") + 1
      BY <1>1, <2>2 DEF Reads, Heard, Writes, Told
    <3>0. PICK m : m = Confirmation
      OBVIOUS
    <3>2. \A n : n = Told("r") + 1 => Said("r", n, m)'
      BY <1>1 DEF Said
    <3> QED BY <1>0, <1>1, <2>1, <2>3, <3>0, <3>1, <3>2, ViewsKept, TurnSent, Zenon
  <2> QED BY <2>5, <2>6, <2>7, <2>8, Ends, Zenon
<1> QED BY <1>3, <1>4, Zenon

\* An authenticated side that serves or is retired stays authenticated.
LEMMA ServedKeeps ==
  ASSUME HandshakeIInv, conf' = conf, view' = view, wire' = wire, NEW s \in Sides, NEW to,
         Move(s, to), to = step[s] \/ (step[s] \in Done /\ to \in Done)
  PROVE  HandshakeIInv'
<1>0. Shape /\ Rests /\ InTurn(s) /\ InTurn(Other(s)) /\ Other(s) \in Sides /\ Other(Other(s)) = s
      /\ \A x \in Sides : \E M : wire[x] \in Seq(M)
  BY DEF HandshakeIInv, Sides, Other, Shape
<1>1. step'[s] = to /\ step'[Other(s)] = step[Other(s)] /\ step' = [x \in Sides |-> step'[x]]
  BY <1>0, Moves
<1>2. Shape'
  BY <1>0, <1>1 DEF Shape
<1>3. Rests'
  BY <1>0, <1>1, ViewsKept DEF Rests, Sides, Other, Done
<1>4. \A x \in Sides : /\ Reads(x)' => Reads(x) /\ Heard(x)' = Heard(x)
                       /\ Writes(x)' => Writes(x) /\ Told(x)' = Told(x)
  BY <1>1 DEF Reads, Heard, Writes, Told, Sides, Other, Done
<1>5. InTurn(s)' /\ InTurn(Other(s))'
  BY <1>0, <1>4, ViewsKept, TurnSame, Zenon
<1> QED BY <1>0, <1>2, <1>3, <1>5 DEF HandshakeIInv, Sides, Other

\* The invariant is inductive.
LEMMA HandshakeInvariance == HandshakeIInv /\ [HandshakeNext]_handshakeVars => HandshakeIInv'
<1> SUFFICES ASSUME HandshakeIInv, [HandshakeNext]_handshakeVars PROVE HandshakeIInv'
  OBVIOUS
<1>1. CASE UNCHANGED handshakeVars
  <2>1. Move("i", step["i"]) /\ conf' = conf /\ view' = view /\ wire' = wire /\ "i" \in Sides
    BY <1>1 DEF handshakeVars, Move, Sides, HandshakeIInv, Shape
  <2> QED BY <2>1, ServedKeeps
<1>2. ASSUME NEW s \in Sides, Closed(s) \/ Interrupt(s) PROVE HandshakeIInv'
  BY <1>2, FailKeeps DEF Closed, Interrupt, Running, Ended, Done
<1>3. ASSUME NEW s \in Sides, Serve(s) PROVE HandshakeIInv'
  BY <1>3, ServedKeeps DEF Serve, Done
<1>4. ASSUME NEW s \in Sides, Revoke(s) PROVE HandshakeIInv'
  <2>1. Move(s, step[s])
    BY <1>4 DEF Revoke, Move, HandshakeIInv, Shape
  <2> QED BY <1>4, <2>1, ServedKeeps DEF Revoke
<1>5. ASSUME NEW s \in Sides, EnforceRevocation(s) PROVE HandshakeIInv'
  BY <1>5, ServedKeeps DEF EnforceRevocation, Done
<1> QED BY <1>1, <1>2, <1>3, <1>4, <1>5, DialKeeps, ResponderHelloKeeps, ResponderProofKeeps,
           ConfirmationKeeps, GrantKeeps, PeekKeeps, InitiatorHelloKeeps, SendProofKeeps,
           InitiatorProofKeeps, DeliverKeeps DEF HandshakeNext, Protocol

\* Agreement holds in every behaviour, whatever the offers, the bindings and the
\* credentials of the two nodes are and whenever either is interrupted or revokes
\* the other (handshake.rs and driver.rs): a side is authenticated only with the
\* node it names, over the transcript that node signed.
THEOREM HandshakeAgreement == HandshakeSpec => []Agreement
<1>1. HandshakeIInv => Agreement
  <2> SUFFICES ASSUME HandshakeIInv, NEW s \in Sides, step[s] \in Done
               PROVE  /\ view["i"].transcript = view["r"].transcript
                      /\ conf["i"].offer.required \cup conf["r"].offer.required
                           \subseteq view[s].transcript.selection
                      /\ IF conf["i"].mode = "join" THEN conf["i"].credential = conf["r"].credential
                         ELSE conf["r"].node = Target /\ conf["i"].trusts /\ conf["r"].trusts
    BY DEF Agreement
  <2>1. Mutual /\ Other(s) \in Sides /\ Known(s)
    BY DEF HandshakeIInv, Rests, Sides, Other, Mutual
  <2>2. conf[s].offer.required \cup conf[Other(s)].offer.required
          \subseteq view[s].transcript.selection
    <3>1. conf[s].offer.required \cup Hello(Other(s)).offer.required
            \subseteq Selection(Builtin, conf[s].offer, Hello(Other(s)).offer)
      BY <2>1, Zenon DEF Known, Accepts, Selects
    <3>2. view[s].transcript.selection = Selection(Builtin, conf[s].offer, Hello(Other(s)).offer)
      BY <2>1 DEF Known, Seen, Transcript
    <3>3. Hello(Other(s)).offer = conf[Other(s)].offer
      BY ZenonT(30) DEF Hello
    <3> QED BY <3>1, <3>2, <3>3, Zenon
  <2>3. conf["i"].mode # "join" => conf["r"].node = Target /\ conf["i"].trusts /\ conf["r"].trusts
    BY <2>1, ZenonT(30) DEF HandshakeIInv, Shape, Mutual, Known, Accepts, Hello, Other
  <2>4. conf["i"].offer.required \cup conf["r"].offer.required
          \subseteq view[s].transcript.selection
    BY <2>2 DEF Sides, Other
  <2> QED BY <2>1, <2>3, <2>4 DEF Mutual
<1> QED BY <1>1, HandshakeInitInv, HandshakeInvariance, PTL DEF HandshakeSpec
=============================================================================
