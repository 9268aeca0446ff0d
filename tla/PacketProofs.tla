---------------------------- MODULE PacketProofs ----------------------------
(***************************************************************************)
(* Packets, for any nodes, policies, sessions, traces and queue sizes: no  *)
(* node sends a packet twice.                                              *)
(***************************************************************************)
EXTENDS RouteEnvelope, TLAPS

-----------------------------------------------------------------------------
(***************************************************************************)
(* The route envelope.  While the packet travels its envelope is the path. *)
(***************************************************************************)

\* While the packet travels its envelope is the path, and the hops it has left
\* are what the path has not spent of the budget.
EnvelopeIInv ==
  /\ links \subseteq Pairs
  /\ budget \in Nat /\ path \in Seq(Members) /\ packet.at \in Members
  /\ DOMAIN packet = {"step", "at", "from"}
  /\ envelope \in [source : Members, destination : Members, current : Members,
                   visited : Seq(Members), remaining_hops : Nat]
  /\ PathIsSimple
  /\ packet.step = "held" => /\ envelope.visited = <<>> /\ envelope.current = packet.at
                             /\ path = <<packet.at>>
  /\ packet.step \in {"held", "sent"} => Len(path) + envelope.remaining_hops = budget + 1

\* A path that grows by a node it does not have visits no node twice.
LEMMA SimpleGrows ==
  ASSUME NEW S, NEW p \in Seq(S), NEW n \in S, IsInjective(p), n \notin Range(p)
  PROVE  /\ Append(p, n) \in Seq(S) /\ Len(Append(p, n)) = Len(p) + 1
         /\ IsInjective(Append(p, n))
         /\ Range(Append(p, n)) = Range(p) \cup {n}
<1>1. /\ Append(p, n) \in Seq(S) /\ Len(Append(p, n)) = Len(p) + 1
      /\ \A i \in 1..Len(p) : Append(p, n)[i] = p[i]
      /\ Append(p, n)[Len(p) + 1] = n
  OBVIOUS
<1>2. DOMAIN p = 1..Len(p) /\ DOMAIN Append(p, n) = 1..(Len(p) + 1) /\ Len(p) \in Nat
  OBVIOUS
<1>3. \A i \in DOMAIN p : p[i] # n
  BY DEF Range
<1>4. IsInjective(Append(p, n))
  <2> SUFFICES ASSUME NEW i \in 1..(Len(p) + 1), NEW j \in 1..(Len(p) + 1),
                      Append(p, n)[i] = Append(p, n)[j]
               PROVE  i = j
    BY <1>2 DEF IsInjective
  <2>1. CASE i = Len(p) + 1 \/ j = Len(p) + 1
    BY <1>1, <1>2, <1>3, <2>1
  <2>2. CASE i \in 1..Len(p) /\ j \in 1..Len(p)
    BY <1>1, <1>2, <2>2 DEF IsInjective
  <2> QED BY <1>2, <2>1, <2>2
<1>5. Range(Append(p, n)) = Range(p) \cup {n}
  <2>1. ASSUME NEW x \in Range(Append(p, n)) PROVE x \in Range(p) \cup {n}
    <3>1. PICK i \in 1..(Len(p) + 1) : x = Append(p, n)[i]
      BY <1>2, <2>1 DEF Range
    <3>2. CASE i = Len(p) + 1
      BY <1>1, <3>1, <3>2
    <3>3. CASE i \in 1..Len(p)
      BY <1>1, <1>2, <3>1, <3>3 DEF Range
    <3> QED BY <1>2, <3>2, <3>3
  <2>2. ASSUME NEW x \in Range(p) PROVE x \in Range(Append(p, n))
    <3>1. PICK i \in 1..Len(p) : x = p[i]
      BY <1>2, <2>2 DEF Range
    <3>2. i \in 1..(Len(p) + 1) /\ x = Append(p, n)[i]
      BY <1>1, <1>2, <3>1
    <3> QED BY <1>2, <3>2 DEF Range
  <2>3. n \in Range(Append(p, n))
    BY <1>1, <1>2 DEF Range
  <2> QED BY <2>1, <2>2, <2>3
<1> QED BY <1>1, <1>4, <1>5

\* A session has two ends (Pairs).
LEMMA OtherEnd ==
  ASSUME links \subseteq Pairs, NEW n, NEW m, Linked(n, m) PROVE n # m
<1>1. PICK x \in {n, m}, y \in {n, m} : x # y
  BY DEF Linked, Pairs
<1> QED BY <1>1

LEMMA EnvelopeInitEstablishes == EnvelopeInit => EnvelopeIInv
<1> SUFFICES ASSUME EnvelopeInit PROVE EnvelopeIInv
  OBVIOUS
<1>1. PICK source \in Members, destination \in Members, hops \in 0..MaxHops :
        /\ packet = [step |-> "held", at |-> source, from |-> source]
        /\ envelope = NewContext(source, destination, hops)
        /\ budget = hops /\ path = <<source>>
  BY DEF EnvelopeInit
<1>2. IsInjective(path) /\ path \in Seq(Members) /\ Len(path) = 1
  BY <1>1 DEF IsInjective
<1>3. hops \in Nat /\ <<>> \in Seq(Members)
  BY <1>1
<1> QED BY <1>1, <1>2, <1>3 DEF EnvelopeInit, EnvelopeIInv, PathIsSimple, NewContext

LEMMA OriginateKeeps == EnvelopeIInv /\ Originate => EnvelopeIInv'
<1> SUFFICES ASSUME EnvelopeIInv, Originate PROVE EnvelopeIInv'
  OBVIOUS
<1>1. CASE \E hop \in Members : /\ Linked(packet.at, hop)
                             /\ packet' = [step |-> "sent", at |-> hop, from |-> packet.at]
                             /\ UNCHANGED <<envelope, path>>
  <2>1. PICK hop \in Members : /\ Linked(packet.at, hop)
                            /\ packet' = [step |-> "sent", at |-> hop, from |-> packet.at]
                            /\ UNCHANGED <<envelope, path>>
    BY <1>1
  <2>2. hop # packet.at
    BY <2>1, OtherEnd DEF EnvelopeIInv
  <2>3. path = <<packet.at>> /\ envelope.visited = <<>> /\ envelope.current = packet.at
    BY DEF EnvelopeIInv, Originate
  <2>4. Range(path) = {packet.at} /\ Append(envelope.visited, envelope.current) = path
    BY <2>3 DEF Range
  <2> QED BY <2>1, <2>2, <2>4 DEF EnvelopeIInv, PathIsSimple, Originate
<1>2. CASE Halt("unavailable")
  BY <1>2 DEF Halt, EnvelopeIInv, PathIsSimple, Originate
<1> QED BY <1>1, <1>2 DEF Originate

LEMMA RelayKeeps == ASSUME EnvelopeIInv, NEW hop \in Members, Relay(hop) PROVE EnvelopeIInv'
<1> DEFINE local == packet.at
<1>1. /\ packet.step = "sent" /\ local \in Members /\ local \notin Range(path)
      /\ path = Append(envelope.visited, envelope.current)
      /\ envelope.remaining_hops > 0 /\ ~Revisits(envelope, local, hop)
      /\ envelope' = Forward(envelope, local)
      /\ packet' = [step |-> "sent", at |-> hop, from |-> local]
      /\ path' = Append(path, local)
      /\ UNCHANGED <<budget, links>>
  BY DEF Relay, EnvelopeIInv, PathIsSimple
<1>2. /\ path' \in Seq(Members) /\ Len(path') = Len(path) + 1 /\ IsInjective(path')
      /\ Range(path') = Range(path) \cup {local}
  <2>1. path \in Seq(Members) /\ IsInjective(path)
    BY DEF EnvelopeIInv, PathIsSimple
  <2>2. /\ Append(path, local) \in Seq(Members) /\ Len(Append(path, local)) = Len(path) + 1
        /\ IsInjective(Append(path, local))
        /\ Range(Append(path, local)) = Range(path) \cup {local}
    <3>1. local \in Members /\ local \notin Range(path)
      BY <1>1
    <3> HIDE DEF local
    <3> QED BY <2>1, <3>1, SimpleGrows
  <2>3. path' = Append(path, local)
    BY <1>1
  <2> HIDE DEF local
  <2>4. IsInjective(path') /\ Range(path') = Range(path) \cup {local}
    BY <2>2, <2>3, Zenon
  <2> QED BY <2>2, <2>3, <2>4
<1>3. Range(path) \subseteq Range(envelope.visited) \cup {envelope.current}
  BY <1>1 DEF EnvelopeIInv, Range
<1>4. hop \notin Range(path')
  BY <1>1, <1>2, <1>3 DEF Revisits
<1>5. /\ envelope' \in [source : Members, destination : Members, current : Members,
                        visited : Seq(Members), remaining_hops : Nat]
      /\ envelope'.visited = path /\ envelope'.current = local
      /\ envelope'.remaining_hops = envelope.remaining_hops - 1
  <2>1. envelope \in [source : Members, destination : Members, current : Members,
                      visited : Seq(Members), remaining_hops : Nat]
    BY DEF EnvelopeIInv
  <2>2. envelope' = [envelope EXCEPT !.visited = path, !.current = local,
                                     !.remaining_hops = envelope.remaining_hops - 1]
    <3>1. envelope.remaining_hops # 0
      BY <1>1, <2>1
    <3>2. envelope' = [envelope EXCEPT !.visited = Append(envelope.visited, envelope.current),
                                       !.current = local,
                                       !.remaining_hops = envelope.remaining_hops - 1]
      <4> HIDE DEF local
      <4> QED BY <1>1, <3>1, Zenon DEF Forward
    <3> QED BY <1>1, <3>2, Zenon
  <2>3. path \in Seq(Members) /\ local \in Members /\ envelope.remaining_hops - 1 \in Nat
    BY <1>1, <2>1 DEF EnvelopeIInv
  <2> HIDE DEF local
  <2> QED BY <2>1, <2>2, <2>3, Zenon
<1>6. Append(envelope'.visited, envelope'.current) = path'
  BY <1>1, <1>5
<1>7. Len(path') + envelope'.remaining_hops = budget' + 1 /\ Len(path') <= budget' + 1
  <2>1. /\ budget \in Nat /\ envelope.remaining_hops \in Nat /\ Len(path) \in Nat
        /\ Len(path) + envelope.remaining_hops = budget + 1
    BY <1>1 DEF EnvelopeIInv
  <2>2. /\ Len(path') = Len(path) + 1 /\ budget' = budget
        /\ envelope'.remaining_hops = envelope.remaining_hops - 1 /\ envelope.remaining_hops > 0
    BY <1>1, <1>2, <1>5
  <2> QED BY <2>1, <2>2
<1> QED BY <1>1, <1>2, <1>4, <1>5, <1>6, <1>7 DEF EnvelopeIInv, PathIsSimple

\* PathIsSimple holds in every behaviour, whatever the policies name and however
\* the sessions come and go (RouteContext::receive, RouteContext::forward).
THEOREM PathSimple == EnvelopeSpec => []PathIsSimple
<1>1. EnvelopeIInv /\ [EnvelopeNext]_envelopeVars => EnvelopeIInv'
  <2> SUFFICES ASSUME EnvelopeIInv, [EnvelopeNext]_envelopeVars PROVE EnvelopeIInv'
    OBVIOUS
  <2>1. CASE Arrive \/ Refuse
    BY <2>1 DEF Arrive, Refuse, Halt, EnvelopeIInv, PathIsSimple
  <2>2. ASSUME NEW pair \in Pairs, Change(pair) PROVE EnvelopeIInv'
    BY <2>2 DEF Change, EnvelopeIInv, PathIsSimple
  <2>3. CASE UNCHANGED envelopeVars
    BY <2>3 DEF envelopeVars, EnvelopeIInv, PathIsSimple
  <2> QED BY <2>1, <2>2, <2>3, OriginateKeeps, RelayKeeps DEF EnvelopeNext
<1>2. EnvelopeIInv => PathIsSimple
  BY DEF EnvelopeIInv
<1> QED BY <1>1, <1>2, EnvelopeInitEstablishes, PTL DEF EnvelopeSpec
=============================================================================
