---------------------------- MODULE RouteEnvelope ----------------------------
(***************************************************************************)
(* The route envelope of one packet on its way through the nodes of a      *)
(* cluster (routing.rs, with the callers in session/forward.rs and         *)
(* session/stream.rs).                                                     *)
(*                                                                         *)
(* The origin sends the packet to a live peer its policy names.  Every     *)
(* node that receives it checks the envelope against the authenticated     *)
(* peer it came from, and either is the destination, or lets its policy    *)
(* name one next hop and forwards, or refuses.  The policies are caller    *)
(* code: they may name any node and need not agree with each other, and    *)
(* sessions come and go while the packet travels.                          *)
(***************************************************************************)
EXTENDS Integers, Sequences, Functions

CONSTANTS
  Members,
  MaxHops  \* bound on the hop budget a caller selects

VARIABLES
  packet,    \* where the packet is: its step, the node that has it, the peer it came from
  envelope,  \* source, destination, current holder, visited chain and remaining hops
  budget,    \* max_hops of the request
  links,     \* the pairs of nodes with a live session
  path       \* every node that has sent the packet, in order

envelopeVars == <<packet, envelope, budget, links, path>>

Pairs == {p \in SUBSET Members : \E n, m \in p : n # m /\ p = {n, m}}

\* RouteContext::new: the source holds the packet and the budget is whole.
NewContext(source, destination, hops) ==
  [source |-> source, destination |-> destination, current |-> source,
   visited |-> <<>>, remaining_hops |-> hops]

EnvelopeInit ==
  /\ links \in SUBSET Pairs
  /\ \E source, destination \in Members, hops \in 0..MaxHops :
       /\ source # destination
       /\ packet = [step |-> "held", at |-> source, from |-> source]
       /\ envelope = NewContext(source, destination, hops)
       /\ budget = hops
       /\ path = <<source>>

Linked(n, m) == {n, m} \in links

Halt(step) == packet' = [packet EXCEPT !.step = step] /\ UNCHANGED <<envelope, path>>

\* send_packet: a direct session is preferred, else the policy names a peer
\* (select_forward_entry); without a live session the route is unavailable.
Originate ==
  /\ packet.step = "held"
  /\ \/ \E hop \in Members :
          /\ Linked(packet.at, hop)
          /\ Linked(packet.at, envelope.destination) => hop = envelope.destination
          /\ packet' = [step |-> "sent", at |-> hop, from |-> packet.at]
          /\ UNCHANGED <<envelope, path>>
     \/ ~Linked(packet.at, envelope.destination) /\ Halt("unavailable")
  /\ UNCHANGED <<budget, links>>

-----------------------------------------------------------------------------
\* RouteContext::receive at packet.at.

\* The receiver is already on the chain, or the chain has a duplicate.
Loops(e, local) ==
  \/ local = e.current
  \/ local \in Range(e.visited)
  \/ ~IsInjective(e.visited)

Misrooted(e) == e.visited # <<>> /\ Head(e.visited) # e.source

\* Mutant: a hop is refused only when it leads back to this node.
RevisitsSelf(e, local, hop) == hop = local

\* The next hop leads back to the chain.
Revisits(e, local, hop) ==
  hop \in {local, e.current, e.source} \cup Range(e.visited)

Checked(e, local, peer) == ~Loops(e, local) /\ ~Misrooted(e) /\ e.current = peer

\* RouteContext::forward: the previous holder joins the chain and the budget
\* decreases once, never below zero.
Forward(e, local) ==
  [e EXCEPT !.visited = Append(@, e.current), !.current = local,
            !.remaining_hops = IF @ = 0 THEN 0 ELSE @ - 1]

\* The destination admits the packet; other nodes never do.
Arrive ==
  /\ packet.step = "sent"
  /\ Checked(envelope, packet.at, packet.from)
  /\ envelope.destination = packet.at
  /\ Halt("arrived")
  /\ UNCHANGED <<budget, links>>

\* A node forwards to the hop its policy names, when a session to it is live.
Relay(hop) ==
  LET local == packet.at
  IN  /\ packet.step = "sent"
      /\ Checked(envelope, local, packet.from)
      /\ envelope.destination # local
      /\ envelope.remaining_hops > 0
      /\ ~Revisits(envelope, local, hop)
      /\ Linked(local, hop)
      /\ envelope' = Forward(envelope, local)
      /\ packet' = [step |-> "sent", at |-> hop, from |-> local]
      /\ path' = Append(path, local)
      /\ UNCHANGED <<budget, links>>

\* The envelope is refused, the budget is spent, or the policy names no hop
\* that may follow and has a session.
Refuse ==
  /\ packet.step = "sent"
  /\ \/ ~Checked(envelope, packet.at, packet.from)
     \/ envelope.destination # packet.at
  /\ Halt("refused")
  /\ UNCHANGED <<budget, links>>

\* A session is established or ends.  A packet on a session that ends is
\* lost; its origin is told (Forwarding).
Change(pair) ==
  /\ links' = IF pair \in links THEN links \ {pair} ELSE links \cup {pair}
  /\ packet' = IF packet.step = "sent" /\ pair = {packet.at, packet.from}
                 THEN [packet EXCEPT !.step = "lost"] ELSE packet
  /\ UNCHANGED <<envelope, budget, path>>

EnvelopeNext ==
  \/ Originate \/ Arrive \/ Refuse
  \/ \E hop \in Members : Relay(hop)
  \/ \E pair \in Pairs : Change(pair)

EnvelopeSpec == EnvelopeInit /\ [][EnvelopeNext]_envelopeVars

-----------------------------------------------------------------------------
\* Properties.

\* The chain the envelope carries is the path the packet really took: no
\* node sends it twice, whatever the policies and the sessions do, and at
\* most one node more than the budget allows ever sends it.
PathIsSimple ==
  /\ IsInjective(path)
  /\ Len(path) <= budget + 1
  /\ packet.step = "sent" => /\ Append(envelope.visited, envelope.current) = path
                             /\ packet.at \notin Range(path)

=============================================================================
