----------------------------- MODULE Handshake -----------------------------
(***************************************************************************)
(* One connection being authenticated: the initiator and the responder of  *)
(* protocol/handshake.rs as session/driver.rs drives them, the feature     *)
(* selection each computes for itself, and a revocation that races them.   *)
(*                                                                         *)
(* Abstractions: a node ID has one key for life and stands for both; the   *)
(* nonces and the channel binding are the connection's own, so a proof is  *)
(* the transcript it covers, its signer and the credential it was made     *)
(* with; a definition digest is the contract a label was registered under. *)
(* Both offers carry the limits of the built-in labels at their defaults,  *)
(* so limits select nothing, and no two built-in labels conflict.  Of the  *)
(* store a side needs the bindings it trusts and the one revocation that   *)
(* can concern this connection; the join credential's states and the       *)
(* admission commit are in Admission.                                      *)
(***************************************************************************)
EXTENDS Naturals, Sequences, FiniteSets

CONSTANTS
  Builtin,       \* labels of FeatureRegistry::builtin
  Session,       \* required_session_features
  Extensions,    \* labels an application may register
  Dependencies,  \* of every label
  Contracts,     \* what an application may register a label as
  Dialer,        \* the initiator's node
  Target,        \* the node it dials
  Listeners,     \* the nodes that may listen at the dialled address
  Clusters,
  Credentials    \* a credential generation, or its secret

\* What the constants are assumed to be.
ASSUME HandshakeAssumption ==
  /\ Session \subseteq Builtin /\ Builtin \cap Extensions = {}
  /\ Dependencies \in [Builtin \cup Extensions -> SUBSET (Builtin \cup Extensions)]
  /\ \A f \in Builtin : Dependencies[f] \subseteq Builtin
  /\ Target \in Listeners /\ Dialer \notin Listeners

VARIABLES
  conf,     \* the HandshakeConfig inputs of each side, and its offer
  step,     \* where each side's driver is
  wire,     \* the messages each side has sent and the other not received
  view,     \* what each side keeps once both hellos are known
  revoked,  \* how far the side's revocation of the other's binding has got
  faulty    \* whether something other than the two configurations interfered

handshakeVars == <<conf, step, wire, view, revoked, faulty>>

Sides == {"i", "r"}
Other(s) == IF s = "i" THEN "r" ELSE "i"

InitiatorSteps == <<"dial", "hello", "proof", "confirm", "grant", "established">>
ResponderSteps == <<"accept", "checked", "sign", "await", "commit", "established">>
Ended == {"serving", "retired", "failed"}
Steps == [i : {InitiatorSteps[n] : n \in 1 .. 6} \cup Ended,
          r : {ResponderSteps[n] : n \in 1 .. 6} \cup Ended]

-----------------------------------------------------------------------------
\* Feature negotiation.

\* node_offer: everything that is registered, at its contract; "builtin" is the
\* one contract of a built-in label.
Offer(ext, required) ==
  [supported |-> [f \in Builtin \cup DOMAIN ext |-> IF f \in Builtin THEN "builtin" ELSE ext[f]],
   required |-> Session \cup required]

\* FeatureRegistry::build: the labels an application may register together with
\* the built-in ones have their dependencies registered too.
Registered ==
  {E \in SUBSET Extensions : \A f \in E : Dependencies[f] \subseteq Builtin \cup E}

Offers ==
  UNION {{Offer(ext, required) : required \in SUBSET DOMAIN ext} :
           ext \in UNION {[E -> Contracts] : E \in Registered}}

Labels(offer) == DOMAIN offer.supported
Common(a, b) == Labels(a) \cap Labels(b)

\* The dependency fixed point; labels the registry does not define are dropped.
Retained(registry, labels) == {f \in labels : f \in registry /\ Dependencies[f] \subseteq labels}
Closure(registry, labels) ==
  LET Round[n \in 0 .. Cardinality(labels)] ==
        IF n = 0 THEN labels ELSE Retained(registry, Round[n - 1])
  IN  Round[Cardinality(labels)]

\* select: the digests of common labels agree, and what either side requires is
\* in the closure.  The driver passes FeatureRegistry::builtin, whose labels every
\* offer carries at the registry's own digest.
Selection(registry, a, b) == Closure(registry, Common(a, b))
Selects(registry, a, b) ==
  /\ \A f \in Common(a, b) : a.supported[f] = b.supported[f]
  /\ a.required \cup b.required \subseteq Selection(registry, a, b)

-----------------------------------------------------------------------------
\* Messages, and what a side makes of the other's hello.

Hello(s) ==
  [kind |-> "Hello", mode |-> conf[s].mode, cluster |-> conf[s].cluster, node |-> conf[s].node,
   offer |-> conf[s].offer,
   generation |-> IF conf[s].mode = "join" THEN conf[s].hint ELSE "none"]
Proof(s) ==
  [kind |-> "Proof", signer |-> conf[s].node, transcript |-> view[s].transcript,
   credential |-> IF conf[s].mode = "join" THEN conf[s].credential ELSE "none"]
Confirmation == [kind |-> "Confirmation", selection |-> view["r"].transcript.selection]
Grant == [kind |-> "Grant"]

NoView == [peer |-> "none"]

\* Mutant: each side puts itself first in the transcript.
TranscriptOwnFirst(s, hello) ==
  [mode |-> conf["i"].mode, cluster |-> conf[s].cluster,
   ends |-> <<conf[s].node, conf[s].offer, hello.node, hello.offer>>,
   selection |-> Selection(Builtin, conf[s].offer, hello.offer)]

\* assemble_transcript: the initiator first, on both sides.
Transcript(s, hello) ==
  [mode |-> conf["i"].mode, cluster |-> conf[s].cluster,
   ends |-> IF s = "i" THEN <<conf[s].node, conf[s].offer, hello.node, hello.offer>>
            ELSE <<hello.node, hello.offer, conf[s].node, conf[s].offer>>,
   selection |-> Selection(Builtin, conf[s].offer, hello.offer)]

\* Mutant: the peer's identity is not compared with the one that was dialled.
AcceptsAnyone(s, hello) ==
  /\ hello.cluster = conf[s].cluster /\ hello.node # conf[s].node
  /\ Selects(Builtin, conf[s].offer, hello.offer)

\* accept_peer_hello and finalize_hellos; in member mode the initiator expects
\* the node it dials, the responder the one whose binding it has looked up.
Accepts(s, hello) ==
  /\ hello.cluster = conf[s].cluster /\ hello.node # conf[s].node
  /\ s = "i" /\ conf[s].mode = "member" => hello.node = Target
  /\ Selects(Builtin, conf[s].offer, hello.offer)

\* receive_proof: the credential proof in join mode and the identity signature.
Verifies(s, proof) ==
  /\ proof.signer = view[s].peer /\ proof.transcript = view[s].transcript
  /\ conf["i"].mode = "join" => proof.credential = conf[s].credential

-----------------------------------------------------------------------------
Configurations ==
  {[i |-> [mode |-> mode, node |-> Dialer, cluster |-> ci, offer |-> oi, trusts |-> ti, hint |-> h, credential |-> gi],
    r |-> [mode |-> mode, node |-> l, cluster |-> cr, offer |-> or, trusts |-> tr, hint |-> gr, credential |-> gr]] :
     mode \in {"join", "member"}, l \in Listeners, ci \in Clusters, cr \in Clusters,
     oi \in Offers, or \in Offers, ti \in BOOLEAN, tr \in BOOLEAN,
     h \in Credentials, gi \in Credentials, gr \in Credentials}

\* The responder takes the mode from the hello, so both have one.
\* A joiner and its receiver have no bindings of each other yet; members use no
\* hint and no credential.
HandshakeInit ==
  /\ conf \in {k \in Configurations :
                 IF k.i.mode = "join" THEN ~k.i.trusts /\ ~k.r.trusts
                 ELSE k.i.credential = k.r.credential /\ k.i.hint = k.r.hint}
  /\ step = [s \in Sides |-> IF s = "i" THEN "dial" ELSE "accept"]
  /\ wire = [s \in Sides |-> <<>>]
  /\ view = [s \in Sides |-> NoView]
  /\ revoked = [s \in Sides |-> "no"]
  /\ faulty = FALSE

Running(s) == step[s] \notin Ended \cup {"established"}
Move(s, to) == step' = [step EXCEPT ![s] = to]
Send(s, message) == wire' = [wire EXCEPT ![s] = Append(@, message)]
Arrived(s) == wire[Other(s)] # <<>>
Received(s) == Head(wire[Other(s)])
Take(s) == [wire EXCEPT ![Other(s)] = Tail(@)]

Revoked(s) == revoked[s] # "no"

\* trusted_binding: the peer has a binding and it is not revoked.
Trusted(s) == conf[s].trusts /\ ~Revoked(s)

\* The side gives up: it reads and sends nothing more.
Abandon(s) == Move(s, "failed") /\ UNCHANGED <<conf, view, revoked>>

-----------------------------------------------------------------------------
\* The initiator: join_inner and member_inner.

\* In member mode the peer's binding is trusted.
Dial ==
  /\ step["i"] = "dial"
  /\ IF conf["i"].mode = "member" => Trusted("i")
     THEN /\ Send("i", Hello("i")) /\ Move("i", "hello")
          /\ UNCHANGED <<conf, view, revoked, faulty>>
     ELSE Abandon("i") /\ UNCHANGED <<wire, faulty>>

ReceiveResponderHello ==
  /\ step["i"] = "hello" /\ Arrived("i")
  /\ wire' = Take("i")
  /\ IF Accepts("i", Received("i"))
     THEN /\ Move("i", "proof")
          /\ view' = [view EXCEPT !["i"] = [peer |-> Received("i").node,
                                           transcript |-> Transcript("i", Received("i"))]]
          /\ UNCHANGED <<conf, revoked>>
     ELSE Abandon("i")
  /\ UNCHANGED faulty

\* The initiator signs only after the responder's proof verifies.
ReceiveResponderProof ==
  /\ step["i"] = "proof" /\ Arrived("i")
  /\ IF Verifies("i", Received("i"))
     THEN /\ wire' = [Take("i") EXCEPT !["i"] = Append(@, Proof("i"))]
          /\ Move("i", "confirm")
          /\ UNCHANGED <<conf, view, revoked>>
     ELSE wire' = Take("i") /\ Abandon("i")
  /\ UNCHANGED faulty

ReceiveConfirmation ==
  /\ step["i"] = "confirm" /\ Arrived("i")
  /\ wire' = Take("i")
  /\ IF Received("i").selection = view["i"].transcript.selection
     THEN /\ Move("i", IF conf["i"].mode = "join" THEN "grant" ELSE "established")
          /\ UNCHANGED <<conf, view, revoked>>
     ELSE Abandon("i")
  /\ UNCHANGED faulty

\* The grant is checked against the session, and its issuer against the
\* revocations, before it is adopted.
ReceiveGrant ==
  /\ step["i"] = "grant" /\ Arrived("i")
  /\ wire' = Take("i")
  /\ IF Revoked("i") THEN Abandon("i")
     ELSE Move("i", "established") /\ UNCHANGED <<conf, view, revoked>>
  /\ UNCHANGED faulty

-----------------------------------------------------------------------------
\* The responder: respond_inner.

\* The hello is peeked: the cluster, a revocation, and the generation or the
\* binding are checked before anything is signed.
Peek ==
  /\ step["r"] = "accept" /\ Arrived("r")
  /\ LET hello == Received("r") IN
       IF /\ hello.cluster = conf["r"].cluster
          /\ ~Revoked("r")
          /\ IF hello.mode = "join" THEN hello.generation = conf["r"].credential ELSE Trusted("r")
       THEN Move("r", "checked") /\ UNCHANGED <<conf, view, revoked>>
       ELSE Abandon("r")
  /\ UNCHANGED <<wire, faulty>>

\* The state machine receives the same bytes, and the responder's hello is sent.
ReceiveInitiatorHello ==
  /\ step["r"] = "checked"
  /\ LET hello == Received("r") IN
       IF Accepts("r", hello)
       THEN /\ view' = [view EXCEPT !["r"] = [peer |-> hello.node, transcript |-> Transcript("r", hello)]]
            /\ wire' = [Take("r") EXCEPT !["r"] = Append(@, Hello("r"))]
            /\ Move("r", "sign")
            /\ UNCHANGED <<conf, revoked>>
       ELSE wire' = Take("r") /\ Abandon("r")
  /\ UNCHANGED faulty

SendProof ==
  /\ step["r"] = "sign"
  /\ Send("r", Proof("r")) /\ Move("r", "await")
  /\ UNCHANGED <<conf, view, revoked, faulty>>

\* The initiator's proof verifies and the selection is confirmed.
ReceiveInitiatorProof ==
  /\ step["r"] = "await" /\ Arrived("r")
  /\ IF Verifies("r", Received("r"))
     THEN /\ wire' = [Take("r") EXCEPT !["r"] = Append(@, Confirmation)]
          /\ Move("r", IF conf["r"].mode = "join" THEN "commit" ELSE "established")
          /\ UNCHANGED <<conf, view, revoked>>
     ELSE wire' = Take("r") /\ Abandon("r")
  /\ UNCHANGED faulty

\* commit_and_deliver; that the commit may fail is an interruption.
DeliverGrant ==
  /\ step["r"] = "commit"
  /\ Send("r", Grant) /\ Move("r", "established")
  /\ UNCHANGED <<conf, view, revoked, faulty>>

-----------------------------------------------------------------------------
\* Either side.

\* receive_kind on a connection the other side has given up.
Closed(s) ==
  /\ Running(s) /\ step[s] \notin {"dial", "checked", "sign", "commit"} /\ ~Arrived(s)
  /\ step[Other(s)] \in {"failed", "retired"}
  /\ Abandon(s) /\ UNCHANGED <<wire, faulty>>

\* The authentication deadline, a reset, the admission limiter, a frozen store
\* or a provider's failure ends the attempt at any point.
Interrupt(s) ==
  /\ Running(s)
  /\ Abandon(s) /\ faulty' = TRUE /\ UNCHANGED wire

\* run_session registers the established session.
Serve(s) ==
  /\ step[s] = "established"
  /\ Move(s, "serving") /\ UNCHANGED <<conf, wire, view, revoked, faulty>>

\* revoke_node: the revocation of a trusted binding is committed; then, if the
\* outcome is known, the session in the table, if there is one, is retired.
Revoke(s) ==
  /\ conf[s].trusts /\ revoked[s] = "no"
  /\ revoked' = [revoked EXCEPT ![s] = "committed"]
  /\ faulty' = TRUE
  /\ UNCHANGED <<conf, step, wire, view>>

EnforceRevocation(s) ==
  /\ revoked[s] = "committed"
  /\ revoked' = [revoked EXCEPT ![s] = "enforced"]
  /\ Move(s, IF step[s] = "serving" THEN "retired" ELSE step[s])
  /\ UNCHANGED <<conf, wire, view, faulty>>

Protocol(s) ==
  \/ Closed(s) \/ Serve(s)
  \/ s = "i" /\ (\/ Dial \/ ReceiveResponderHello \/ ReceiveResponderProof
                 \/ ReceiveConfirmation \/ ReceiveGrant)
  \/ s = "r" /\ (\/ Peek \/ ReceiveInitiatorHello \/ SendProof
                 \/ ReceiveInitiatorProof \/ DeliverGrant)

HandshakeNext == \E s \in Sides : Protocol(s) \/ Interrupt(s) \/ Revoke(s) \/ EnforceRevocation(s)

HandshakeSpec == HandshakeInit /\ [][HandshakeNext]_handshakeVars

\* Each side's task is scheduled; nothing is assumed of interruptions.
HandshakeFairSpec == HandshakeSpec /\ \A s \in Sides : WF_handshakeVars(Protocol(s))

-----------------------------------------------------------------------------
\* Every variable has its type.
HandshakeTypeOK ==
  /\ conf \in Configurations
  /\ step \in Steps
  /\ \A s \in Sides : Len(wire[s]) <= 3 /\ (view[s] # NoView => view[s].peer = conf[Other(s)].node)
  /\ revoked \in [Sides -> {"no", "committed", "enforced"}]
  /\ faulty \in BOOLEAN

Done == {"established", "serving", "retired"}

\* A side that is authenticated shares one transcript with the other: the same
\* mode, cluster, identities, offers and selection, which holds what either
\* requires.  In member mode the dialled node answered and each has the other's
\* binding, in join mode both have the same credential; whatever was interrupted.
Agreement ==
  \A s \in Sides : step[s] \in Done =>
    /\ view["i"].transcript = view["r"].transcript
    /\ conf["i"].offer.required \cup conf["r"].offer.required \subseteq view[s].transcript.selection
    /\ IF conf["i"].mode = "join" THEN conf["i"].credential = conf["r"].credential
       ELSE conf["r"].node = Target /\ conf["i"].trusts /\ conf["r"].trusts

\* What two nodes must have in common to connect, told without the protocol.
Compatible(known) ==
  LET a == conf["i"]
      b == conf["r"]
  IN  /\ a.cluster = b.cluster
      /\ IF a.mode = "join" THEN a.hint = b.credential /\ a.credential = b.credential
         ELSE a.trusts /\ b.trusts /\ b.node = Target
      /\ \A f \in Common(a.offer, b.offer) : a.offer.supported[f] = b.offer.supported[f]
      /\ a.offer.required \cup b.offer.required \subseteq known

\* The protocol refuses nobody it should not: two compatible nodes of which
\* neither requires an extension label connect, unless they are interrupted.
CompatibleConnect ==
  Compatible(Builtin) ~> (step["i"] = "serving" /\ step["r"] = "serving") \/ faulty

\* "its exact digest is offered and intersected at handshake time"
\* (extension_registry.rs:75): a label that both registered under one contract
\* may be required.
RequiredExtensionConnects ==
  Compatible(Common(conf["i"].offer, conf["r"].offer))
    ~> (step["i"] = "serving" /\ step["r"] = "serving") \/ faulty

\* "closes the revoked identity's sessions, rejects its new sessions"
\* (revocation.rs:6): no session with a revoked node is served once revoke_node
\* has returned.
RevokedNotServed == \A s \in Sides : revoked[s] = "enforced" => step[s] # "serving"
=============================================================================
