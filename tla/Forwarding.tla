----------------------------- MODULE Forwarding -----------------------------
(***************************************************************************)
(* A node that forwards routed packets (session/forward.rs, with the parts *)
(* of session/stream.rs it meets).                                         *)
(*                                                                         *)
(* Upstream sessions carry the packets of their origins; one downstream    *)
(* session leads to the next hop.  The read loop of an upstream session    *)
(* relays opens, chunks and ends, waiting for room in the downstream queue *)
(* (send_waiting); it is cancelled at that wait when its session ends. The *)
(* wait may yield even when there is room (tokio's cooperative budget).    *)
(* The session's teardown then runs close_for_peer, which ends the hops    *)
(* registered under the same peer.  The relay lock of a hop serialises the *)
(* relays of the reader against the closer.                                *)
(*                                                                         *)
(* An upstream peer's frames are read in order, one trace per packet; the  *)
(* wire between the origin and this node is not modelled.  A status sent   *)
(* upstream (try_send_status) is dropped when that queue is saturated.     *)
(***************************************************************************)
EXTENDS Integers, Sequences, FiniteSets

CONSTANTS
  Traces,         \* the packets routed through this node
  Ups,            \* upstream sessions
  Owner,          \* the session each packet is sent on
  Peer,           \* the authenticated peer of each upstream session
  Replaces,       \* the session a newer one to the same peer replaces, or NoSession
  NoSession,
  NumChunks,      \* chunks of each body
  QueueMessages,  \* capacity of the downstream session queue
  Capacity,       \* forwarding_capacity
  MaxPending      \* MAX_PENDING_ADMISSIONS

ASSUME ForwardingAssumption ==
  /\ Owner \in [Traces -> Ups]
  /\ Replaces \in [Ups -> Ups \cup {NoSession}]
  /\ NoSession \notin Ups
  /\ NumChunks \in [Traces -> Nat]
  /\ {QueueMessages, Capacity, MaxPending} \subseteq Nat \ {0}
  /\ "none" \notin Traces

VARIABLES
  origin,   \* the pump of every packet: its step and the chunks it has sent
  told,     \* the statuses that reached the origin
  up,       \* where run_session of every upstream session is
  reader,   \* what the read loop of every upstream session is doing
  closer,   \* the traces close_for_peer still has to end, per session
  ending,   \* the trace whose end a closer is sending, per session
  hops,     \* the forwarding table: the session each hop came from
  lock,     \* the holder of every hop's relay lock
  down,     \* where run_session of the downstream session is
  open,     \* whether the downstream queue still has its receiver
  pending,  \* the downstream session's Relay entries
  queue,    \* the downstream session queue
  acks,     \* the acknowledgements the next hop has sent
  leg       \* what the next hop has made of every packet

ups == <<up, reader, closer, ending>>
downs == <<down, open, pending, queue, acks, leg>>
vars == <<origin, told, ups, hops, lock, downs>>

None == "none"
Statuses == {"Admitted", "Unsupported", "Overloaded", "Failed"}
Idle == [pc |-> "idle", trace |-> None]

Init ==
  /\ origin = [t \in Traces |-> [pc |-> "new", sent |-> 0]]
  /\ told = [t \in Traces |-> {}]
  /\ up = [s \in Ups |-> IF Replaces[s] = NoSession THEN "serving" ELSE "unused"]
  /\ reader = [s \in Ups |-> Idle]
  /\ closer = [s \in Ups |-> {}]
  /\ ending = [s \in Ups |-> None]
  /\ hops = {}
  /\ lock = [t \in Traces |-> NoSession]
  /\ down = "serving"
  /\ open = TRUE
  /\ pending = {}
  /\ queue = <<>>
  /\ acks = <<>>
  /\ leg = [t \in Traces |-> [open |-> FALSE, got |-> 0, ended |-> FALSE, broken |-> FALSE]]

-----------------------------------------------------------------------------
\* The session queues.

Room == open /\ Len(queue) < QueueMessages

Send(kind, t) ==
  queue' = Append(queue, [kind |-> kind, trace |-> t, sequence |-> origin[t].sent - 1])

\* A status reaches the origin unless the upstream session has ended; a
\* saturated upstream queue drops it.  The origin's pump acts on the first
\* status; a later one only updates its route record.
Hear(o, ts, status) ==
  \E lost \in SUBSET ts :
    LET heard == {t \in ts \ lost : up[Owner[t]] = "serving"}
    IN  /\ told' = [t \in Traces |-> told[t] \cup (IF t \in heard THEN {status} ELSE {})]
        /\ origin' = [t \in Traces |->
             IF t \in heard /\ o[t].pc = "waiting"
               THEN [o[t] EXCEPT !.pc = IF status = "Admitted" THEN "streaming" ELSE "failed"]
               ELSE o[t]]

Tell(ts, status) == Hear(origin, ts, status)

TellNone == UNCHANGED <<told, origin>>

-----------------------------------------------------------------------------
\* The read loop of an upstream session.

Ready(s) == up[s] = "serving" /\ reader[s] = Idle

Do(s, pc, t) == reader' = [reader EXCEPT ![s] = [pc |-> pc, trace |-> t]]

\* open and relay_open up to the wait: a next hop is selected, the envelope
\* validated, the capacity checked and a Relay entry registered downstream.
RelayOpen(t) ==
  LET s == Owner[t]
      waiting == [origin EXCEPT ![t].pc = "waiting"]
      answer(status) == Hear(waiting, {t}, status) /\ UNCHANGED <<reader, pending>>
  IN  /\ Ready(s)
      /\ origin[t].pc = "new"
      /\ \/ answer("Unsupported")  \* the envelope or the selected hop is refused
         \/ Cardinality(hops) >= Capacity /\ answer("Overloaded")
         \/ Cardinality(hops) < Capacity /\ down # "serving" /\ answer("Failed")
         \/ /\ Cardinality(hops) < Capacity /\ down = "serving"
            /\ \/ Cardinality(pending) >= MaxPending /\ answer("Overloaded")
               \/ /\ Cardinality(pending) < MaxPending
                  /\ pending' = pending \cup {t}
                  /\ Do(s, "open", t)
                  /\ origin' = waiting
                  /\ UNCHANGED told
      /\ UNCHANGED <<up, closer, ending, hops, lock, down, open, queue, acks, leg>>

\* The wait of relay_open is over: the open is queued and the hop registered,
\* or the queue is closed.
OpenRelayed(s) ==
  /\ up[s] = "serving"
  /\ reader[s].pc = "open"
  /\ LET t == reader[s].trace
     IN  \/ /\ Room
            /\ Send("Open", t)
            /\ hops' = hops \cup {t}
            /\ TellNone
            /\ UNCHANGED pending
         \/ /\ ~open
            /\ pending' = pending \ {t}
            /\ Tell({t}, "Failed")
            /\ UNCHANGED <<queue, hops>>
  /\ reader' = [reader EXCEPT ![s] = Idle]
  /\ UNCHANGED <<up, closer, ending, lock, down, open, acks, leg>>

\* Mutant: the chunk waits for room without the relay lock.
RelayChunkUnlocked(t) ==
  LET s == Owner[t]
  IN  /\ Ready(s)
      /\ origin[t].pc = "streaming" /\ origin[t].sent < NumChunks[t]
      /\ \/ t \notin hops /\ UNCHANGED reader
         \/ t \in hops /\ Do(s, "chunk", t)
      /\ origin' = [origin EXCEPT ![t].sent = @ + 1]
      /\ UNCHANGED <<told, up, closer, ending, hops, lock, downs>>

\* relay_chunk takes the relay lock and finds the hop still registered.  A
\* chunk of a trace that is no longer forwarded is dropped.
RelayChunk(t) ==
  LET s == Owner[t]
  IN  /\ Ready(s)
      /\ origin[t].pc = "streaming" /\ origin[t].sent < NumChunks[t]
      /\ \/ t \notin hops /\ UNCHANGED <<reader, lock>>
         \/ /\ t \in hops /\ lock[t] = NoSession
            /\ lock' = [lock EXCEPT ![t] = s]
            /\ Do(s, "chunk", t)
      /\ origin' = [origin EXCEPT ![t].sent = @ + 1]
      /\ UNCHANGED <<told, up, closer, ending, hops, downs>>

\* The chunk is queued under the lock, or fail_hop removes the hop.
ChunkRelayed(s) ==
  /\ up[s] = "serving"
  /\ reader[s].pc = "chunk"
  /\ LET t == reader[s].trace
     IN  /\ \/ /\ Room
               /\ Send("Chunk", t)
               /\ TellNone
               /\ UNCHANGED hops
            \/ /\ ~open
               /\ hops' = hops \ {t}
               /\ IF t \in hops THEN Tell({t}, "Failed") ELSE TellNone
               /\ UNCHANGED queue
         /\ lock' = [lock EXCEPT ![t] = NoSession]
  /\ reader' = [reader EXCEPT ![s] = Idle]
  /\ UNCHANGED <<up, closer, ending, down, open, pending, acks, leg>>

\* relay_end removes the hop under the lock, then waits for room.
RelayEnd(t) ==
  LET s == Owner[t]
  IN  /\ Ready(s)
      /\ origin[t].pc = "streaming" /\ origin[t].sent = NumChunks[t]
      /\ \/ t \notin hops /\ UNCHANGED <<reader, hops>>
         \/ /\ t \in hops /\ lock[t] = NoSession
            /\ hops' = hops \ {t}
            /\ Do(s, "end", t)
      /\ origin' = [origin EXCEPT ![t].pc = "done"]
      /\ UNCHANGED <<told, up, closer, ending, lock, downs>>

EndRelayed(s) ==
  /\ up[s] = "serving"
  /\ reader[s].pc = "end"
  /\ LET t == reader[s].trace
     IN  \/ Room /\ Send("End", t) /\ TellNone
         \/ ~open /\ Tell({t}, "Failed") /\ UNCHANGED queue
  /\ reader' = [reader EXCEPT ![s] = Idle]
  /\ UNCHANGED <<up, closer, ending, hops, lock, down, open, pending, acks, leg>>

\* The origin's pump fails in the middle of its body and sends nothing more.
GiveUp(t) ==
  /\ origin[t].pc = "streaming"
  /\ origin' = [origin EXCEPT ![t].pc = "failed"]
  /\ UNCHANGED <<told, ups, hops, lock, downs>>

-----------------------------------------------------------------------------
\* An upstream session is replaced, ends, and closes its hops.

\* A newer session to the same peer is registered.
Register(s) ==
  /\ up[s] = "unused"
  /\ up' = [up EXCEPT ![s] = "serving"]
  /\ UNCHANGED <<origin, told, reader, closer, ending, hops, lock, downs>>

\* run_session leaves its select! (a failure, a shutdown, or the retire signal
\* of the session that replaces it): the read loop is dropped wherever it waits
\* and its relay lock with it.  Every pump of the session fails.
UpEnds(s) ==
  /\ up[s] = "serving"
  /\ up' = [up EXCEPT ![s] = "ended"]
  /\ reader' = [reader EXCEPT ![s] = Idle]
  /\ lock' = [t \in Traces |-> IF lock[t] = s THEN NoSession ELSE lock[t]]
  /\ origin' = [t \in Traces |-> IF Owner[t] = s /\ origin[t].pc # "done"
                                  THEN [origin[t] EXCEPT !.pc = "failed"] ELSE origin[t]]
  /\ UNCHANGED <<told, closer, ending, hops, downs>>

\* Mutant: the filter compares the wrong way round.
FedOthers(s) == {t \in hops : Peer[Owner[t]] # Peer[s]}

\* close_for_peer collects the hops of the session's peer.
Fed(s) == {t \in hops : Peer[Owner[t]] = Peer[s]}

CloseForPeer(s) ==
  /\ up[s] = "ended"
  /\ up' = [up EXCEPT ![s] = "closing"]
  /\ closer' = [closer EXCEPT ![s] = Fed(s)]
  /\ UNCHANGED <<origin, told, reader, ending, hops, lock, downs>>

\* One candidate: wait for its lock, take the hop if it is still there.
CloseTake(s) ==
  /\ up[s] = "closing"
  /\ ending[s] = None
  /\ \E t \in closer[s] :
       /\ t \in hops => lock[t] = NoSession
       /\ hops' = hops \ {t}
       /\ closer' = [closer EXCEPT ![s] = @ \ {t}]
       /\ ending' = [ending EXCEPT ![s] = IF t \in hops THEN t ELSE None]
  /\ UNCHANGED <<origin, told, up, reader, lock, downs>>

CloseSend(s) ==
  /\ ending[s] # None
  /\ \/ Room /\ Send("End", ending[s])
     \/ ~open /\ UNCHANGED queue
  /\ ending' = [ending EXCEPT ![s] = None]
  /\ UNCHANGED <<origin, told, up, reader, closer, hops, lock, down, open, pending, acks, leg>>

-----------------------------------------------------------------------------
\* The downstream session and the next hop behind it.

Live(t) == leg[t].open /\ ~leg[t].broken

\* The next hop reads a frame: it admits or refuses an open, and takes chunks
\* and ends of the streams it admitted.
Deliver ==
  /\ open /\ queue # <<>>
  /\ queue' = Tail(queue)
  /\ LET t == Head(queue).trace
         kind == Head(queue).kind
     IN  \/ /\ kind = "Open"
            /\ \E status \in Statuses :
                 /\ acks' = Append(acks, [trace |-> t, status |-> status])
                 /\ leg' = [leg EXCEPT ![t].open = (status = "Admitted")]
         \/ /\ kind = "Chunk"
            /\ leg' = [leg EXCEPT ![t].got = IF Live(t) THEN @ + 1 ELSE @]
            /\ UNCHANGED acks
         \/ /\ kind = "End"
            /\ leg' = [leg EXCEPT ![t].ended = Live(t) \/ @]
            /\ UNCHANGED acks
  /\ UNCHANGED <<origin, told, ups, hops, lock, down, open, pending>>

\* The next hop loses a stream it admitted and says so (fail_hop there).
Break(t) ==
  /\ down = "serving"
  /\ Live(t) /\ ~leg[t].ended
  /\ leg' = [leg EXCEPT ![t].broken = TRUE]
  /\ acks' = Append(acks, [trace |-> t, status |-> "Failed"])
  /\ UNCHANGED <<origin, told, ups, hops, lock, down, open, pending, queue>>

\* resolve_ack: the status of a Relay entry travels upstream unchanged; one
\* that answers no entry is dropped.
RelayAck ==
  /\ down = "serving"
  /\ acks # <<>>
  /\ acks' = Tail(acks)
  /\ LET ack == Head(acks)
     IN  /\ pending' = pending \ {ack.trace}
         /\ IF ack.trace \in pending THEN Tell({ack.trace}, ack.status) ELSE TellNone
  /\ UNCHANGED <<ups, hops, lock, down, open, queue, leg>>

DownEnds ==
  /\ down = "serving"
  /\ down' = "ended"
  /\ UNCHANGED <<origin, told, ups, hops, lock, open, pending, queue, acks, leg>>

\* The teardown drains the pending map: every relayed open fails upstream.
DownDrain ==
  /\ down = "ended"
  /\ down' = "closed"
  /\ pending' = {}
  /\ Tell(pending, "Failed")
  /\ UNCHANGED <<ups, hops, lock, open, queue, acks, leg>>

DownAbort ==
  /\ down # "serving"
  /\ open
  /\ open' = FALSE
  /\ queue' = <<>>
  /\ UNCHANGED <<origin, told, ups, hops, lock, down, pending, acks, leg>>

-----------------------------------------------------------------------------
RelayNext(t) == RelayOpen(t) \/ RelayChunk(t) \/ RelayEnd(t)
ReaderNext(s) == OpenRelayed(s) \/ ChunkRelayed(s) \/ EndRelayed(s)
CloserNext(s) == CloseForPeer(s) \/ CloseTake(s) \/ CloseSend(s)
DownNext == Deliver \/ RelayAck \/ DownDrain \/ DownAbort

Next ==
  \/ \E t \in Traces : RelayNext(t) \/ GiveUp(t) \/ Break(t)
  \/ \E s \in Ups : ReaderNext(s) \/ CloserNext(s) \/ Register(s) \/ UpEnds(s)
  \/ DownNext \/ DownEnds

Spec == Init /\ [][Next]_vars

\* Every task that can run is polled: the read loops, the closers, and the
\* tasks of the downstream session; the next hop reads what it is sent.
Fairness ==
  /\ \A t \in Traces : WF_vars(RelayNext(t))
  /\ \A s \in Ups : WF_vars(ReaderNext(s)) /\ WF_vars(CloserNext(s))
  /\ WF_vars(Deliver) /\ WF_vars(RelayAck) /\ WF_vars(DownDrain) /\ WF_vars(DownAbort)

FairSpec == Spec /\ Fairness

-----------------------------------------------------------------------------
MaxChunks == CHOOSE n \in {NumChunks[t] : t \in Traces} : \A t \in Traces : NumChunks[t] <= n
Frames == [kind : {"Open", "Chunk", "End"}, trace : Traces, sequence : -1..MaxChunks]

TypeOK ==
  /\ origin \in [Traces -> [pc : {"new", "waiting", "streaming", "done", "failed"}, sent : 0..MaxChunks]]
  /\ told \in [Traces -> SUBSET Statuses]
  /\ up \in [Ups -> {"unused", "serving", "ended", "closing"}]
  /\ reader \in [Ups -> [pc : {"idle", "open", "chunk", "end"}, trace : Traces \cup {None}]]
  /\ closer \in [Ups -> SUBSET Traces]
  /\ ending \in [Ups -> Traces \cup {None}]
  /\ hops \subseteq Traces
  /\ lock \in [Traces -> Ups \cup {NoSession}]
  /\ down \in {"serving", "ended", "closed"}
  /\ open \in BOOLEAN
  /\ pending \subseteq Traces /\ Cardinality(pending) <= MaxPending
  /\ queue \in Seq(Frames) /\ Len(queue) <= QueueMessages
  /\ acks \in Seq([trace : Traces, status : Statuses])
  /\ leg \in [Traces -> [open : BOOLEAN, got : 0..MaxChunks, ended : BOOLEAN, broken : BOOLEAN]]

\* A chunk that reaches the next hop is the one its stream expects, and nothing
\* follows the end: whatever reader or closer is cancelled or races, relaying
\* never makes the next hop close the shared session for a sequence violation
\* (the relay lock of forward.rs).
LegInOrder ==
  queue # <<>> =>
    LET f == Head(queue) IN
      (f.kind # "Open" /\ Live(f.trace)) =>
        /\ ~leg[f.trace].ended
        /\ f.kind = "Chunk" => f.sequence = leg[f.trace].got

\* The closer of an ended session leaves none of its hops behind: a reader
\* that was cancelled while it waited registers no hop after the closer looked.
ClosedLeavesNoHop ==
  \A s \in Ups : (up[s] = "closing" /\ closer[s] = {}) => \A t \in hops : Owner[t] # s

\* A stream that ends cleanly at the next hop carried its whole body.
EndIsWhole == \A t \in Traces : leg[t].ended => leg[t].got = NumChunks[t]

\* A stream the next hop admitted is never left without a hop, a pending end
\* or an end: cancellation cannot orphan it.
NoOrphan ==
  \A t \in Traces : (Live(t) /\ ~leg[t].ended /\ down = "serving") =>
    \/ t \in hops
    \/ \E s \in Ups : ending[s] = t \/ reader[s] = [pc |-> "end", trace |-> t]
    \/ \E i \in DOMAIN queue : queue[i].kind = "End" /\ queue[i].trace = t

\* Only the session that owns a hop closes it.
ClosesItsOwn ==
  [][\A s \in Ups : (ending'[s] # ending[s] /\ ending'[s] # None) => Owner[ending'[s]] = s]_vars

\* At most Capacity routes are forwarded at once.
HopsBounded == Cardinality(hops) <= Capacity

\* The interruption of a stream its origin was told is admitted is reported to
\* that origin, as long as the sessions on both sides are up.
LossReported ==
  \A t \in Traces : (leg[t].broken /\ "Admitted" \in told[t]) ~>
    ("Failed" \in told[t] \/ up[Owner[t]] # "serving" \/ down # "serving")
=============================================================================
