--------------------------- MODULE PacketSession ---------------------------
(***************************************************************************)
(* Packets sent over one established session (session/stream.rs,          *)
(* packet/mod.rs).                                                         *)
(*                                                                         *)
(* Side "o" originates: one pump task (run_outbound) per packet checks     *)
(* that the session is alive, registers a pending admission, queues the    *)
(* open frame, waits for the acknowledgement and then queues chunks and    *)
(* the end frame.  Side "d" receives: its read loop admits opens, feeds    *)
(* chunks to the consumer's bounded channel and acknowledges.  Each side   *)
(* runs run_session: a writer task that drains a bounded frame queue, and  *)
(* a teardown that runs concurrently with the pumps (the runtime is multi- *)
(* threaded, so a pump may be preempted between any two of its steps).     *)
(*                                                                         *)
(* The wire is a reliable FIFO per direction until one side closes; the    *)
(* frames still in it may then be read or lost.                            *)
(***************************************************************************)
EXTENDS Integers, Sequences, FiniteSets

CONSTANTS
  Traces,             \* the packets the origin sends, one trace ID each
  Unsupported,        \* those whose protocol the destination does not serve
  NumChunks,          \* the chunks of a body
  QueueMessages,      \* SessionPolicy.queue_messages
  PendingAdmissions,  \* SessionPolicy.pending_admissions
  StreamChunks,       \* INCOMING_STREAM_CHUNKS
  WireFrames          \* frames one direction of the connection holds

ASSUME SessionAssumption ==
  /\ Unsupported \subseteq Traces
  /\ NumChunks \in Nat
  /\ {QueueMessages, PendingAdmissions, StreamChunks, WireFrames} \subseteq Nat \ {0}

VARIABLES
  pump,      \* the outbound task of every packet: its step and next sequence
  caller,    \* what the synchronous sender was told
  route,     \* the state of the packet's route record
  pending,   \* the origin session's pending_acks map (Wait entries)
  ack,       \* the value in the oneshot channel a pump waits on
  alive,     \* the alive flag of the origin's session entry
  retiring,  \* where the retire call on that entry is, if another task made one
  ses,       \* where run_session is, on each side
  rx,        \* whether the writer still holds the queue's receiver
  queue,     \* the frames admitted to each side's session queue
  wire,      \* the frames each side has written and the other not yet read
  incoming,  \* next_sequence of every admitted stream, Absent if none
  stream,    \* the items in the body channel of every admitted stream
  consumer,  \* the task that consumes the packet
  got        \* the chunks the consumer has taken

origin == <<pump, caller, route, pending, ack, alive, retiring>>
dest == <<incoming, stream, consumer, got>>
net == <<ses, rx, queue, wire>>
vars == <<origin, dest, net>>

Sides == {"o", "d"}
Other(s) == IF s = "o" THEN "d" ELSE "o"
Absent == -1
None == "none"

PumpSteps == {"start", "checked", "registered", "waiting", "streaming", "done"}
SessionSteps == {"serving", "down", "aborting", "draining", "closed"}
ConsumerSteps == {None, "running", "cancelled", "ended", "interrupted", "aborted", "stopped"}
Outcomes == {"Admitted", "Unsupported", "Overloaded", "StreamInterrupted", "Invalid"}
Routes == {"Routing", "Streaming", "Delivered", "Failed"}

Open(t) == [kind |-> "Open", trace |-> t]
Chunk(t, n) == [kind |-> "Chunk", trace |-> t, sequence |-> n]
End(t) == [kind |-> "End", trace |-> t]
Ack(t, status) == [kind |-> "Ack", trace |-> t, status |-> status]

Frames == {Open(t) : t \in Traces} \cup {End(t) : t \in Traces}
            \cup {Chunk(t, n) : t \in Traces, n \in 0..NumChunks}
            \cup {Ack(t, s) : t \in Traces, s \in Outcomes}

Init ==
  /\ pump = [t \in Traces |-> [pc |-> "start", seq |-> 0]]
  /\ caller = [t \in Traces |-> None]
  /\ route = [t \in Traces |-> "Routing"]
  /\ pending = {}
  /\ ack = [t \in Traces |-> None]
  /\ alive = TRUE
  /\ retiring = "no"
  /\ ses = [s \in Sides |-> "serving"]
  /\ rx = [s \in Sides |-> TRUE]
  /\ queue = [s \in Sides |-> <<>>]
  /\ wire = [s \in Sides |-> <<>>]
  /\ incoming = [t \in Traces |-> Absent]
  /\ stream = [t \in Traces |-> <<>>]
  /\ consumer = [t \in Traces |-> None]
  /\ got = [t \in Traces |-> 0]

-----------------------------------------------------------------------------
\* The session queue: BoundedSender::send admits a frame or fails at once,
\* whether the queue is full or its receiver is gone.
Admits(s) == rx[s] /\ Len(queue[s]) < QueueMessages

Enqueue(s, f) == queue' = [queue EXCEPT ![s] = Append(@, f)]

-----------------------------------------------------------------------------
\* The pump: run_outbound, one step between two points where another thread
\* can change what it reads.

\* terminal!: the route record fails unless it already has.
Fail(t) ==
  /\ pump' = [pump EXCEPT ![t] = [pc |-> "done", seq |-> 0]]
  /\ route' = [route EXCEPT ![t] = "Failed"]

Reject(t, kind) == Fail(t) /\ caller' = [caller EXCEPT ![t] = kind]

GoTo(t, pc) == pump' = [pump EXCEPT ![t].pc = pc]

CheckAlive(t) ==
  /\ pump[t].pc = "start"
  /\ IF alive THEN GoTo(t, "checked") /\ UNCHANGED <<caller, route>>
              ELSE Reject(t, "StreamInterrupted")
  /\ UNCHANGED <<pending, ack, alive, retiring, dest, net>>

Register(t) ==
  /\ pump[t].pc = "checked"
  /\ \/ /\ Cardinality(pending) < PendingAdmissions
        /\ pending' = pending \cup {t}
        /\ GoTo(t, "registered")
        /\ UNCHANGED <<caller, route>>
     \/ /\ Cardinality(pending) >= PendingAdmissions
        /\ Reject(t, "Overloaded")
        /\ UNCHANGED pending
  /\ UNCHANGED <<ack, alive, retiring, dest, net>>

\* The open frame is queued, or the admission is withdrawn: the frame did not
\* encode, or the queue refused it.
SendOpen(t) ==
  /\ pump[t].pc = "registered"
  /\ \/ /\ Admits("o")
        /\ Enqueue("o", Open(t))
        /\ GoTo(t, "waiting")
        /\ UNCHANGED <<caller, route, pending>>
     \/ /\ \E kind \in {"Invalid"} \cup (IF Admits("o") THEN {} ELSE {"StreamInterrupted"}) :
             Reject(t, kind)
        /\ pending' = pending \ {t}
        /\ UNCHANGED queue
  /\ UNCHANGED <<ack, alive, retiring, dest, ses, rx, wire>>

Acknowledged(t) ==
  /\ pump[t].pc = "waiting"
  /\ ack[t] # None
  /\ caller' = [caller EXCEPT ![t] = ack[t]]
  /\ IF ack[t] = "Admitted"
       THEN GoTo(t, "streaming") /\ route' = [route EXCEPT ![t] = "Streaming"]
       ELSE Fail(t)
  /\ ack' = [ack EXCEPT ![t] = None]
  /\ UNCHANGED <<pending, alive, retiring, dest, net>>

\* The next chunk of the body is queued; a body that fails, a chunk that is
\* too large and a queue that refuses the frame end the pump without an end
\* frame.
SendChunk(t) ==
  /\ pump[t].pc = "streaming"
  /\ pump[t].seq < NumChunks
  /\ \/ /\ Admits("o")
        /\ Enqueue("o", Chunk(t, pump[t].seq))
        /\ pump' = [pump EXCEPT ![t].seq = @ + 1]
        /\ UNCHANGED route
     \/ Fail(t) /\ UNCHANGED queue
  /\ UNCHANGED <<caller, pending, ack, alive, retiring, dest, ses, rx, wire>>


SendEnd(t) ==
  /\ pump[t].pc = "streaming"
  /\ pump[t].seq = NumChunks
  /\ IF Admits("o")
       THEN /\ Enqueue("o", End(t))
            /\ pump' = [pump EXCEPT ![t] = [pc |-> "done", seq |-> 0]]
            /\ route' = [route EXCEPT ![t] = "Delivered"]
       ELSE Fail(t) /\ UNCHANGED queue
  /\ UNCHANGED <<caller, pending, ack, alive, retiring, dest, ses, rx, wire>>

-----------------------------------------------------------------------------
\* run_session: the writer, the teardown, and the retirement of a replaced
\* session.

\* run_writer: recv releases the frame's reservation and the frame is written.
\* What no reader will take any more is not kept.
Write(s) ==
  /\ rx[s]
  /\ queue[s] # <<>>
  /\ Len(wire[s]) < WireFrames
  /\ queue' = [queue EXCEPT ![s] = Tail(@)]
  /\ wire' = [wire EXCEPT ![s] = IF ses[Other(s)] = "serving" THEN Append(@, Head(queue[s])) ELSE <<>>]
  /\ UNCHANGED <<origin, dest, ses, rx>>

\* The select! of run_session ends.  The read loop's future is dropped: its
\* body channels close and its JoinSet aborts the consumers; one that is being
\* polled meanwhile may run to its next await before it is cancelled.  The
\* destination's own flag and map are empty of packets, so nothing tells apart
\* the steps of its teardown up to the abort of the writer.
Leave(s) ==
  /\ ses' = [ses EXCEPT ![s] = IF s = "o" THEN "down" ELSE "draining"]
  /\ wire' = [wire EXCEPT ![Other(s)] = <<>>]
  /\ IF s = "d"
       THEN /\ \E busy \in SUBSET {t \in Traces : consumer[t] = "running"} :
                 consumer' = [t \in Traces |->
                   IF consumer[t] # "running" THEN consumer[t]
                   ELSE IF t \in busy THEN "cancelled" ELSE "aborted"]
            /\ incoming' = [t \in Traces |-> Absent]
            /\ stream' = [t \in Traces |-> IF consumer'[t] = "cancelled" THEN stream[t] ELSE <<>>]
            /\ UNCHANGED got
       ELSE UNCHANGED dest

\* The reader fails, the node shuts down, or the liveness policy closes the
\* session.
Interrupt(s) ==
  /\ ses[s] = "serving"
  /\ Leave(s)
  /\ UNCHANGED <<origin, rx, queue>>

\* The reader sees the end of a connection the other side has dropped; the
\* frames still in it may be lost.
PeerClosed(s) ==
  /\ ses[Other(s)] = "closed"
  /\ ~rx[Other(s)]
  /\ ses[s] = "serving"
  /\ Leave(s)
  /\ UNCHANGED <<origin, rx, queue>>

\* The writer fails on its connection; its end tears the session down.
WriterFails(s) ==
  /\ ses[s] = "serving"
  /\ rx[s]
  /\ rx' = [rx EXCEPT ![s] = FALSE]
  /\ queue' = [queue EXCEPT ![s] = <<>>]
  /\ Leave(s)
  /\ UNCHANGED origin

\* alive.store(false), then the table entry is removed.
MarkDead ==
  /\ ses["o"] = "down"
  /\ ses' = [ses EXCEPT !["o"] = "aborting"]
  /\ alive' = FALSE
  /\ UNCHANGED <<pump, caller, route, pending, ack, retiring, dest, rx, queue, wire>>

\* writer_task.abort() only asks: the task drops its receiver when the
\* runtime next runs it (AbortWriter).
RequestAbort ==
  /\ ses["o"] = "aborting"
  /\ ses' = [ses EXCEPT !["o"] = "draining"]
  /\ UNCHANGED <<origin, dest, rx, queue, wire>>

AbortWriter(s) ==
  /\ ses[s] \in {"draining", "closed"}
  /\ rx[s]
  /\ rx' = [rx EXCEPT ![s] = FALSE]
  /\ queue' = [queue EXCEPT ![s] = <<>>]
  /\ UNCHANGED <<origin, dest, ses, wire>>

\* Every pending admission is answered with StreamInterrupted.
Interrupted == [t \in Traces |-> IF t \in pending THEN "StreamInterrupted" ELSE ack[t]]
\* Mutant: the teardown forgets the pending admissions.
DrainNothing(s) ==
  /\ ses[s] = "draining"
  /\ ses' = [ses EXCEPT ![s] = "closed"]
  /\ UNCHANGED <<origin, dest, rx, queue, wire>>


Drain(s) ==
  /\ ses[s] = "draining"
  /\ ses' = [ses EXCEPT ![s] = "closed"]
  /\ IF s = "o" THEN ack' = Interrupted /\ pending' = {} ELSE UNCHANGED <<ack, pending>>
  /\ UNCHANGED <<pump, caller, route, alive, retiring, dest, rx, queue, wire>>

\* retire: a newer session to the same peer, or a disconnect, marks the entry
\* dead, drains it and signals run_session to end.
RetireMark ==
  /\ retiring = "no"
  /\ retiring' = "marked"
  /\ alive' = FALSE
  /\ UNCHANGED <<pump, caller, route, pending, ack, dest, net>>

RetireDrain ==
  /\ retiring = "marked"
  /\ retiring' = "signalled"
  /\ ack' = Interrupted
  /\ pending' = {}
  /\ UNCHANGED <<pump, caller, route, alive, dest, net>>

Retired ==
  /\ retiring = "signalled"
  /\ ses["o"] = "serving"
  /\ Leave("o")
  /\ UNCHANGED <<origin, rx, queue>>

-----------------------------------------------------------------------------
\* The destination's read loop.

Reads(s) == ses[s] = "serving" /\ wire[Other(s)] # <<>>

Frame(s) == Head(wire[Other(s)])

Consume(s) == wire' = [wire EXCEPT ![Other(s)] = Tail(@)]

\* admit_open: the stream table is bounded by the queue's message budget.
AdmissionStatus(t) ==
  IF t \in Unsupported THEN "Unsupported"
  ELSE IF Cardinality({u \in Traces : incoming[u] # Absent}) >= QueueMessages
    THEN "Overloaded" ELSE "Admitted"

\* The acknowledgement is queued after the stream is admitted; a queue that
\* refuses it ends the session.
ReadOpen ==
  /\ Reads("d")
  /\ Frame("d").kind = "Open"
  /\ LET t == Frame("d").trace
         status == AdmissionStatus(t)
     IN  IF Admits("d")
           THEN /\ Enqueue("d", Ack(t, status))
                /\ incoming' = [incoming EXCEPT ![t] = IF status = "Admitted" THEN 0 ELSE @]
                /\ consumer' = [consumer EXCEPT ![t] = IF status = "Admitted" THEN "running" ELSE @]
                /\ Consume("d")
                /\ UNCHANGED <<ses, stream, got>>
           ELSE Leave("d") /\ UNCHANGED queue
  /\ UNCHANGED <<origin, rx>>

\* Whether the receiving half of a stream's channel still exists.
Listening(t) == consumer[t] = "running"

\* forward_chunk: a chunk of no stream is dropped, one out of sequence ends
\* the session, one whose consumer is gone removes the stream; otherwise the
\* reader waits for room in the channel.
ReadChunk ==
  /\ Reads("d")
  /\ Frame("d").kind = "Chunk"
  /\ LET t == Frame("d").trace
     IN  \/ /\ incoming[t] = Absent
            /\ Consume("d")
            /\ UNCHANGED <<ses, dest>>
         \/ /\ incoming[t] \notin {Absent, Frame("d").sequence}
            /\ Leave("d")
         \/ /\ incoming[t] = Frame("d").sequence
            /\ ~Listening(t)
            /\ incoming' = [incoming EXCEPT ![t] = Absent]
            /\ Consume("d")
            /\ UNCHANGED <<ses, stream, consumer, got>>
         \/ /\ incoming[t] = Frame("d").sequence
            /\ Listening(t)
            /\ Len(stream[t]) < StreamChunks
            /\ incoming' = [incoming EXCEPT ![t] = @ + 1]
            /\ stream' = [stream EXCEPT ![t] = Append(@, Frame("d").sequence)]
            /\ Consume("d")
            /\ UNCHANGED <<ses, consumer, got>>
  /\ UNCHANGED <<origin, rx, queue>>
\* Mutant: the end item is not handed to the consumer.
ReadEndDropped ==
  /\ Reads("d")
  /\ Frame("d").kind = "End"
  /\ incoming' = [incoming EXCEPT ![Frame("d").trace] = Absent]
  /\ Consume("d")
  /\ UNCHANGED <<origin, ses, stream, consumer, got, rx, queue>>


ReadEnd ==
  /\ Reads("d")
  /\ Frame("d").kind = "End"
  /\ LET t == Frame("d").trace
     IN  /\ incoming' = [incoming EXCEPT ![t] = Absent]
         /\ IF incoming[t] # Absent /\ Listening(t)
              THEN /\ Len(stream[t]) < StreamChunks
                   /\ stream' = [stream EXCEPT ![t] = Append(@, NumChunks)]
              ELSE UNCHANGED stream
  /\ Consume("d")
  /\ UNCHANGED <<origin, ses, consumer, got, rx, queue>>
\* Mutant: every answer is taken for an admission.
ReadAckAdmitted ==
  /\ Reads("o")
  /\ Frame("o").kind = "Ack"
  /\ LET t == Frame("o").trace
     IN  /\ pending' = pending \ {t}
         /\ ack' = IF t \in pending THEN [ack EXCEPT ![t] = "Admitted"] ELSE ack
  /\ Consume("o")
  /\ UNCHANGED <<pump, caller, route, alive, retiring, dest, ses, rx, queue>>


\* resolve_ack: the entry leaves the map and its waiter is answered once.
ReadAck ==
  /\ Reads("o")
  /\ Frame("o").kind = "Ack"
  /\ LET t == Frame("o").trace
     IN  /\ pending' = pending \ {t}
         /\ ack' = IF t \in pending THEN [ack EXCEPT ![t] = Frame("o").status] ELSE ack
  /\ Consume("o")
  /\ UNCHANGED <<pump, caller, route, alive, retiring, dest, ses, rx, queue>>

-----------------------------------------------------------------------------
\* The consumer (external code): ChannelBody::next_chunk takes items in order
\* until the end item (NumChunks stands for it) or a channel that closed
\* without one.

Running(t) == consumer[t] \in {"running", "cancelled"}

Take(t) ==
  /\ Running(t)
  /\ stream[t] # <<>>
  /\ stream' = [stream EXCEPT ![t] = Tail(@)]
  /\ IF Head(stream[t]) = NumChunks
       THEN consumer' = [consumer EXCEPT ![t] = "ended"] /\ UNCHANGED got
       ELSE got' = [got EXCEPT ![t] = @ + 1] /\ UNCHANGED consumer
  /\ UNCHANGED <<origin, incoming, net>>

SeeInterruption(t) ==
  /\ consumer[t] = "cancelled"
  /\ stream[t] = <<>>
  /\ consumer' = [consumer EXCEPT ![t] = "interrupted"]
  /\ UNCHANGED <<origin, incoming, stream, got, net>>

\* The consumer returns before the end of the body.
Stop(t) ==
  /\ consumer[t] = "running"
  /\ consumer' = [consumer EXCEPT ![t] = "stopped"]
  /\ stream' = [stream EXCEPT ![t] = <<>>]
  /\ UNCHANGED <<origin, incoming, got, net>>

Cancelled(t) ==
  /\ consumer[t] = "cancelled"
  /\ consumer' = [consumer EXCEPT ![t] = "aborted"]
  /\ stream' = [stream EXCEPT ![t] = <<>>]
  /\ UNCHANGED <<origin, incoming, got, net>>

-----------------------------------------------------------------------------
PumpNext(t) ==
  \/ CheckAlive(t) \/ Register(t) \/ SendOpen(t)
  \/ Acknowledged(t) \/ SendChunk(t) \/ SendEnd(t)

ConsumerTakes(t) == Take(t) \/ SeeInterruption(t) \/ Cancelled(t)

ConsumerNext(t) == ConsumerTakes(t) \/ Stop(t)

ReadNext == ReadOpen \/ ReadChunk \/ ReadEnd

Teardown(s) == AbortWriter(s) \/ Drain(s) \/ (s = "o" /\ (MarkDead \/ RequestAbort))

Retire == RetireMark \/ RetireDrain \/ Retired

Next ==
  \/ \E t \in Traces : PumpNext(t) \/ ConsumerNext(t)
  \/ \E s \in Sides : Write(s) \/ Interrupt(s) \/ PeerClosed(s) \/ WriterFails(s) \/ Teardown(s)
  \/ ReadNext \/ ReadAck
  \/ Retire

Spec == Init /\ [][Next]_vars

\* A spawned task that is ready is eventually polled: the pumps, both
\* writers, both read loops, both teardowns and a retirement once begun.  A
\* consumer is assumed to keep taking what its channel holds; it need not
\* return.  Nothing is assumed of failures.
Fairness ==
  /\ \A t \in Traces : WF_vars(PumpNext(t)) /\ WF_vars(ConsumerTakes(t))
  /\ \A s \in Sides : WF_vars(Write(s)) /\ WF_vars(PeerClosed(s)) /\ WF_vars(Teardown(s))
  /\ WF_vars(ReadNext) /\ WF_vars(ReadAck)
  /\ WF_vars(RetireDrain) /\ WF_vars(Retired)

FairSpec == Spec /\ Fairness

-----------------------------------------------------------------------------
TypeOK ==
  /\ pump \in [Traces -> [pc : PumpSteps, seq : 0..NumChunks]]
  /\ caller \in [Traces -> Outcomes \cup {None}]
  /\ route \in [Traces -> Routes]
  /\ pending \subseteq Traces
  /\ ack \in [Traces -> Outcomes \cup {None}]
  /\ alive \in BOOLEAN
  /\ retiring \in {"no", "marked", "signalled"}
  /\ ses \in [Sides -> SessionSteps]
  /\ rx \in [Sides -> BOOLEAN]
  /\ \A s \in Sides : /\ queue[s] \in Seq(Frames) /\ Len(queue[s]) <= QueueMessages
                      /\ wire[s] \in Seq(Frames) /\ Len(wire[s]) <= WireFrames
  /\ incoming \in [Traces -> Absent..NumChunks]
  /\ \A t \in Traces : stream[t] \in Seq(0..NumChunks) /\ Len(stream[t]) <= StreamChunks
  /\ consumer \in [Traces -> ConsumerSteps]
  /\ got \in [Traces -> 0..NumChunks]

\* A sender is told "Admitted" only for a packet the destination has handed to
\* a consumer, whatever teardown, retirement or refusal its wait races
\* (resolve_ack, the drains, and withdraw_pending).
AckProvesAdmission ==
  \A t \in Traces : caller[t] = "Admitted" => consumer[t] # None


\* An admission that is pending while its session is alive is answered or
\* withdrawn, whatever happens to the session.
PendingIsAnswered == \A t \in Traces : (alive /\ t \in pending) ~> (t \notin pending)

\* A delivered packet reaches the end of its consumer unless a session ends
\* or the consumer gives up.
DeliveredArrives ==
  \A t \in Traces : (route[t] = "Delivered") ~>
    (consumer[t] \in {"ended", "stopped"} \/ \E s \in Sides : ses[s] # "serving")

\* Every pump ends: the wait for an acknowledgement is over when the session
\* is ("a dead session resolves the wait with StreamInterrupted").
PumpEnds == \A t \in Traces : <>(pump[t].pc = "done")

\* A stream that its origin gave up ends at the consumer too.
GivenUpEnds ==
  \A t \in Traces : (route[t] = "Failed" /\ consumer[t] = "running") ~> (consumer[t] # "running")

\* A consumer whose session closes sees the interruption of its body.
InterruptionSeen == \A t \in Traces : consumer[t] # "aborted"
=============================================================================
