---------------------------- MODULE SessionTable ----------------------------
(***************************************************************************)
(* The session tables of two members (session/stream.rs: run_session,      *)
(* retire_session, retire; runtime/supervisor.rs: dial_member and the      *)
(* recovery dials).                                                        *)
(*                                                                         *)
(* A connection has two ends.  Each end authenticates, then registers in   *)
(* its node's table, where it may replace, or lose against, the session    *)
(* already there.  A replaced end is retired after the table lock is       *)
(* released; an end that stops first clears its alive flag and then, under *)
(* the lock, removes the peer's entry if that entry is dead.  Every end    *)
(* runs in a task of its own, so the two tables see the connections in     *)
(* different orders.                                                       *)
(***************************************************************************)
EXTENDS Naturals, FiniteSets

CONSTANTS
  Lower, Higher,   \* the two members, in the order of their node ids
  Connections,     \* the connections that may exist at a time
  None,            \* no entry, or no dialer
  Recovery,        \* whether the recovery controllers dial
  MaxCommands,     \* bound: ConnectMember and DisconnectPeer commands
  MaxFaults        \* bound: lost connections and restarts

Nodes == {Lower, Higher}

ASSUME TableAssumption ==
  /\ Lower # Higher
  /\ None \notin Connections \cup Nodes
  /\ Recovery \in BOOLEAN
  /\ MaxCommands \in Nat
  /\ MaxFaults \in Nat

VARIABLES
  dialer,    \* which node opened a connection
  end,       \* the stage of each node's end of each connection
  up,        \* whether the transport still carries the connection
  table,     \* SessionTable: the entry for the peer
  history,   \* recovery_history holds the peer
  excluded,  \* recovery_excluded holds the peer
  commands,  \* commands so far
  faults     \* faults so far

control == <<history, excluded, commands, faults>>
vars == <<dialer, end, up, table, control>>

Stages ==
  { "opening",   \* authenticating, or authenticated and not yet registered
    "awaited",   \* the same, while the supervisor awaits it
    "live",      \* registered and serving
    "replaced",  \* no longer the entry, its alive flag not cleared yet
    "retired",   \* alive flag cleared and retire signalled
    "stopped",   \* the serving loop returned, alive flag cleared
    "closed" }   \* the task returned and dropped its half, or never began

Peer(n) == IF n = Lower THEN Higher ELSE Lower

Init ==
  /\ dialer = [c \in Connections |-> None]
  /\ end = [n \in Nodes |-> [c \in Connections |-> "closed"]]
  /\ up = [c \in Connections |-> FALSE]
  /\ table = [n \in Nodes |-> None]
  /\ history = [n \in Nodes |-> FALSE]
  /\ excluded = [n \in Nodes |-> FALSE]
  /\ commands = 0
  /\ faults = 0

Alive(n, c) == end[n][c] \in {"live", "replaced"}

\* The peer is in the set of directly connected members.
Direct(n) == table[n] # None /\ Alive(n, table[n])

-----------------------------------------------------------------------------
\* dial_member: connect and authenticate.

Free(c) == \A n \in Nodes : end[n][c] = "closed"

Open(n, c, stage) ==
  /\ \E d \in Connections : Free(d)
  /\ c = CHOOSE d \in Connections : Free(d)
  /\ dialer' = [dialer EXCEPT ![c] = n]
  /\ end' = [m \in Nodes |-> [end[m] EXCEPT ![c] =
                IF m = n THEN stage ELSE "opening"]]
  /\ up' = [up EXCEPT ![c] = TRUE]
  /\ UNCHANGED table

Opening(n, c) == end[n][c] \in {"opening", "awaited"}

\* The supervisor awaits the dial of a command, and does nothing else.
Busy(n) == \E c \in Connections : end[n][c] = "awaited"

\* connect_member.
ConnectMember(n, c) ==
  /\ commands < MaxCommands
  /\ ~Busy(n)
  /\ Open(n, c, "awaited")
  /\ excluded' = [excluded EXCEPT ![n] = FALSE]
  /\ commands' = commands + 1
  /\ UNCHANGED <<history, faults>>

\* recovery_pending: a detached dial of recovery is in flight.
Dialing(n) == \E c \in Connections : dialer[c] = n /\ end[n][c] = "opening"

\* recovery_tick with a fan-out of one: the peer is remembered, not excluded
\* and not directly connected, and no recovery dial is in flight.
RecoveryDial(n, c) ==
  /\ Recovery
  /\ history[n]
  /\ ~excluded[n]
  /\ ~Direct(n)
  /\ ~Dialing(n)
  /\ ~Busy(n)
  /\ Open(n, c, "opening")
  /\ UNCHANGED control

\* The observation of recovery_tick: a connected peer is remembered.
Observe(n) ==
  /\ Recovery
  /\ ~Busy(n)
  /\ Direct(n)
  /\ ~history[n]
  /\ history' = [history EXCEPT ![n] = TRUE]
  /\ UNCHANGED <<dialer, end, up, table, excluded, commands, faults>>

\* The other half is gone, or the transport lost the connection.
Broken(n, c) == ~up[c] \/ end[Peer(n)][c] = "closed"

\* The end of node n is dropped; nothing is left of the connection once both
\* ends are.
Close(n, c) ==
  /\ end' = [end EXCEPT ![n][c] = "closed"]
  /\ dialer' = [dialer EXCEPT ![c] = IF end[Peer(n)][c] = "closed" THEN None ELSE @]
  /\ up' = [up EXCEPT ![c] = @ /\ end[Peer(n)][c] # "closed"]

\* The handshake fails: the end is dropped before it registers.
Fail(n, c) ==
  /\ Opening(n, c)
  /\ Broken(n, c)
  /\ Close(n, c)
  /\ UNCHANGED <<table, control>>

-----------------------------------------------------------------------------
\* run_session.

\* Mutant: each side keeps the connection it opened itself.
KeepOwn(n, c) == dialer[c] = n

\* keep_connection: the connection opened by the smaller node id wins.
KeepConnection(n, c) == dialer[c] = Lower

\* A live entry of the other direction competes under the crossed-dial rule;
\* a dead entry and one of the same direction are replaced.
Replaces(n, c) ==
  Direct(n) => \/ KeepConnection(n, table[n]) = KeepConnection(n, c)
               \/ KeepConnection(n, c)

\* The registration under the table lock.  A session that is still alive when
\* it is replaced is retired after the lock is released.
Register(n, c) ==
  /\ Opening(n, c)
  /\ Replaces(n, c)
  /\ table' = [table EXCEPT ![n] = c]
  /\ end' = [end EXCEPT ![n] =
               [d \in Connections |->
                  IF d = c THEN "live"
                  ELSE IF d = table[n] /\ Direct(n) THEN "replaced"
                  ELSE end[n][d]]]
  /\ UNCHANGED <<dialer, up, control>>

\* The loser of a crossed dial returns and drops its connection.
Yield(n, c) ==
  /\ Opening(n, c)
  /\ ~Replaces(n, c)
  /\ Close(n, c)
  /\ UNCHANGED <<table, control>>

\* retire.
Retire(n, c) ==
  /\ end[n][c] = "replaced"
  /\ end' = [end EXCEPT ![n][c] = "retired"]
  /\ UNCHANGED <<dialer, up, table, control>>

\* The select of run_session returns: the reader or the writer saw the
\* connection end, or the retirement was signalled.
Stop(n, c) ==
  /\ \/ end[n][c] \in {"live", "replaced"} /\ Broken(n, c)
     \/ end[n][c] = "retired"
  /\ end' = [end EXCEPT ![n][c] = "stopped"]
  /\ UNCHANGED <<dialer, up, table, control>>

\* Mutant: the entry is removed without a look at what it is now.
RemoveAny(n, c) ==
  /\ end[n][c] = "stopped"
  /\ Close(n, c)
  /\ table' = [table EXCEPT ![n] = None]
  /\ UNCHANGED control

\* The end of run_session: the peer's entry is removed if it is dead.
Remove(n, c) ==
  /\ end[n][c] = "stopped"
  /\ Close(n, c)
  /\ table' = [table EXCEPT ![n] = IF Direct(n) THEN @ ELSE None]
  /\ UNCHANGED control

-----------------------------------------------------------------------------
\* disconnect_peer: retire_session takes the entry out of the table and
\* retires it; recovery forgets the peer and excludes it.
DisconnectPeer(n) ==
  /\ commands < MaxCommands
  /\ ~Busy(n)
  /\ table[n] # None
  /\ table' = [table EXCEPT ![n] = None]
  /\ end' = [end EXCEPT ![n][table[n]] =
               IF @ = "live" THEN "replaced" ELSE @]
  /\ history' = [history EXCEPT ![n] = FALSE]
  /\ excluded' = [excluded EXCEPT ![n] = TRUE]
  /\ commands' = commands + 1
  /\ UNCHANGED <<dialer, up, faults>>

\* The network loses a connection; each end finds out in its own time.
Lose(c) ==
  /\ faults < MaxFaults
  /\ up[c]
  /\ up' = [up EXCEPT ![c] = FALSE]
  /\ faults' = faults + 1
  /\ UNCHANGED <<dialer, end, table, history, excluded, commands>>

\* A node stops and starts again: its tables live in memory.
Restart(n) ==
  /\ faults < MaxFaults
  /\ end' = [end EXCEPT ![n] = [c \in Connections |-> "closed"]]
  /\ dialer' = [c \in Connections |->
                   IF end[Peer(n)][c] = "closed" THEN None ELSE dialer[c]]
  /\ up' = [c \in Connections |-> up[c] /\ end[Peer(n)][c] # "closed"]
  /\ table' = [table EXCEPT ![n] = None]
  /\ history' = [history EXCEPT ![n] = FALSE]
  /\ excluded' = [excluded EXCEPT ![n] = FALSE]
  /\ faults' = faults + 1
  /\ UNCHANGED commands

\* What an end does by itself.
Step(n, c) ==
  \/ Fail(n, c)
  \/ Register(n, c)
  \/ Yield(n, c)
  \/ Retire(n, c)
  \/ Stop(n, c)
  \/ Remove(n, c)

Next ==
  \/ \E n \in Nodes, c \in Connections :
       ConnectMember(n, c) \/ RecoveryDial(n, c) \/ Step(n, c)
  \/ \E n \in Nodes : Observe(n) \/ DisconnectPeer(n) \/ Restart(n)
  \/ \E c \in Connections : Lose(c)

\* Tasks run on, the recovery timer fires again and again.
Fairness ==
  /\ \A n \in Nodes, c \in Connections : WF_vars(Step(n, c))
  /\ \A n \in Nodes : /\ WF_vars(Observe(n))
                      /\ WF_vars(\E c \in Connections : RecoveryDial(n, c))

Spec == Init /\ [][Next]_vars /\ Fairness

-----------------------------------------------------------------------------
\* The types of the variables.
TypeOK ==
  /\ dialer \in [Connections -> Nodes \cup {None}]
  /\ end \in [Nodes -> [Connections -> Stages]]
  /\ up \in [Connections -> BOOLEAN]
  /\ table \in [Nodes -> Connections \cup {None}]
  /\ history \in [Nodes -> BOOLEAN]
  /\ excluded \in [Nodes -> BOOLEAN]
  /\ commands \in 0 .. MaxCommands
  /\ faults \in 0 .. MaxFaults

\* "registers the session ... (retiring any previous session to the same
\* peer)": a session that serves is the entry of its peer, so routing sees
\* it; whatever the order in which connections register, are replaced, stop
\* and remove entries, no session serves beside another one for long, and an
\* entry belongs to an end that serves or is about to remove it.
ServingIsRegistered ==
  \A n \in Nodes, c \in Connections :
    /\ end[n][c] = "live" => table[n] = c
    /\ table[n] = c => end[n][c] \in {"live", "stopped"}

\* Both tables hold the same connection, and it serves at both ends.
Joined ==
  \E c \in Connections : \A n \in Nodes : table[n] = c /\ end[n][c] = "live"

\* A node that remembers the peer and may dial it.
Wants(n) == history[n] /\ ~excluded[n]

\* "both sides of a simultaneous dial converge to the same authenticated
\* session", and an edge that is lost is healed: however dials cross and
\* connections break, once commands and faults are over, and as long as one
\* side's recovery remembers the other, the two tables come to hold one and
\* the same serving connection for good.
Settles == <>[](\E n \in Nodes : Wants(n)) => <>[]Joined

\* keep_connection: "both sides of a simultaneous dial converge to the same
\* authenticated session".  Without recovery and without faults, dials leave
\* the members connected, unless one of them disconnects on purpose.
DialsConnect ==
  [](commands > 0 => <>(Joined \/ \E n \in Nodes : excluded[n]))
=============================================================================
