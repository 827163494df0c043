---------------------------- MODULE TunnelServer ----------------------------
(***************************************************************************)
(* ferrotunnel-core/src/tunnel/server.rs with the client of client.rs:     *)
(* accepting a connection under a session permit, the handshake, the       *)
(* registration of the session, the frame loop (or, over QUIC, the control *)
(* loop), the ways a handler ends, and the eviction of stale sessions.     *)
(* The session store is used through its atomic operations, which module   *)
(* SessionStore shows it implements.  A connection gives its name to its   *)
(* session.  Time passes in units of SESSION_CLEANUP_INTERVAL.             *)
(***************************************************************************)
EXTENDS Naturals, FiniteSets

CONSTANTS
    Conns,       \* connections, one attempt of a client each
    Tunnels,     \* tunnel ids
    TunnelOf,    \* the tunnel id a connection's handshake asks for
    Visited,     \* bound: the connections the ingress opens streams on
    MaxSessions, \* permits of the session semaphore
    Timeout,     \* session_timeout
    ChunkTicks,  \* longest wait of one throttle chunk (MAX_THROTTLE_CHUNK_SECS)
    MaxChunks    \* bound on the chunks of one data frame

ASSUME ServerAssumption ==
    /\ IsFiniteSet(Conns)
    /\ TunnelOf \in [Conns -> Tunnels]
    /\ Visited \subseteq Conns
    /\ MaxSessions \in Nat \ {0}
    /\ Timeout \in Nat /\ ChunkTicks \in Nat /\ MaxChunks \in Nat \ {0}
    /\ ChunkTicks <= Timeout

VARIABLES
    transport,  \* "tcp" (also TLS) or "quic": which listener this server runs
    client,     \* the client's view of each connection
    handler,    \* the server task of each connection
    sessions,   \* connections whose session is in the store
    age,        \* time since last_heartbeat
    left,       \* throttle chunks the handler has still to wait for
    waited,     \* how long the current chunk has waited
    to_remove,  \* what the cleanup task collected and has not removed yet
    queued,     \* frames for the client in the frame channel
    first,      \* the first frame the batched sender wrote to the client
    broken,     \* connections whose batched sender stopped on a failed write
    relay,      \* what an ingress task holds of the session's multiplexer
    late        \* frames the handler acted on after it lost its session

vars == <<transport, client, handler, sessions, age, left, waited, to_remove,
          queued, first, broken, relay, late>>
timeVars == <<age, left, waited>>
wireVars == <<queued, first, broken, relay>>

HandlerStates == {"none", "control", "handshake", "acking", "serving", "pong", "deliver",
                  "throttle", "ended"}

\* A handler owns its permit from the accept until it returns.
Active(c) == handler[c] \notin {"none", "ended"}
Permits == MaxSessions - Cardinality({c \in Conns : Active(c)})

\* A session leaves the store, its heartbeat with it.
Remove(c) ==
    /\ sessions' = sessions \ {c}
    /\ age' = [age EXCEPT ![c] = 0]

\* The frame loop of a TCP handler returns through `?` without remove; a QUIC
\* handler removes its session after the loop, whatever ended it.
EndLoop(c) ==
    /\ handler' = [handler EXCEPT ![c] = "ended"]
    /\ IF transport = "quic" THEN Remove(c) ELSE UNCHANGED <<sessions, age>>

Goto(c, st) == handler' = [handler EXCEPT ![c] = st]

Init ==
    /\ transport \in {"tcp", "quic"}
    /\ client = [c \in Conns |-> "off"]
    /\ handler = [c \in Conns |-> "none"]
    /\ sessions = {}
    /\ age = [c \in Conns |-> 0]
    /\ left = [c \in Conns |-> 0]
    /\ waited = [c \in Conns |-> 0]
    /\ to_remove = {}
    /\ queued = [c \in Conns |-> {}]
    /\ first = [c \in Conns |-> "nothing"]
    /\ broken = {}
    /\ relay = [c \in Conns |-> "none"]
    /\ late = [c \in Conns |-> 0]

-----------------------------------------------------------------------------
(* run / run_quic and the head of handle_connection.                       *)

\* A connection comes in: a permit is taken, or the connection is dropped.
Accept(c) ==
    /\ client[c] = "off"
    /\ IF Permits > 0
       THEN /\ Goto(c, IF transport = "quic" THEN "control" ELSE "handshake")
            /\ client' = [client EXCEPT ![c] = "waiting"]
       ELSE Goto(c, "ended") /\ client' = [client EXCEPT ![c] = "gone"]
    /\ UNCHANGED <<transport, sessions, timeVars, to_remove, wireVars, late>>

\* Over QUIC the client first opens the control stream, within the timeout.
ControlStream(c) ==
    /\ handler[c] = "control"
    /\ Goto(c, "handshake")
    /\ UNCHANGED <<transport, client, sessions, timeVars, to_remove, wireVars, late>>

ControlFails(c) ==
    /\ handler[c] = "control"
    /\ Goto(c, "ended")
    /\ UNCHANGED <<transport, client, sessions, timeVars, to_remove, wireVars, late>>

\* Fault: the handshake frame is read without a timeout.
HandshakeFailsNoTimeout(c) ==
    /\ handler[c] = "handshake"
    /\ client[c] = "gone"
    /\ Goto(c, "ended")
    /\ UNCHANGED <<transport, client, sessions, timeVars, to_remove, wireVars, late>>

\* No handshake before the timeout, a closed stream, a frame that is no
\* handshake, or one that authenticate_handshake turns down (answered with a
\* status): the handler returns and nothing was registered.
HandshakeFails(c) ==
    /\ handler[c] = "handshake"
    /\ Goto(c, "ended")
    /\ UNCHANGED <<transport, client, sessions, timeVars, to_remove, wireVars, late>>

\* The handshake is good; sessions.add claims the tunnel id or the client is
\* told it is taken and the handler returns an error.
Register(c) ==
    /\ handler[c] = "handshake"
    /\ IF \E d \in sessions : TunnelOf[d] = TunnelOf[c]
       THEN Goto(c, "ended") /\ UNCHANGED <<sessions, age>>
       ELSE /\ Goto(c, "acking")
            /\ sessions' = sessions \cup {c}
            /\ age' = [age EXCEPT ![c] = 0]
    /\ UNCHANGED <<transport, client, left, waited, to_remove, wireVars, late>>

\* The Success ack is sent after the session became visible to the ingress.
\* Over TCP it goes through the frame channel, over QUIC straight to the
\* control stream.
SendSuccess(c) ==
    /\ handler[c] = "acking"
    /\ c \notin broken
    /\ Goto(c, "serving")
    /\ IF transport = "tcp"
       THEN queued' = [queued EXCEPT ![c] = @ \cup {"ack"}] /\ UNCHANGED first
       ELSE first' = [first EXCEPT ![c] = "ack"] /\ UNCHANGED queued
    /\ UNCHANGED <<transport, client, sessions, timeVars, to_remove, broken, relay, late>>

\* Sending the ack fails and the handler returns through `?`, its session left
\* in the store: over QUIC when the connection is lost, over TCP only when the
\* batched sender has stopped, the frame channel being fresh and its 1024 slots
\* all but empty.
SendSuccessFails(c) ==
    /\ handler[c] = "acking"
    /\ transport = "quic" \/ c \in broken
    /\ Goto(c, "ended")
    /\ UNCHANGED <<transport, client, sessions, timeVars, to_remove, wireVars, late>>

-----------------------------------------------------------------------------
(* process_messages, and quic_control_loop, which sees heartbeats only.    *)

\* Fault: a handler whose session is gone serves on.
ReadFrameUnchecked(c) ==
    /\ transport = "tcp"
    /\ handler[c] = "serving"
    /\ client[c] \in {"up", "gone"} /\ first[c] = "ack"
    /\ age' = IF c \in sessions THEN [age EXCEPT ![c] = 0] ELSE age
    /\ Goto(c, "deliver")
    /\ UNCHANGED <<transport, client, sessions, left, waited, to_remove, wireVars, late>>

\* The handler reads a frame, refreshes the heartbeat and decides what the
\* frame calls for; without a session it returns an error.  Data over budget
\* is throttled in chunks; a denied OpenStream is answered (errors ignored)
\* and dropped.  Frames of a client that left may still be on the way.
ReadFrame(c) ==
    /\ transport = "tcp"
    /\ handler[c] = "serving"
    /\ client[c] \in {"up", "gone"} /\ first[c] = "ack"
    /\ IF c \notin sessions
       THEN EndLoop(c) /\ UNCHANGED left
       ELSE /\ age' = [age EXCEPT ![c] = 0]
            /\ UNCHANGED sessions
            /\ \/ \E st \in {"pong", "deliver", "serving"} : Goto(c, st) /\ UNCHANGED left
               \/ /\ Goto(c, "throttle")
                  /\ \E n \in 1 .. MaxChunks : left' = [left EXCEPT ![c] = n]
    /\ UNCHANGED <<transport, client, waited, to_remove, wireVars, late>>

\* Fault: a control frame without a session is skipped.
ReadControlSkips(c) ==
    /\ transport = "quic"
    /\ handler[c] = "serving"
    /\ client[c] \in {"up", "gone"} /\ first[c] = "ack"
    /\ c \in sessions
    /\ age' = [age EXCEPT ![c] = 0]
    /\ Goto(c, "pong")
    /\ UNCHANGED <<transport, client, sessions, left, waited, to_remove, wireVars, late>>

\* The same over QUIC, where the loop answers heartbeats and ignores the rest.
ReadControl(c) ==
    /\ transport = "quic"
    /\ handler[c] = "serving"
    /\ client[c] \in {"up", "gone"} /\ first[c] = "ack"
    /\ IF c \notin sessions
       THEN EndLoop(c)
       ELSE /\ age' = [age EXCEPT ![c] = 0]
            /\ UNCHANGED sessions
            /\ \E st \in {"pong", "serving"} : Goto(c, st)
    /\ UNCHANGED <<transport, client, left, waited, to_remove, wireVars, late>>

\* The stream ends: over TCP this is the one exit that removes the session.
ReadEof(c) ==
    /\ handler[c] = "serving"
    /\ client[c] = "gone"
    /\ Goto(c, "ended")
    /\ Remove(c)
    /\ UNCHANGED <<transport, client, left, waited, to_remove, wireVars, late>>

\* A frame that does not decode, or an I/O error.
ReadError(c) ==
    /\ handler[c] = "serving"
    /\ EndLoop(c)
    /\ UNCHANGED <<transport, client, left, waited, to_remove, wireVars, late>>

\* Fault: the throttle waits for one chunk too many.
ThrottleChunkOffByOne(c) ==
    /\ handler[c] = "throttle"
    /\ left' = [left EXCEPT ![c] = @ - 1]
    /\ waited' = [waited EXCEPT ![c] = 0]
    /\ age' = IF c \in sessions THEN [age EXCEPT ![c] = 0] ELSE age
    /\ IF left[c] = 0 THEN Goto(c, "deliver") ELSE UNCHANGED handler
    /\ UNCHANGED <<transport, client, sessions, to_remove, wireVars, late>>

\* Fault: throttle_data without the heartbeat callback.
ThrottleChunkSilent(c) ==
    /\ handler[c] = "throttle"
    /\ left' = [left EXCEPT ![c] = @ - 1]
    /\ waited' = [waited EXCEPT ![c] = 0]
    /\ IF left[c] = 1 THEN Goto(c, "deliver") ELSE UNCHANGED handler
    /\ UNCHANGED <<transport, client, sessions, age, to_remove, wireVars, late>>

\* A throttle chunk is through: touch the heartbeat, if the session is there.
ThrottleChunk(c) ==
    /\ handler[c] = "throttle"
    /\ left' = [left EXCEPT ![c] = @ - 1]
    /\ waited' = [waited EXCEPT ![c] = 0]
    /\ age' = IF c \in sessions THEN [age EXCEPT ![c] = 0] ELSE age
    /\ IF left[c] = 1 THEN Goto(c, "deliver") ELSE UNCHANGED handler
    /\ UNCHANGED <<transport, client, sessions, to_remove, wireVars, late>>

\* The handler acts on the frame: process_frame hands it to its stream, which
\* waits while that stream's channel is full, or a heartbeat is answered.
CountLate(c) == late' = IF c \in sessions THEN late ELSE [late EXCEPT ![c] = @ + 1]

Act(c) ==
    /\ handler[c] \in {"deliver", "pong"}
    /\ Goto(c, "serving")
    /\ CountLate(c)
    /\ UNCHANGED <<transport, client, sessions, timeVars, to_remove, wireVars>>

\* The HeartbeatAck cannot be sent.
PongFails(c) ==
    /\ handler[c] = "pong"
    /\ EndLoop(c)
    /\ UNCHANGED <<transport, client, left, waited, to_remove, wireVars, late>>

-----------------------------------------------------------------------------
(* The cleanup task, the ingress and the batched sender.                   *)

\* Fault: the sweep passes over sessions whose handler has returned.
SweepCollectActive ==
    /\ to_remove = {}
    /\ to_remove' = {c \in sessions : age[c] > Timeout /\ Active(c)}
    /\ to_remove' # {}
    /\ UNCHANGED <<transport, client, handler, sessions, timeVars, wireVars, late>>

SweepCollect ==
    /\ to_remove = {}
    /\ to_remove' = {c \in sessions : age[c] > Timeout}
    /\ to_remove' # {}
    /\ UNCHANGED <<transport, client, handler, sessions, timeVars, wireVars, late>>

SweepRemove(c) ==
    /\ c \in to_remove
    /\ to_remove' = to_remove \ {c}
    /\ Remove(c)
    /\ UNCHANGED <<transport, client, handler, left, waited, wireVars, late>>

\* An ingress task finds the session, clones its multiplexer and opens a
\* stream, which keeps a clone of the frame channel's sender: a relay with a
\* timeout of its own (HTTP, TCP), or a WebSocket bridge, which has none.  Only
\* a channel whose sender stopped refuses.  The queue is followed up to the
\* first write, and one relay stands for all the ingress has on a connection.
\* Over QUIC a stream is the connection's own and holds nothing back.
IngressOpen(c) ==
    /\ transport = "tcp"
    /\ c \in Visited \cap sessions
    /\ relay[c] = "none" /\ c \notin broken
    /\ \E kind \in {"timed", "bridge"} : relay' = [relay EXCEPT ![c] = kind]
    /\ queued' = IF first[c] = "nothing" THEN [queued EXCEPT ![c] = @ \cup {"open"}] ELSE queued
    /\ UNCHANGED <<transport, client, handler, sessions, timeVars, to_remove, first, broken, late>>

\* The relay is done, or its timeout ended it: its clones are dropped.
RelayEnds(c) ==
    /\ relay[c] # "none"
    /\ relay' = [relay EXCEPT ![c] = "none"]
    /\ UNCHANGED <<transport, client, handler, sessions, timeVars, to_remove, queued, first,
                   broken, late>>

\* The batched sender writes what is queued; the ack is Critical and goes
\* first within a batch.
Flush(c) ==
    /\ queued[c] # {}
    /\ queued' = [queued EXCEPT ![c] = {}]
    /\ first' = [first EXCEPT ![c] =
                    IF @ # "nothing" THEN @ ELSE IF "ack" \in queued[c] THEN "ack" ELSE "open"]
    /\ UNCHANGED <<transport, client, handler, sessions, timeVars, to_remove, broken, relay, late>>

\* A write to a client that is gone fails: the sender stops and its channel
\* closes, what was queued is lost.
FlushFails(c) ==
    /\ queued[c] # {}
    /\ client[c] = "gone"
    /\ queued' = [queued EXCEPT ![c] = {}]
    /\ broken' = broken \cup {c}
    /\ UNCHANGED <<transport, client, handler, sessions, timeVars, to_remove, first, relay, late>>

-----------------------------------------------------------------------------
(* The client: handshake, then run_session_loop until something ends it.   *)

\* Anything but a Success ack as the first frame is an error.
ClientHandshake(c) ==
    /\ client[c] = "waiting"
    /\ first[c] # "nothing"
    /\ client' = [client EXCEPT ![c] = IF first[c] = "ack" THEN "up" ELSE "gone"]
    /\ UNCHANGED <<transport, handler, sessions, timeVars, to_remove, wireVars, late>>

\* The client times out, is stopped or crashes.
ClientLeaves(c) ==
    /\ client[c] \in {"waiting", "up"}
    /\ client' = [client EXCEPT ![c] = "gone"]
    /\ UNCHANGED <<transport, handler, sessions, timeVars, to_remove, wireVars, late>>

\* The client sees the end.  Over QUIC the handler owns the control stream,
\* which finishes when it returns.  Over TCP the socket is shared by the
\* handler's read half and the batched sender, which runs while anyone holds a
\* sender of its channel: the handler, the session in the store, the ingress.
SocketClosed(c) ==
    /\ handler[c] = "ended"
    /\ transport = "quic" \/ (c \notin sessions /\ relay[c] = "none")

ClientEof(c) ==
    /\ client[c] \in {"waiting", "up"}
    /\ SocketClosed(c)
    /\ client' = [client EXCEPT ![c] = "gone"]
    /\ UNCHANGED <<transport, handler, sessions, timeVars, to_remove, wireVars, late>>

\* Time: no chunk of a throttle outlasts its bound.
Tick ==
    /\ \A c \in Conns : handler[c] = "throttle" => waited[c] < ChunkTicks
    /\ age' = [c \in Conns |-> IF c \in sessions /\ age[c] <= Timeout THEN age[c] + 1 ELSE age[c]]
    /\ waited' = [c \in Conns |-> IF handler[c] = "throttle" THEN waited[c] + 1 ELSE 0]
    /\ UNCHANGED <<transport, client, handler, sessions, left, to_remove, wireVars, late>>

-----------------------------------------------------------------------------
Handler(c) ==
    \/ ControlStream(c) \/ ControlFails(c) \/ HandshakeFails(c) \/ Register(c)
    \/ SendSuccess(c) \/ SendSuccessFails(c)
    \/ ReadFrame(c) \/ ReadControl(c) \/ ReadEof(c) \/ ReadError(c)
    \/ ThrottleChunk(c) \/ Act(c) \/ PongFails(c)

Next ==
    \/ \E c \in Conns : \/ Accept(c) \/ Handler(c) \/ SweepRemove(c)
                        \/ IngressOpen(c) \/ RelayEnds(c)
                        \/ Flush(c) \/ FlushFails(c)
                        \/ ClientHandshake(c) \/ ClientLeaves(c) \/ ClientEof(c)
    \/ SweepCollect
    \/ Tick

Spec == Init /\ [][Next]_vars

\* A peer that is gone shows as end of stream or, when it vanished, as an
\* error: TCP keepalive, or QUIC's idle timeout, sees to one or the other.
LosesPeer(c) == ReadEof(c) \/ (client[c] = "gone" /\ ReadError(c))

\* Tokio runs every task that can run.  ControlFails and HandshakeFails are
\* fair by their timeout, ReadFrame and ReadControl because a live client sends
\* a heartbeat every 30 s, Act because a reader of a full stream reads or drops
\* it, the sweep and Tick by the clock.  LosesPeer is strongly fair: what a
\* client had sent when it left is finite.  A relay with a timeout ends by it;
\* nothing makes a WebSocket bridge end but its visitor, so it is not fair.
Fairness ==
    /\ \A c \in Conns :
        /\ WF_vars(ControlFails(c)) /\ WF_vars(HandshakeFails(c))
        /\ WF_vars(SendSuccess(c) \/ SendSuccessFails(c))
        /\ WF_vars(client[c] = "up" /\ ReadFrame(c))
        /\ WF_vars(client[c] = "up" /\ ReadControl(c))
        /\ SF_vars(LosesPeer(c))
        /\ WF_vars(ThrottleChunk(c)) /\ WF_vars(Act(c) \/ PongFails(c))
        /\ WF_vars(SweepRemove(c)) /\ WF_vars(Flush(c) \/ FlushFails(c))
        /\ WF_vars(relay[c] = "timed" /\ RelayEnds(c))
        /\ WF_vars(ClientHandshake(c)) /\ WF_vars(ClientEof(c))
    /\ WF_vars(SweepCollect)
    /\ WF_vars(Tick)

FairSpec == Spec /\ Fairness

-----------------------------------------------------------------------------
(* Properties.                                                             *)

\* The variables keep their types.
TypeOK ==
    /\ transport \in {"tcp", "quic"}
    /\ client \in [Conns -> {"off", "waiting", "up", "gone"}]
    /\ handler \in [Conns -> HandlerStates]
    /\ sessions \subseteq Conns
    /\ age \in [Conns -> 0 .. Timeout + 1]
    /\ left \in [Conns -> 0 .. MaxChunks]
    /\ waited \in [Conns -> 0 .. ChunkTicks]
    /\ to_remove \subseteq Conns
    /\ queued \in [Conns -> SUBSET {"ack", "open"}]
    /\ first \in [Conns -> {"nothing", "ack", "open"}]
    /\ broken \subseteq Conns
    /\ relay \in [Conns -> {"none", "timed", "bridge"}]
    /\ late \in [Conns -> Nat]

\* A handler whose session was evicted may finish the frame it holds, however
\* long that is throttled or blocked, and acts on no other: process_messages
\* looks its session up on every frame.
LateFrames == \A c \in Conns : late[c] <= 1

\* A sweep never collects the session of a throttled handler, however many
\* chunks the throttle takes: throttle_data bounds a chunk below the timeout
\* and its callback refreshes the heartbeat after each.
ThrottleNotCollected ==
    [][\A c \in to_remove' \ to_remove : handler[c] # "throttle"]_vars

\* A client that is gone is in the end fully released: its handler has
\* returned, its permit with it, and its session has left the store for good,
\* also when it went away in the middle of the handshake or of a throttle.
GoneIsReleased ==
    \A c \in Conns : client[c] = "gone" ~> [](handler[c] = "ended" /\ c \notin sessions)

\* A session its handler left behind on an error path does not stay: the
\* cleanup task takes it, and the tunnel id is free again.
EndedSessionReclaimed == \A c \in Conns : handler[c] = "ended" ~> c \notin sessions

\* The server has given up on a client that is still connected: its handler has
\* returned, or its session was evicted under it.
Abandoned(c) ==
    \/ client[c] \in {"waiting", "up"} /\ handler[c] = "ended"
    \/ client[c] = "up" /\ c \notin sessions

\* A client the server has given up on does not stay connected to nothing: the
\* next frame of an evicted client ends its handler, the sweep takes a session
\* left behind, and the client sees the connection close, unless a WebSocket
\* bridge of the ingress keeps the frame channel, and with it the socket, open.
EvictedClientNotified ==
    \A c \in Conns : Abandoned(c) ~> (client[c] = "gone" \/ relay[c] = "bridge")

\* A peer that connects and stays silent does not keep its permit: the wait for
\* the control stream and the read of the handshake frame are both bounded.
SilentHandshakeReleased ==
    \A c \in Conns : handler[c] \in {"control", "handshake"} ~>
        handler[c] \notin {"control", "handshake"}

\* What the code does not keep: every session in the store has a handler, and
\* so a permit.
SessionHoldsPermit == \A c \in sessions : Active(c)

\* What the code does not keep: the first frame a client gets is the answer to
\* its handshake, which is the only one it accepts.
AckFirst == \A c \in Conns : first[c] # "open"

=============================================================================
