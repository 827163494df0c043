---------------------------- MODULE TunnelClient ----------------------------
(***************************************************************************)
(* The background task of a client: the loop that connects, serves the     *)
(* session until it ends and connects again, over TCP, TLS or QUIC.  The   *)
(* state both ends share is declared here: connections, each an attempt of *)
(* a task at a run of the server, and the services of each run.            *)
(***************************************************************************)
EXTENDS Config

CONSTANTS
    Tasks,  \* client tasks, in the order they are spawned (bound)
    Conns,  \* connections that are not yet forgotten (bound)
    Runs    \* runs of the server, in the order they are started (bound)

VARIABLES
    setup,  \* what the client and the server were told
    task,   \* the client tasks
    conn,   \* the connections
    run,    \* the runs of the server
    left    \* faults still to come (bound)

sharedVars == <<setup, task, conn, run, left>>

NoTask == [state |-> "none", at |-> "connect", conn |-> 0, signalled |-> FALSE,
           aborted |-> FALSE, info |-> "held", blames |-> "nothing",
           granted |-> FALSE]   \* a server has registered a session for it (history)

NoConn == [client |-> "none", server |-> "none", run |-> 0, task |-> 0, ack |-> "none",
           store |-> FALSE, cut |-> FALSE,
           ahead |-> 0]   \* connections before it in the queue of the listener

Spawned == [NoTask EXCEPT !.state = "running"]
Running(t) == task[t].state = "running"

CT == setup.client.transport
Net(transport) == IF transport.type = "Quic" THEN "udp" ELSE "tcp"

\* The service of the server that the client is pointed at, and how it is set
\* up: the command line runs QUIC as a service of its own.
Target == IF setup.server.kind = "cli" /\ CT.type = "Quic" THEN "quic" ELSE "tunnel"
ST == IF Target = "quic" THEN setup.server.quic ELSE setup.server.transport

Listening(g) == run[g].svc[Target] = "running" /\ Net(ST) = Net(CT)

\* A connection both ends and the store are done with is forgotten.
Tidy(f) ==
    [c \in Conns |-> IF /\ f[c].client \in {"none", "closed"}
                        /\ f[c].server \in {"none", "closed"}
                        /\ ~f[c].store
                     THEN NoConn ELSE f[c]]

\* Dropping an attempt: before the session the stream is closed at once, after
\* it the open streams, with the batched sender, hold the connection.
Dropped(c) ==
    IF c = 0 THEN conn
    ELSE Tidy([conn EXCEPT ![c].client = IF @ = "session" THEN "lingering" ELSE "closed"])

\* The task returns; a sender of TunnelInfo it still held goes with it.
Ended(tk) == [tk EXCEPT !.state = "ended", !.at = "connect", !.conn = 0,
                        !.signalled = FALSE, !.aborted = FALSE,
                        !.info = IF @ = "held" THEN "dropped" ELSE @]

\* An attempt has returned Err: sleep for reconnect_delay, or stop.
Failed(tk) == IF setup.client.auto THEN [tk EXCEPT !.at = "sleep", !.conn = 0] ELSE Ended(tk)

-----------------------------------------------------------------------------
(* connect_once                                                            *)

TokenBad == ~validate_token_format(setup.client.token)
Unusable == TokenBad \/ ~ClientUsable(CT)

\* The token and the configuration are looked at anew in every attempt.
ConfigRefused(t) ==
    /\ Running(t) /\ task[t].at = "connect"
    /\ Unusable
    /\ task' = [task EXCEPT ![t] = [Failed(@) EXCEPT !.blames = IF TokenBad THEN "token" ELSE "transport"]]
    /\ UNCHANGED <<setup, conn, run, left>>

Queue(g) == {c \in Conns : conn[c].server = "queued" /\ conn[c].run = g}

FreeConns == {c \in Conns : conn[c] = NoConn}

Dial(t) ==
    /\ Running(t) /\ task[t].at = "connect"
    /\ ~Unusable
    /\ FreeConns # {}
    /\ \E g \in Runs :
          /\ Listening(g)
          /\ LET c == Min(FreeConns)
             IN /\ conn' = [conn EXCEPT ![c] = [NoConn EXCEPT !.client = "waiting", !.server = "queued",
                                                              !.run = g, !.task = t,
                                                              !.ahead = Cardinality(Queue(g))]]
                /\ task' = [task EXCEPT ![t].at = "io", ![t].conn = c]
    /\ UNCHANGED <<setup, run, left>>

\* Nobody listens.
DialRefused(t) ==
    /\ Running(t) /\ task[t].at = "connect"
    /\ ~Unusable
    /\ \A g \in Runs : ~Listening(g)
    /\ task' = [task EXCEPT ![t] = Failed(@)]
    /\ UNCHANGED <<setup, conn, run, left>>

InIo(t, side) ==
    /\ Running(t) /\ task[t].at = "io"
    /\ conn[task[t].conn].client = side

\* tls::connect refuses the server name and drops the TCP connection.
ServerNameRefused(t) ==
    /\ InIo(t, "waiting") /\ NameRefused(CT)
    /\ conn' = Dropped(task[t].conn)
    /\ task' = [task EXCEPT ![t] = [Failed(@) EXCEPT !.blames = "transport"]]
    /\ UNCHANGED <<setup, run, left>>

\* Fault: the tunnel is announced before the status of the ack is looked at.
PublishFirst(t) ==
    LET c == task[t].conn
    IN /\ InIo(t, "waiting")
       /\ conn[c].ack # "none" /\ ~conn[c].cut
       /\ IF conn[c].ack = "Success"
          THEN /\ conn' = [conn EXCEPT ![c].client = "session"]
               /\ task' = [task EXCEPT ![t].info = "sent"]
          ELSE /\ conn' = Dropped(c)
               /\ task' = [task EXCEPT ![t] = [Failed(@) EXCEPT !.info = "sent"]]
       /\ UNCHANGED <<setup, run, left>>

\* The HandshakeAck: a Success is announced once, to whoever waits in start.
HandshakeAck(t) ==
    LET c == task[t].conn
    IN /\ InIo(t, "waiting")
       /\ conn[c].ack # "none" /\ ~conn[c].cut
       /\ IF conn[c].ack = "Success"
          THEN /\ conn' = [conn EXCEPT ![c].client = "session"]
               /\ task' = [task EXCEPT ![t].info = "sent"]
          ELSE /\ conn' = Dropped(c)
               /\ task' = [task EXCEPT ![t] = Failed(@)]
       /\ UNCHANGED <<setup, run, left>>

\* The stream ends, or the TLS handshake fails, before an ack.
HandshakeLost(t) ==
    LET c == task[t].conn
    IN /\ InIo(t, "waiting")
       /\ (conn[c].server = "closed" /\ conn[c].ack = "none") \/ conn[c].cut
       /\ conn' = Dropped(c)
       /\ task' = [task EXCEPT ![t] = Failed(@)]
       /\ UNCHANGED <<setup, run, left>>

Fault(kind) == kind \in setup.faults /\ left > 0 /\ left' = left - 1

\* handshake_timeout passes first.  It covers the answer to the handshake, not
\* the connection and its TLS or QUIC handshake.
HandshakeTimeout(t) ==
    LET c == task[t].conn
    IN /\ InIo(t, "waiting")
       /\ CT.type # "Tcp" => conn[c].server \notin {"queued", "accepting"}
       /\ Fault("timeout")
       /\ conn' = Dropped(c)
       /\ task' = [task EXCEPT ![t] = Failed(@)]
       /\ UNCHANGED <<setup, run>>

\* run_session_loop returns only with an error: the server is gone, or a
\* heartbeat cannot be written.
Lost(c) == conn[c].server = "closed" \/ conn[c].cut

SessionEnds(t) ==
    LET c == task[t].conn
    IN /\ InIo(t, "session") /\ CT.type # "Quic"
       /\ Lost(c)
       /\ conn' = Dropped(c)
       /\ task' = [task EXCEPT ![t] = Failed(@)]
       /\ UNCHANGED <<setup, run, left>>

\* Over QUIC the heartbeats, the streams or the connection end first; then the
\* endpoint is closed and the task waits until it is idle.
QuicSessionEnds(t) ==
    LET c == task[t].conn
    IN /\ InIo(t, "session") /\ CT.type = "Quic"
       /\ Lost(c)
       /\ conn' = Tidy([conn EXCEPT ![c].client = "closed"])
       /\ task' = [task EXCEPT ![t].at = "closing", ![t].conn = 0]
       /\ UNCHANGED <<setup, run, left>>

EndpointIdle(t) ==
    /\ Running(t) /\ task[t].at = "closing"
    /\ task' = [task EXCEPT ![t] = Failed(@)]
    /\ UNCHANGED <<setup, conn, run, left>>

\* The sleep is not raced against the shutdown signal.
Wake(t) ==
    /\ Running(t) /\ task[t].at = "sleep"
    /\ task' = [task EXCEPT ![t].at = "connect"]
    /\ UNCHANGED <<setup, conn, run, left>>

Attempt(t) ==
    \/ ConfigRefused(t) \/ Dial(t) \/ DialRefused(t) \/ ServerNameRefused(t)
    \/ HandshakeAck(t) \/ HandshakeLost(t)
    \/ SessionEnds(t) \/ QuicSessionEnds(t) \/ EndpointIdle(t) \/ Wake(t)

-----------------------------------------------------------------------------
(* How a task is stopped.                                                  *)

\* Fault: only a connected task listens to the signal.
ObeyOnlineOnly(t) ==
    /\ Running(t) /\ task[t].signalled
    /\ task[t].at \in {"io", "closing"}
    /\ task' = [task EXCEPT ![t] = Ended(@)]
    /\ conn' = Dropped(task[t].conn)
    /\ UNCHANGED <<setup, run, left>>

\* shutdown_rx.changed() wins the select and the attempt is dropped.
Obey(t) ==
    /\ Running(t) /\ task[t].signalled
    /\ task[t].at # "sleep"
    /\ task' = [task EXCEPT ![t] = Ended(@)]
    /\ conn' = Dropped(task[t].conn)
    /\ UNCHANGED <<setup, run, left>>

\* An abort takes effect wherever the task waits.
AbortLands(t) ==
    /\ Running(t) /\ task[t].aborted
    /\ task' = [task EXCEPT ![t] = Ended(@)]
    /\ conn' = Dropped(task[t].conn)
    /\ UNCHANGED <<setup, run, left>>

\* The streams of a dropped session end, and with them the batched sender or
\* the QUIC connection.  A bridge (copy_bidirectional) ends only when the local
\* service closes its side: no timer does it.
LingerEnds(c) ==
    /\ conn[c].client = "lingering"
    /\ conn' = Tidy([conn EXCEPT ![c].client = "closed"])
    /\ UNCHANGED <<setup, task, run, left>>

\* The network loses a connection without a word; keepalive, retransmission or
\* the idle timeout of QUIC let each end find out in its own time.
Cut(c) ==
    /\ conn[c].client \in {"waiting", "session"} /\ conn[c].server # "closed"
    /\ ~conn[c].cut
    /\ Fault("cut")
    /\ conn' = [conn EXCEPT ![c].cut = TRUE]
    /\ UNCHANGED <<setup, task, run>>
=============================================================================
