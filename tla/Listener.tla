------------------------------ MODULE Listener ------------------------------
(***************************************************************************)
(* The tunnel service of a run of the server as its clients meet it: the   *)
(* accept loop, one handler per connection, and the eviction of stale      *)
(* sessions.  Module TunnelServer has the frames, permits and clocks of    *)
(* one run; here are the runs, the transports and the ends of both sides.  *)
(***************************************************************************)
EXTENDS TunnelClient

\* A handler returns.
Closed(c) == Tidy([conn EXCEPT ![c].server = "closed"])
Forgotten(c) == Tidy([conn EXCEPT ![c].server = "closed", ![c].store = FALSE])

AtServer(c, st) == conn[c].server = st

\* The other end has closed the connection, or the network has lost it.
Broken(c) == conn[c].cut \/ conn[c].client = "closed"

\* What the client sends can be told to be no handshake of this transport: a
\* client that refuses its own server name sends nothing.
Mismatched(c) == ~Agree(CT, ST) /\ ~NameRefused(CT)

\* transport::accept and quic::accept finish one handshake before the next
\* connection is taken from the queue, the oldest first.
AcceptConn(c) ==
    /\ AtServer(c, "queued") /\ conn[c].ahead = 0
    /\ Listening(conn[c].run)
    /\ \A d \in Conns : conn[d].run = conn[c].run => ~AtServer(d, "accepting")
    /\ conn' = [d \in Conns |->
                  IF d = c THEN [conn[c] EXCEPT !.server = IF ST.type = "Tcp" THEN "handshake" ELSE "accepting"]
                  ELSE IF d \in Queue(conn[c].run) THEN [conn[d] EXCEPT !.ahead = @ - 1]
                  ELSE conn[d]]
    /\ UNCHANGED <<setup, task, run, left>>

\* The server's side of the TLS configuration is built for each connection, so
\* this is where one that cannot be used shows.
AcceptEnds(c) ==
    /\ AtServer(c, "accepting")
    /\ Listening(conn[c].run)
    /\ \/ /\ ServerUsable(ST) /\ Agree(CT, ST) /\ ~NameRefused(CT) /\ ~Broken(c)
          /\ conn' = [conn EXCEPT ![c].server = "handshake"]
       \/ /\ ~ServerUsable(ST) \/ Mismatched(c) \/ Broken(c)
          /\ conn' = Closed(c)
    /\ UNCHANGED <<setup, task, run, left>>

\* No handshake comes that can be read; a timeout is a fault of its own.
HandshakeFails(c) ==
    /\ AtServer(c, "handshake")
    /\ Mismatched(c) \/ Broken(c)
    /\ conn' = Closed(c)
    /\ UNCHANGED <<setup, task, run, left>>

ServerHandshakeTimeout(c) ==
    /\ AtServer(c, "handshake")
    /\ Fault("timeout")
    /\ conn' = Closed(c)
    /\ UNCHANGED <<setup, task, run>>

\* sessions.add refuses a tunnel id another session of this run holds.  Without
\* an id of its own a session takes its fresh session id.
Taken(c) ==
    /\ setup.client.tunnel_id
    /\ \E d \in Conns \ {c} : conn[d].store /\ conn[d].run = conn[c].run

\* The handshake frame is read, though its sender may be gone by now.
Authenticate(c) ==
    LET status == authenticate_handshake(setup.client.token, setup.server.token, setup.client.versions)
    IN /\ AtServer(c, "handshake")
       /\ Agree(CT, ST)
       /\ conn' = IF status = "Success" /\ ~Taken(c)
                  THEN [conn EXCEPT ![c].server = "serving", ![c].store = TRUE, ![c].ack = "Success"]
                  ELSE Tidy([conn EXCEPT ![c].server = "closed",
                                         ![c].ack = IF status = "Success" THEN "TunnelIdTaken" ELSE status])
       /\ task' = [task EXCEPT ![conn[c].task].granted = @ \/ (status = "Success" /\ ~Taken(c))]
       /\ UNCHANGED <<setup, run, left>>

\* The client hung up, and the session is removed.  Over QUIC the control
\* stream ends with the client's task, whatever holds the connection.
HandlerSeesEof(c) ==
    /\ AtServer(c, "serving")
    /\ \/ conn[c].client = "closed"
       \/ conn[c].client = "lingering" /\ ST.type = "Quic"
    /\ ~conn[c].cut
    /\ conn' = Forgotten(c)
    /\ UNCHANGED <<setup, task, run, left>>

\* The read fails: over TCP and TLS the handler returns through `?` and leaves
\* the session in the store, over QUIC it removes it.
HandlerFails(c) ==
    /\ AtServer(c, "serving")
    /\ Broken(c)
    /\ conn' = IF ST.type = "Quic" THEN Forgotten(c) ELSE Closed(c)
    /\ UNCHANGED <<setup, task, run, left>>

\* The next frame finds the session evicted: "Session not found".  Over QUIC
\* the client sees the control stream end; over TCP and TLS the socket stays
\* open while an ingress task holds a sender of frames.
HandlerOrphaned(c) ==
    /\ AtServer(c, "serving")
    /\ ~conn[c].store /\ conn[c].client \in {"waiting", "session", "lingering"} /\ ~conn[c].cut
    /\ \/ conn' = Closed(c)
       \/ ST.type # "Quic" /\ conn' = [conn EXCEPT ![c].server = "held"]
    /\ UNCHANGED <<setup, task, run, left>>

\* The last of those tasks ends: a relay when it is idle for long enough, a
\* WebSocket bridge when its visitor leaves.
RelayEnds(c) ==
    /\ AtServer(c, "held")
    /\ conn' = Closed(c)
    /\ UNCHANGED <<setup, task, run, left>>

\* Fault: sessions are evicted only while their handler runs.
EvictServing(c) ==
    /\ conn[c].store /\ run[conn[c].run].svc[Target] = "running"
    /\ conn[c].server = "serving" /\ (Broken(c) \/ conn[c].client = "lingering")
    /\ conn' = Tidy([conn EXCEPT ![c].store = FALSE])
    /\ UNCHANGED <<setup, task, run, left>>

\* The cleanup task removes a session that has had no heartbeat for
\* session_timeout; it runs as long as the tunnel service does.  A client
\* whose task is gone sends no heartbeats, and frames only from its bridges.
Evict(c) ==
    /\ conn[c].store /\ run[conn[c].run].svc[Target] = "running"
    /\ conn[c].server = "closed" \/ Broken(c) \/ conn[c].client = "lingering"
    /\ conn' = Tidy([conn EXCEPT ![c].store = FALSE])
    /\ UNCHANGED <<setup, task, run, left>>

\* The heartbeats of a live session are late.
EvictLate(c) ==
    /\ conn[c].store /\ run[conn[c].run].svc[Target] = "running"
    /\ AtServer(c, "serving") /\ ~Broken(c)
    /\ Fault("evict")
    /\ conn' = [conn EXCEPT ![c].store = FALSE]
    /\ UNCHANGED <<setup, task, run>>

\* The store of a run goes with the last task that holds it.
StoreFreed(c) ==
    /\ conn[c].store /\ AtServer(c, "closed")
    /\ run[conn[c].run].svc[Target] \in {"ended", "failed"}
    /\ conn' = Tidy([conn EXCEPT ![c].store = FALSE])
    /\ UNCHANGED <<setup, task, run, left>>

Handle(c) ==
    \/ AcceptConn(c) \/ AcceptEnds(c)
    \/ HandshakeFails(c) \/ Authenticate(c)
    \/ HandlerSeesEof(c) \/ HandlerFails(c) \/ HandlerOrphaned(c) \/ RelayEnds(c)

\* What closing the listener of run g does to the connections it has not
\* handed to a handler.
Unaccepted(f, g) ==
    Tidy([c \in Conns |-> IF f[c].run = g /\ f[c].server \in {"queued", "accepting"}
                          THEN [f[c] EXCEPT !.server = "closed", !.ahead = 0] ELSE f[c]])
=============================================================================
