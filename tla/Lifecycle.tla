----------------------------- MODULE Lifecycle -----------------------------
(***************************************************************************)
(* One client and one server from their configuration to their end: the    *)
(* user of each starts, stops, restarts and drops it, sessions are lost    *)
(* and evicted, services fail, and the client comes back.                  *)
(***************************************************************************)
EXTENDS Client, Server

CONSTANT Workloads  \* what the two sides may be told

vars == <<sharedVars, clientVars, serverVars>>

\* What the builders, or the command line, make of a workload.
Resolve(w) ==
    LET c == w.client
        s == w.server
    IN [w EXCEPT
          !.client = [c EXCEPT !.token = IF c.kind = "cli" THEN ClientResolved(@) ELSE @]
            @@ [transport |-> IF c.kind = "cli" THEN CliClientBuild(c.tls, c.quic, c.dashboard)
                              ELSE ClientBuild(c)],
          !.server = [s EXCEPT !.token = IF s.kind = "cli" THEN ServerResolved(@) ELSE @,
                               !.services = IF s.kind = "cli" THEN CliServices(@, s.tls) ELSE @]
            @@ [transport |-> IF s.kind = "cli" THEN CliServerBuild(s.tls) ELSE ServerBuild(s),
                quic |-> IF s.kind = "cli" THEN QuicFromCommon(s.tls) ELSE Tcp]]

Init ==
    /\ \E w \in Workloads : setup = Resolve(w)
    /\ InitClient /\ InitServer
    /\ conn = [c \in Conns |-> NoConn]
    /\ left = setup.budget

Kept(A, v) == A /\ UNCHANGED v

Next ==
    \/ Kept(ClientCalls, server)
    \/ Kept(ServerCalls, handle)
    \/ \E t \in Tasks :
          Kept(Attempt(t) \/ HandshakeTimeout(t) \/ Obey(t) \/ AbortLands(t), <<handle, server>>)
    \/ \E c \in Conns :
          Kept(Handle(c) \/ ServerHandshakeTimeout(c) \/ Evict(c) \/ EvictLate(c) \/ StoreFreed(c)
                 \/ LingerEnds(c) \/ Cut(c), <<handle, server>>)
    \/ \E g \in Runs :
          Kept(RunSteps(g) \/ ServerCtrlC(g) \/ \E s \in Services : ServiceFails(g, s), <<handle, server>>)

\* A bridge that its visitor, or the local service, never closes holds the
\* connection: neither end has a timer for one.
Bridged(c) ==
    setup.bridged /\ (conn[c].client = "lingering" \/ conn[c].server = "held")

\* Tasks that can run do, timers fire, both ends of a lost connection find out
\* and the cleanup task ticks.  A task told to stop polls the signal and its
\* attempt in random order (tokio::select!), so the signal cannot lose for ever
\* to attempts that fail at once.  A connection takes finitely many steps, so
\* one condition serves all of them.  Nothing is asked of the users, and
\* nothing of a connection that waits for a bridge.
Fairness ==
    /\ \A t \in Tasks :
          /\ WF_vars(Kept(Attempt(t), <<handle, server>>))
          /\ SF_vars(Kept(Obey(t) \/ AbortLands(t), <<handle, server>>))
    /\ \A c \in Conns :
          WF_vars(Kept(/\ ~Bridged(c)
                       /\ Handle(c) \/ Evict(c) \/ StoreFreed(c) \/ LingerEnds(c), <<handle, server>>))
    /\ \A g \in Runs : WF_vars(Kept(RunSteps(g), <<handle, server>>))

Spec == Init /\ [][Next]_vars /\ Fairness

-----------------------------------------------------------------------------
(* Properties.                                                             *)

\* What start of the client returns is so: Ok only if a server registered a
\* session for this very task, the error that the connection could not be
\* established only when the task has given up, and a timeout leaves a handle
\* that can start again and a task that is going away.
StartTellsTruth ==
    LET t == handle.of
    IN /\ handle.ret = "ok" => task[t].granted
       /\ handle.ret = "error" => task[t].state = "ended"
       /\ handle.ret = "timeout" => handle.task # t /\ (task[t].aborted \/ ~Running(t))

\* A client has at most one task that nobody told to end, and it is the one in
\* its handle: no timeout, cancelled call or drop leaves a tunnel running that
\* its owner can no longer stop.  When shutdown returns its task has ended.
NoStrayTask ==
    /\ \A t \in Tasks : Running(t) =>
          t = handle.task \/ task[t].signalled \/ task[t].aborted
    /\ handle.ret = "down" => ~Running(handle.of)

LastCall(calls) == calls[Len(calls)].config
Bad(config) == "bad" \in {config.ca, config.cert, config.key, config.server_name}

\* A TLS configuration the builders accept lacks nothing: an attempt of the
\* client, or every accept of the server, fails over it only when a file it
\* names does not load or its server name is none, which the builders do not
\* look at and which shows at each connection instead.  A client told to
\* present a certificate does.
ConfigUsable ==
    /\ setup.client.kind = "facade" /\ CT.type = "Tls" =>
          LET asked == LastCall(setup.client.calls)
          IN /\ \A t \in Tasks : task[t].blames = "transport" => Bad(asked)
             /\ asked.client_auth \/ asked.cert \in {"file", "bad"} =>
                   CT.cert # "empty" /\ CT.key # "empty"
    /\ Facade /\ ST.type = "Tls" => ServerUsable(ST) \/ Bad(LastCall(setup.server.calls))

\* A task told to stop, by a signal or an abort, ends whatever the attempt it
\* is in, and its connections are let go on both sides: closed by the client,
\* left by the server's handler and gone from its store.  Left over is at most
\* a connection that a bridge of the client still holds.
StopIsObeyed ==
    \A t \in Tasks :
        Running(t) /\ (task[t].signalled \/ task[t].aborted) ~>
            /\ ~Running(t)
            /\ \A c \in Conns : conn[c].task = t => Bridged(c)

Wants ==
    \E t \in Tasks :
        /\ Running(t) /\ ~task[t].signalled /\ ~task[t].aborted
        /\ setup.client.auto
        /\ ~Unusable /\ ~NameRefused(CT) /\ ServerUsable(ST) /\ Agree(CT, ST)
        /\ authenticate_handshake(setup.client.token, setup.server.token, setup.client.versions) = "Success"

\* The run the server's user would name is serving, and neither a handler of
\* an earlier run nor a bridge keeps the client, or its tunnel id, to itself.
Up ==
    /\ \A c \in Conns : ~Bridged(c)
    /\ server.task # 0 /\ Listening(server.task)
    /\ \A c \in Conns : conn[c].server \in {"handshake", "serving"} => conn[c].run = server.task

Reachable ==
    \E c \in Conns :
        /\ conn[c].client = "session" /\ conn[c].server = "serving" /\ conn[c].store
        /\ conn[c].run = server.task

\* A client that wants to reconnect is back, under its tunnel id and in the
\* store of the server that runs: a session that was lost and still holds the
\* id, left behind by a handler that failed, is evicted in the end.
Reconnects == <>[](Wants /\ Up) => []<>Reachable

\* A run of the server does not limp: when a service of a Server ends, or its
\* user signals it, all of them end; when one of the command's services fails,
\* the process exits.
FailStop ==
    \A g \in Runs :
        \/ Alive(g) /\ Facade /\ (run[g].signalled \/ Noticed(g))
        \/ Alive(g) /\ ~Facade /\ \E s \in Services : run[g].svc[s] = "failed"
        ~> ~Alive(g) /\ \A s \in Services : Over(run[g].svc[s])
=============================================================================
