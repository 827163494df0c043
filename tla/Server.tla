------------------------------- MODULE Server -------------------------------
(***************************************************************************)
(* The server as its user holds it: ferrotunnel::Server, each start of     *)
(* which is a run of its services under one task, and the                  *)
(* `ferrotunnel server` command, whose services share one process.         *)
(***************************************************************************)
EXTENDS Listener

VARIABLE
    server  \* the Server: its task and shutdown_tx, each a run, and the call
            \* under way

serverVars == <<server>>

Services == {"tunnel", "ingress", "tcp", "quic", "http3"}

NoRun == [state |-> "none", signalled |-> FALSE, svc |-> [s \in Services |-> "off"]]
Started == [NoRun EXCEPT !.state = "running",
                         !.svc = [s \in Services |-> IF s \in setup.server.services THEN "starting" ELSE "off"]]

Built == setup.server.transport.type # "error"
Facade == setup.server.kind = "facade"

\* The command spawns its services at once.
InitServer ==
    /\ run = [g \in Runs |-> IF ~Facade /\ Built /\ g = 1 THEN Started ELSE NoRun]
    /\ server = [task |-> IF ~Facade THEN 1 ELSE 0, tx |-> 0, call |-> "none"]

Alive(g) == run[g].state = "running"
Over(st) == st \in {"off", "ended", "failed"}

SetService(g, s, st) == run' = [run EXCEPT ![g].svc[s] = st]

\* A port is free once the service that held it is gone; the socket of a QUIC
\* endpoint stays with its connections.
Holds(h, s) ==
    \/ run[h].svc[s] \in {"running", "aborting"}
    \/ /\ s = Target /\ ST.type = "Quic"
       /\ \E c \in Conns : conn[c].run = h /\ conn[c].server \in {"handshake", "serving"}

\* A service fails to start when its port is held or, over QUIC, when its
\* configuration cannot be used.  Http3Ingress::start, which the command calls,
\* hands on a receiver whose sender is gone and returns as soon as it has bound.
ServiceBinds(g, s) ==
    /\ run[g].svc[s] = "starting"
    /\ SetService(g, s,
          IF \/ \E h \in Runs \ {g} : Holds(h, s)
             \/ s = "tunnel" /\ setup.server.transport.type = "Quic" /\ ~ServerUsable(setup.server.transport)
             \/ s = "quic" /\ ~ServerUsable(setup.server.quic)
             \/ s = "http3" /\ ~create_http3_endpoint(IF Facade THEN setup.server.http3 ELSE setup.server.quic.cert)
          THEN "failed"
          ELSE IF s = "http3" /\ ~Facade THEN "ended" ELSE "running")
    /\ UNCHANGED <<setup, task, conn, left>>

\* A service panics or returns an error.
ServiceFails(g, s) ==
    /\ run[g].svc[s] = "running"
    /\ Fault("service")
    /\ SetService(g, s, "failed")
    /\ conn' = IF s = Target THEN Unaccepted(conn, g) ELSE conn
    /\ UNCHANGED <<setup, task>>

\* The HTTP/3 ingress of a Server listens to the shutdown signal itself.
Http3Drains(g) ==
    /\ Facade /\ run[g].svc["http3"] = "running"
    /\ run[g].signalled
    /\ SetService(g, "http3", "ended")
    /\ UNCHANGED <<setup, task, conn, left>>

-----------------------------------------------------------------------------
(* run_services                                                            *)

Noticed(g) == \E s \in Services : run[g].svc[s] \in {"failed", "ended"}

\* Fault: only the control plane and the ingress are waited for.
NoticesTwo(g) ==
    /\ Facade /\ Alive(g)
    /\ run[g].signalled \/ \E s \in {"tunnel", "ingress"} : run[g].svc[s] \in {"failed", "ended"}
    /\ run' = [run EXCEPT ![g].state = "ended",
                          ![g].svc = [s \in Services |-> IF Over(@[s]) THEN @[s] ELSE "aborting"]]
    /\ UNCHANGED <<setup, task, conn, left>>

\* Whatever happens first, the rest is aborted; nobody waits for that.
RunEnds(g) ==
    /\ Facade /\ Alive(g)
    /\ run[g].signalled \/ Noticed(g)
    /\ run' = [run EXCEPT ![g].state = "ended",
                          ![g].svc = [s \in Services |-> IF Over(@[s]) THEN @[s] ELSE "aborting"]]
    /\ UNCHANGED <<setup, task, conn, left>>

\* The listener closes with its task; the handlers are tasks of their own and
\* serve on.
ServiceAborted(g, s) ==
    /\ run[g].svc[s] = "aborting"
    /\ SetService(g, s, "ended")
    /\ conn' = IF s = Target THEN Unaccepted(conn, g) ELSE conn
    /\ UNCHANGED <<setup, task, left>>

\* The process of the command ends, its tasks and sockets with it.
Exit(g) ==
    /\ run' = [run EXCEPT ![g].state = "ended",
                          ![g].svc = [s \in Services |-> IF Over(@[s]) THEN @[s] ELSE "ended"]]
    /\ conn' = Tidy([c \in Conns |-> IF conn[c].server = "none" THEN conn[c]
                                     ELSE [conn[c] EXCEPT !.server = "closed", !.store = FALSE, !.ahead = 0]])
    /\ UNCHANGED <<setup, task, left>>

\* try_join! ends with the first error; a service that returns Ok is missed by
\* nobody as long as another one runs.
CommandFails(g) ==
    /\ ~Facade /\ Alive(g)
    /\ \E s \in Services : run[g].svc[s] = "failed"
    /\ Exit(g)

ServerCtrlC(g) ==
    /\ ~Facade /\ Alive(g) /\ "server_ctrl_c" \in setup.calls
    /\ Exit(g)

RunSteps(g) ==
    \/ \E s \in Services : ServiceBinds(g, s) \/ ServiceAborted(g, s)
    \/ Http3Drains(g) \/ RunEnds(g) \/ CommandFails(g)

-----------------------------------------------------------------------------
(* ferrotunnel::Server                                                     *)

is_running == server.task # 0 /\ Alive(server.task)
ServerIdle == Facade /\ Built /\ server.call = "none"

SignalRun == IF server.tx = 0 THEN run ELSE [run EXCEPT ![server.tx].signalled = TRUE]

\* A finished task is taken and awaited first.
ServerStart ==
    /\ ServerIdle /\ "server_start" \in setup.calls
    /\ ~is_running
    /\ \E g \in Runs :
          /\ run[g].state = "none" /\ \A h \in Runs : h < g => run[h].state # "none"
          /\ run' = [run EXCEPT ![g] = Started]
          /\ server' = [server EXCEPT !.task = g, !.tx = g]
    /\ UNCHANGED <<setup, task, conn, left>>

ServerStop ==
    /\ ServerIdle /\ "server_stop" \in setup.calls /\ server.tx # 0
    /\ run' = SignalRun
    /\ server' = [server EXCEPT !.tx = 0]
    /\ UNCHANGED <<setup, task, conn, left>>

ServerShutdown ==
    /\ ServerIdle /\ "server_shutdown" \in setup.calls /\ server.task # 0
    /\ run' = SignalRun
    /\ server' = [server EXCEPT !.tx = 0, !.call = "shutdown"]
    /\ UNCHANGED <<setup, task, conn, left>>

ServerShutdownReturns ==
    /\ server.call = "shutdown" /\ ~is_running
    /\ server' = [server EXCEPT !.task = 0, !.call = "none"]
    /\ UNCHANGED sharedVars

\* Dropping the Server signals its run and forgets it.
ServerDrop ==
    /\ ServerIdle /\ "server_drop" \in setup.calls
    /\ run' = SignalRun
    /\ server' = [task |-> 0, tx |-> 0, call |-> "dropped"]
    /\ UNCHANGED <<setup, task, conn, left>>

ServerCalls ==
    ServerStart \/ ServerStop \/ ServerShutdown \/ ServerShutdownReturns \/ ServerDrop
=============================================================================
