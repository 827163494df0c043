----------------------------- MODULE TcpIngress -----------------------------
(***************************************************************************)
(* The TCP ingress: a raw connection goes to any tunnel with the "tcp"     *)
(* capability, and is copied in both directions until one side is done or  *)
(* the time given to the whole copy is up.                                 *)
(***************************************************************************)
EXTENDS Edge

TcpAt(r, pc) == Kind(r) = "tcp" /\ edge[r].pc = pc

\* A permit, and find_multiplexer_with_capability: without a tunnel the
\* connection is dropped, and the permit with it.
TcpAccept(r) ==
    /\ Kind(r) = "tcp"
    /\ \/ session \in {"ready", "stale"} /\ load.tcp /\ Accept(r, "open")
       \/ /\ session \notin {"ready", "stale"} \/ ~load.tcp
          /\ edge[r].pc = "new" /\ listener["tcp"] = "accepting"
          /\ edge' = [edge EXCEPT ![r].pc = "closed"]
          /\ attempts' = [attempts EXCEPT !["tcp"] = 0]
          /\ UNCHANGED <<wire, answer, hook, permits, listener, session, load>>

\* open_stream, under the connection timeout.
TcpOpen(r) ==
    /\ TcpAt(r, "open")
    /\ \/ Opens(r, "tcp", "copying")
       \/ OpenFails /\ Gone(r)

\* copy_bidirectional: each side is forwarded until both have ended, or one
\* of them fails.
TcpCopy(r) ==
    /\ TcpAt(r, "copying")
    /\ \/ /\ edge[r].left > 0 /\ wire[r].body = "open"
          /\ edge' = [edge EXCEPT ![r].left = @ - 1, ![r].sent = @ + 1]
          /\ UNCHANGED <<wire, answer, hook, routeVars>>
       \/ /\ edge[r].left = 0 /\ wire[r].body = "open"
          /\ wire' = [wire EXCEPT ![r].body = "complete"]
          /\ UNCHANGED <<edge, answer, hook, routeVars>>
       \/ Arrived(r, "data") /\ wire' = Taken(r) /\ UNCHANGED <<edge, answer, hook, routeVars>>
       \/ Arrived(r, "end") /\ wire[r].body = "complete" /\ Gone(r)
       \/ Arrived(r, "reset") /\ Gone(r)

\* idle_timeout limits the copy as a whole; an error on the visitor's side
\* ends it the same way.
TcpTimesOut(r) == TcpAt(r, "copying") /\ Gone(r)

TcpStep(r) == TcpOpen(r) \/ TcpCopy(r) \/ TcpTimesOut(r)
=============================================================================
