-------------------------------- MODULE Edge --------------------------------
(***************************************************************************)
(* What the three ingresses of the server share: the accept loop with its  *)
(* connection permits and its backoff, the route from a request to the     *)
(* tunnel of its host, and the stream opened through that tunnel.  Each    *)
(* visitor's connection carries one request.                               *)
(***************************************************************************)
EXTENDS Plugins, Backoff

CONSTANTS
    MaxRequestBody,   \* max_request_body_size
    MaxResponse       \* max_response_size

VARIABLES
    edge,       \* the handler of each request
    wire,       \* the tunnel stream of each request
    answer,     \* what the visitor has been sent
    permits,    \* the connection semaphore of each ingress
    listener,   \* the accept loop of each ingress
    attempts,   \* its backoff
    session     \* the session of the tunnel; "stale" when it is in the store and its
                \* connection is lost

routeVars == <<permits, listener, attempts, session, load>>
edgeVars == <<edge, wire, answer>>

Kinds == {"http", "h3", "tcp"}

Idle == [pc |-> "new", permit |-> FALSE, grpc |-> FALSE, status |-> 0, oversized |-> FALSE,
         left |-> 0, sent |-> 0, got |-> 0, reader |-> "none", queue |-> 0]

NoStream == [state |-> "none", protocol |-> "none", body |-> "open", frames |-> <<>>]

NoAnswer == [status |-> 0, body |-> "none"]

InitEdge ==
    /\ edge = [r \in Req |-> [Idle EXCEPT !.left = load.req[r].chunks]]
    /\ wire = [r \in Req |-> NoStream]
    /\ answer = [r \in Req |-> NoAnswer]
    /\ permits = [k \in Kinds |-> load.max_connections]
    /\ listener = [k \in Kinds |-> "accepting"]
    /\ attempts = [k \in Kinds |-> 0]
    /\ session = load.session

Kind(r) == load.req[r].kind

-----------------------------------------------------------------------------
(* The accept loops.                                                       *)

\* Fault: the permit is kept when the connection goes away.
KeepsPermit(r) == permits

\* The permits once the task of a connection has ended.
Freed(r) == IF edge[r].permit THEN [permits EXCEPT ![Kind(r)] = @ + 1] ELSE permits

\* A connection is accepted with a permit, and dropped without one.
Accept(r, pc) ==
    /\ edge[r].pc = "new"
    /\ listener[Kind(r)] = "accepting"
    /\ attempts' = [attempts EXCEPT ![Kind(r)] = 0]
    /\ IF permits[Kind(r)] > 0
       THEN /\ permits' = [permits EXCEPT ![Kind(r)] = @ - 1]
            /\ edge' = [edge EXCEPT ![r].pc = pc, ![r].permit = TRUE]
       ELSE /\ edge' = [edge EXCEPT ![r].pc = "closed"]
            /\ UNCHANGED permits
    /\ UNCHANGED <<wire, answer, hook, listener, session, load>>

\* A transient error of accept: the loop sleeps, unless the delay of an
\* attempt this far out is past what a double holds, which is a panic.
AcceptFails(k) ==
    /\ k \in load.flaky
    /\ listener[k] = "accepting"
    /\ k # "h3"
    /\ attempts[k] <= MaxExponent
    /\ listener' = [listener EXCEPT ![k] = IF Samples(attempts[k]) THEN "sleeping" ELSE "dead"]
    /\ attempts' = [attempts EXCEPT ![k] = NextAttempt(@)]
    /\ UNCHANGED <<edgeVars, hook, permits, session, load>>

AcceptAgain(k) ==
    /\ listener[k] = "sleeping"
    /\ listener' = [listener EXCEPT ![k] = "accepting"]
    /\ UNCHANGED <<edgeVars, hook, permits, attempts, session, load>>

\* Any other error ends the loop: accept fails for good, or the QUIC endpoint
\* is closed.
AcceptEnds(k) ==
    /\ k \in load.flaky
    /\ listener[k] = "accepting"
    /\ listener' = [listener EXCEPT ![k] = "dead"]
    /\ UNCHANGED <<edgeVars, hook, permits, attempts, session, load>>

-----------------------------------------------------------------------------
(* The tunnel.                                                             *)

Closed(w) ==
    IF w.state = "open" THEN [w EXCEPT !.state = "closed", !.body = "failed", !.frames = <<>>] ELSE w

\* The stream fails under whoever reads it.
Broken(w) == [w EXCEPT !.body = "failed", !.frames = Append(@, [type |-> "reset", status |-> 0])]

\* The connection to the client is lost.  The handler of the session removes
\* it from the store, or fails and leaves it there for the sweep.  The streams
\* stay with the ingress tasks that hold them.
TunnelDrops ==
    /\ "tunnel" \in load.faults
    /\ session \in {"ready", "no_multiplexer"}
    /\ session' \in IF session = "ready" THEN {"stale", "gone"} ELSE {"gone"}
    /\ UNCHANGED <<edgeVars, hook, permits, listener, attempts, load>>

\* The sweep removes the session that was left behind.
TunnelSwept ==
    /\ session = "stale"
    /\ session' = "gone"
    /\ UNCHANGED <<edgeVars, hook, permits, listener, attempts, load>>

\* A stream of the lost connection fails: over QUIC at once, over TCP with a
\* write that fails or when the last clone of the multiplexer goes, and until
\* then its reader sees nothing.
TunnelFails(r) ==
    /\ session \in {"stale", "gone"}
    /\ wire[r].state = "open" /\ wire[r].body # "failed"
    /\ wire' = [wire EXCEPT ![r] = Broken(@)]
    /\ UNCHANGED <<edge, answer, hook, routeVars>>

\* A handler ends: the visitor has its answer, if it is still there, and the
\* stream is let go.
Ends(r, status, body) ==
    /\ edge' = [edge EXCEPT ![r] = [Idle EXCEPT !.permit = edge[r].permit, !.sent = edge[r].sent,
          !.pc = IF edge[r].permit \/ edge[r].pc = "bridge" THEN "answered" ELSE "closed"]]
    /\ answer' = IF edge[r].permit
                 THEN [answer EXCEPT ![r] = [status |-> status, body |-> body]] ELSE answer
    /\ wire' = [wire EXCEPT ![r] = Closed(@)]
    /\ hook' = [hook EXCEPT ![r] = NoHooks]
    /\ UNCHANGED routeVars

Goes(r, pc) ==
    /\ edge' = [edge EXCEPT ![r].pc = pc]
    /\ UNCHANGED <<wire, answer, hook, routeVars>>

StartsHooks(r, round, status, pc) ==
    /\ edge' = [edge EXCEPT ![r].pc = pc, ![r].status = status]
    /\ hook' = [hook EXCEPT ![r] = StartHooks(round, status)]
    /\ UNCHANGED <<wire, answer, routeVars>>

\* get_by_tunnel_id, and the multiplexer of the session it finds.
Lookup(r) ==
    IF load.req[r].host # "tunnel" \/ session = "gone" THEN 404
    ELSE IF session = "no_multiplexer" THEN 502
    ELSE 200

\* open_stream of the multiplexer the handler has cloned: on a lost connection,
\* too, the frame may find its place in the channel.
Opens(r, protocol, pc) ==
    /\ edge' = [edge EXCEPT ![r].pc = pc]
    /\ wire' = [wire EXCEPT ![r].state = "open", ![r].protocol = protocol]
    /\ UNCHANGED <<answer, hook, routeVars>>

\* The channel is closed, or stayed full until the deadline.
OpenFails == session # "ready" \/ "tunnel" \in load.faults

NextFrame(r) == wire[r].frames[1]
Arrived(r, type) == wire[r].frames # <<>> /\ NextFrame(r).type = type
Taken(r) == [wire EXCEPT ![r].frames = Tail(@)]

\* What the request hooks decided.  A plugin may change the content type, and
\* with it whether the request is gRPC.
AfterRequestHooks(r) ==
    \/ /\ hook[r].action \in {"Continue", "Modify"}
       /\ \E grpc \in {load.req[r].grpc} \cup (IF hook[r].action = "Modify" THEN BOOLEAN ELSE {}) :
              edge' = [edge EXCEPT ![r].pc = "route", ![r].grpc = grpc]
       /\ hook' = [hook EXCEPT ![r] = NoHooks]
       /\ UNCHANGED <<wire, answer, routeVars>>
    \/ hook[r].action \in {"Reject", "Respond"} /\ Ends(r, hook[r].status, "plugin")
    \/ hook[r].action = "Err" /\ Ends(r, 500, "own")

\* The task of a connection is over, with its stream and its permit.
Gone(r) ==
    /\ edge' = [edge EXCEPT ![r] = [Idle EXCEPT !.pc = "closed", !.sent = edge[r].sent]]
    /\ wire' = [wire EXCEPT ![r] = Closed(@)]
    /\ hook' = [hook EXCEPT ![r] = Detached(@)]
    /\ answer' = [answer EXCEPT ![r] = NoAnswer]
    /\ permits' = Freed(r)
    /\ UNCHANGED <<listener, attempts, session, load>>
=============================================================================
