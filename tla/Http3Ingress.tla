---------------------------- MODULE Http3Ingress ----------------------------
(***************************************************************************)
(* The HTTP/3 ingress.  A reader task owns the request stream while the    *)
(* body is read, and hands it back when it is done: every answer sent      *)
(* after that task has started waits for it.                               *)
(***************************************************************************)
EXTENDS Edge

CONSTANT BodyQueue    \* capacity of the channel between reader and body

On(r, pc) == Kind(r) = "h3" /\ edge[r].pc = pc

H3Accept(r) == Kind(r) = "h3" /\ Accept(r, "quic_handshake")

\* The QUIC handshake; when it fails the task ends, with its permit.
H3Connected(r) ==
    /\ On(r, "quic_handshake")
    /\ Goes(r, "head") \/ ("visitor" \in load.faults /\ Gone(r))

\* A request without a usable host is an error of the handler, with no answer.
H3Request(r) ==
    /\ On(r, "head")
    /\ \/ load.req[r].host = "health" /\ Ends(r, 200, "own")
       \/ load.req[r].host = "bad" /\ Ends(r, 0, "none")
       \/ /\ load.req[r].host \notin {"health", "bad"}
          /\ StartsHooks(r, "on_request", 0, "request_hooks")

\* run_request_plugins.
H3RequestHooked(r) == On(r, "request_hooks") /\ AfterRequestHooks(r)

\* An answer that needs the stream back from the reader.
Owes(r, status) ==
    /\ edge' = [edge EXCEPT ![r].pc = "reply", ![r].status = status]
    /\ wire' = [wire EXCEPT ![r] = Closed(@)]
    /\ UNCHANGED <<answer, hook, routeVars>>

\* build_forward_request: a gRPC request needs an absolute URI, which may not
\* parse; any other is forwarded with the path it has.
build_forward_request(r) == IF edge[r].grpc THEN {"Ok", "Err"} ELSE {"Ok"}

\* The session, the reader task, and the request to forward.
H3Route(r) ==
    /\ On(r, "route")
    /\ IF Lookup(r) # 200 THEN Ends(r, Lookup(r), "own")
       ELSE /\ \E res \in build_forward_request(r) :
                 edge' = [edge EXCEPT ![r].reader = "reading",
                                      ![r].pc = IF res = "Ok" THEN "open" ELSE "reply",
                                      ![r].status = IF res = "Ok" THEN @ ELSE 400]
            /\ UNCHANGED <<wire, answer, hook, routeVars>>

H3Open(r) ==
    /\ On(r, "open")
    /\ \/ Opens(r, IF edge[r].grpc THEN "grpc" ELSE "http", "handshake")
       \/ OpenFails /\ Owes(r, 500)

\* forward_via_h1 and forward_via_h2 differ in the client they drive.
H3Handshake(r) ==
    /\ On(r, "handshake")
    /\ \/ Goes(r, "sent")
       \/ Arrived(r, "reset") /\ Owes(r, 502)
       \/ "tunnel" \in load.faults /\ Owes(r, 504)

H3Sent(r) ==
    /\ On(r, "sent")
    /\ \/ Arrived(r, "reset") /\ Owes(r, 502)
       \/ wire[r].frames = <<>> /\ Owes(r, 504)
       \/ /\ Arrived(r, "head")
          /\ edge' = [edge EXCEPT ![r].pc = "upstream", ![r].status = NextFrame(r).status]
          /\ wire' = Taken(r)
          /\ UNCHANGED <<answer, hook, routeVars>>

\* The request that holds the receiving end of the body is gone.
BodyDropped(r) ==
    /\ edge[r].pc \notin {"open", "handshake"}
    /\ wire[r].state # "open" \/ wire[r].body = "failed"

\* The body reader: the body is over, nobody reads the next chunk, the chunk
\* is over the budget or the visitor is gone, or there is room for it.
H3Read(r) ==
    /\ Kind(r) = "h3" /\ edge[r].reader = "reading"
    /\ LET room == edge[r].queue < BodyQueue
           fails == ~edge[r].permit \/ edge[r].got + 1 > MaxRequestBody
       IN \/ /\ (edge[r].left = 0 /\ edge[r].permit) \/ BodyDropped(r)
             /\ edge' = [edge EXCEPT ![r].reader = "done", ![r].got = 0]
          \/ /\ fails /\ room /\ (edge[r].left > 0 \/ ~edge[r].permit)
             /\ edge' = [edge EXCEPT ![r].reader = "done", ![r].got = 0, ![r].oversized = TRUE]
          \/ /\ ~fails /\ room /\ edge[r].left > 0
             /\ edge' = [edge EXCEPT ![r].left = @ - 1, ![r].got = @ + 1, ![r].queue = @ + 1]
    /\ UNCHANGED <<wire, answer, hook, routeVars>>

\* Http3RequestBody::poll_frame, driven by the connection to the tunnel.
H3Pump(r) ==
    /\ Kind(r) = "h3" /\ edge[r].pc \in {"sent", "upstream", "streaming", "collecting"}
    /\ wire[r].state = "open" /\ wire[r].body = "open"
    /\ \/ /\ edge[r].queue > 0
          /\ edge' = [edge EXCEPT ![r].queue = @ - 1, ![r].sent = @ + 1]
          /\ UNCHANGED wire
       \/ /\ edge[r].queue = 0 /\ edge[r].reader = "done"
          /\ wire' = [wire EXCEPT ![r] = IF edge[r].oversized THEN Broken(@)
                                         ELSE [@ EXCEPT !.body = "complete"]]
          /\ UNCHANGED edge
    /\ UNCHANGED <<answer, hook, routeVars>>

\* The stream is back, and the answer is sent on it.
H3Reply(r) ==
    /\ edge[r].reader = "done"
    /\ \/ On(r, "reply") /\ Ends(r, edge[r].status, "own")
       \/ /\ On(r, "upstream")
          /\ IF needs_response_buffering
             THEN edge' = [edge EXCEPT ![r].pc = "collecting"] /\ UNCHANGED answer
             ELSE /\ edge' = [edge EXCEPT ![r].pc = "streaming"]
                  /\ answer' = [answer EXCEPT ![r] = [status |-> edge[r].status, body |-> "partial"]]
          /\ UNCHANGED <<wire, hook, routeVars>>

\* send_streaming_response: a stall finishes the stream as the end would.
H3Stream(r) ==
    /\ On(r, "streaming")
    /\ \/ Arrived(r, "data") /\ wire' = Taken(r) /\ UNCHANGED <<edge, answer, hook, routeVars>>
       \/ Arrived(r, "end") /\ Ends(r, answer[r].status, "upstream")
       \/ Arrived(r, "reset") /\ Ends(r, answer[r].status, "partial")
       \/ wire[r].frames = <<>> /\ Ends(r, answer[r].status, "finished")

\* send_buffered_response: a body that cannot be collected gets no answer.
H3Collect(r) ==
    /\ On(r, "collecting")
    /\ \/ /\ Arrived(r, "data") /\ edge[r].got + 1 <= MaxResponse
          /\ edge' = [edge EXCEPT ![r].got = @ + 1]
          /\ wire' = Taken(r)
          /\ UNCHANGED <<answer, hook, routeVars>>
       \/ Arrived(r, "data") /\ edge[r].got + 1 > MaxResponse /\ Ends(r, 0, "none")
       \/ Arrived(r, "reset") /\ Ends(r, 0, "none")
       \/ wire[r].frames = <<>> /\ Ends(r, 0, "none")
       \/ Arrived(r, "end") /\ StartsHooks(r, "on_response", edge[r].status, "response_hooks")

\* What is in the response after the hooks is sent, whatever they returned: a
\* placeholder is an empty 200.
H3ResponseHooked(r) ==
    /\ On(r, "response_hooks")
    /\ hook[r].action # "pending"
    /\ IF hook[r].restored THEN Ends(r, edge[r].status, "upstream")
       ELSE Ends(r, 200, "placeholder")

\* The connection task ends with the visitor; a request it has spawned runs on
\* and finds out when it reads or sends.
H3Closes(r) ==
    /\ Kind(r) = "h3" /\ edge[r].permit
    /\ edge[r].pc = "answered" \/ ("visitor" \in load.faults /\ edge[r].pc # "quic_handshake")
    /\ edge' = [edge EXCEPT ![r].permit = FALSE,
                            ![r].pc = IF @ \in {"answered", "head"} THEN "closed" ELSE @]
    /\ answer' = [answer EXCEPT ![r] = NoAnswer]
    /\ permits' = Freed(r)
    /\ UNCHANGED <<wire, hook, listener, attempts, session, load>>

H3Step(r) ==
    \/ H3Connected(r) \/ H3RequestHooked(r) \/ H3Route(r) \/ H3Open(r) \/ H3Handshake(r)
    \/ H3Sent(r) \/ H3Pump(r) \/ H3Reply(r) \/ H3Collect(r) \/ H3ResponseHooked(r)

\* The steps that wait for the visitor, to send its request and its body or to
\* read.
H3Visitor(r) == H3Request(r) \/ H3Read(r) \/ H3Stream(r)
=============================================================================
