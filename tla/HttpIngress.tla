----------------------------- MODULE HttpIngress -----------------------------
(***************************************************************************)
(* The HTTP/1.1 and HTTP/2 ingress: handle_request from the request head   *)
(* to the last frame of the response, with the two body wrappers.          *)
(***************************************************************************)
EXTENDS Edge

HttpAccept(r) == Kind(r) = "http" /\ Accept(r, "head")

At(r, pc) == Kind(r) = "http" /\ edge[r].pc = pc

\* Health check, host, and the round of request hooks.
HttpRequest(r) ==
    /\ At(r, "head")
    /\ \/ load.req[r].host = "health" /\ Ends(r, 200, "own")
       \/ load.req[r].host = "bad" /\ Ends(r, 400, "own")
       \/ /\ load.req[r].host \notin {"health", "bad"}
          /\ StartsHooks(r, "on_request", 0, "request_hooks")

HttpRequestHooked(r) == At(r, "request_hooks") /\ AfterRequestHooks(r)

content_length_exceeds(r) == load.req[r].declared /\ load.req[r].chunks > MaxRequestBody

\* The session of the host, and a declared length over the limit.
HttpRoute(r) ==
    /\ At(r, "route")
    /\ IF Lookup(r) # 200 THEN Ends(r, Lookup(r), "own")
       ELSE IF content_length_exceeds(r) THEN Ends(r, 413, "own")
       ELSE Goes(r, "open")

HttpProtocol(r) == IF load.req[r].ws THEN "ws" ELSE IF edge[r].grpc THEN "grpc" ELSE "http"

HttpOpen(r) ==
    /\ At(r, "open")
    /\ Opens(r, HttpProtocol(r), "handshake") \/ (OpenFails /\ Ends(r, 500, "own"))

\* The client handshake on the stream: done, failed, or out of time.
HttpHandshake(r) ==
    /\ At(r, "handshake")
    /\ \/ Goes(r, "sent")
       \/ Arrived(r, "reset") /\ Ends(r, 502, "own")
       \/ "tunnel" \in load.faults /\ Ends(r, 504, "own")

\* Fault: the wrapper counts the frames it lets through, not what they hold.
PumpUnmetered(r) ==
    /\ Kind(r) = "http" /\ edge[r].pc \in {"sent", "streaming", "collecting"}
    /\ wire[r].state = "open" /\ wire[r].body = "open"
    /\ IF edge[r].left = 0
       THEN wire' = [wire EXCEPT ![r].body = "complete"] /\ UNCHANGED edge
       ELSE /\ edge' = [edge EXCEPT ![r].sent = @ + 1, ![r].left = @ - 1]
            /\ UNCHANGED wire
    /\ UNCHANGED <<answer, hook, routeVars>>

\* LimitedBody::poll_frame, driven by the connection task: the next frame of
\* the visitor is passed on, ends the body, or is one too many.
PumpBody(r) ==
    /\ Kind(r) = "http" /\ edge[r].pc \in {"sent", "streaming", "collecting"}
    /\ wire[r].state = "open" /\ wire[r].body = "open"
    /\ IF edge[r].left = 0
       THEN wire' = [wire EXCEPT ![r].body = "complete"] /\ UNCHANGED edge
       ELSE IF edge[r].sent + 1 > MaxRequestBody
       THEN /\ edge' = [edge EXCEPT ![r].oversized = TRUE, ![r].left = 0]
            /\ wire' = [wire EXCEPT ![r] = Broken(@)]
       ELSE /\ edge' = [edge EXCEPT ![r].sent = @ + 1, ![r].left = @ - 1]
            /\ UNCHANGED wire
    /\ UNCHANGED <<answer, hook, routeVars>>

\* Fault: a send that fails is always reported as a bad gateway.
SendFailsBlindly(r) ==
    /\ At(r, "sent")
    /\ Arrived(r, "reset")
    /\ Ends(r, 502, "own")

HttpSendFails(r) ==
    /\ At(r, "sent")
    /\ Arrived(r, "reset")
    /\ Ends(r, IF edge[r].oversized THEN 413 ELSE 502, "own")

\* Fault: the time runs only once something has arrived.
TimeoutOfBodyOnly(r) ==
    /\ At(r, "sent")
    /\ Arrived(r, "data")
    /\ Ends(r, 504, "own")

HttpResponseTimeout(r) ==
    /\ At(r, "sent")
    /\ wire[r].frames = <<>>
    /\ Ends(r, 504, "own")

\* The response head.  An upgrade leaves the connection to the bridge task,
\* and the permit with it; gRPC is always streamed, and so is any response
\* that no plugin has to see.
HttpResponseHead(r) ==
    /\ At(r, "sent")
    /\ Arrived(r, "head")
    /\ LET s == NextFrame(r).status
       IN IF load.req[r].ws /\ ~edge[r].grpc /\ s = 101
          THEN /\ edge' = [edge EXCEPT ![r].pc = "bridge", ![r].permit = FALSE]
               /\ answer' = [answer EXCEPT ![r] = [status |-> 101, body |-> "bridge"]]
               /\ permits' = Freed(r)
          ELSE IF edge[r].grpc \/ ~needs_response_buffering
          THEN /\ edge' = [edge EXCEPT ![r].pc = "streaming"]
               /\ answer' = [answer EXCEPT ![r] = [status |-> s, body |-> "partial"]]
               /\ UNCHANGED permits
          ELSE /\ edge' = [edge EXCEPT ![r].pc = "collecting", ![r].status = s]
               /\ UNCHANGED <<answer, permits>>
    /\ wire' = Taken(r)
    /\ UNCHANGED <<hook, listener, attempts, session, load>>

\* TimeoutBody::poll_frame: the frames of a streamed response, and the stall
\* that aborts it.  The server asks for the next frame only while the visitor
\* reads, and the time runs only when it asks.
HttpStream(r) ==
    /\ At(r, "streaming")
    /\ \/ Arrived(r, "data") /\ wire' = Taken(r) /\ UNCHANGED <<edge, answer, hook, routeVars>>
       \/ Arrived(r, "end") /\ Ends(r, answer[r].status, "upstream")
       \/ Arrived(r, "reset") /\ Ends(r, answer[r].status, "partial")
       \/ wire[r].frames = <<>> /\ Ends(r, answer[r].status, "partial")

\* The bridge of an upgraded connection ends with the tunnel's side.
HttpBridge(r) ==
    /\ At(r, "bridge")
    /\ \/ Arrived(r, "data") /\ wire' = Taken(r) /\ UNCHANGED <<edge, answer, hook, routeVars>>
       \/ (Arrived(r, "end") \/ Arrived(r, "reset")) /\ Ends(r, 101, "bridge")

\* collect_body_with_limit, up to the round of response hooks.
HttpCollect(r) ==
    /\ At(r, "collecting")
    /\ \/ /\ Arrived(r, "data") /\ edge[r].got + 1 <= MaxResponse
          /\ edge' = [edge EXCEPT ![r].got = @ + 1]
          /\ wire' = Taken(r)
          /\ UNCHANGED <<answer, hook, routeVars>>
       \/ Arrived(r, "data") /\ edge[r].got + 1 > MaxResponse /\ Ends(r, 502, "own")
       \/ Arrived(r, "reset") /\ Ends(r, 502, "own")
       \/ wire[r].frames = <<>> /\ Ends(r, 504, "own")
       \/ Arrived(r, "end") /\ StartsHooks(r, "on_response", edge[r].status, "response_hooks")

\* Fault: the error of a response hook is logged, and what the registry left
\* behind is sent.
ShipWhatIsLeft(r) ==
    /\ At(r, "response_hooks")
    /\ hook[r].action # "pending"
    /\ IF hook[r].action \in {"Reject", "Respond"} THEN Ends(r, hook[r].status, "plugin")
       ELSE Ends(r, edge[r].status, IF hook[r].restored THEN "upstream" ELSE "placeholder")

\* What the response hooks decided.
HttpResponseHooked(r) ==
    /\ At(r, "response_hooks")
    /\ \/ hook[r].action \in {"Continue", "Modify"} /\ Ends(r, edge[r].status, "upstream")
       \/ hook[r].action \in {"Reject", "Respond"} /\ Ends(r, hook[r].status, "plugin")
       \/ hook[r].action = "Err" /\ Ends(r, 500, "own")

\* The visitor's connection closes: after the answer, or under the handler,
\* which is dropped at the point it has reached.
HttpCloses(r) ==
    /\ Kind(r) = "http"
    /\ edge[r].pc \notin {"new", "closed"}
    /\ edge[r].pc = "answered" \/ "visitor" \in load.faults
    /\ Gone(r)

HttpStep(r) ==
    \/ HttpRequestHooked(r) \/ HttpRoute(r) \/ HttpOpen(r) \/ HttpHandshake(r)
    \/ HttpSendFails(r) \/ HttpResponseTimeout(r) \/ HttpResponseHead(r)
    \/ HttpBridge(r) \/ HttpCollect(r) \/ HttpResponseHooked(r)

\* The steps that wait for the visitor, to send its request or to read.
HttpVisitor(r) == HttpRequest(r) \/ HttpStream(r)
=============================================================================
