---------------------------- MODULE RequestPath ----------------------------
(***************************************************************************)
(* A request from the visitor to the local service and back: the three     *)
(* ingresses with their plugins on the server, and the local proxy with    *)
(* its pool and the dashboard on the client.                               *)
(***************************************************************************)
EXTENDS HttpIngress, Http3Ingress, TcpIngress, Dashboard, FiniteSets

clockVars == <<breaker, quota, now>>
vars == <<routeVars, edgeVars, pluginVars, localVars, dashVars>>

Init == InitPlugins /\ InitEdge /\ InitLocal /\ InitDashboard

AtEdge(A) == A /\ UNCHANGED <<clockVars, localVars, dashVars>>
AtLocal(A) == A /\ UNCHANGED <<routeVars, edge, answer, pluginVars, dashVars>>
AtDashboard(A) == A /\ UNCHANGED <<routeVars, edge, answer, pluginVars>>
AtPlugins(A) == A /\ UNCHANGED <<routeVars, edgeVars, localVars, dashVars>>

Served(r) ==
    \/ AtEdge(HttpStep(r) \/ H3Step(r) \/ TcpStep(r))
    \/ AtPlugins(RunHook(r))

Visits(r) == AtEdge(HttpVisitor(r) \/ H3Visitor(r))

Next ==
    \/ \E k \in Kinds : AtEdge(AcceptFails(k) \/ AcceptAgain(k) \/ AcceptEnds(k))
    \/ AtEdge(TunnelDrops \/ TunnelSwept)
    \/ AtPlugins(Second)
    \/ AtLocal(Evict)
    \/ AtDashboard(Viewing)
    \/ \E r \in Req :
          \/ AtEdge(HttpAccept(r) \/ PumpBody(r) \/ HttpCloses(r))
          \/ AtEdge(H3Accept(r) \/ H3Closes(r))
          \/ AtEdge(TcpAccept(r))
          \/ AtEdge(TunnelFails(r))
          \/ Served(r) \/ Visits(r)
          \/ AtLocal(LocalStep(r))
          \/ AtDashboard(Capture(r))

\* The handlers run, their timeouts fire and the hooks return.  A visitor that
\* is not slow sends its request and reads the response, and what waits for a
\* visitor over HTTP/3 goes on when its connection closes.  Nothing is asked of
\* a slow visitor, of the client or of the local service.
Fairness ==
    \A r \in Req :
        WF_vars(Served(r) \/ ((~load.req[r].slow \/ ~edge[r].permit) /\ Visits(r)))

Spec == Init /\ [][Next]_vars /\ Fairness

-----------------------------------------------------------------------------
(* Properties.                                                             *)

Places(c) ==
    {<<"call", r>> : r \in {q \in Req : loc[q].conn = c /\ loc[q].pc \in {"send", "head"}}}
      \cup {<<"pool", i>> : i \in {j \in DOMAIN h1_pool : h1_pool[j] = c}}
      \cup (IF conns[c].state = "upgraded" /\ InPool(c) THEN {<<"upgraded", 0>>} ELSE {})

\* A sender of an HTTP/1.1 connection to the local service is in one place: in
\* the hands of one call, or once in the pool; an upgraded connection is never
\* pooled (acquire_h1 pops, release_h1 pushes what it was given, an upgrade
\* leaves the pool out).
ExclusiveH1 ==
    \A c \in Req : c # h2_connection =>
        \A p, q \in Places(c) : p = q

\* acquire_h2 never replaces a cached connection that is ready: the dial runs
\* without the lock, and the check is made again before the new connection is
\* stored.
ReadyH2Kept ==
    [][(h2_connection # NoConn /\ ~IsClosed(h2_connection)) => h2_connection' = h2_connection]_vars

\* What the HTTP ingress sends is what it says: never the placeholder that the
\* plugin registry leaves behind on an error, and a response passed off as the
\* upstream's only once a response head has come from the client.
NothingInvented ==
    \A r \in Req : load.req[r].kind = "http" =>
        /\ answer[r].body # "placeholder"
        /\ answer[r].body \in {"upstream", "partial", "bridge"} =>
              answer[r].status \in load.upstream \cup {502}
        /\ answer[r].body = "upstream" /\ edge[r].pc = "answered" =>
              loc[r].pc = "done"

\* A status the server makes up tells the truth: 401 only without the token,
\* 413 only for a body over the limit, 429 only with the rate limiter, 404 only without a session for the host,
\* 503 only from a circuit breaker over a service that fails, 502 only when
\* something is wrong with the tunnel, the client or the response.
StatusTellsTruth ==
    \A r \in Req :
        LET a == answer[r]
            q == load.req[r]
            Installed(p) == \E i \in DOMAIN load.plugins : load.plugins[i] = p
        IN /\ a.status = 401 => ~q.token
           /\ a.status = 413 => q.chunks > MaxRequestBody
           /\ a.status = 429 => Installed("rate_limit")
           /\ a.status = 404 /\ a.body = "own" => q.host # "tunnel" \/ session = "gone"
           /\ a.status = 503 => Installed("breaker") /\ load.upstream \cap FailureStatuses # {}
           /\ a.status = 502 /\ a.body = "own" /\ q.kind = "http" =>
                 \/ load.faults # {}
                 \/ load.session = "no_multiplexer"
                 \/ needs_response_buffering

\* No ingress passes on more of a request body than max_request_body_size.
WithinBodyLimit ==
    \A r \in Req : Kind(r) # "tcp" => edge[r].sent <= MaxRequestBody

\* The permits of an ingress are those of its open connections and the rest,
\* and they are all back when its connections are closed.
PermitsConserved ==
    \A k \in Kinds :
        LET Holding == {r \in Req : Kind(r) = k /\ edge[r].permit}
        IN /\ permits[k] + Cardinality(Holding) = load.max_connections
           /\ \A r \in Holding : edge[r].pc \notin {"new", "closed"}

\* Call r was added to the history, and is in it unless MaxRequests newer calls
\* have pushed it out.
Kept(r) ==
    \E i \in DOMAIN recorded :
        /\ recorded[i].id = r
        /\ Listed(r) \/ Len(recorded) - i >= MaxRequests

\* The history is what the viewer is told: a call that was announced is listed
\* until as many newer ones as the history holds have pushed it out, no call is
\* listed twice, and a captured response reaches the ingress only after it was
\* recorded, with that status (the capture layer records, announces, answers).
HistoryFaithful ==
    /\ Len(requests) <= MaxRequests
    /\ \A i, j \in DOMAIN requests : requests[i].id = requests[j].id => i = j
    /\ \A r \in viewer.seen \cup {events[i] : i \in DOMAIN events} : Kept(r)
    /\ \A r \in Req :
          load.capture /\ Arrived(r, "head") /\ NextFrame(r).status # 502 =>
             /\ Kept(r)
             /\ \E i \in DOMAIN recorded :
                   recorded[i] = [id |-> r, status |-> NextFrame(r).status]

\* The request waits for its visitor, and no timer of the ingress runs: for the
\* request head, for the body a reply over HTTP/3 has to wait for, or until the
\* visitor reads what has been sent.
AwaitsVisitor(r) ==
    /\ load.req[r].slow /\ edge[r].permit
    /\ \/ edge[r].pc \in {"head", "streaming"}
       \/ edge[r].pc \in {"reply", "upstream"} /\ edge[r].reader = "reading"

\* Every request that gets a permit is answered, let go or bridged, whatever
\* the tunnel, the client and the local service do: the timeouts of the ingress
\* suffice.  Only a visitor that stops sending or reading can hold it up.
EveryRequestEnds ==
    \A r \in Req :
        edge[r].permit ~> (edge[r].pc \in {"answered", "closed", "bridge"} \/ AwaitsVisitor(r))
=============================================================================
