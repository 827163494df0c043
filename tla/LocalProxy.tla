----------------------------- MODULE LocalProxy -----------------------------
(***************************************************************************)
(* The client's side of a request: the stream handlers, LocalProxyService, *)
(* and the pool of connections to the local service.  A stream carries one *)
(* call, which dials at most one connection, so connections are named      *)
(* after the call that dialled them.  The pool's lock is released between  *)
(* the steps below.                                                        *)
(***************************************************************************)
EXTENDS Edge

CONSTANTS
    MaxIdlePerHost,   \* PoolConfig::max_idle_per_host
    NoConn

VARIABLES
    loc,             \* the call of each stream
    conns,           \* the connections to the local service
    h1_pool,         \* the idle HTTP/1.1 connections, the latest last
    h2_connection    \* the cached HTTP/2 connection

localVars == <<loc, conns, h1_pool, h2_connection>>

NoCall == [pc |-> "none", conn |-> NoConn, status |-> 0, data |-> 0]

InitLocal ==
    /\ loc = [r \in Req |-> NoCall]
    /\ conns = [c \in Req |-> [state |-> "none", reader |-> NoConn, old |-> FALSE]]
    /\ h1_pool = <<>>
    /\ h2_connection = NoConn

IsClosed(c) == conns[c].state # "open"
InPool(c) == \E i \in DOMAIN h1_pool : h1_pool[i] = c

\* The stream still has someone at its other end.
Connected(r) == session = "ready" /\ wire[r].state = "open" /\ wire[r].body # "failed"

Moves(r, pc) == loc' = [loc EXCEPT ![r].pc = pc]

CallEnds(r) == loc' = [loc EXCEPT ![r] = [NoCall EXCEPT !.pc = "done"]]

\* A frame is sent when the last one has been read.
Sends(r, type, status) ==
    /\ Connected(r) /\ wire[r].frames = <<>>
    /\ wire' = [wire EXCEPT ![r].frames = <<[type |-> type, status |-> status]>>]

\* A response whose body is at hand: recorded first where calls are captured.
Answers(r, status, data) ==
    loc' = [loc EXCEPT ![r].pc = IF load.capture THEN "record" ELSE "reply",
                       ![r].status = status, ![r].data = data, ![r].conn = NoConn]

-----------------------------------------------------------------------------
(* The handlers.                                                           *)

\* handle_stream, handle_grpc_stream, or the copy of a raw connection.
HandleStream(r) ==
    /\ Connected(r) /\ loc[r].pc = "none"
    /\ Moves(r, IF wire[r].protocol = "tcp" THEN "dial"
                ELSE IF load.capture THEN "collect_request" ELSE "acquire")
    /\ UNCHANGED <<wire, conns, h1_pool, h2_connection>>

UsesH2(r) == wire[r].protocol = "grpc"

\* Fault: an idle connection is lent out and stays in the pool.
AcquireLeavesPooled(r) ==
    /\ loc[r].pc = "acquire" /\ ~UsesH2(r)
    /\ IF h1_pool = <<>> THEN Moves(r, "dial")
       ELSE loc' = [loc EXCEPT ![r].pc = "send", ![r].conn = h1_pool[Len(h1_pool)]]
    /\ UNCHANGED <<wire, conns, h1_pool, h2_connection>>

\* acquire_h1: one turn of the loop, under the lock.
AcquireH1(r) ==
    /\ loc[r].pc = "acquire" /\ ~UsesH2(r)
    /\ IF h1_pool = <<>> THEN Moves(r, "dial") /\ UNCHANGED h1_pool
       ELSE LET c == h1_pool[Len(h1_pool)]
            IN /\ h1_pool' = SubSeq(h1_pool, 1, Len(h1_pool) - 1)
               /\ IF IsClosed(c) \/ conns[c].old THEN UNCHANGED loc
                  ELSE loc' = [loc EXCEPT ![r].pc = "send", ![r].conn = c]
    /\ UNCHANGED <<wire, conns, h2_connection>>

\* acquire_h2: a ready cached connection is shared.
AcquireH2(r) ==
    /\ loc[r].pc = "acquire" /\ UsesH2(r)
    /\ IF h2_connection # NoConn /\ ~IsClosed(h2_connection)
       THEN loc' = [loc EXCEPT ![r].pc = "send", ![r].conn = h2_connection]
       ELSE Moves(r, "dial")
    /\ UNCHANGED <<wire, conns, h1_pool, h2_connection>>

\* The dial, with no lock held.  A raw copy that cannot dial drops its stream.
Dial(r) ==
    /\ loc[r].pc = "dial"
    /\ \/ /\ conns' = [conns EXCEPT ![r].state = "open"]
          /\ loc' = [loc EXCEPT ![r].conn = r,
                         ![r].pc = IF UsesH2(r) THEN "install"
                                   ELSE IF wire[r].protocol = "tcp" THEN "copy" ELSE "send"]
          /\ UNCHANGED wire
       \/ /\ "local" \in load.faults
          /\ IF wire[r].protocol = "tcp"
             THEN Sends(r, "end", 0) /\ CallEnds(r)
             ELSE Answers(r, 502, 0) /\ UNCHANGED wire
          /\ UNCHANGED conns
    /\ UNCHANGED <<h1_pool, h2_connection>>

\* Fault: the connection just dialled replaces the cached one unconditionally.
InstallBlindly(r) ==
    /\ loc[r].pc = "install"
    /\ h2_connection' = r
    /\ Moves(r, "send")
    /\ UNCHANGED <<wire, conns, h1_pool>>

\* The double check of acquire_h2: the loser of a race drops its connection.
InstallH2(r) ==
    /\ loc[r].pc = "install"
    /\ IF h2_connection # NoConn /\ ~IsClosed(h2_connection)
       THEN /\ loc' = [loc EXCEPT ![r].pc = "send", ![r].conn = h2_connection]
            /\ conns' = [conns EXCEPT ![r].state = "closed"]
            /\ UNCHANGED h2_connection
       ELSE /\ h2_connection' = r
            /\ Moves(r, "send")
            /\ UNCHANGED conns
    /\ UNCHANGED <<wire, h1_pool>>

\* send_request: refused by a connection that is closed or, over HTTP/1.1,
\* still has a response to be read.
SendRequest(r) ==
    /\ loc[r].pc = "send"
    /\ LET c == loc[r].conn
       IN IF IsClosed(c) \/ (~UsesH2(r) /\ conns[c].reader # NoConn)
          THEN Answers(r, 502, 0) /\ UNCHANGED conns
          ELSE /\ Moves(r, "head")
               /\ conns' = IF UsesH2(r) THEN conns ELSE [conns EXCEPT ![c].reader = r]
    /\ UNCHANGED <<wire, h1_pool, h2_connection>>

-----------------------------------------------------------------------------
(* The response.                                                           *)

\* release_h1: a closed connection is not kept, nor one that finds the pool
\* full.
ReleaseH1(c) ==
    IF IsClosed(c) \/ Len(h1_pool) >= MaxIdlePerHost THEN UNCHANGED <<h1_pool, conns>>
    ELSE /\ h1_pool' = Append(h1_pool, c)
         /\ conns' = [conns EXCEPT ![c].old = FALSE]

\* The local service answers: an upgrade takes the connection away from the
\* pool; any other response gives it back, before its body has been read.
UpstreamAnswers(r) ==
    /\ loc[r].pc = "head" /\ ~IsClosed(loc[r].conn)
    /\ \E status \in load.upstream :
          IF wire[r].protocol = "ws" /\ status = 101
          THEN /\ conns' = [conns EXCEPT ![loc[r].conn].state = "upgraded"]
               /\ loc' = [loc EXCEPT ![r].pc = IF load.capture THEN "record" ELSE "reply",
                                     ![r].status = 101]
               /\ UNCHANGED <<h1_pool, wire>>
          ELSE /\ IF UsesH2(r) THEN UNCHANGED <<h1_pool, conns>> ELSE ReleaseH1(loc[r].conn)
               /\ loc' = [loc EXCEPT ![r].status = status,
                              ![r].pc = IF load.capture THEN "collect_response" ELSE "relay"]
               /\ IF load.capture THEN UNCHANGED wire ELSE Sends(r, "head", status)
    /\ UNCHANGED h2_connection

\* The connection is lost under the call: before the response head, while
\* its body is relayed, or while it is collected.
UpstreamLost(r) ==
    /\ loc[r].conn # NoConn /\ conns[loc[r].conn].state = "closed"
    /\ \/ loc[r].pc = "head" /\ Answers(r, 502, 0) /\ UNCHANGED wire
       \/ /\ loc[r].pc \in {"relay", "copy"} /\ Connected(r)
          /\ wire' = [wire EXCEPT ![r] = Broken(@)]
          /\ CallEnds(r)
       \/ /\ loc[r].pc = "collect_response"
          /\ loc' = [loc EXCEPT ![r].pc = "reply", ![r].conn = NoConn,
                                ![r].status = 502, ![r].data = 0]
          /\ UNCHANGED wire
    /\ UNCHANGED <<conns, h1_pool, h2_connection>>

\* The body has been read to its end.
Drained(r) ==
    [conns EXCEPT ![loc[r].conn] = IF UsesH2(r) THEN @ ELSE [@ EXCEPT !.reader = NoConn]]

\* The body is relayed frame by frame.
Relay(r) ==
    /\ loc[r].pc = "relay" /\ ~IsClosed(loc[r].conn)
    /\ \/ /\ loc[r].data < load.reply
          /\ Sends(r, "data", 0)
          /\ loc' = [loc EXCEPT ![r].data = @ + 1]
          /\ UNCHANGED conns
       \/ /\ Sends(r, "end", 0)
          /\ conns' = Drained(r)
          /\ CallEnds(r)
    /\ UNCHANGED <<h1_pool, h2_connection>>

\* A response whose body is at hand is sent whole; an upgrade goes on as a
\* copy.
Reply(r) ==
    /\ loc[r].pc \in {"reply", "tail"}
    /\ IF loc[r].pc = "reply"
       THEN /\ Sends(r, "head", loc[r].status)
            /\ Moves(r, IF loc[r].status = 101 /\ loc[r].conn # NoConn THEN "copy" ELSE "tail")
       ELSE IF loc[r].data > 0
       THEN Sends(r, "data", 0) /\ loc' = [loc EXCEPT ![r].data = @ - 1]
       ELSE Sends(r, "end", 0) /\ CallEnds(r)
    /\ UNCHANGED <<conns, h1_pool, h2_connection>>

\* The copy of a raw or an upgraded connection.
Copy(r) ==
    /\ loc[r].pc = "copy" /\ conns[loc[r].conn].state # "closed"
    /\ \/ /\ loc[r].data < load.reply
          /\ Sends(r, "data", 0)
          /\ loc' = [loc EXCEPT ![r].data = @ + 1]
          /\ UNCHANGED conns
       \/ /\ Sends(r, "end", 0)
          /\ conns' = [conns EXCEPT ![loc[r].conn].state = "closed"]
          /\ CallEnds(r)
    /\ UNCHANGED <<h1_pool, h2_connection>>

\* The stream is gone: the call is dropped, and closes the HTTP/1.1 connection
\* it holds or is still reading from.
CallDropped(r) ==
    /\ loc[r].pc \notin {"none", "announce", "done"} /\ ~Connected(r)
    /\ CallEnds(r)
    /\ conns' = IF loc[r].conn = NoConn \/ (UsesH2(r) /\ loc[r].pc # "install") THEN conns
                ELSE IF loc[r].pc = "send" /\ conns[loc[r].conn].reader # NoConn THEN conns
                ELSE [conns EXCEPT ![loc[r].conn] = [@ EXCEPT !.state = "closed", !.reader = NoConn]]
    /\ UNCHANGED <<wire, h1_pool, h2_connection>>

-----------------------------------------------------------------------------
(* The pool and the local service on their own.                            *)

UpstreamCloses(c) ==
    /\ "local" \in load.faults
    /\ conns[c].state \in {"open", "upgraded"}
    /\ conns' = [conns EXCEPT ![c].state = "closed", ![c].reader = NoConn]
    /\ UNCHANGED <<wire, loc, h1_pool, h2_connection>>

\* A pooled connection has been idle for idle_timeout.
GrowsOld(c) ==
    /\ "local" \in load.faults
    /\ InPool(c) /\ ~conns[c].old
    /\ conns' = [conns EXCEPT ![c].old = TRUE]
    /\ UNCHANGED <<wire, loc, h1_pool, h2_connection>>

\* evict_expired_internal, every 30 seconds.
Evict ==
    /\ \E c \in Req : InPool(c) /\ (IsClosed(c) \/ conns[c].old)
    /\ h1_pool' = SelectSeq(h1_pool, LAMBDA c : ~IsClosed(c) /\ ~conns[c].old)
    /\ UNCHANGED <<wire, loc, conns, h2_connection>>

LocalStep(r) ==
    \/ HandleStream(r) \/ AcquireH1(r) \/ AcquireH2(r) \/ Dial(r) \/ InstallH2(r)
    \/ SendRequest(r) \/ UpstreamAnswers(r) \/ UpstreamLost(r) \/ Relay(r)
    \/ Reply(r) \/ Copy(r) \/ CallDropped(r) \/ UpstreamCloses(r) \/ GrowsOld(r)
=============================================================================
