------------------------------ MODULE Dashboard ------------------------------
(***************************************************************************)
(* The client's dashboard: the capture layer around the local proxy, which *)
(* buffers the request and the response, adds the call to the history and  *)
(* then announces it; and the API, over which a viewer follows the events, *)
(* lists the history and replays a request against the local service.      *)
(***************************************************************************)
EXTENDS LocalProxy

CONSTANTS
    MaxRequests,     \* max_requests of the dashboard state
    EventCapacity    \* capacity of the event broadcaster

VARIABLES
    requests,   \* the history, oldest first
    recorded,   \* every call ever added to it
    events,     \* what the broadcaster holds for the viewer
    viewer      \* the viewer's event stream, and the replay it has asked for

dashVars == <<requests, recorded, events, viewer>>

\* The history may hold calls of before.
InitDashboard ==
    /\ requests = load.earlier
    /\ recorded = load.earlier
    /\ events = <<>>
    /\ viewer = [subscribed |-> FALSE, seen |-> {}, replay |-> NoConn, result |-> 0]

\* The request body is read to its end before the inner service is called;
\* when that fails, the 400 goes to a stream that has failed already.
CollectRequest(r) ==
    /\ loc[r].pc = "collect_request" /\ wire[r].body = "complete"
    /\ Moves(r, "acquire")
    /\ UNCHANGED <<wire, conns, h1_pool, h2_connection, dashVars>>

\* The response body is read to its end, with no limit on time or size.
CollectResponse(r) ==
    /\ loc[r].pc = "collect_response" /\ ~IsClosed(loc[r].conn)
    /\ \/ /\ loc[r].data < load.reply
          /\ loc' = [loc EXCEPT ![r].data = @ + 1]
          /\ UNCHANGED conns
       \/ /\ conns' = Drained(r)
          /\ loc' = [loc EXCEPT ![r].pc = "record", ![r].conn = NoConn]
    /\ UNCHANGED <<wire, h1_pool, h2_connection, dashVars>>

\* Fault: the latest entry makes room.
AddOverLatest(entry) ==
    Append(IF Len(requests) >= MaxRequests THEN SubSeq(requests, 1, Len(requests) - 1) ELSE requests,
           entry)

\* The oldest entry makes room.
add_request(entry) ==
    Append(IF Len(requests) >= MaxRequests THEN Tail(requests) ELSE requests, entry)

Record(r) ==
    /\ loc[r].pc = "record"
    /\ Moves(r, "announce")
    /\ LET entry == [id |-> r, status |-> loc[r].status]
       IN requests' = add_request(entry) /\ recorded' = Append(recorded, entry)
    /\ UNCHANGED <<wire, conns, h1_pool, h2_connection, events, viewer>>

\* EventBroadcaster::send: without a subscriber the event is dropped, and a
\* slow one loses its oldest.
Announce(r) ==
    /\ loc[r].pc = "announce"
    /\ Moves(r, "reply")
    /\ events' = IF ~viewer.subscribed THEN events
                 ELSE Append(IF Len(events) >= EventCapacity THEN Tail(events) ELSE events, r)
    /\ UNCHANGED <<wire, conns, h1_pool, h2_connection, requests, recorded, viewer>>

Subscribe ==
    /\ load.capture /\ ~viewer.subscribed
    /\ viewer' = [viewer EXCEPT !.subscribed = TRUE]
    /\ UNCHANGED <<wire, localVars, requests, recorded, events>>

\* The event stream.
ReceiveEvent ==
    /\ events # <<>>
    /\ viewer' = [viewer EXCEPT !.seen = @ \cup {events[1]}]
    /\ events' = Tail(events)
    /\ UNCHANGED <<wire, localVars, requests, recorded>>

Listed(r) == \E i \in DOMAIN requests : requests[i].id = r

\* replay_request_handler: the entry is cloned under the lock, and sent to the
\* local service after it.
ReplayAsked(r) ==
    /\ r \in viewer.seen /\ viewer.replay = NoConn /\ viewer.result = 0
    /\ viewer' = IF Listed(r) THEN [viewer EXCEPT !.replay = r]
                 ELSE [viewer EXCEPT !.result = 404]
    /\ UNCHANGED <<wire, localVars, requests, recorded, events>>

ReplaySent ==
    /\ viewer.replay # NoConn
    /\ \E result \in {200} \cup (IF "local" \in load.faults THEN {502} ELSE {}) :
          viewer' = [viewer EXCEPT !.replay = NoConn, !.result = result]
    /\ UNCHANGED <<wire, localVars, requests, recorded, events>>

Capture(r) == CollectRequest(r) \/ CollectResponse(r) \/ Record(r) \/ Announce(r)
Viewing == Subscribe \/ ReceiveEvent \/ ReplaySent \/ \E r \in Req : ReplayAsked(r)
=============================================================================
