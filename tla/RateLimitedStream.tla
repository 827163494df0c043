------------------------- MODULE RateLimitedStream --------------------------
(***************************************************************************)
(* The QUIC data path of a session: stream/quic_multiplexer.rs opens the   *)
(* streams, AnyMultiplexer::open_stream in stream/mod.rs meters the opens  *)
(* and wraps each stream in the RateLimitedStream of rate_limited.rs,      *)
(* which withholds what it reads until the session has paid for it.  All   *)
(* streams of the session share the limiter, and each is polled by a task  *)
(* of its own.                                                             *)
(***************************************************************************)
EXTENDS Limiter, Sequences

CONSTANTS
    Streams,      \* streams the ingress wants to open
    ProtocolOf,   \* the protocol it opens each with
    MaxBytes,     \* bound: bytes the client sends on a stream
    MaxRoom       \* bound: room in a caller's read buffer

ASSUME StreamAssumption == MaxBytes \in Nat /\ MaxRoom \in Nat \ {0}

VARIABLES
    next_stream_id, \* the id counter of the server's multiplexer
    header,         \* per stream: the header the client has not read yet
    accepted,       \* per stream: protocol and id as the client read them
    ids,            \* per stream: its id, 0 before it is open
    sent,           \* per stream: how many bytes the client wrote
    fin,            \* per stream: the client finished it
    inner,          \* per stream: bytes that arrived and were not read
    pending,        \* RateLimitedStream.pending
    released,       \* RateLimitedStream.released
    throttle,       \* RateLimitedStream.throttle: the bytes it still waits for
    caller,         \* per stream: what its reader is doing
    seen,           \* per stream: the bytes the reader was given
    connected       \* the QUIC connection is there

openVars == <<next_stream_id, header, accepted, ids>>
peerVars == <<sent, fin>>
readVars == <<inner, pending, released, throttle, caller, seen>>
quicVars == <<openVars, peerVars, readVars, connected>>

InitQuic ==
    /\ next_stream_id = 2
    /\ header = [s \in Streams |-> <<>>]
    /\ accepted = [s \in Streams |-> <<>>]
    /\ ids = [s \in Streams |-> 0]
    /\ sent = [s \in Streams |-> 0]
    /\ fin = [s \in Streams |-> FALSE]
    /\ inner = [s \in Streams |-> <<>>]
    /\ pending = [s \in Streams |-> <<>>]
    /\ released = [s \in Streams |-> 0]
    /\ throttle = [s \in Streams |-> 0]
    /\ caller = [s \in Streams |-> "none"]
    /\ seen = [s \in Streams |-> <<>>]
    /\ connected = TRUE

-----------------------------------------------------------------------------
(* Opening a stream.                                                       *)

ProtocolToU8(p) ==
    CASE p = "HTTP" -> 0 [] p = "HTTPS" -> 1 [] p = "HTTP2" -> 2 [] p = "WebSocket" -> 3
      [] p = "GRPC" -> 4 [] p = "TCP" -> 5 [] p = "QUIC" -> 6

U8ToProtocol(v) ==
    <<"HTTP", "HTTPS", "HTTP2", "WebSocket", "GRPC", "TCP", "QUIC">>[v + 1]

\* StreamPriority::as_u8 of the default priority.
NormalAsU8 == 0

\* allocate_stream_id: checked_add.
AllocateStreamId(id) ==
    /\ next_stream_id + 2 <= MaxU32
    /\ id = next_stream_id
    /\ next_stream_id' = next_stream_id + 2

\* open_stream: the stream quota first, then the id, then the QUIC stream and
\* its header.
OpenStream(s) ==
    /\ caller[s] = "none" /\ connected
    /\ CheckStreamOpen /\ SpendOpen
    /\ \E id \in 0 .. MaxU32 :
        /\ AllocateStreamId(id)
        /\ ids' = [ids EXCEPT ![s] = id]
        /\ header' = [header EXCEPT ![s] = <<ProtocolToU8(ProtocolOf[s]), NormalAsU8, id>>]
    /\ caller' = [caller EXCEPT ![s] = "reading"]
    /\ UNCHANGED <<accepted, peerVars, inner, pending, released, throttle, seen, connected>>

\* open_bi or the write of the header fails: the cell and the id are gone.
OpenFails(s) ==
    /\ caller[s] = "none" /\ connected
    /\ CheckStreamOpen /\ SpendOpen
    /\ \E id \in 0 .. MaxU32 : AllocateStreamId(id)
    /\ UNCHANGED <<header, accepted, ids, peerVars, readVars, connected>>

\* accept_stream at the client.
AcceptStream(s) ==
    /\ header[s] # <<>> /\ connected
    /\ header' = [header EXCEPT ![s] = <<>>]
    /\ accepted' = [accepted EXCEPT ![s] = <<U8ToProtocol(header[s][1]), header[s][3]>>]
    /\ UNCHANGED <<next_stream_id, ids, peerVars, readVars, connected, limiterVars>>

-----------------------------------------------------------------------------
(* The client's side of the stream, and the connection.                    *)

PeerWrites(s) ==
    /\ accepted[s] # <<>> /\ ~fin[s] /\ connected
    /\ sent[s] < MaxBytes
    /\ sent' = [sent EXCEPT ![s] = @ + 1]
    /\ inner' = [inner EXCEPT ![s] = Append(@, sent[s] + 1)]
    /\ UNCHANGED <<openVars, fin, pending, released, throttle, caller, seen, connected,
                   limiterVars>>

PeerFinishes(s) ==
    /\ accepted[s] # <<>> /\ ~fin[s] /\ connected
    /\ fin' = [fin EXCEPT ![s] = TRUE]
    /\ UNCHANGED <<openVars, sent, readVars, connected, limiterVars>>

ConnectionLost ==
    /\ connected
    /\ connected' = FALSE
    /\ UNCHANGED <<openVars, peerVars, readVars, limiterVars>>

-----------------------------------------------------------------------------
(* RateLimitedStream::poll_read with `room` bytes left in the buffer.      *)

Unreleased(s) == Len(pending[s]) - released[s]

\* Fault: a remainder that did not fit the buffer is forgotten.
DrainForgets(s, room, bytes, from) ==
    LET take == Least(Len(bytes) - from, room)
    IN /\ seen' = [seen EXCEPT ![s] = @ \o SubSeq(bytes, from + 1, from + take)]
       /\ pending' = [pending EXCEPT ![s] = <<>>]
       /\ released' = [released EXCEPT ![s] = 0]

\* drain_pending.
DrainPending(s, room, bytes, from) ==
    LET take == Least(Len(bytes) - from, room)
        done == from + take = Len(bytes)
    IN /\ seen' = [seen EXCEPT ![s] = @ \o SubSeq(bytes, from + 1, from + take)]
       /\ pending' = [pending EXCEPT ![s] = IF done THEN <<>> ELSE bytes]
       /\ released' = [released EXCEPT ![s] = IF done THEN 0 ELSE from + take]

\* The debt is settled first, one chunk of throttle_data at a time.
PollThrottle(s) ==
    /\ caller[s] = "reading"
    /\ ChunkReady(throttle[s])
    /\ Spend(ChunkCost(throttle[s]))
    /\ throttle' = [throttle EXCEPT ![s] = @ - ThrottleChunk(@)]
    /\ UNCHANGED <<openVars, peerVars, inner, pending, released, caller, seen, connected>>

\* Fault: a remainder is handed out, but not what a throttle held back whole.
PollDrainRemainder(s, room) ==
    /\ caller[s] = "reading" /\ throttle[s] = 0
    /\ Unreleased(s) > 0 /\ released[s] > 0
    /\ DrainPending(s, room, pending[s], released[s])
    /\ UNCHANGED <<openVars, peerVars, inner, throttle, caller, connected, limiterVars>>

\* Bytes of an earlier read that are paid for.
PollDrain(s, room) ==
    /\ caller[s] = "reading" /\ throttle[s] = 0
    /\ Unreleased(s) > 0
    /\ DrainPending(s, room, pending[s], released[s])
    /\ UNCHANGED <<openVars, peerVars, inner, throttle, caller, connected, limiterVars>>

\* Fault: a check_data that fails takes what cells there are.
PollInnerCharges(s, room, k) ==
    /\ caller[s] = "reading" /\ throttle[s] = 0 /\ Unreleased(s) = 0
    /\ connected
    /\ k <= room /\ k <= Len(inner[s])
    /\ inner' = [inner EXCEPT ![s] = SubSeq(@, k + 1, Len(@))]
    /\ IF CheckData(k)
       THEN /\ Spend(k)
            /\ DrainPending(s, room, SubSeq(inner[s], 1, k), 0)
            /\ UNCHANGED throttle
       ELSE /\ Spend(cells)
            /\ pending' = [pending EXCEPT ![s] = SubSeq(inner[s], 1, k)]
            /\ released' = [released EXCEPT ![s] = 0]
            /\ throttle' = [throttle EXCEPT ![s] = k]
            /\ UNCHANGED seen
    /\ UNCHANGED <<openVars, peerVars, caller, connected>>

\* The inner stream has k bytes for the buffer.  They go through if the quota
\* holds them, and else wait in `pending` until throttle_data has paid.
PollInner(s, room, k) ==
    /\ caller[s] = "reading" /\ throttle[s] = 0 /\ Unreleased(s) = 0
    /\ connected
    /\ k <= room /\ k <= Len(inner[s])
    /\ inner' = [inner EXCEPT ![s] = SubSeq(@, k + 1, Len(@))]
    /\ IF CheckData(k)
       THEN /\ Spend(k)
            /\ DrainPending(s, room, SubSeq(inner[s], 1, k), 0)
            /\ UNCHANGED throttle
       ELSE /\ pending' = [pending EXCEPT ![s] = SubSeq(inner[s], 1, k)]
            /\ released' = [released EXCEPT ![s] = 0]
            /\ throttle' = [throttle EXCEPT ![s] = k]
            /\ UNCHANGED <<seen, limiterVars>>
    /\ UNCHANGED <<openVars, peerVars, caller, connected>>

\* End of file or error of the inner stream, passed on as it is.
PollEnds(s) ==
    /\ caller[s] = "reading" /\ throttle[s] = 0 /\ Unreleased(s) = 0
    /\ \/ ~connected /\ caller' = [caller EXCEPT ![s] = "error"]
       \/ connected /\ fin[s] /\ inner[s] = <<>> /\ caller' = [caller EXCEPT ![s] = "eof"]
    /\ UNCHANGED <<openVars, peerVars, inner, pending, released, throttle, seen, connected,
                   limiterVars>>

\* The ingress gives up on the request and drops the stream.
DropStream(s) ==
    /\ caller[s] = "reading"
    /\ caller' = [caller EXCEPT ![s] = "dropped"]
    /\ UNCHANGED <<openVars, peerVars, inner, pending, released, throttle, seen, connected,
                   limiterVars>>

PollRead(s) ==
    \/ PollThrottle(s) \/ PollEnds(s)
    \/ \E room \in 1 .. MaxRoom :
        PollDrain(s, room) \/ \E k \in 1 .. MaxRoom : PollInner(s, room, k)

NextQuic ==
    \/ \E s \in Streams :
        \/ OpenStream(s) \/ OpenFails(s) \/ AcceptStream(s)
        \/ PeerWrites(s) \/ PeerFinishes(s)
        \/ PollRead(s) \/ DropStream(s)
    \/ ConnectionLost
    \/ Tick /\ UNCHANGED quicVars
=============================================================================
