------------------------------ MODULE Framing -------------------------------
(***************************************************************************)
(* The TCP byte path of one direction of a connection.  Producers push     *)
(* frames into the channel (transport/tcp_frame.rs), the batched sender    *)
(* collects, sorts, encodes and writes them (transport/batched_sender.rs), *)
(* in as many vectored writes as the transport makes of it, and the peer's *)
(* codec cuts the bytes into frames again and validates them (codec.rs and *)
(* validation.rs of ferrotunnel-protocol).  The two ends have each their   *)
(* own limits.                                                             *)
(*                                                                         *)
(* A data frame is its stream, payload and end flag.  A control frame is   *)
(* its kind, the lengths of its variable fields, a tag that stands for its *)
(* contents, the size of its bincode form and the memory bincode claims    *)
(* while decoding it.                                                      *)
(***************************************************************************)
EXTENDS Naturals, Sequences, SequencesExt, FiniteSets

CONSTANTS
    Producers,   \* tasks that send frames
    PriorityOf,  \* drain_order of the priority each sends with
    Setups,      \* what may be sent: a sequence of frames for each producer, and
                 \* max_frame_bytes of the sending and of the receiving end
    FrameCap,    \* capacity of the frame channel
    MaxBatch,    \* MAX_BATCH_SIZE
    MinBatching, \* MIN_FRAMES_FOR_BATCHING
    Configured,  \* the LimitsConfig fields of the receiving end, but the budget
    Defaults,    \* the DEFAULT_MAX_* bounds
    Headroom,    \* CONTROL_DECODE_HEADROOM
    Ladder,      \* the decode limits of decode_control_frame, ascending
    MaxFrameSize \* MAX_FRAME_SIZE

VARIABLES
    script,      \* the frames of this behaviour
    budget,      \* the frame budgets of the two ends
    todo,        \* per producer: the frames it has not sent yet
    queued,      \* per producer: the frames the channel took
    chan,        \* the frame channel
    sender,      \* where run_batched_sender is
    frames,      \* its batch
    segments,    \* its encoded_segments
    index, offset, \* write_all_vectored: how far it got
    wire,        \* bytes that arrived and were not decoded: the codec's buffer
    reader,      \* where the peer's frame loop is
    decoded      \* the frames it decoded

sendVars == <<todo, queued, chan>>
batchVars == <<sender, frames, segments, index, offset>>
decodeVars == <<reader, decoded>>
frameVars == <<script, budget, sendVars, batchVars, wire, decodeVars>>

IsData(f) == f.kind = "data"

\* validate_limits: the budgets the configuration boundary lets through.
ValidateLimits(max) == max # 0 /\ max <= MaxFrameSize

InitFraming ==
    /\ \E s \in Setups : script = s[1] /\ budget = s[2]
    /\ ValidateLimits(budget[1]) /\ ValidateLimits(budget[2])
    /\ todo = script
    /\ queued = [p \in Producers |-> <<>>]
    /\ chan = <<>>
    /\ sender = "recv"
    /\ frames = <<>>
    /\ segments = <<>>
    /\ index = 1 /\ offset = 0
    /\ wire = <<>>
    /\ reader = "reading"
    /\ decoded = <<>>

-----------------------------------------------------------------------------
(* TcpFrameSender::send_frame.                                             *)

SendFrame(p) ==
    /\ todo[p] # <<>>
    /\ sender \notin {"done", "failed"}
    /\ Len(chan) < FrameCap
    /\ chan' = Append(chan, [pri |-> PriorityOf[p], frame |-> Head(todo[p])])
    /\ queued' = [queued EXCEPT ![p] = Append(@, Head(todo[p]))]
    /\ todo' = [todo EXCEPT ![p] = Tail(@)]
    /\ UNCHANGED <<script, budget, batchVars, wire, decodeVars>>

\* The channel is full until the deadline, or closed: the caller gives up.
SendFails(p) ==
    /\ todo[p] # <<>>
    /\ sender \in {"done", "failed"} \/ Len(chan) >= FrameCap
    /\ todo' = [todo EXCEPT ![p] = <<>>]
    /\ UNCHANGED <<script, budget, queued, chan, batchVars, wire, decodeVars>>

-----------------------------------------------------------------------------
(* Encoding.                                                               *)

Rest(src, used) == SubSeq(src, used + 1, Len(src))

U32(n) == <<n \div 16777216, (n \div 65536) % 256, (n \div 256) % 256, n % 256>>
FromU32(b) == ((b[1] * 256 + b[2]) * 256 + b[3]) * 256 + b[4]
Flag(eos) == IF eos THEN 1 ELSE 0

\* The bincode form of a control frame: as long as its size, and telling.
Serialized(f) == [i \in 1 .. f.size |-> f.tag]

PayloadLen(f) == IF IsData(f) THEN 1 + 4 + 1 + Len(f.data) ELSE 1 + f.size

Fits(f, max) == PayloadLen(f) <= max

\* TunnelCodec::encode of a frame that fits.
Encode(f) ==
    U32(PayloadLen(f)) \o
    IF IsData(f) THEN <<1>> \o U32(f.stream) \o <<Flag(f.eos)>> \o f.data
                 ELSE <<0>> \o Serialized(f)

\* encode_frame_segments: nothing for a frame above the budget, which is
\* skipped; a data frame is its header and, if there is any, its payload.
EncodeFrameSegments(f, max) ==
    IF ~Fits(f, max) THEN <<>>
    ELSE IF ~IsData(f) THEN <<Encode(f)>>
    ELSE LET head == U32(PayloadLen(f)) \o <<1>> \o U32(f.stream) \o <<Flag(f.eos)>>
         IN IF f.data = <<>> THEN <<head>> ELSE <<head, f.data>>

-----------------------------------------------------------------------------
(* run_batched_sender.                                                     *)

\* sort_by_key, which is stable.
SortByPriority(b) ==
    LET of(k) == SelectSeq(b, LAMBDA i : i.pri = k) IN of(0) \o of(1) \o of(2) \o of(3)

\* Sorted and encoded, the batch is ready to be written; if every frame of it
\* was skipped there is nothing to write.
EncodeBatch(b) ==
    LET segs == FlattenSeq([i \in DOMAIN b |->
                    EncodeFrameSegments(SortByPriority(b)[i].frame, budget[1])])
    IN /\ segments' = segs
       /\ sender' = IF segs = <<>> THEN "recv" ELSE "write"
       /\ frames' = <<>>
       /\ index' = 1 /\ offset' = 0

\* What the channel holds, as far as the batch has room.
Drained(b) ==
    LET k == IF Len(chan) < MaxBatch - Len(b) THEN Len(chan) ELSE MaxBatch - Len(b)
    IN b \o SubSeq(chan, 1, k)

\* recv and the first drain; with a few frames the task yields once.
Collect ==
    /\ sender = "recv"
    /\ chan # <<>>
    /\ LET b == Drained(<<>>)
       IN /\ chan' = SubSeq(chan, Len(b) + 1, Len(chan))
          /\ IF Len(b) >= MinBatching /\ Len(b) < MaxBatch
             THEN /\ sender' = "yield" /\ frames' = b
                  /\ UNCHANGED <<segments, index, offset>>
             ELSE EncodeBatch(b)
    /\ UNCHANGED <<script, budget, todo, queued, wire, decodeVars>>

CollectMore ==
    /\ sender = "yield"
    /\ LET b == Drained(frames)
       IN /\ chan' = SubSeq(chan, Len(b) - Len(frames) + 1, Len(chan))
          /\ EncodeBatch(b)
    /\ UNCHANGED <<script, budget, todo, queued, wire, decodeVars>>

\* All producers are gone and the channel is empty: the task ends.
SenderEnds ==
    /\ sender = "recv"
    /\ chan = <<>> /\ \A p \in Producers : todo[p] = <<>>
    /\ sender' = "done"
    /\ UNCHANGED <<script, budget, sendVars, frames, segments, index, offset, wire, decodeVars>>

\* Fault: the offset into a segment is kept when the next one is begun.
AdvanceKeepsOffset(i, o, n) ==
    LET from == FoldLeft(LAMBDA acc, s : acc + Len(s), 0, SubSeq(segments, 1, i - 1)) + o + n
        ends(j) == FoldLeft(LAMBDA acc, s : acc + Len(s), 0, SubSeq(segments, 1, j))
        j == Cardinality({m \in DOMAIN segments : ends(m) <= from}) + 1
    IN <<j, IF j = i THEN o + n ELSE o>>

\* The bookkeeping after `n` bytes were written: from byte `o` of segment `i`,
\* over the segments that are used up, to where the next write begins.
RECURSIVE Advance(_, _, _)
Advance(i, o, n) ==
    IF n = 0 \/ i > Len(segments) THEN <<i, o>>
    ELSE LET available == Len(segments[i]) - o
         IN IF n < available THEN <<i, o + n>> ELSE Advance(i + 1, 0, n - available)

\* The slices handed to write_vectored.
Unwritten == Rest(FlattenSeq(SubSeq(segments, index, Len(segments))), offset)

\* write_all_vectored, one write: the transport takes any n bytes.
WriteVectored ==
    /\ sender = "write"
    /\ LET slices == Unwritten
       IN \E n \in 1 .. Len(slices) :
            /\ wire' = wire \o SubSeq(slices, 1, n)
            /\ LET next == Advance(index, offset, n)
               IN IF next[1] > Len(segments)
                  THEN sender' = "recv" /\ segments' = <<>> /\ index' = 1 /\ offset' = 0
                  ELSE index' = next[1] /\ offset' = next[2] /\ UNCHANGED <<sender, segments>>
    /\ UNCHANGED <<script, budget, sendVars, frames, decodeVars>>

\* The write fails: the task ends, and what it held is lost.
WriteFails ==
    /\ sender = "write"
    /\ sender' = "failed"
    /\ frames' = <<>> /\ segments' = <<>> /\ index' = 1 /\ offset' = 0
    /\ chan' = <<>>
    /\ UNCHANGED <<script, budget, todo, queued, wire, decodeVars>>

-----------------------------------------------------------------------------
(* validation.rs.                                                          *)

\* ValidationLimits::from.
ValidationLimits(max) == Configured @@ Defaults @@ [max_payload_bytes |-> max]

ValidateCapabilities(caps, lim) ==
    /\ Len(caps) <= lim.max_capabilities
    /\ \A i \in DOMAIN caps : caps[i] <= lim.max_capability_len

ValidateHandshake(f, lim) ==
    /\ f.token <= lim.max_token_len
    /\ f.tunnel_id <= lim.max_name_len
    /\ f.min_version <= f.max_version
    /\ ValidateCapabilities(f.capabilities, lim)

ValidateRegister(f, lim) ==
    /\ f.service_name <= lim.max_name_len
    /\ Len(f.metadata) <= lim.max_metadata_entries
    /\ \A i \in DOMAIN f.metadata : /\ f.metadata[i][1] <= lim.max_name_len
                                    /\ f.metadata[i][2] <= lim.max_metadata_value_len

ValidateOpenStream(f, lim) ==
    /\ Len(f.headers) <= lim.max_headers
    /\ \A i \in DOMAIN f.headers : /\ f.headers[i][1] <= lim.max_header_len
                                   /\ f.headers[i][2] <= lim.max_header_len

\* validate_frame.
ValidateFrame(f, lim) ==
    CASE f.kind = "handshake"     -> ValidateHandshake(f, lim)
      [] f.kind = "handshake_ack" -> ValidateCapabilities(f.capabilities, lim)
      [] f.kind = "register"      -> ValidateRegister(f, lim)
      [] f.kind = "register_ack"  -> f.public_url <= lim.max_url_len
      [] f.kind = "open_stream"   -> ValidateOpenStream(f, lim)
      [] f.kind = "data"          -> Len(f.data) <= lim.max_payload_bytes
      [] f.kind \in {"close_stream", "error"} -> f.message <= lim.max_error_message_len
      [] f.kind = "plugin_data"   -> /\ f.plugin_id <= lim.max_name_len
                                     /\ f.payload <= lim.max_payload_bytes
      [] f.kind \in {"stream_ack", "heartbeat", "heartbeat_ack"} -> TRUE

-----------------------------------------------------------------------------
(* Decoding.                                                               *)

RECURSIVE NextPowerOfTwo(_, _)
NextPowerOfTwo(n, p) == IF p >= n THEN p ELSE NextPowerOfTwo(n, 2 * p)

\* Fault: the decode limit is the length of the frame, without headroom.
DecodeLimitTight(len) == len

\* decode_control_frame: the memory bincode may claim for a body of this length.
DecodeLimit(len) ==
    LET pow == NextPowerOfTwo(len + Headroom, 1)
        want == IF pow < MaxFrameSize THEN pow ELSE MaxFrameSize
        rungs == SelectSeq(Ladder, LAMBDA l : want <= l)
    IN IF rungs = <<>> THEN MaxFrameSize ELSE rungs[1]

Controls == {f \in UNION {Range(s[1][p]) : s \in Setups, p \in Producers} : ~IsData(f)}

None == [res |-> "none", used |-> 0]
Error == [res |-> "error", used |-> 0]
Frame(f, used) == [res |-> "frame", frame |-> f, used |-> used]

\* decode_control_frame_with and validate_frame: the body is the whole bincode
\* form of a frame, neither cut off nor followed by more.
DecodeControl(body, max, used) ==
    LET is(f) == body # <<>> /\ f.tag = body[1] /\ f.size = Len(body)
    IN IF \E f \in Controls : is(f)
       THEN LET f == CHOOSE f \in Controls : is(f)
            IN IF f.claim <= DecodeLimit(Len(body)) /\ ValidateFrame(f, ValidationLimits(max))
               THEN Frame(f, used) ELSE Error
       ELSE Error

\* TunnelCodec::decode on the buffer src.
Decode(src, max) ==
    IF Len(src) < 5 THEN None
    ELSE LET length == FromU32(src)
             body == SubSeq(src, 6, 4 + length)
         IN IF length = 0 \/ length > max THEN Error
            ELSE IF Len(src) < 4 + length THEN None
            ELSE IF src[5] = 1
                 THEN IF Len(body) < 5 THEN Error
                      ELSE Frame([kind |-> "data", stream |-> FromU32(body), eos |-> body[5] % 2 = 1,
                                  data |-> SubSeq(body, 6, Len(body))], 4 + length)
            ELSE IF src[5] = 0 THEN DecodeControl(body, max, 4 + length) ELSE Error

\* decode_batch: the frames of the buffer and the bytes they take.
RECURSIVE DecodeBatch(_, _, _, _)
DecodeBatch(src, max, out, used) ==
    LET d == Decode(src, max)
    IN IF d.res = "frame"
       THEN DecodeBatch(Rest(src, d.used), max, Append(out, d.frame), used + d.used)
       ELSE [res |-> d.res, frames |-> out, used |-> used]

\* Fault: the scan ends at the first control frame instead of stepping over it.
RECURSIVE ZeroCopyStops(_, _, _, _)
ZeroCopyStops(buf, max, out, at) ==
    IF Len(buf) < at + 5 THEN [res |-> "none", frames |-> out, used |-> at]
    ELSE LET length == FromU32(Rest(buf, at))
             total == 4 + length
         IN IF length = 0 \/ length > max THEN [res |-> "error", frames |-> out, used |-> at]
            ELSE IF Len(buf) < at + total THEN [res |-> "none", frames |-> out, used |-> at]
            ELSE IF buf[at + 5] # 1 THEN [res |-> "none", frames |-> out, used |-> at]
            ELSE IF length < 6 THEN [res |-> "error", frames |-> out, used |-> at]
            ELSE ZeroCopyStops(buf, max, Append(out,
                    [kind |-> "data", stream |-> FromU32(Rest(buf, at + 5)),
                     eos |-> buf[at + 10] % 2 = 1,
                     data |-> SubSeq(buf, at + 11, at + total)]), at + total)

\* decode_data_frames_zerocopy from position `at`: the data frames, and the
\* bytes consumed; control frames are stepped over unread.
RECURSIVE ZeroCopy(_, _, _, _)
ZeroCopy(buf, max, out, at) ==
    IF Len(buf) < at + 5 THEN [res |-> "none", frames |-> out, used |-> at]
    ELSE LET length == FromU32(Rest(buf, at))
             total == 4 + length
         IN IF length = 0 \/ length > max THEN [res |-> "error", frames |-> out, used |-> at]
            ELSE IF Len(buf) < at + total THEN [res |-> "none", frames |-> out, used |-> at]
            ELSE IF buf[at + 5] # 1 THEN ZeroCopy(buf, max, out, at + total)
            ELSE IF length < 6 THEN [res |-> "error", frames |-> out, used |-> at]
            ELSE ZeroCopy(buf, max, Append(out,
                    [kind |-> "data", stream |-> FromU32(Rest(buf, at + 5)),
                     eos |-> buf[at + 10] % 2 = 1,
                     data |-> SubSeq(buf, at + 11, at + total)]), at + total)
=============================================================================
