------------------------------ MODULE BytePath ------------------------------
(***************************************************************************)
(* The path of tunnelled bytes from the client to the ingress, over either *)
(* transport of AnyMultiplexer.  Over TCP the frame loop of the server     *)
(* (TunnelServer::process_messages) meters every frame it decodes; over    *)
(* QUIC each stream meters itself.  Both charge the session's limiter.     *)
(***************************************************************************)
EXTENDS Framing, RateLimitedStream, FiniteSetsExt

VARIABLES
    transport,  \* the variant of AnyMultiplexer
    holding,    \* the data frame throttle_data holds up in the frame loop
    debt        \* the bytes of it that are not paid for

tcpVars == <<frameVars, holding, debt>>
vars == <<transport, tcpVars, quicVars, limiterVars>>

Init ==
    /\ transport \in {"tcp", "quic"}
    /\ InitFraming
    /\ transport = "quic" => <<script, budget>> = CHOOSE s \in Setups : TRUE
    /\ InitQuic
    /\ InitLimiter
    /\ holding = <<>>
    /\ debt = 0

-----------------------------------------------------------------------------
(* process_messages.                                                       *)

\* The quota a frame has to pass.  An OpenStream without a cell is answered
\* with a CloseStream and dropped; a data frame is held until it is paid for.
Meter(f) ==
    IF IsData(f) /\ ~CheckData(Len(f.data))
    THEN /\ reader' = "metering"
         /\ holding' = <<f>>
         /\ debt' = Len(f.data)
         /\ UNCHANGED limiterVars
    ELSE /\ IF IsData(f) THEN Spend(Len(f.data))
            ELSE IF f.kind = "open_stream" /\ CheckStreamOpen THEN SpendOpen
            ELSE UNCHANGED limiterVars
         /\ UNCHANGED <<reader, holding, debt>>

\* The loop takes the next frame, and ends on a decode error.
NextFrame ==
    /\ reader = "reading"
    /\ LET d == Decode(wire, budget[2])
       IN \/ /\ d.res = "frame"
             /\ wire' = Rest(wire, d.used)
             /\ decoded' = Append(decoded, d.frame)
             /\ Meter(d.frame)
          \/ /\ d.res = "error"
             /\ reader' = "error"
             /\ UNCHANGED <<wire, decoded, holding, debt, limiterVars>>
    /\ UNCHANGED <<script, budget, sendVars, batchVars>>

\* throttle_data, one chunk; the frame goes on with the last one.
ThrottleData ==
    /\ reader = "metering"
    /\ ChunkReady(debt)
    /\ Spend(ChunkCost(debt))
    /\ debt' = debt - ThrottleChunk(debt)
    /\ IF debt' = 0 THEN reader' = "reading" /\ holding' = <<>>
                    ELSE UNCHANGED <<reader, holding>>
    /\ UNCHANGED <<script, budget, sendVars, batchVars, wire, decoded>>

\* The connection is closed; bytes of an unfinished frame are an error.
ReaderEnds ==
    /\ reader = "reading"
    /\ sender \in {"done", "failed"}
    /\ Decode(wire, budget[2]).res = "none"
    /\ reader' = IF wire = <<>> THEN "ended" ELSE "cut"
    /\ UNCHANGED <<script, budget, sendVars, batchVars, wire, decoded, holding, debt, limiterVars>>

NextTcp ==
    \/ /\ \/ \E p \in Producers : SendFrame(p) \/ SendFails(p)
          \/ Collect \/ CollectMore \/ SenderEnds \/ WriteVectored \/ WriteFails
       /\ UNCHANGED <<holding, debt, limiterVars>>
    \/ NextFrame \/ ThrottleData \/ ReaderEnds
    \/ Tick /\ UNCHANGED tcpVars

Tcp(A) == transport = "tcp" /\ A /\ UNCHANGED <<transport, quicVars>>
Quic(A) == transport = "quic" /\ A /\ UNCHANGED <<transport, tcpVars>>

Next == Tcp(NextTcp) \/ Quic(NextQuic)

\* The batched sender, the frame loop and the readers of the streams are tasks
\* of their own that run when they can, and time passes.  Producers and the
\* client need not send anything.  A chunk that finds the quota emptied by
\* another stream tries again; how often that happens is bounded only by what
\* the others have to read.
FairSpec ==
    /\ Init /\ [][Next]_vars
    /\ WF_vars(Tcp((Collect \/ CollectMore \/ SenderEnds \/ WriteVectored)
                   /\ UNCHANGED <<holding, debt, limiterVars>>))
    /\ WF_vars(Tcp(NextFrame \/ ThrottleData \/ ReaderEnds))
    /\ WF_vars(Tcp(Tick /\ UNCHANGED tcpVars))
    /\ WF_vars(Quic(Tick /\ UNCHANGED quicVars))
    /\ \A s \in Streams : WF_vars(Quic(PollRead(s)))

-----------------------------------------------------------------------------
(* Properties.                                                             *)

Encodable(f) == Fits(f, budget[1])

\* The frame is within the limits of the receiving end.  The memory a control
\* frame may claim is its size and the headroom, but never above MAX_FRAME_SIZE,
\* which cuts the headroom of frames near that size.
Acceptable(f) ==
    /\ Fits(f, budget[2])
    /\ ValidateFrame(f, ValidationLimits(budget[2]))
    /\ IsData(f) \/ f.claim <= Least(f.size + Headroom, MaxFrameSize)

\* Whatever the batches, the priorities and the cuts of the vectored writes,
\* the peer decodes the frames of each producer unaltered and in the order of
\* sending; missing are only those encode_frame_segments skipped, and a tail.
FramesInOrder ==
    /\ \A i \in DOMAIN decoded : \E p \in Producers : decoded[i] \in Range(script[p])
    /\ \A p \in Producers :
        IsPrefix(SelectSeq(decoded, LAMBDA f : f \in Range(script[p])),
                 SelectSeq(queued[p], Encodable))

\* The decoder fails only on a frame beyond the receiver's own limits: neither
\* a cut in the byte stream nor the rounding of the memory bound in
\* decode_control_frame ever ends a session whose client keeps to them.  The
\* clamp to MAX_FRAME_SIZE does: a frame that fits and whose claim passes the
\* clamp is refused, though the code speaks of accepting every valid frame.
OnlyBadFramesFail ==
    reader = "error" => \E p \in Producers : \E i \in DOMAIN queued[p] :
        Encodable(queued[p][i]) /\ ~Acceptable(queued[p][i])

\* There is one wire format: the sender's segments are what the codec encodes,
\* and on every buffer the zero-copy decoder finds the data frames decode_batch
\* finds, and consumes as much.
OneWireFormat ==
    /\ \A p \in Producers : \A f \in Range(script[p]) :
        Encodable(f) => FlattenSeq(EncodeFrameSegments(f, budget[1])) = Encode(f)
    /\ LET b == DecodeBatch(wire, budget[2], <<>>, 0)
           z == ZeroCopy(wire, budget[2], <<>>, 0)
       IN b.res = "none" => /\ z.res = "none" /\ z.used = b.used
                            /\ z.frames = SelectSeq(b.frames, IsData)

\* What the callers can see of the session's bytes.
SumOf(f(_), S) == MapThenSumSet(f, S)
DataBytes(fs) == FoldLeft(LAMBDA acc, f : acc + IF IsData(f) THEN Len(f.data) ELSE 0, 0, fs)
SeenBytes ==
    IF transport = "tcp" THEN DataBytes(decoded) - DataBytes(holding)
    ELSE LET n(s) == Len(seen[s]) IN SumOf(n, Streams)

\* On either transport, at no time has a session's ingress seen more than the
\* burst and what the configured rate has since allowed: quota is taken before
\* bytes are shown, also across streams that race for it or are dropped.
WithinBudget == SeenBytes <= bytes_burst + bytes_per_sec * elapsed

\* What a session is charged is what was read on its behalf, each byte once and
\* none but those a throttle still waits for: the failed check_data before a
\* throttle costs nothing, and the chunks of the throttle add up.
ChargedOnce ==
    IF transport = "tcp" THEN spent = DataBytes(decoded) - debt
    ELSE LET n(s) == sent[s] - Len(inner[s]) - throttle[s] IN spent = SumOf(n, Streams)

\* A stream is accepted as what it was opened as, and its bytes come out in the
\* order they went in, however they are split between reads, withheld and
\* released; end of file comes after the last of them.
StreamIntact ==
    \A s \in Streams :
        /\ accepted[s] # <<>> => accepted[s] = <<ProtocolOf[s], ids[s]>>
        /\ seen[s] \o Rest(pending[s], released[s]) \o inner[s] = [i \in 1 .. sent[s] |-> i]
        /\ caller[s] = "eof" => fin[s] /\ Len(seen[s]) = sent[s]
        /\ \A t \in Streams : ids[s] = ids[t] /\ ids[s] # 0 => s = t

\* Every frame the channel took and the sender did not skip is decoded and past
\* the meter, and every byte sent over QUIC is in its reader's hands, unless
\* the connection failed or the reader gave up.
CaughtUp ==
    /\ \/ reader \in {"error", "cut"} \/ sender = "failed"
       \/ /\ holding = <<>>
          /\ \A p \in Producers : SelectSeq(decoded, LAMBDA f : f \in Range(script[p]))
                                    = SelectSeq(queued[p], Encodable)
    /\ \A s \in Streams : caller[s] = "reading" => Len(seen[s]) = sent[s]

\* Nothing is held up for ever: not by a batch that waits for more, a write cut
\* short, a frame larger than the burst, or streams that race for the quota.
BytesArrive == []<>CaughtUp
=============================================================================
