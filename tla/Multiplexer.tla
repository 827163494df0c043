---------------------------- MODULE Multiplexer -----------------------------
(***************************************************************************)
(* ferrotunnel-core/src/stream/multiplexer.rs and transport/               *)
(* batched_sender.rs at both ends of one TCP connection: the server opens  *)
(* virtual streams, the client accepts them, and both ends write, read,    *)
(* shut down and drop them.  At each end frames go from the streams        *)
(* through the bounded frame channel and the priority batches of the       *)
(* sender to the wire; the peer's frame loop hands them, one at a time and *)
(* waiting while it must, to the bounded channels of its streams.          *)
(***************************************************************************)
EXTENDS Naturals, Sequences

CONSTANTS
    MaxU32,      \* largest stream id (u32::MAX)
    PriorityOf,  \* StreamPriority::drain_order of a stream, 0 (first) .. 3
    FrameCap,    \* capacity of the frame channel (1024)
    MaxBatch,    \* MAX_BATCH_SIZE
    WireCap,     \* frames the connection holds before a write has to wait
    NewCap,      \* NEW_STREAM_QUEUE_CAPACITY
    ChanCap,     \* STREAM_CHANNEL_CAPACITY
    MaxData,     \* bound: data frames each end writes to a stream
    Closers      \* bound: the ends that shut streams down or drop them

Ends == {"server", "client"}
Peer(e) == IF e = "server" THEN "client" ELSE "server"

Ids == {i \in 2 .. MaxU32 : i % 2 = 0}
NoStream == 0

ASSUME MuxAssumption ==
    /\ MaxU32 \in Nat /\ MaxU32 >= 4
    /\ PriorityOf \in [Ids -> 0 .. 3]
    /\ {FrameCap, MaxBatch, WireCap, NewCap, ChanCap} \subseteq Nat \ {0}
    /\ MaxData \in [Ends -> Nat]
    /\ Closers \subseteq Ends

VARIABLES
    up,              \* the connection is there
    sending,         \* per end: its batched sender runs, the frame channel is open
    held,            \* a clone of the server's multiplexer is there
    next_stream_id,  \* the server's id counter
    streams,         \* per end: streams whose sender is in the map
    last_sender,     \* per end: the stream of the cached sender
    chan,            \* per end and stream: the frames in its channel
    new_streams,     \* per end: streams accepted and not yet dispatched
    frame_tx,        \* per end: the frame channel
    wire,            \* per end: what it wrote and the peer has not read
    in_hand,         \* per end: the frame process_frame waits with, if any
    rx,              \* per end and stream: the reading half
    wr,              \* per end and stream: the writing half
    sent,            \* per end and stream: data frames written
    received         \* per end and stream: data frames read

vars == <<up, sending, held, next_stream_id, streams, last_sender, chan, new_streams, frame_tx, wire,
          in_hand, rx, wr, sent, received>>

connVars == <<up, sending, held>>
mapVars == <<streams, last_sender, new_streams, in_hand>>
dataVars == <<chan, received>>

RxStates == {"none", "opening", "queued", "open", "eof", "dropped"}
WrStates == {"none", "opening", "open", "closing", "overdue", "shut", "failed"}

Kinds == {"open", "data", "close"}

\* An item of the frame channel: the priority it is sorted by and the frame.
\* OpenStream carries the priority to the accepting end, so both ends send
\* every frame of a stream under the same one.
OpenFrame(i) == [pri |-> PriorityOf[i], kind |-> "open", id |-> i, n |-> 0]
DataFrame(i, n) == [pri |-> PriorityOf[i], kind |-> "data", id |-> i, n |-> n]
\* Fault: CloseStream is sent as a critical control frame.
CloseFrameCritical(i) == [pri |-> 0, kind |-> "close", id |-> i, n |-> 0]

CloseFrame(i) == [pri |-> PriorityOf[i], kind |-> "close", id |-> i, n |-> 0]

Room(e) == Len(frame_tx[e]) < FrameCap

\* try_send_option with room: the frame is in the channel.
Enqueue(e, f) == frame_tx' = [frame_tx EXCEPT ![e] = Append(@, f)]

SetRx(e, i, st) == rx' = [rx EXCEPT ![e][i] = st]
SetWr(e, i, st) == wr' = [wr EXCEPT ![e][i] = st]

Init ==
    /\ up = TRUE
    /\ sending = [e \in Ends |-> TRUE]
    /\ held = TRUE
    /\ next_stream_id = 2
    /\ streams = [e \in Ends |-> {}]
    /\ last_sender = [e \in Ends |-> NoStream]
    /\ chan = [e \in Ends |-> [i \in Ids |-> <<>>]]
    /\ new_streams = [e \in Ends |-> <<>>]
    /\ frame_tx = [e \in Ends |-> <<>>]
    /\ wire = [e \in Ends |-> <<>>]
    /\ in_hand = [e \in Ends |-> <<>>]
    /\ rx = [e \in Ends |-> [i \in Ids |-> "none"]]
    /\ wr = [e \in Ends |-> [i \in Ids |-> "none"]]
    /\ sent = [e \in Ends |-> [i \in Ids |-> 0]]
    /\ received = [e \in Ends |-> [i \in Ids |-> <<>>]]

-----------------------------------------------------------------------------
(* open_stream_with_priority on the server.                                *)

\* Fault: the id counter is incremented without a look at its limit.
OpenStartUnchecked ==
    /\ held
    /\ next_stream_id \in Ids
    /\ next_stream_id' = next_stream_id + 2
    /\ streams' = [streams EXCEPT !["server"] = @ \cup {next_stream_id}]
    /\ SetRx("server", next_stream_id, "opening")
    /\ SetWr("server", next_stream_id, "opening")
    /\ UNCHANGED <<connVars, last_sender, new_streams, in_hand, dataVars, frame_tx, wire, sent>>

\* An id is allocated unless the counter would overflow; the sender is in the
\* map before the peer can answer.  Whoever has the multiplexer may open a
\* stream, on a connection that is lost, too.
OpenStart ==
    /\ held
    /\ next_stream_id + 2 <= MaxU32
    /\ next_stream_id' = next_stream_id + 2
    /\ streams' = [streams EXCEPT !["server"] = @ \cup {next_stream_id}]
    /\ SetRx("server", next_stream_id, "opening")
    /\ SetWr("server", next_stream_id, "opening")
    /\ UNCHANGED <<connVars, last_sender, new_streams, in_hand, dataVars, frame_tx, wire, sent>>

OpenSend(i) ==
    /\ wr["server"][i] = "opening"
    /\ sending["server"] /\ Room("server")
    /\ Enqueue("server", OpenFrame(i))
    /\ SetRx("server", i, "open")
    /\ SetWr("server", i, "open")
    /\ UNCHANGED <<connVars, next_stream_id, mapVars, dataVars, wire, sent>>

\* The channel stayed full until the deadline, or is closed: the caller gets
\* an error and the map entry stays.
OpenFails(i) ==
    /\ wr["server"][i] = "opening"
    /\ ~sending["server"] \/ ~Room("server")
    /\ SetRx("server", i, "dropped")
    /\ SetWr("server", i, "failed")
    /\ UNCHANGED <<connVars, next_stream_id, mapVars, dataVars, frame_tx, wire, sent>>

-----------------------------------------------------------------------------
(* VirtualStream: poll_write, poll_shutdown, poll_read and Drop.           *)

Held(e, i) == rx[e][i] \in {"open", "eof"}

Write(e, i) ==
    /\ Held(e, i) /\ wr[e][i] = "open"
    /\ sending[e] /\ Room(e)
    /\ sent[e][i] < MaxData[e]
    /\ sent' = [sent EXCEPT ![e][i] = @ + 1]
    /\ Enqueue(e, DataFrame(i, sent[e][i] + 1))
    /\ UNCHANGED <<connVars, next_stream_id, mapVars, dataVars, wire, rx, wr>>

\* The bounded send ran into its deadline, or the sender is gone.
WriteFails(e, i) ==
    /\ Held(e, i) /\ wr[e][i] = "open"
    /\ ~sending[e] \/ ~Room(e)
    /\ SetWr(e, i, "failed")
    /\ UNCHANGED <<connVars, next_stream_id, mapVars, dataVars, frame_tx, wire, rx, sent>>

\* The first poll_shutdown: done if the channel takes the close at once, and
\* else the close is left pending.
Shutdown(e, i) ==
    /\ e \in Closers
    /\ Held(e, i) /\ wr[e][i] = "open"
    /\ sending[e]
    /\ IF Room(e)
       THEN Enqueue(e, CloseFrame(i)) /\ SetWr(e, i, "shut")
       ELSE SetWr(e, i, "closing") /\ UNCHANGED frame_tx
    /\ UNCHANGED <<connVars, next_stream_id, mapVars, dataVars, wire, rx, sent>>

\* The pending close runs into its deadline with the channel still full.
ShutdownDeadline(e, i) ==
    /\ Held(e, i) /\ wr[e][i] = "closing"
    /\ sending[e] /\ ~Room(e)
    /\ SetWr(e, i, "overdue")
    /\ UNCHANGED <<connVars, next_stream_id, mapVars, dataVars, frame_tx, wire, rx, sent>>

\* A later poll_shutdown: the outcome of the pending send, error or not, is
\* discarded and the close is sent anew, so one that had to wait is sent twice
\* and one that timed out starts over.
ShutdownPoll(e, i) ==
    /\ Held(e, i)
    /\ \/ wr[e][i] = "closing" /\ (~sending[e] \/ Room(e))
       \/ wr[e][i] = "overdue"
    /\ LET close == CloseFrame(i)
           first == IF wr[e][i] = "closing" THEN Append(frame_tx[e], close) ELSE frame_tx[e]
       IN IF ~sending[e]
          THEN SetWr(e, i, "failed") /\ UNCHANGED frame_tx
          ELSE IF Len(first) < FrameCap
               THEN /\ frame_tx' = [frame_tx EXCEPT ![e] = Append(first, close)]
                    /\ SetWr(e, i, "shut")
               ELSE /\ frame_tx' = [frame_tx EXCEPT ![e] = first]
                    /\ SetWr(e, i, "closing")
    /\ UNCHANGED <<connVars, next_stream_id, mapVars, dataVars, wire, rx, sent>>

\* poll_read takes the next frame of the channel: data, or the end.
Read(e, i) ==
    /\ rx[e][i] = "open"
    /\ chan[e][i] # <<>>
    /\ chan' = [chan EXCEPT ![e][i] = Tail(@)]
    /\ LET f == Head(chan[e][i])
       IN IF f.kind = "data"
          THEN received' = [received EXCEPT ![e][i] = Append(@, f.n)] /\ UNCHANGED rx
          ELSE SetRx(e, i, "eof") /\ UNCHANGED received
    /\ UNCHANGED <<connVars, next_stream_id, mapVars, frame_tx, wire, wr, sent>>

\* Someone holds a sender of the stream: the map, the cache or process_frame.
HasSender(e, i) ==
    \/ i \in streams[e]
    \/ last_sender[e] = i
    \/ in_hand[e] # <<>> /\ in_hand[e][1].id = i

\* The channel is empty and the last sender is gone: also an end of file.
ReadDisconnected(e, i) ==
    /\ rx[e][i] = "open"
    /\ chan[e][i] = <<>>
    /\ ~HasSender(e, i)
    /\ SetRx(e, i, "eof")
    /\ UNCHANGED <<connVars, next_stream_id, mapVars, dataVars, frame_tx, wire, wr, sent>>

\* The owner lets go of the stream; nothing is sent to the peer.
Drop(e, i) ==
    /\ e \in Closers
    /\ Held(e, i)
    /\ SetRx(e, i, "dropped")
    /\ SetWr(e, i, IF wr[e][i] = "shut" THEN "shut" ELSE "failed")
    /\ chan' = [chan EXCEPT ![e][i] = <<>>]
    /\ UNCHANGED <<connVars, next_stream_id, mapVars, received, frame_tx, wire, sent>>

-----------------------------------------------------------------------------
(* run_batched_sender.                                                     *)

\* Fault: a sort that does not keep the order of equal priorities.
SortBatchUnstable(b) ==
    LET of(k) == SelectSeq(b, LAMBDA f : f.pri = k)
        rev(s) == [j \in DOMAIN s |-> s[Len(s) + 1 - j]]
    IN rev(of(0)) \o rev(of(1)) \o rev(of(2)) \o rev(of(3))

\* sort_by_key is stable: within a priority the channel's order stays.
SortBatch(b) ==
    LET of(k) == SelectSeq(b, LAMBDA f : f.pri = k) IN of(0) \o of(1) \o of(2) \o of(3)

\* What the channel holds, up to a full batch, is sorted and written.
Flush(e) ==
    /\ up
    /\ frame_tx[e] # <<>>
    /\ Len(wire[e]) < WireCap
    /\ LET k == IF Len(frame_tx[e]) < MaxBatch THEN Len(frame_tx[e]) ELSE MaxBatch
       IN /\ wire' = [wire EXCEPT ![e] = @ \o SortBatch(SubSeq(frame_tx[e], 1, k))]
          /\ frame_tx' = [frame_tx EXCEPT ![e] = SubSeq(@, k + 1, Len(@))]
    /\ UNCHANGED <<connVars, next_stream_id, mapVars, dataVars, rx, wr, sent>>

\* Only a write that fails tells the sender that the connection is lost: it
\* returns, and the frame channel is closed.
SenderStops(e) ==
    /\ ~up /\ sending[e]
    /\ frame_tx[e] # <<>>
    /\ sending' = [sending EXCEPT ![e] = FALSE]
    /\ frame_tx' = [frame_tx EXCEPT ![e] = <<>>]
    /\ UNCHANGED <<up, held, next_stream_id, mapVars, dataVars, wire, rx, wr, sent>>

-----------------------------------------------------------------------------
(* The frame loop and process_frame.                                       *)

\* Up to the await: OpenStream puts the sender in the map, unless the id is
\* there already; Data and CloseStream look the sender up, first in the cache,
\* and are dropped without one.
Receive(e) ==
    /\ up
    /\ in_hand[e] = <<>>
    /\ wire[Peer(e)] # <<>>
    /\ wire' = [wire EXCEPT ![Peer(e)] = Tail(@)]
    /\ LET f == Head(wire[Peer(e)])
       IN IF f.kind = "open"
          THEN IF f.id \in streams[e]
               THEN UNCHANGED <<mapVars, rx>>
               ELSE /\ streams' = [streams EXCEPT ![e] = @ \cup {f.id}]
                    /\ SetRx(e, f.id, "queued")
                    /\ in_hand' = [in_hand EXCEPT ![e] = <<f>>]
                    /\ UNCHANGED <<last_sender, new_streams>>
          ELSE IF HasSender(e, f.id)
               THEN /\ last_sender' = [last_sender EXCEPT ![e] = f.id]
                    /\ in_hand' = [in_hand EXCEPT ![e] = <<f>>]
                    /\ UNCHANGED <<streams, new_streams, rx>>
               ELSE UNCHANGED <<mapVars, rx>>
    /\ UNCHANGED <<connVars, next_stream_id, dataVars, frame_tx, wr, sent>>

\* Fault: a data frame that finds its channel full is dropped.
DeliverDataLossy(e, f) ==
    /\ f.kind = "data"
    /\ chan' = IF Len(chan[e][f.id]) < ChanCap
               THEN [chan EXCEPT ![e][f.id] = Append(@, f)] ELSE chan
    /\ UNCHANGED <<streams, new_streams>>

\* The send fails when the stream was dropped, and then its entry goes; it
\* waits while the channel is full.
DeliverData(e, f) ==
    /\ f.kind = "data"
    /\ IF rx[e][f.id] = "dropped"
       THEN streams' = [streams EXCEPT ![e] = @ \ {f.id}] /\ UNCHANGED chan
       ELSE /\ Len(chan[e][f.id]) < ChanCap
            /\ chan' = [chan EXCEPT ![e][f.id] = Append(@, f)]
            /\ UNCHANGED streams
    /\ UNCHANGED new_streams

\* Fault: CloseStream leaves the entry in the map.
DeliverCloseKeeps(e, f) ==
    /\ f.kind = "close"
    /\ IF rx[e][f.id] = "dropped"
       THEN UNCHANGED chan
       ELSE /\ Len(chan[e][f.id]) < ChanCap
            /\ chan' = [chan EXCEPT ![e][f.id] = Append(@, f)]
    /\ UNCHANGED <<streams, new_streams>>

\* Fault: the close is only delivered if the channel has room.
DeliverCloseTry(e, f) ==
    /\ f.kind = "close"
    /\ chan' = IF rx[e][f.id] # "dropped" /\ Len(chan[e][f.id]) < ChanCap
               THEN [chan EXCEPT ![e][f.id] = Append(@, f)] ELSE chan
    /\ streams' = [streams EXCEPT ![e] = @ \ {f.id}]
    /\ UNCHANGED new_streams

\* The close is delivered if it can be, and the entry goes in any case.
DeliverClose(e, f) ==
    /\ f.kind = "close"
    /\ IF rx[e][f.id] = "dropped"
       THEN UNCHANGED chan
       ELSE /\ Len(chan[e][f.id]) < ChanCap
            /\ chan' = [chan EXCEPT ![e][f.id] = Append(@, f)]
    /\ streams' = [streams EXCEPT ![e] = @ \ {f.id}]
    /\ UNCHANGED new_streams

\* The new stream is queued for dispatch, waiting for a place.
DeliverOpen(e, f) ==
    /\ f.kind = "open"
    /\ Len(new_streams[e]) < NewCap
    /\ new_streams' = [new_streams EXCEPT ![e] = Append(@, f.id)]
    /\ UNCHANGED <<streams, chan>>

\* The await of process_frame returns.
Deliver(e) ==
    /\ in_hand[e] # <<>>
    /\ LET f == in_hand[e][1] IN DeliverOpen(e, f) \/ DeliverData(e, f) \/ DeliverClose(e, f)
    /\ in_hand' = [in_hand EXCEPT ![e] = <<>>]
    /\ UNCHANGED <<connVars, next_stream_id, last_sender, received, frame_tx, wire, rx, wr, sent>>

\* spawn_stream_dispatch_loop gives the stream to a handler of its own.
Dispatch(e) ==
    /\ new_streams[e] # <<>>
    /\ new_streams' = [new_streams EXCEPT ![e] = Tail(@)]
    /\ SetRx(e, Head(new_streams[e]), "open")
    /\ SetWr(e, Head(new_streams[e]), "open")
    /\ UNCHANGED <<connVars, next_stream_id, streams, last_sender, in_hand, dataVars, frame_tx, wire, sent>>

\* The connection is lost: what is on it is gone, and both frame loops return.
\* A stream that process_frame was still queueing is dropped with it.  The
\* client's loop owned the only multiplexer there, and with it go all senders;
\* the server's has clones, so there they stay.
Lose ==
    /\ up
    /\ up' = FALSE
    /\ wire' = [e \in Ends |-> <<>>]
    /\ in_hand' = [e \in Ends |-> <<>>]
    /\ streams' = [streams EXCEPT !["client"] = {}]
    /\ last_sender' = [last_sender EXCEPT !["client"] = NoStream]
    /\ rx' = [e \in Ends |-> [i \in Ids |->
                 IF in_hand[e] # <<>> /\ in_hand[e][1].kind = "open" /\ in_hand[e][1].id = i
                 THEN "dropped" ELSE rx[e][i]]]
    /\ UNCHANGED <<sending, held, next_stream_id, new_streams, dataVars, frame_tx, wr, sent>>

\* The last clone of the server's multiplexer goes: the session has left the
\* store, by the handler or, after an error in its frame loop, by the sweep,
\* and the ingress tasks that looked the session up have ended.
LetGo ==
    /\ ~up /\ held
    /\ \A i \in Ids : wr["server"][i] # "opening"
    /\ held' = FALSE
    /\ streams' = [streams EXCEPT !["server"] = {}]
    /\ last_sender' = [last_sender EXCEPT !["server"] = NoStream]
    /\ UNCHANGED <<up, sending, next_stream_id, new_streams, dataVars, frame_tx, wire, in_hand,
                   rx, wr, sent>>

-----------------------------------------------------------------------------
Stream(e, i) ==
    \/ Write(e, i) \/ WriteFails(e, i) \/ Shutdown(e, i) \/ ShutdownDeadline(e, i)
    \/ ShutdownPoll(e, i) \/ Read(e, i) \/ ReadDisconnected(e, i) \/ Drop(e, i)

Next ==
    \/ OpenStart
    \/ \E i \in Ids : OpenSend(i) \/ OpenFails(i)
    \/ \E e \in Ends : \/ Flush(e) \/ SenderStops(e) \/ Receive(e) \/ Deliver(e) \/ Dispatch(e)
                       \/ \E i \in Ids : Stream(e, i)
    \/ Lose \/ LetGo

Spec == Init /\ [][Next]_vars

\* The tasks of the connection run when they can, and a started open or
\* shutdown is polled to its end.
LoopFairness ==
    /\ \A e \in Ends :
        /\ WF_vars(Flush(e)) /\ WF_vars(SenderStops(e))
        /\ WF_vars(Receive(e)) /\ WF_vars(Deliver(e)) /\ WF_vars(Dispatch(e))
        /\ \A i \in Ids : /\ WF_vars(ShutdownPoll(e, i)) /\ WF_vars(ShutdownDeadline(e, i))
                          /\ WF_vars(ReadDisconnected(e, i))
    /\ \A i \in Ids : WF_vars(OpenSend(i) \/ OpenFails(i))

\* Every stream is read until its end or dropped.
FairSpec == Spec /\ LoopFairness /\ \A e \in Ends, i \in Ids : WF_vars(Read(e, i))

\* Readers may be slow for ever.
SlowSpec == Spec /\ LoopFairness

-----------------------------------------------------------------------------
(* Properties.                                                             *)

Frames == [pri : 0 .. 3, kind : Kinds, id : Ids, n : Nat]

\* The variables keep their types and the queues their capacities.
TypeOK ==
    /\ {up, held} \subseteq BOOLEAN
    /\ sending \in [Ends -> BOOLEAN]
    /\ next_stream_id \in Ids
    /\ \A e \in Ends :
        /\ streams[e] \subseteq Ids
        /\ last_sender[e] \in Ids \cup {NoStream}
        /\ new_streams[e] \in Seq(Ids) /\ Len(new_streams[e]) <= NewCap
        /\ frame_tx[e] \in Seq(Frames) /\ Len(frame_tx[e]) <= FrameCap
        /\ wire[e] \in Seq(Frames)
        /\ in_hand[e] \in Seq(Frames) /\ Len(in_hand[e]) <= 1
        /\ \A i \in Ids :
            /\ chan[e][i] \in Seq(Frames) /\ Len(chan[e][i]) <= ChanCap
            /\ rx[e][i] \in RxStates
            /\ wr[e][i] \in WrStates
            /\ sent[e][i] \in 0 .. MaxData[e]
            /\ received[e][i] \in Seq(Nat)

\* The data frames of stream i in a queue of frames, by number.
DataIn(q, i) ==
    LET d == SelectSeq(q, LAMBDA f : f.kind = "data" /\ f.id = i)
    IN [j \in DOMAIN d |-> d[j].n]

\* The frames on their way to end e.
Coming(e) == IF up THEN in_hand[e] \o wire[Peer(e)] \o frame_tx[Peer(e)] ELSE <<>>

\* Everything written to stream i for the reader at e, in the order in which
\* it was or will be read.
Pipeline(e, i) ==
    received[e][i] \o DataIn(chan[e][i] \o Coming(e), i)

\* As long as the reader has not let go, no data frame is lost, doubled or
\* overtaken by another of its stream anywhere between writer and reader: not
\* by the batch sort, not by an OpenStream that comes after its data, not in a
\* stale cached sender, not in a full channel.  A lost connection can only cut
\* the tail off.
NothingLost ==
    \A e \in Ends, i \in Ids : rx[e][i] \notin {"eof", "dropped"} =>
        /\ \A j \in DOMAIN Pipeline(e, i) : Pipeline(e, i)[j] = j
        /\ Len(Pipeline(e, i)) <= sent[Peer(e)][i]
        /\ up => Len(Pipeline(e, i)) = sent[Peer(e)][i]

\* On a connection that is up, end of file means that the peer shut the stream
\* down and all it wrote has been read.
EofIsComplete ==
    up => \A e \in Ends, i \in Ids :
        rx[e][i] = "eof" => Len(received[e][i]) = sent[Peer(e)][i]

UnderWay(e, i) == \E j \in DOMAIN Coming(e) : Coming(e)[j].id = i

\* Once the peer has shut a stream down and its frames are in, the stream's
\* entry is gone from the map, and no later frame brings it back.
ClosedIsForgotten ==
    up => \A e \in Ends, i \in Ids :
        wr[Peer(e)][i] = "shut" /\ ~UnderWay(e, i) => i \notin streams[e]

\* A data frame that was written is read, unless its reader lets go of the
\* stream or the connection is lost: the two ends, each waiting for room in
\* the other's queues, do not block each other for good.
DataIsRead ==
    \A e \in Ends, i \in Ids : \A n \in 1 .. MaxData[Peer(e)] :
        sent[Peer(e)][i] = n ~> (Len(received[e][i]) >= n \/ rx[e][i] = "dropped" \/ ~up)

\* No reader is left hanging.  A stream its peer shut down ends for its reader,
\* and so does every stream of a lost connection: at the client in any case, at
\* the server once the last clone of the multiplexer is gone.  As long as an
\* ingress task or a session left in the store has one, the reader there sees
\* no end, and only a timeout of its own helps it.
ReaderSeesEnd ==
    \A e \in Ends, i \in Ids :
        (rx[e][i] = "open" /\ (wr[Peer(e)][i] = "shut" \/ ~up))
            ~> (rx[e][i] # "open" \/ (e = "server" /\ ~up /\ held))

\* What the code does not keep: a shutdown comes to an end, with an error if
\* the channel stays full.
ShutdownResolves ==
    \A e \in Ends, i \in Ids :
        wr[e][i] \in {"closing", "overdue"} ~> wr[e][i] \notin {"closing", "overdue"}

\* What the code does not keep: a slow stream does not block the dispatch of
\* the next one.
NextIsDispatched ==
    \A i \in Ids : wr["server"][i] = "open" ~> (rx["client"][i] # "none" \/ ~up)

=============================================================================
