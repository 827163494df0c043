----------------------------- MODULE MCBytePath -----------------------------
(***************************************************************************)
(* Over TCP: a stream that sends two data frames, the first larger than    *)
(* the burst, and a second producer with one control frame of every kind,  *)
(* at and just above each limit; the frame budget is MAX_FRAME_SIZE, as by *)
(* default, so that the clamp of the decode limit acts.  Over QUIC: two    *)
(* streams of three bytes, one more than the burst they race for.          *)
(***************************************************************************)
EXTENDS BytePath

CONSTANTS q1, q2

MCProtocolOf == q1 :> "GRPC" @@ q2 :> "TCP"
MCPriorityOf == [p \in Producers |-> IF p = "stream" THEN 2 ELSE 0]
MCLadder == <<4, 8>>
MCConfigured == [max_token_len |-> 1, max_capabilities |-> 1, max_capability_len |-> 1]
MCDefaults == [max_metadata_entries |-> 1, max_name_len |-> 1, max_metadata_value_len |-> 1,
               max_headers |-> 1, max_header_len |-> 1, max_error_message_len |-> 1,
               max_url_len |-> 1]

Data == <<[kind |-> "data", stream |-> 258, eos |-> FALSE, data |-> <<1, 0, 5>>],
          [kind |-> "data", stream |-> 258, eos |-> TRUE, data |-> <<>>]>>

Control(kind, tag, fields) == [kind |-> kind, tag |-> tag, size |-> 2, claim |-> 4] @@ fields

Handshake(tag, t, id, v, caps) ==
    Control("handshake", tag, [token |-> t, tunnel_id |-> id, min_version |-> 1,
                               max_version |-> v, capabilities |-> caps])

MCControls ==
    {Handshake(10, 1, 1, 1, <<1>>), Handshake(11, 2, 0, 1, <<>>), Handshake(12, 1, 2, 1, <<>>),
     Handshake(13, 1, 0, 0, <<>>),
     Control("handshake_ack", 14, [capabilities |-> <<1, 1>>]),
     Control("handshake_ack", 15, [capabilities |-> <<2>>]),
     Control("register", 16, [service_name |-> 1, metadata |-> <<<<1, 1>>>>]),
     Control("register", 17, [service_name |-> 1, metadata |-> <<<<1, 2>>>>]),
     Control("register_ack", 18, [public_url |-> 2]),
     Control("open_stream", 19, [headers |-> <<<<1, 1>>>>]),
     Control("open_stream", 20, [headers |-> <<<<1, 2>>>>]),
     Control("close_stream", 21, [message |-> 1]),
     Control("error", 22, [message |-> 2]),
     Control("plugin_data", 23, [plugin_id |-> 1, payload |-> 1]),
     [kind |-> "heartbeat", tag |-> 24, size |-> 4, claim |-> 6],
     [kind |-> "stream_ack", tag |-> 25, size |-> 2, claim |-> 9],
     [kind |-> "heartbeat", tag |-> 26, size |-> 15, claim |-> 16],
     [kind |-> "heartbeat", tag |-> 27, size |-> 15, claim |-> 17],
     [kind |-> "heartbeat_ack", tag |-> 28, size |-> 16, claim |-> 16]}

Script(c) == [p \in Producers |-> IF p = "stream" THEN Data ELSE <<c>>]

MCSetups == {<<Script(c), <<16, 16>>>> : c \in MCControls}
            \cup {<<Script(Handshake(10, 1, 1, 1, <<1>>)), b>> : b \in {<<8, 16>>, <<16, 8>>}}
=============================================================================
