--------------------------- MODULE MCRequestPath ---------------------------
(* Two requests under workloads that each bring out one part of the path.  *)
EXTENDS RequestPath, TLC

CONSTANTS r1, r2

Plain == [kind |-> "http", host |-> "tunnel", ws |-> FALSE, grpc |-> FALSE, declared |-> FALSE,
          chunks |-> 0, token |-> TRUE, ip |-> "a", slow |-> FALSE]
Pair(a, b) == r1 :> a @@ r2 :> b
Quiet == [req |-> Pair(Plain, Plain), plugins |-> <<>>, session |-> "ready",
          faults |-> {}, capture |-> FALSE, tcp |-> TRUE, upstream |-> {200}, max_connections |-> 2,
          flaky |-> {}, custom |-> {"Continue"}, reply |-> 1,
          earlier |-> <<>>]

Grpc == [Plain EXCEPT !.grpc = TRUE]
H3 == [Plain EXCEPT !.kind = "h3"]
Tcp == [Plain EXCEPT !.kind = "tcp", !.chunks = 1]
WebSocket == [Plain EXCEPT !.ws = TRUE]
Health == [Plain EXCEPT !.host = "health"]
Every == {"Continue", "Modify", "Reject", "Respond", "Err"}

MCWorkloads == {
    \* The pool, between calls of the same and of different protocols.
    [Quiet EXCEPT !.faults = {"local"}, !.reply = 0],
    [Quiet EXCEPT !.req = Pair(Grpc, Grpc), !.faults = {"local"}, !.reply = 0],
    [Quiet EXCEPT !.req = Pair(Plain, WebSocket), !.upstream = {101, 200}],
    \* Bodies at, under and over the limit, declared or not.
    [Quiet EXCEPT !.req = Pair([Plain EXCEPT !.chunks = 2],
                               [Plain EXCEPT !.chunks = 2, !.declared = TRUE])],
    [Quiet EXCEPT !.req = Pair([Plain EXCEPT !.chunks = 1], Health)],
    [Quiet EXCEPT !.req = Pair([H3 EXCEPT !.chunks = 2], Health)],
    \* Hosts, and a session without its multiplexer.
    [Quiet EXCEPT !.req = Pair([H3 EXCEPT !.host = "health"], [H3 EXCEPT !.host = "bad"]),
                  !.flaky = {"h3"}, !.max_connections = 1],
    [Quiet EXCEPT !.req = Pair([Plain EXCEPT !.host = "bad"], Health),
                  !.flaky = {"http"}],
    [Quiet EXCEPT !.req = Pair([Plain EXCEPT !.host = "unknown"], H3), !.session = "no_multiplexer"],
    \* The visitor or the tunnel goes away; one permit for two connections.
    [Quiet EXCEPT !.req = Pair(Plain, WebSocket), !.faults = {"visitor"}, !.upstream = {101},
                  !.max_connections = 1],
    [Quiet EXCEPT !.req = Pair([H3 EXCEPT !.chunks = 1], Health), !.faults = {"visitor"}],
    [Quiet EXCEPT !.req = Pair(Plain, Health), !.faults = {"tunnel"}],
    [Quiet EXCEPT !.req = Pair([H3 EXCEPT !.grpc = TRUE], Health), !.faults = {"tunnel"}],
    [Quiet EXCEPT !.req = Pair(Tcp, Tcp), !.faults = {"tunnel", "local"}, !.max_connections = 1],
    [Quiet EXCEPT !.req = Pair(Tcp, Tcp), !.tcp = FALSE, !.flaky = {"tcp"}],
    \* Visitors that stop sending or reading.
    [Quiet EXCEPT !.req = Pair([Plain EXCEPT !.slow = TRUE, !.chunks = 1],
                               [H3 EXCEPT !.slow = TRUE]), !.reply = 0],
    [Quiet EXCEPT !.req = Pair([H3 EXCEPT !.slow = TRUE, !.chunks = 2], Health),
                  !.faults = {"visitor"}],
    \* The plugins.
    [Quiet EXCEPT !.req = Pair([Plain EXCEPT !.token = FALSE], Plain),
                  !.plugins = <<"logger", "rate_limit", "auth">>],
    [Quiet EXCEPT !.plugins = <<"custom", "breaker">>, !.upstream = {200, 500}, !.reply = 0],
    [Quiet EXCEPT !.req = Pair(H3, Health), !.plugins = <<"custom">>, !.custom = Every, !.reply = 2,
                  !.faults = {"tunnel"}],
    [Quiet EXCEPT !.req = Pair(Plain, Health), !.plugins = <<"custom", "rate_limit">>,
                  !.custom = Every, !.reply = 2, !.faults = {"tunnel", "visitor"}],
    \* The dashboard.
    [Quiet EXCEPT !.req = Pair(Plain, Grpc), !.capture = TRUE, !.reply = 0,
                  !.earlier = <<[id |-> "earlier", status |-> 200]>>],
    [Quiet EXCEPT !.req = Pair([Plain EXCEPT !.chunks = 1], Health), !.capture = TRUE,
                  !.faults = {"local"}]}
=============================================================================
