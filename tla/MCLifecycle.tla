---------------------------- MODULE MCLifecycle ----------------------------
(* One client and one server under workloads that each bring out one part  *)
(* of their lives.                                                         *)
EXTENDS Lifecycle

Off == [enabled |-> FALSE, skip_verify |-> FALSE, client_auth |-> FALSE,
        ca |-> "none", cert |-> "none", key |-> "none", server_name |-> "none"]
Mutual == [enabled |-> TRUE, skip_verify |-> FALSE, client_auth |-> TRUE,
           ca |-> "file", cert |-> "file", key |-> "file", server_name |-> "good"]
Verified == [Mutual EXCEPT !.client_auth = FALSE, !.cert = "none", !.key = "none"]
Tls(config) == [type |-> "tls", config |-> config]
Quic(config) == [type |-> "quic", config |-> config]

C == [kind |-> "facade", calls |-> <<>>, token |-> "good", tunnel_id |-> TRUE, auto |-> TRUE,
      timed |-> TRUE, versions |-> <<1, 1>>]
CliC == [kind |-> "cli", tls |-> Off, quic |-> FALSE, token |-> "good", tunnel_id |-> TRUE, auto |-> TRUE,
         timed |-> FALSE, versions |-> <<1, 1>>,
         dashboard |-> [on |-> TRUE, auth_token |-> "none", loopback |-> TRUE, allow_non_loopback |-> FALSE]]
S == [kind |-> "facade", calls |-> <<>>, token |-> "good", services |-> {"tunnel", "ingress"},
      http3 |-> "file"]
CliS == [kind |-> "cli", tls |-> Off, token |-> "good", services |-> {}]

Plain == [client |-> C, server |-> S, calls |-> {"start", "server_start"}, faults |-> {}, budget |-> 0,
          bridged |-> FALSE]

Commands == [Plain EXCEPT !.client = CliC, !.server = CliS, !.calls = {}]

\* Every combination of switches and paths, and a server name that is none.
Unnamed == {c \in TlsConfigs : c.server_name = "none"}
BadNames == {[c EXCEPT !.server_name = "bad"] : c \in {Verified, Mutual}}

UserCalls == {"start", "stop", "shutdown", "cancel", "drop"}

MCWorkloads ==
    \* The calls of a client, with and without a server.
    {[Plain EXCEPT !.calls = UserCalls, !.client.auto = auto] : auto \in BOOLEAN}
    \cup {[Plain EXCEPT !.calls = {"start", "shutdown"} \cup more, !.client.auto = more # {"drop"}, !.server = CliS] :
             more \in {{"stop"}, {"cancel"}, {"drop"}}}
    \* A bridge outlives the session, or the handler.
    \cup {[Plain EXCEPT !.calls = {"start", "stop", "shutdown", "drop", "server_start"}, !.bridged = TRUE],
          [Plain EXCEPT !.server.calls = <<Quic(Mutual)>>, !.client.calls = <<Quic(Verified)>>,
                        !.calls = {"start", "shutdown", "server_start"}, !.bridged = TRUE],
          [Commands EXCEPT !.faults = {"evict"}, !.budget = 1, !.bridged = TRUE]}
    \* Lost connections, late answers and evictions, over each transport.
    \cup {[Commands EXCEPT !.client.tls = IF p = "Tcp" THEN Off ELSE Mutual, !.client.quic = p = "Quic",
                           !.server.tls = IF p = "Tcp" THEN Off ELSE Mutual,
                           !.server.services = IF p = "Quic" THEN {"quic"} ELSE {},
                           !.faults = {f, "cut"}, !.budget = IF p = "Tls" THEN 1 ELSE 2] :
             p \in {"Tcp", "Tls", "Quic"}, f \in {"timeout", "evict"}}
    \cup {[Plain EXCEPT !.client.tunnel_id = FALSE, !.client.timed = FALSE, !.faults = {"cut"}, !.budget = 1],
          [Plain EXCEPT !.calls = {"start", "shutdown", "server_start"}, !.client.timed = FALSE,
                        !.faults = {"cut"}, !.budget = 1]}
    \* The calls of a server, and its services.
    \cup {[Plain EXCEPT !.client = CliC, !.calls = {"server_start", "server_stop", "server_shutdown", "server_drop"}],
          [Plain EXCEPT !.client = [CliC EXCEPT !.tls = Verified, !.quic = TRUE],
                        !.server.calls = <<Quic(Mutual)>>, !.calls = {"server_start", "server_shutdown"}],
          [Plain EXCEPT !.client = CliC, !.calls = {"server_start"}, !.faults = {"service"}, !.budget = 1],
          [Plain EXCEPT !.server.services = @ \cup {"http3"}, !.faults = {"service"}, !.budget = 1,
                        !.calls = {"server_start", "server_stop", "server_drop"}],
          [Plain EXCEPT !.server.services = @ \cup {"http3"}, !.server.http3 = "none"]}
    \cup {[Plain EXCEPT !.server.services = @ \cup {"http3"}, !.server.http3 = pair,
                        !.calls = {"server_start"}] : pair \in {"empty", "bad"}}
    \* The command line.
    \cup {[Plain EXCEPT !.client = c, !.server = s, !.calls = {"ctrl_c", "server_ctrl_c"},
                        !.faults = {"service"}, !.budget = 1] :
             c \in {CliC, [CliC EXCEPT !.tls = Verified], [CliC EXCEPT !.tls = Verified, !.quic = TRUE],
                    [CliC EXCEPT !.quic = TRUE], [CliC EXCEPT !.dashboard.loopback = FALSE]},
             s \in {CliS, [CliS EXCEPT !.tls = [Mutual EXCEPT !.ca = "none", !.client_auth = FALSE],
                                       !.services = {"quic", "http3"}]}}
    \* Tokens and versions.
    \cup {[Plain EXCEPT !.client = [CliC EXCEPT !.token = "good_newline"],
                        !.server = [CliS EXCEPT !.token = "good_newline"], !.calls = {"ctrl_c"}]}
    \cup {[Plain EXCEPT !.client.token = tok] : tok \in {"long", "other", "empty"}}
    \cup {[Commands EXCEPT !.client.versions = <<2, 3>>], [Commands EXCEPT !.client.versions = <<1, 2>>]}
    \* What the builders are told.
    \cup {[Plain EXCEPT !.client.calls = <<Tls(c)>>, !.client.auto = FALSE, !.calls = {"start"}] : c \in Unnamed \cup BadNames}
    \cup {[Plain EXCEPT !.client.calls = <<Tls(c)>>, !.client.timed = FALSE, !.server.calls = <<Tls(Mutual)>>,
                        !.calls = @ \cup more] : c \in BadNames, more \in {{}, {"cancel", "drop"}}}
    \cup {[Plain EXCEPT !.client.calls = cs, !.client.auto = FALSE, !.calls = {"start"}] :
             cs \in {<<a, b>> : a, b \in {Tls(Off), Tls(Mutual), Quic(Off), Quic(Mutual),
                                          Quic([Off EXCEPT !.enabled = TRUE])}}}
    \cup {[Plain EXCEPT !.client.calls = <<Tls(Mutual)>>, !.server.calls = <<Tls(c)>>,
                        !.client.auto = FALSE, !.client.timed = FALSE] : c \in {d \in Unnamed : ~d.skip_verify}}
    \cup {[Plain EXCEPT !.client.calls = cc, !.server.calls = sc, !.client.auto = FALSE,
                        !.client.timed = FALSE] :
             cc \in {<<>>, <<Tls(Verified)>>, <<Quic(Verified)>>,
                     <<Quic([Verified EXCEPT !.server_name = "bad"])>>},
             sc \in {<<>>, <<Tls(Mutual)>>, <<Quic(Mutual)>>, <<Quic(Verified)>>}}
=============================================================================
