------------------------------- MODULE Config -------------------------------
(***************************************************************************)
(* How a client or a server gets its transport: what the builders and the  *)
(* command line accept, what they turn it into, and what the transports    *)
(* make of that when they connect or listen.  A path is absent, empty, or  *)
(* names a file that loads as what it is named for or does not: it is      *)
(* missing, cannot be read or parsed, or does not fit the other half of    *)
(* its pair.  A server name is absent, and then the host that is dialled   *)
(* stands in, or is one that ServerName::try_from takes or refuses.        *)
(***************************************************************************)
EXTENDS Naturals, FiniteSets, SequencesExt

CONSTANTS
    MinVersion, MaxVersion    \* MIN_PROTOCOL_VERSION, MAX_PROTOCOL_VERSION

Paths == {"none", "empty", "file", "bad"}
Names == {"none", "good", "bad"}

TlsConfigs == [enabled : BOOLEAN, skip_verify : BOOLEAN, client_auth : BOOLEAN,
               ca : Paths, cert : Paths, key : Paths, server_name : Names]

missing_path(p) == p \in {"none", "empty"}

\* Option::unwrap_or_default on a path.
Unwrapped(p) == IF p = "none" THEN "empty" ELSE p

Tcp == [type |-> "Tcp"]

-----------------------------------------------------------------------------
(* The builders.                                                           *)

validate_client_tls_config(c) ==
    /\ c.enabled
    /\ c.skip_verify \/ ~missing_path(c.ca)
    /\ c.client_auth => ~missing_path(c.cert) /\ ~missing_path(c.key)
    /\ missing_path(c.cert) = missing_path(c.key)

\* Fault: the authority of client certificates is not asked for.
ValidateWithoutCa(c) == c.enabled /\ ~missing_path(c.cert) /\ ~missing_path(c.key)

validate_server_tls_config(c) ==
    /\ c.enabled
    /\ ~missing_path(c.cert)
    /\ ~missing_path(c.key)
    /\ c.client_auth => ~missing_path(c.ca)

TlsFromCommon(c) ==
    [type |-> "Tls", ca |-> c.ca, cert |-> Unwrapped(c.cert), key |-> Unwrapped(c.key),
     client_auth |-> c.client_auth, skip_verify |-> c.skip_verify, server_name |-> c.server_name]

\* A QUIC configuration never asks for client certificates.
QuicFromCommon(c) ==
    [type |-> "Quic", ca |-> c.ca, cert |-> Unwrapped(c.cert), key |-> Unwrapped(c.key),
     client_auth |-> FALSE, skip_verify |-> c.skip_verify, server_name |-> c.server_name]

\* ClientBuilder::tls and quic, the calls of a builder in order: a refused TLS
\* configuration is remembered until a later call replaces it, and a disabled
\* QUIC configuration changes nothing.
ClientCall(b, call) ==
    IF call.type = "tls"
    THEN IF validate_client_tls_config(call.config) THEN TlsFromCommon(call.config)
         ELSE [type |-> "error"]
    ELSE IF call.config.enabled THEN QuicFromCommon(call.config) ELSE b

ServerCall(b, call) ==
    IF call.type = "tls"
    THEN IF validate_server_tls_config(call.config) THEN TlsFromCommon(call.config)
         ELSE [type |-> "error"]
    ELSE IF call.config.enabled THEN QuicFromCommon(call.config) ELSE b

\* ClientConfig::validate and ServerConfig::validate; the token stands for the
\* fields that must not be empty.
ClientConfigValid(c) == c.token # "empty"
ServerConfigValid(s) == s.token # "empty" /\ ("http3" \in s.services => s.http3 # "none")

ClientBuild(c) ==
    IF ClientConfigValid(c) THEN FoldLeft(ClientCall, Tcp, c.calls) ELSE [type |-> "error"]

ServerBuild(s) ==
    IF ServerConfigValid(s) THEN FoldLeft(ServerCall, Tcp, s.calls) ELSE [type |-> "error"]

-----------------------------------------------------------------------------
(* The command line.                                                       *)

\* validate_tls_args.
validate_tls_args(c) == c.enabled /\ ~c.skip_verify => c.ca # "none"

\* validate_dashboard_config.
validate_dashboard_config(d) ==
    /\ d.auth_token # "empty"
    /\ ~d.loopback => d.allow_non_loopback /\ d.auth_token # "none"

\* The calls of TunnelClient: each completes a TLS transport or begins one
\* with everything else left out.
AsTls(t) ==
    IF t.type = "Tls" THEN t
    ELSE [type |-> "Tls", ca |-> "none", cert |-> "empty", key |-> "empty",
          client_auth |-> FALSE, skip_verify |-> FALSE, server_name |-> "none"]
with_tls_skip_verify(t) == [AsTls(t) EXCEPT !.skip_verify = TRUE]
with_tls_ca(t, ca) == [AsTls(t) EXCEPT !.ca = ca]
with_server_name(t, name) == [AsTls(t) EXCEPT !.server_name = name]
with_tls(t, cert, key) == [AsTls(t) EXCEPT !.cert = cert, !.key = key]

\* The same of TunnelServer.
with_client_auth(t, ca) == [AsTls(t) EXCEPT !.ca = ca, !.client_auth = TRUE]

\* setup_tls: the key pair is used when both halves are given.
setup_tls(c) ==
    LET verified == IF c.skip_verify THEN with_tls_skip_verify(Tcp) ELSE with_tls_ca(Tcp, c.ca)
        named == IF c.server_name = "none" THEN verified ELSE with_server_name(verified, c.server_name)
    IN IF ~c.enabled THEN Tcp
       ELSE IF c.cert # "none" /\ c.key # "none" THEN with_tls(named, c.cert, c.key)
       ELSE named

\* setup_quic_config: whatever was given, and no switch of its own.
setup_quic_config(c) == QuicFromCommon(c)

\* The environment's token: a client keeps the line end of the variable, a
\* server trims it.
ClientResolved(token) == IF token = "good_newline" THEN "control" ELSE token
ServerResolved(token) == IF token = "good_newline" THEN "good" ELSE token

CliClientBuild(c, quic, dashboard) ==
    IF ~validate_tls_args(c) \/ (dashboard.on /\ ~validate_dashboard_config(dashboard))
    THEN [type |-> "error"]
    ELSE IF quic THEN setup_quic_config(c)
    ELSE setup_tls(c)

\* TLS needs both paths, and an authority turns client certificates on.
CliServerBuild(c) ==
    IF c.client_auth /\ c.ca = "none" THEN [type |-> "error"]
    ELSE IF c.cert = "none" \/ c.key = "none" THEN Tcp
    ELSE LET tls == with_tls(Tcp, c.cert, c.key)
         IN IF c.ca # "none" THEN with_client_auth(tls, c.ca) ELSE tls

\* The services of `ferrotunnel server`: QUIC and HTTP/3 are left out, with a
\* message, when there is no key pair for them.
CliServices(wanted, c) ==
    {"tunnel", "ingress"} \cup
      {s \in wanted : s \in {"quic", "http3"} => c.cert # "none" /\ c.key # "none"}

-----------------------------------------------------------------------------
(* What the transports need.                                               *)

\* create_client_config_with_context: an authority that loads, unless nothing
\* is verified, and a key pair that loads, if one is named.
create_client_config(t) ==
    /\ t.skip_verify \/ t.ca = "file"
    /\ t.cert # "empty" /\ t.key # "empty" => t.cert = "file" /\ t.key = "file"

create_server_config(t) ==
    /\ t.cert = "file" /\ t.key = "file"
    /\ t.client_auth => t.ca = "file"

\* QUIC builds on the same two.
create_quinn_client_config(t) == create_client_config([t EXCEPT !.client_auth = FALSE])
create_quinn_server_config(t) == create_server_config([t EXCEPT !.skip_verify = FALSE])

\* The endpoint of the HTTP/3 ingress takes one path for its key pair here.
create_http3_endpoint(pair) ==
    /\ pair # "empty"
    /\ create_server_config([AsTls(Tcp) EXCEPT !.cert = pair, !.key = pair])

\* Whether connecting, or listening, gets past its configuration.  QUIC looks
\* at the server name first, TLS once the TCP connection is there.
ClientUsable(t) ==
    \/ t.type = "Tcp"
    \/ t.type = "Tls" /\ create_client_config(t)
    \/ t.type = "Quic" /\ create_quinn_client_config(t) /\ t.server_name # "bad"

NameRefused(t) == t.type = "Tls" /\ t.server_name = "bad"

ServerUsable(t) ==
    \/ t.type = "Tcp"
    \/ t.type = "Tls" /\ create_server_config(t)
    \/ t.type = "Quic" /\ create_quinn_server_config(t)

\* Two ends that can talk: the same transport, and a client certificate if
\* the server asks for one.
Agree(ct, st) ==
    /\ ct.type = st.type
    /\ ct.type = "Tls" /\ st.client_auth => ct.cert = "file" /\ ct.key = "file"

-----------------------------------------------------------------------------
(* The handshake.                                                          *)

validate_token_format(token) == token \notin {"empty", "long", "control"}

\* The highest common version, 0 if there is none.
negotiate_version(min, max) ==
    IF max < MinVersion \/ min > MaxVersion THEN 0
    ELSE Min({max, MaxVersion})

authenticate_handshake(token, expected, versions) ==
    IF ~validate_token_format(token) \/ token # expected THEN "InvalidToken"
    ELSE IF negotiate_version(versions[1], versions[2]) = 0 THEN "VersionMismatch"
    ELSE "Success"
=============================================================================
