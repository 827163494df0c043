# FerroTunnel in TLA+

Specifications of FerroTunnel, a reverse tunnel written in Rust: a client behind
a firewall connects to a public server, authenticates, registers a tunnel id,
and serves the requests that the server's ingress sends it over multiplexed
virtual streams. The modules model the system from the builders and the command
line down to the bytes of a frame, TLC checks them on small instances, and TLAPS
proves the main invariants of the core for every instance.

## The system and its parts

| Part | Source | Module |
|---|---|---|
| session store | `ferrotunnel-core/src/tunnel/session.rs` | `SessionStore`, `SessionRegistry` (abstract) |
| tunnel server: permits, handshake, frame loop, eviction | `tunnel/server.rs`, `tunnel/common.rs`, `resource_limits.rs` | `TunnelServer`, `Listener` |
| tunnel client | `tunnel/client.rs` | `TunnelClient`; peer in `TunnelServer` and `Multiplexer` |
| multiplexer and virtual streams | `stream/multiplexer.rs` | `Multiplexer` |
| batched sender, codec, validation | `transport/batched_sender.rs`, `ferrotunnel-protocol` | `Framing` |
| session rate limits | `rate_limit.rs`, `limits.rs` | `Limiter` |
| QUIC streams and their metering | `stream/quic_multiplexer.rs`, `stream/rate_limited.rs`, `stream/mod.rs` | `RateLimitedStream` |
| HTTP, HTTP/3 and TCP ingress | `ferrotunnel-http` | `Edge`, `HttpIngress`, `Http3Ingress`, `TcpIngress`, `Backoff` |
| plugins | `ferrotunnel-plugin` | `Plugins` |
| local proxy and connection pool | `ferrotunnel-http/src/proxy.rs`, `pool.rs` | `LocalProxy` |
| dashboard and its capture layer | `ferrotunnel-observability/src/dashboard`, `ferrotunnel-cli/src/middleware.rs` | `Dashboard` |
| builders, configuration, command line, transports, authentication | `ferrotunnel`, `ferrotunnel-cli`, `transport/*.rs`, `auth.rs` | `Config` |
| facade client and server, commands | `ferrotunnel/src/client.rs`, `server.rs`, `ferrotunnel-cli/src/commands` | `Client`, `Server` |
| metrics, tracing, common types, buffer pools | | not modelled |

How they interact: an accepted connection takes a session permit; its handler
task reads the handshake and adds a session, which holds the multiplexer, to the
store; an ingress task looks the session up by tunnel id and opens a stream on
its multiplexer; frames go through a bounded channel and the batched sender to
the wire, and the peer's frame loop hands them to the streams. A cleanup task
removes sessions without a recent heartbeat. On the client each stream is a call
of the local proxy, which takes a connection to the local service from its pool.

Three modules compose the components that interact: `BytePath` (frames, quotas
and streams of one session), `RequestPath` (ingresses, plugins, proxy, pool and
dashboard) and `Lifecycle` (client, server and their connections). The core
modules `SessionStore`, `TunnelServer` and `Multiplexer` stand on their own: the
others use what they establish through a coarser view (the session of a tunnel
is ready, left behind by a lost connection or gone, a tunnel stream delivers in
order or fails).

## Modules

### SessionStore, SessionRegistry

`SessionStore` has the store's two maps, `tunnel_index` and `sessions`, and
splits each operation where another task can come in between: `add` is
`AddClaim` (the entry of the index) and `AddInsert`; `remove` is `RemoveSession`
and `RemoveIndex`; `cleanup_stale_sessions` visits the sessions one at a time
(`SweepVisit`), then removes what it collected (`SweepRemove`, `SweepUnindex`);
`get_by_tunnel_id` is `LookupIndex` and `LookupSession`, which holds the guard
of the index entry in between and so keeps others from writing it (`Guarded`).
`SessionRegistry` is what the store promises: sessions that go through claimed,
published, retracted and released in one atomic step each, and lookups that
answer with a published session. The refinement is `Registry`, an instance of
`SessionRegistry` with the mapping `phase`.

### TunnelServer

One state machine per connection: `handler` is where the server's task for it
is, `client` the other side's view. `transport` is chosen once: a TCP (or TLS)
handler runs `process_messages` (`ReadFrame`), a QUIC handler waits for the
control stream first (`ControlStream`, `ControlFails`) and runs
`quic_control_loop` (`ReadControl`). The two differ in how they end: a QUIC
handler always removes its session, a TCP handler only at end of stream
(`ReadEof`), since its errors leave through `?` (`EndLoop`). A frame is read in
one step and acted on in another (`Act`, `PongFails`), with the chunks of a
throttle between (`ThrottleChunk`); the sweep, an ingress, the batched sender and
time may come in between. The session store is used through its atomic
operations, as `SessionStore` justifies. `queued` and `first` follow the frames
to the client up to the first write, which is what the handshake depends on.
`relay` is what the ingress holds of a connection: over TCP the socket closes
only when the handler, the session in the store and every ingress task have let
go of the frame channel (`SocketClosed`), and a task is a relay with a timeout or
a WebSocket bridge without one. `broken` has the connections whose batched sender
stopped on a failed write (`FlushFails`), after which the ack cannot be queued.

Everything a handshake may fail for (timeout, closed stream, wrong frame, token,
version, tunnel id format) is one nondeterministic `HandshakeFails`.

### Multiplexer

Both ends of one TCP connection, with the server opening streams, as it does in
production (the server's side logs and drops streams that a client opens). Per
end: the map `streams`, the cached sender `last_sender`, the frame channel
`frame_tx`, the frame `in_hand` that `process_frame` is working on, the queue of
new streams, and per stream its channel, the state of its reading side (`rx`)
and of its writing side (`wr`). A Data frame carries its number in its stream.
A send that waits is an action that is not enabled, its timeout another action
(`WriteFails`, `OpenFails`, `ShutdownDeadline`). `Flush` takes a batch from the
channel and sorts it stably by priority. `Lose` is the loss of the connection:
the client's frame loop owned the only multiplexer there, so all its channels
close, while at the server the session and the ingress hold clones, and streams
stay open until the last one goes (`held`, `LetGo`). A sender learns of the loss
when a write fails (`sending`, `SenderStops`).

### Limiter, RateLimitedStream, Framing, BytePath

`Limiter` has the two quotas of a session as buckets of cells: `check_n` takes
all or nothing, a second refills, and the clamps of the configuration are kept
with `MaxU32` as `u32::MAX`. A chunk above the burst is refused by the quota and
passes unpaid (`ChunkCost`). `RateLimitedStream` has the QUIC streams: the open
with its header, and `poll_read` split into settling the debt one chunk at a
time, draining what was paid for, and reading the inner stream. `Framing` has
the batched sender (collect, sort, encode, vectored write with any partial
progress) and the decoders. A frame on the wire is its length word in base 256,
its kind and its payload; a control frame is abstracted to the size of its
encoding, the memory it claims when decoded and the lengths validation looks at.
`BytePath` adds the frame loop that meters TCP frames. The transport is chosen
once, as in `AnyMultiplexer`.

### Plugins, Backoff, Edge, the ingresses, LocalProxy, Dashboard, RequestPath

A request is a record of what the path tells apart: ingress, host, upgrade,
gRPC, declared length, body chunks, token, address. `edge[r]` is its handler on
the server, `wire[r]` its tunnel stream, `loc[r]` its call on the client.
`Plugins` runs a round of hooks per request, each hook a task of its own; the
circuit breaker takes one step per access to shared state. `Edge` has what the
three ingresses share. `HttpIngress`, `Http3Ingress` and `TcpIngress` have one
action per await of their handlers; a timeout is an action that is enabled while
nothing has arrived. `LocalProxy` splits calls where the pool's lock is
released. `Dashboard` stores, announces and answers a captured call in three
steps. The environment (visitor, tunnel, local service) fails only in workloads
that say so, which keeps the cases apart. When the connection of the tunnel is
lost its session is gone or left for the sweep (`TunnelDrops`, `TunnelSwept`),
and a stream on it fails at some time or not at all (`TunnelFails`): its reader
sees nothing until a write fails or the multiplexer goes.

### Config, TunnelClient, Listener, Client, Server, Lifecycle

`Config` has pure operators: which TLS and QUIC configurations the builders and
the command line accept, what they turn them into, what the transports need, and
the checks of the handshake. `TunnelClient` is the client's background task,
`Client` the handle its user calls, with calls that can be cancelled;
`Listener` the accept loop and its handlers; `Server` the runs of a server and
their services. A connection is a record that both ends share: what each side is
doing, its place in the listener's queue, the ack, and whether the session is in
the store. A path of a configuration is absent, empty, or names a file that loads
or does not; a server name is absent, good, or refused by `ServerName::try_from`,
over QUIC before and over TLS after the connection is made (`ServerNameRefused`).
When a task ends, its open streams hold the connection (`lingering`); when the
handler of an evicted session returns, ingress tasks may hold the socket (`held`).

The `MC...` modules give the constants their values.

## Runs

| Run | Checks | Result |
|---|---|---|
| `store` | types; a stored session is found under its tunnel id; no orphaned index entry; refinement of the registry; tunnel ids become free | holds |
| `server` | types; an evicted handler acts on one more frame at most; a throttled session is not collected; gone clients are released; leaked sessions are reclaimed; evicted clients notice; silent peers are dropped | holds |
| `mux` | types and capacities; no data lost, doubled or reordered; data is read; readers see the end | holds |
| `mux_priority` | order and complete end of stream with two priorities in one batch; closed streams are forgotten, the cached sender included | holds |
| `bytes` | frames in order through batches and partial writes; decode errors only for bad frames; one wire format; within the quota; charged once; QUIC streams intact; everything arrives | holds |
| `request` | connections to the local service not shared; a ready HTTP/2 connection kept; no invented response; true statuses; body limit; permits conserved; history faithful; every request ends | holds |
| `lifecycle` | start tells the truth; no stray task; accepted TLS configurations lack nothing; stop is obeyed; clients reconnect; servers fail whole | holds |
| `store_evict` | the sweep evicts only stale sessions | violated |
| `server_permit` | every session in the store holds a permit | violated |
| `server_ack` | the ack is the first frame a client gets | violated |
| `mux_shutdown` | a shutdown resolves | violated |
| `mux_slow` | a slow stream does not block the dispatch of the next | violated |

The five violated properties state what a comment in the code says:

- `store_evict`: ids are collected, then removed without a second look at the
  heartbeat (`session.rs:170`, `:187`).
- `server_permit`: a frame that does not decode and the other errors of a TCP
  handler, and a failed QUIC ack, return the permit and leave the session
  (`resource_limits.rs:53`, `server.rs:410`, `:711`). The TCP ack fails only after
  a failed write has stopped the sender. `EndedSessionReclaimed` shows the cleanup task makes up for it.
- `server_ack`: the session can be found before its ack is queued
  (`server.rs:362`, `client.rs:451`).
- `mux_shutdown`: `poll_shutdown` drops the timeout error and sends again with a
  new deadline (`multiplexer.rs:341`, `:590`).
- `mux_slow`: the one frame loop waits for room in the slow stream's channel
  (`client.rs:381`, `multiplexer.rs:236`).

### Bounds

- `store`: three sessions for one tunnel id, one reader, `Timeout` 0, `MaxTime`
  1. Two sessions are needed for a takeover while a third is refused; all
  conflicts are about one tunnel id; one tick suffices to make a session stale.
- `server`: two connections for one tunnel id, one of them visited by the ingress
  (`Visited`), `MaxSessions` 2, `Timeout` 1, `ChunkTicks` 1, `MaxChunks` 2. A tick
  is a sweep interval. The code has a timeout of 90 s and chunks of at most 30 s;
  here a chunk takes as long as the timeout, the tightest case the assumption allows, and two chunks outlast it.
- `mux`: one stream, two data frames from the server and one from the client,
  frame channel and batch of two, all other queues of one, so every queue fills.
  `MaxU32` 5 makes the stream id space run out after the stream.
- `mux_priority`: two streams of different priority, two data frames each, only
  the server writes and closes (`Closers`).
- `bytes`: over TCP one stream with a frame above the burst and an empty last
  frame, and one control frame of each kind at or just above its limit
  (`MCControls`), with frame limits of the two ends that agree or differ; channel
  and batch are smaller than what is sent. Over QUIC two streams of three bytes,
  one more than the burst, so streams race for the quota and a read is split. Stream id 258 has two non-zero bytes on the wire.
- `request`: two requests, enough for a race over a connection, a permit, the
  breaker or the history; one workload per part of the path, each with the
  faults it is about, and two with a slow visitor. Body limit, response limit,
  queue and pool of one, so each is full and overflows with two chunks or calls.
  The history holds two (`MaxRequests`), and one workload starts with an earlier
  call in it, so that it is kept, is in order and overflows.
- `lifecycle`: two client tasks (a start after a timeout or a cancelled
  shutdown), two runs of the server (a restart), three connections (a lost one
  in the store, one refused for it, one on its way), at most two faults. Every
  combination of the three switches and the three paths goes through the client's
  builder, every one without `skip_verify` through the server's; bad server names
  go with two of them, over TLS and QUIC.
- `mux_shutdown`: five data frames fill every queue up to a reader that does not
  read. `mux_slow`: two streams, nobody has to read.

`mux` and its variants, `bytes`, `request` and `lifecycle` allow deadlock: when
everything is closed, answered or stopped, nothing is left to do.

### Fairness

Tokio polls every task that is ready, which gives weak fairness to the steps of
tasks that do not wait for a peer. Beyond that:

- `store`: a task that began an operation finishes it. `RemoveIndex` and
  `SweepUnindex` are strongly fair: lookups hold the entry's guard again and
  again, each time for a moment, and the lock under the map is taken not to
  starve a writer for ever.
- `server`: `HandshakeFails` and `ControlFails` are fair because of the
  handshake timeout; reading a frame because a live client sends a heartbeat
  every 30 s (its loop sends none while `process_frame` waits on a full
  stream, so this rests on the local service reading or dropping its streams,
  see `mux_slow`); `Act` because the ingress task at the other end of a stream reads
  it or drops it; noticing a lost peer because TCP keepalive or the QUIC idle
  timeout reports it, strongly because what the peer had sent is finite. A relay
  ends by its timeout; a WebSocket bridge owes nothing. Nothing makes a client
  leave or a connection come in.
- `mux`: the loops run, a started open or shutdown is polled to its end, and
  streams are read (`FairSpec`). `SlowSpec` leaves the last out. No fairness on
  writing, closing, dropping, losing the connection or letting go of it.
- `bytes`: sender, frame loop and stream readers run, and time passes. Nothing
  makes anybody send. `until_n_ready` reserves nothing, so a throttled stream
  can find the quota emptied by another again; that ends because the others have
  finitely much to read, and the code gives no better bound.
- `request`: one condition per request, on its handler, its hooks and, over
  HTTP/3, its body reader. The ingress's timeouts are part of the handler. The
  local service, the tunnel and a slow visitor owe nothing; a visitor that is not
  slow sends its request and reads the response.
- `lifecycle`: tasks run, both ends find out about a lost connection (keepalive,
  idle timeout), the cleanup task ticks, services bind and aborts land. Obeying a
  signal is strongly fair: `select!` polls its branches in random order, so the
  signal cannot lose for ever to attempts that fail at once; the sleep between
  attempts does not watch it (`ferrotunnel/src/client.rs:155`), which delays a
  stop and no more. Nothing is asked of the users, and nothing of a connection
  that a bridge holds in the workloads that have one (`Bridged`): the bridges of
  either end run `copy_bidirectional` without a timeout.

### What the runs do not promise

Some properties hold under a condition that is a limit of the code:

- `StopIsObeyed` and `Reconnects` leave out a connection that a bridge holds. The
  bridges of the client (`proxy.rs:188`, `ferrotunnel-cli/src/commands/client.rs:265`,
  `:301`, `ferrotunnel/src/client.rs:242`) outlive its task until the local
  service closes; their frames also keep the old session, and its tunnel id,
  alive. A WebSocket bridge of the ingress (`ingress.rs:518`) holds the socket of
  an evicted client, which then does not notice: so says `EvictedClientNotified`
  of `server`, too.
- `ReaderSeesEnd` says nothing of a reader at the server once the connection is
  lost: it waits until the last clone of the multiplexer is gone.
- `EveryRequestEnds` leaves out a request that waits for its own visitor
  (`AwaitsVisitor`): for the head, which no timer bounds, for a reader that takes
  the response, or over HTTP/3 for the rest of a body, because a reply waits for
  the reader to hand the stream back (`http3_ingress.rs:639`); the idle timeout of
  QUIC does not end it while the visitor's host answers keep-alives.
- `Reconnects` assumes that no handler of an earlier run of the server still has
  the client. `Server::shutdown` aborts its services and leaves connection tasks
  running (`ferrotunnel/src/server.rs:241`, while line 272 says it will "close
  all connections"), so after a restart such a client stays in a store that no
  ingress reads; over QUIC the old endpoint also holds the port, and the restart
  fails. It also assumes a configuration that can work: a token of the wrong
  format, a server name that is none, or a QUIC configuration without an
  authority, which `quic()` accepts, is tried again for ever.
- `ConfigUsable` is about TLS through the builders, and about what is missing:
  they look at whether a path is named, not at the file, and not at the server
  name (`ferrotunnel/src/client.rs:429`, `server.rs:460`). A configuration whose
  file is missing or cannot be parsed, or whose server name is invalid, is
  accepted and fails at each attempt (`tls.rs:227`, `:234`) or at each accept. The
  QUIC builders and the HTTP/3 certificate path are not validated at all; the
  command line uses half a key pair as none
  (`ferrotunnel-cli/src/commands/client.rs:494`).
- `NothingInvented` is about the HTTP ingress. Over HTTP/3 a failed response
  hook sends an empty 200, and an upstream that stalls makes a truncated body
  look complete (`http3_ingress.rs:867`, `:920`).
- `PermitsConserved` counts permits: a WebSocket gives its permit back at the
  upgrade, so bridges are not limited by it.
- `FailStop` for the command needs a service that fails. `Http3Ingress::start`
  returns at once with Ok, because the sender of its shutdown channel is dropped
  (`http3_ingress.rs:242`), so under `ferrotunnel server` HTTP/3 is not served
  and nothing says so.
- `OnlyBadFramesFail` counts as bad a frame whose claim of memory passes
  `MAX_FRAME_SIZE`: the clamp of the decode limit refuses it, although the comment
  speaks of "accepting every valid frame" (`codec.rs:257`).
- `OneWireFormat` compares the codec with the zero-copy and the batch decoder,
  which have no caller outside tests.
- `FramesInOrder` allows for the frames the sender skips because they exceed
  `max_frame_bytes` (`batched_sender.rs:134`); their writers were told Ok.
- An accept loop that fails about a thousand times in a row panics in the jitter
  (`reconnect.rs:81`); `Backoff` and `Edge` have the step.

## Proofs

`SessionStoreProofs`, for any sets of sessions, tunnel ids and readers and any
timeout:

- `StoreSafety`: `LiveSessionReachable` and `HeldTunnelHasOwner` hold. They are
  not inductive: that dropping an index entry cannot hit a new owner depends on
  who is working on a session. `StoreInv` adds that a stored session's handler
  is past `add`, and that a handler or a sweep between its two steps owns the
  index entry of a session that is no longer in the store.
- `HeldTunnelOwned` and `StoreTypeCorrect` state two of its parts on their own.
- `StoreImplementsRegistry`: `Spec` implements `Registry!Spec`, by a step
  simulation under `StoreInv`: each action is one abstract step or a stutter.

`TunnelServerProofs`, for any connections, permits, timeouts and chunk bounds
with `ChunkTicks <= Timeout`:

- `ServerTypeCorrect`: the types, which include the bounds on ages and chunks.
- `EvictedHandlerStops`: `LateFrames`. The strengthening says that a handler
  past registration without a session and with a late frame is back in its loop
  or has ended, and can only end.
- `LongThrottleSurvives`: `ThrottleNotCollected`, since during a throttle the
  age of a stored session is at most the time the current chunk has waited
  (`ThrottleAge`).

The assumptions are the `ASSUME`s of the modules, which TLC evaluates in every
run. The runs `mux`, `bytes`, `request` and `lifecycle`, all liveness properties
and the findings are model-checked only: the prover handles neither fairness nor
`ENABLED`, nor induction over the sequences that `NothingLost`, `FramesInOrder`
and `StreamIntact` are about, and `Framing` uses recursive operators.

## Not modelled

- Sockets, certificate verification and the bytes of bincode, HTTP, HTTP/2 and
  QUIC: libraries, used through what the code relies on.
- Metrics, tracing, logging, argument parsing, header rewriting, the dashboard's
  own token check and static files: they change no state a property is about.
- `add_or_replace`, `find_multiplexer`, `StreamLimits`, `ReconnectManager` and
  `wait_for_data` have no caller outside tests. (The TCP ingress calls
  `find_multiplexer_with_capability`, which is in `TcpIngress`.)
- The sharded session store: each shard is a pair of maps as in `SessionStore`
  and a tunnel id lives in one shard; its searches by session id over all shards
  are left out.
- Buffer pools: bounded queues of cleared buffers.
- The back-off of the tunnel server's own accept loop (the ingresses' is in
  `Edge`).

## Next

1. Proofs for `Limiter` and `RateLimitedStream` (quota, withheld bytes), for the
   pool's exclusiveness, for `NoStrayTask`, and for types and id allocation of
   `Multiplexer`.
2. The sharded store as a second implementation of `SessionRegistry`.
