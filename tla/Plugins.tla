------------------------------- MODULE Plugins -------------------------------
(***************************************************************************)
(* The plugin registry and the built-in plugins.  Each hook of a request   *)
(* runs in a task of its own, in the order of registration, and the first  *)
(* action other than Continue ends the round.  The requests of different   *)
(* connections run their rounds concurrently, so the steps of the circuit  *)
(* breaker, which keeps its counters in atomics and its state under a      *)
(* lock, interleave.                                                       *)
(***************************************************************************)
EXTENDS Naturals, Sequences

CONSTANTS
    Req,                 \* the requests
    Workloads,           \* what can be asked of the system, and its plugins
    FailureThreshold,    \* CircuitBreakerConfig::failure_threshold
    HalfOpenSuccesses,   \* CircuitBreakerConfig::half_open_success_threshold
    OpenDuration,        \* CircuitBreakerConfig::open_duration, in seconds
    RequestsPerSecond,   \* the quota of the rate-limit plugin, per address
    MaxClock             \* bound on the seconds that pass

VARIABLES
    load,      \* the requests, the registered plugins and the client's setup
    hook,      \* the round of hooks each request is in
    breaker,   \* the circuit breaker
    quota,     \* the requests an address has left this second
    now        \* the clock, in seconds

pluginVars == <<hook, breaker, quota, now>>

\* failure_status_codes of the default configuration.
FailureStatuses == {500, 502, 503, 504}

NoHooks == [round |-> "none", at |-> 1, seen |-> "", action |-> "pending",
            status |-> 0, restored |-> FALSE, detached |-> FALSE]

\* execute_request_hooks and execute_response_hooks: the caller's message is
\* swapped for an empty placeholder, and the first plugin is asked.
StartHooks(round, status) ==
    [NoHooks EXCEPT !.round = round, !.status = status,
        !.action = IF load.plugins = <<>> THEN "Continue" ELSE "pending",
        !.restored = (load.plugins = <<>>)]

Addresses == {load.req[r].ip : r \in Req}

\* What is left of a round whose caller is dropped.
Detached(h) ==
    IF h.round # "none" /\ h.action = "pending" THEN [h EXCEPT !.detached = TRUE] ELSE NoHooks

needs_response_buffering == \E i \in DOMAIN load.plugins : load.plugins[i] = "custom"

InitPlugins ==
    /\ load \in Workloads
    /\ hook = [r \in Req |-> NoHooks]
    /\ breaker = [state |-> "Closed", failures |-> 0, successes |-> 0, last_failure |-> 0]
    /\ quota = [ip \in Addresses |-> RequestsPerSecond]
    /\ now = 0

-----------------------------------------------------------------------------
(* The rounds.                                                             *)

\* A plugin has returned.  An error, or a panic, leaves the placeholder
\* behind; every other end of the round restores the message.  The task of a
\* hook outlives a caller that is dropped, and nothing follows it.
HookReturns(r, action, status) ==
    IF hook[r].detached THEN hook' = [hook EXCEPT ![r] = NoHooks]
    ELSE IF action = "Continue" /\ hook[r].at < Len(load.plugins)
    THEN hook' = [hook EXCEPT ![r].at = @ + 1, ![r].seen = ""]
    ELSE hook' = [hook EXCEPT ![r].seen = "", ![r].action = action, ![r].status = status,
                              ![r].restored = action # "Err"]

Sees(r, what) == hook' = [hook EXCEPT ![r].seen = what]

Running(r, plugin, round) ==
    /\ hook[r].action = "pending"
    /\ hook[r].round # "none" /\ hook[r].round = round
    /\ load.plugins[hook[r].at] = plugin

Logger(r) ==
    /\ Running(r, "logger", hook[r].round)
    /\ HookReturns(r, "Continue", hook[r].status)
    /\ UNCHANGED <<breaker, quota, now>>

\* The plugins that only look at requests continue on responses.
TokenAuth(r) ==
    /\ Running(r, "auth", hook[r].round)
    /\ IF hook[r].round = "on_response" \/ load.req[r].token
       THEN HookReturns(r, "Continue", hook[r].status)
       ELSE HookReturns(r, "Reject", 401)
    /\ UNCHANGED <<breaker, quota, now>>

RateLimit(r) ==
    /\ Running(r, "rate_limit", hook[r].round)
    /\ LET ip == load.req[r].ip
       IN IF hook[r].round = "on_response"
          THEN HookReturns(r, "Continue", hook[r].status) /\ UNCHANGED quota
          ELSE IF quota[ip] > 0
          THEN HookReturns(r, "Continue", 0) /\ quota' = [quota EXCEPT ![ip] = @ - 1]
          ELSE HookReturns(r, "Reject", 429) /\ UNCHANGED quota
    /\ UNCHANGED <<breaker, now>>

\* A plugin of the embedding program that asks for response bodies, with the
\* actions the trait allows it; a panic is an error.
Custom(r) ==
    /\ Running(r, "custom", hook[r].round)
    /\ \E a \in load.custom :
          HookReturns(r, a, CASE a = "Reject" -> 403 [] a = "Respond" -> 200 [] OTHER -> hook[r].status)
    /\ UNCHANGED <<breaker, quota, now>>

-----------------------------------------------------------------------------
(* The circuit breaker: one step per access to shared state.               *)

ShouldAllow(r) ==
    /\ Running(r, "breaker", "on_request")
    /\ LET elapsed == now - breaker.last_failure
           seen == hook[r].seen
       IN \/ /\ seen = "" /\ breaker.state # "Open"
             /\ HookReturns(r, "Continue", 0)
             /\ UNCHANGED breaker
          \/ /\ seen = "" /\ breaker.state = "Open"
             /\ Sees(r, "Open")
             /\ UNCHANGED breaker
          \/ /\ seen = "Open" /\ elapsed < OpenDuration
             /\ HookReturns(r, "Reject", 503)
             /\ UNCHANGED breaker
          \/ /\ seen = "Open" /\ elapsed >= OpenDuration
             /\ Sees(r, "Elapsed")
             /\ UNCHANGED breaker
          \/ /\ seen = "Elapsed"
             /\ HookReturns(r, "Continue", 0)
             /\ breaker' = IF breaker.state = "Open"
                           THEN [breaker EXCEPT !.state = "HalfOpen", !.successes = 0]
                           ELSE breaker
    /\ UNCHANGED <<quota, now>>

RecordSuccess(r) ==
    /\ Running(r, "breaker", "on_response")
    /\ hook[r].status \notin FailureStatuses
    /\ LET seen == hook[r].seen
           Done == HookReturns(r, "Continue", hook[r].status)
       IN \/ /\ seen = ""
             /\ IF breaker.state = "Open" THEN Done ELSE Sees(r, breaker.state)
             /\ UNCHANGED breaker
          \/ seen = "Closed" /\ Done /\ breaker' = [breaker EXCEPT !.failures = 0]
          \/ /\ seen = "HalfOpen"
             /\ breaker' = [breaker EXCEPT !.successes = @ + 1]
             /\ IF breaker.successes + 1 >= HalfOpenSuccesses THEN Sees(r, "Close") ELSE Done
          \/ /\ seen = "Close"
             /\ breaker' = [breaker EXCEPT !.state = "Closed", !.failures = 0]
             /\ Done
    /\ UNCHANGED <<quota, now>>

RecordFailure(r) ==
    /\ Running(r, "breaker", "on_response")
    /\ hook[r].status \in FailureStatuses
    /\ LET seen == hook[r].seen
           Done == HookReturns(r, "Continue", hook[r].status)
       IN \/ seen = "" /\ Sees(r, breaker.state) /\ UNCHANGED breaker
          \/ /\ seen \in {"Closed", "HalfOpen", "Open"}
             /\ breaker' = [breaker EXCEPT !.last_failure = now]
             /\ IF seen = "Open" THEN Done
                ELSE Sees(r, IF seen = "Closed" THEN "Count" ELSE "Reopen")
          \/ /\ seen = "Count"
             /\ breaker' = [breaker EXCEPT !.failures = @ + 1]
             /\ IF breaker.failures + 1 >= FailureThreshold THEN Sees(r, "Trip") ELSE Done
          \/ seen = "Trip" /\ breaker' = [breaker EXCEPT !.state = "Open"] /\ Done
          \/ /\ seen = "Reopen"
             /\ breaker' = [breaker EXCEPT !.state = "Open", !.successes = 0]
             /\ Done
    /\ UNCHANGED <<quota, now>>

\* A second passes, and the quotas of the rate-limit plugin are replenished.
Second ==
    /\ now < MaxClock
    /\ \E i \in DOMAIN load.plugins : load.plugins[i] \in {"breaker", "rate_limit"}
    /\ now' = now + 1
    /\ quota' = [ip \in Addresses |-> RequestsPerSecond]
    /\ UNCHANGED <<hook, breaker>>

RunHook(r) ==
    \/ Logger(r) \/ TokenAuth(r) \/ RateLimit(r) \/ Custom(r)
    \/ ShouldAllow(r) \/ RecordSuccess(r) \/ RecordFailure(r)
=============================================================================
