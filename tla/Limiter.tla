------------------------------ MODULE Limiter -------------------------------
(***************************************************************************)
(* ferrotunnel-core/src/rate_limit.rs: SessionRateLimiter, the two quotas  *)
(* that all streams of a session share.  A governor quota is a bucket of   *)
(* cells: check_n takes n cells or none, and time fills the bucket again.  *)
(***************************************************************************)
EXTENDS Naturals

CONSTANTS
    StreamsPerSec, BytesPerSec, BurstFactor,   \* RateLimitConfig
    MaxThrottleChunkSecs,                      \* MAX_THROTTLE_CHUNK_SECS
    MaxU32                                     \* u32::MAX

ASSUME LimiterAssumption ==
    /\ StreamsPerSec \in Nat /\ BytesPerSec \in Nat /\ BurstFactor \in Nat
    /\ MaxThrottleChunkSecs \in Nat \ {0}
    /\ MaxU32 \in Nat \ {0}

VARIABLES
    cells,    \* what the byte quota holds
    opens,    \* what the stream quota holds
    elapsed,  \* seconds in which the byte quota was filled up
    spent     \* cells the byte quota gave out

limiterVars == <<cells, opens, elapsed, spent>>

Least(a, b) == IF a < b THEN a ELSE b

\* validate_rate_limits: what the configuration boundary lets through.
ValidateRateLimits ==
    /\ StreamsPerSec # 0
    /\ BytesPerSec # 0
    /\ BytesPerSec <= MaxU32
    /\ BurstFactor # 0

\* RateLimiterConfig::from: u32::try_from, and one for zero.
Clamp(n) == IF n = 0 THEN 1 ELSE Least(n, MaxU32)

bytes_per_sec == Clamp(BytesPerSec)
streams_per_sec == Clamp(StreamsPerSec)

\* scaled_burst: saturating_mul.
ScaledBurst(rate) == Least(rate * Clamp(BurstFactor), MaxU32)

bytes_burst == ScaledBurst(bytes_per_sec)
streams_burst == ScaledBurst(streams_per_sec)

\* SessionRateLimiter::new: both quotas start full.
InitLimiter ==
    /\ ValidateRateLimits
    /\ cells = bytes_burst
    /\ opens = streams_burst
    /\ elapsed = 0
    /\ spent = 0

\* check_data: an empty payload is free, a payload above the burst never fits,
\* and what does not fit now takes nothing.
CheckData(n) == n = 0 \/ (n <= bytes_burst /\ n <= cells)

\* What a successful check_n(n) does to the byte quota.
Spend(n) ==
    /\ cells' = cells - n
    /\ spent' = spent + n
    /\ UNCHANGED <<opens, elapsed>>

\* check_stream_open.
CheckStreamOpen == opens > 0

SpendOpen == opens' = opens - 1 /\ UNCHANGED <<cells, elapsed, spent>>

\* Fault: the cap of a chunk is not held to the burst.
ThrottleChunkUncapped(n) == n

\* throttle_chunk: what it asks the quota for when n bytes remain.
ThrottleChunk(n) ==
    Least(Least(n, MaxU32),
          Least(bytes_burst, Least(bytes_per_sec * MaxThrottleChunkSecs, MaxU32)))

\* until_n_ready: the chunk waits until the quota holds it.  One above the
\* burst is an error, on which throttle_chunk returns at once, nothing taken.
ChunkReady(n) ==
    /\ n > 0
    /\ ThrottleChunk(n) <= cells \/ ThrottleChunk(n) > bytes_burst

ChunkCost(n) == IF ThrottleChunk(n) > bytes_burst THEN 0 ELSE ThrottleChunk(n)

\* A second passes.  Time in which nothing is filled up is not counted.
Tick ==
    /\ cells < bytes_burst \/ opens < streams_burst
    /\ cells' = Least(cells + bytes_per_sec, bytes_burst)
    /\ opens' = Least(opens + streams_per_sec, streams_burst)
    /\ elapsed' = elapsed + IF cells < bytes_burst THEN 1 ELSE 0
    /\ UNCHANGED spent
=============================================================================
