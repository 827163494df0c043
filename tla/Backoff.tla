------------------------------- MODULE Backoff -------------------------------
(***************************************************************************)
(* The exponential backoff shared by the accept loops and the reconnection *)
(* manager.  A delay is a double: the base times factor^attempt, spread by *)
(* the jitter and clamped to the maximum.  The spread is drawn from a      *)
(* range around the unclamped delay, which the random source refuses once  *)
(* it is not finite.                                                       *)
(***************************************************************************)
EXTENDS Naturals

CONSTANTS
    MaxExponent     \* the last attempt whose delay is a finite double

\* attempt.saturating_add(1); the width of u32 lies far beyond MaxExponent.
NextAttempt(attempt) == IF attempt > MaxExponent THEN attempt ELSE attempt + 1

\* Whether the jitter of the attempt can be drawn.
Samples(attempt) == attempt < MaxExponent
=============================================================================
