---------------------------- MODULE RetryPolicy ----------------------------
(***************************************************************************)
(* backend/src/retryPolicy.ts: the pure decisions the worker takes about   *)
(* an execution that failed and about a lock that has grown old.           *)
(* Durations are natural numbers: milliseconds where a policy is checked   *)
(* on its own, ticks of the model's clock where the worker uses IsStale.   *)
(***************************************************************************)
EXTENDS Integers

CONSTANTS
    StaleAfter,   \* STALE_LOCK_THRESHOLD_MS, in the unit of the clock in use
    CapMs         \* CAP_MS

ASSUME StaleAssumption == StaleAfter \in Nat
ASSUME CapAssumption == CapMs \in Nat

-----------------------------------------------------------------------------
(* maxRetries counts the attempts after the first, which has number 1. *)
(* Mutant: maxRetries taken for the number of attempts. *)
ShouldRetry_Strict(attempt, maxRetries) == attempt < maxRetries

ShouldRetry(attempt, maxRetries) == attempt <= maxRetries

(* Mutant: the attempt number is not raised. *)
NextAttempt_Same(attempt, maxRetries) == attempt

NextAttempt(attempt, maxRetries) ==
    IF ShouldRetry(attempt, maxRetries) THEN attempt + 1 ELSE attempt

(* Math.pow(2, n), as a function: the recursion equation is provable. *)
PowerOfTwo[n \in Nat] == IF n = 0 THEN 1 ELSE 2 * PowerOfTwo[n - 1]

(* Mutant: the backoff grows by the base instead of doubling. *)
Capped_Linear(attempt, baseMs) ==
    IF baseMs * attempt < CapMs THEN baseMs * attempt ELSE CapMs

(* baseBackoffMs doubled for every attempt already made, cut at the cap. *)
Capped(attempt, baseMs) ==
    LET exponential == baseMs * PowerOfTwo[attempt - 1]
    IN  IF exponential < CapMs THEN exponential ELSE CapMs

(* Math.random() is below 1, so floor(random * capped * 0.2) takes every   *)
(* value whose fifth multiple stays below capped.                          *)
Jitter(capped) == {k \in 0..(capped \div 5) : 5 * k < capped} \cup {0}

(* The delays decideRetry may return: jitter is added after the cap. *)
Delays(attempt, maxRetries, baseMs) ==
    IF ShouldRetry(attempt, maxRetries)
    THEN LET capped == Capped(attempt, baseMs)
         IN  {capped + k : k \in Jitter(capped)}
    ELSE {0}

(* Mutant: off by one at the threshold. *)
IsStale_AtThreshold(age) == age >= StaleAfter

(* Strictly older: a lock exactly as old as the threshold is still good. *)
IsStale(age) == age > StaleAfter
=============================================================================
