----------------------------- MODULE RetryChain -----------------------------
(***************************************************************************)
(* The attempts of one run, as processExecution makes them (worker.ts:85-  *)
(* 171): an HTTP call, and when it failed a decision of retryPolicy.ts and *)
(* the delay it gives before the next call.  A delay is a multiple of some *)
(* unit of time; the floor of the jitter is then taken in that unit.       *)
(***************************************************************************)
EXTENDS RetryPolicy, HttpExecutor

CONSTANTS
    Limits,     \* values of max_retries
    Bases       \* values of retry_backoff_base_ms

ASSUME ChainAssumption == Limits \subseteq Nat /\ Bases \subseteq Nat \ {0}

VARIABLES
    maxRetries, base,   \* the job's settings
    attempt,            \* the attempt that runs, or ran last
    delay,              \* how long it was waited for (0 for the first)
    over                \* the run succeeded or its retries are exhausted

chain == <<maxRetries, base, attempt, delay, over>>
vars == <<call, chain>>

Init ==
    /\ CallInit
    /\ maxRetries \in Limits /\ base \in Bases
    /\ attempt = 1 /\ delay = 0
    /\ over = FALSE

Calling == CallStep /\ UNCHANGED chain

Succeed ==
    /\ stage = "done" /\ ~over /\ result.ok
    /\ over' = TRUE
    /\ UNCHANGED <<call, maxRetries, base, attempt, delay>>

(* The decision after a failure; the next attempt is a new call. *)
Fail ==
    /\ stage = "done" /\ ~over /\ ~result.ok
    /\ delay' \in Delays(attempt, maxRetries, base)
    /\ attempt' = NextAttempt(attempt, maxRetries)
    /\ over' = ~ShouldRetry(attempt, maxRetries)
    /\ IF over' THEN UNCHANGED call ELSE CallAgain
    /\ UNCHANGED <<maxRetries, base>>

Next == Calling \/ Succeed \/ Fail

(* Nothing is asked of the target: only time, the timer and the worker's   *)
(* own steps are fair.                                                     *)
Fairness ==
    /\ WF_vars(Tick /\ UNCHANGED chain)
    /\ WF_vars(TimerFires /\ UNCHANGED chain)
    /\ WF_vars(Abort /\ UNCHANGED chain)
    /\ WF_vars(Succeed) /\ WF_vars(Fail)

Spec == Init /\ [][Next]_vars /\ Fairness

-----------------------------------------------------------------------------
(* "maxRetries" retries follow the first attempt unless one succeeds:      *)
(* never more, and fewer only after a success (retryPolicy.ts:29, 41;      *)
(* worker.ts:90-112, 138).                                                 *)
ExactlyMaxRetries ==
    /\ attempt \in 1..(maxRetries + 1)
    /\ over /\ ~result.ok => attempt = maxRetries + 1

(* Every retry waits longer than the one before until the cap is reached:  *)
(* the jitter of one delay never swallows the doubling of the next         *)
(* (retryPolicy.ts:19-23, 35-42).                                          *)
BackoffGrows ==
    [][attempt' # attempt => delay' > delay \/ delay' >= CapMs]_vars

(* A target that never answers, or never ends its body, cannot keep a      *)
(* worker waiting: every call ends (httpExecutor.ts:27, 35, 57-59), and so *)
(* does the run (retryPolicy.ts:29-32).                                    *)
CallsEnd == stage # "done" ~> stage = "done"
ChainEnds == <>over
=============================================================================
