---------------------------- MODULE HttpExecutor ----------------------------
(***************************************************************************)
(* backend/src/httpExecutor.ts: one HTTP call.  An abort timer runs from   *)
(* the request to the end of the body; the target server may answer with   *)
(* any status, fail, send its body slowly, break it off, or say nothing.   *)
(***************************************************************************)
EXTENDS Integers

CONSTANTS
    Timeout,     \* timeout_ms, in ticks
    Status,      \* the HTTP statuses the target may answer with
    None

ASSUME TimeoutAssumption == Timeout \in Nat \ {0}
Reason == {"Timed out", "Network error", "Non-2xx response"}

ASSUME StatusAssumption ==
    Status \subseteq 200..599 /\ None \notin 200..599 /\ None \notin Reason

VARIABLES
    stage,      \* "headers" or "body" awaited, or "done"
    elapsed,    \* ticks since the timer was set
    aborted,    \* the timer has fired while the call was open
    status,     \* of the response, once its headers are there
    body,       \* the snippet: None until read, "text", or "" when lost
    result      \* what the function returns

call == <<stage, elapsed, aborted, status, body, result>>

NoResult == [ok |-> FALSE, status |-> None, error |-> None]

CallInit ==
    /\ stage = "headers" /\ elapsed = 0 /\ aborted = FALSE
    /\ status = None /\ body = None /\ result = NoResult

(* fetch() resolves when the headers are there. *)
HeadersArrive ==
    /\ stage = "headers" /\ ~aborted
    /\ status' \in Status
    /\ stage' = "body"
    /\ UNCHANGED <<elapsed, aborted, body, result>>

(* fetch() rejects: the catch block tells the timer's abort from the rest. *)
FetchFails ==
    /\ stage = "headers"
    /\ result' = [ok |-> FALSE, status |-> None,
                  error |-> IF aborted THEN "Timed out" ELSE "Network error"]
    /\ stage' = "done"
    /\ UNCHANGED <<elapsed, aborted, status, body>>

(* Mutant: redirects count as success. *)
IsSuccess_Below400(s) == s >= 200 /\ s < 400

IsSuccess(s) == s >= 200 /\ s < 300

(* The function's answer once the body has been read or given up. *)
Judged(s) ==
    [ok |-> IsSuccess(s), status |-> s,
     error |-> IF IsSuccess(s) THEN None ELSE "Non-2xx response"]

(* res.text().catch(() => ''): a body that breaks off, or that the timer   *)
(* cuts, counts as an empty one.                                           *)
ReadBody(text) ==
    /\ stage = "body"
    /\ body' = text
    /\ result' = Judged(status)
    /\ stage' = "done"
    /\ UNCHANGED <<elapsed, aborted, status>>

BodyArrives == ~aborted /\ ReadBody("text")
BodyBreaks == ReadBody("")

(* Mutant: the timer is cleared when the headers arrive. *)
TimerSet_Headers == stage = "headers"

(* The timer is cleared only in the finally block. *)
TimerSet == stage # "done"
TimerFires ==
    /\ TimerSet /\ ~aborted
    /\ elapsed = Timeout
    /\ aborted' = TRUE
    /\ UNCHANGED <<stage, elapsed, status, body, result>>

Tick ==
    /\ stage # "done" /\ elapsed < Timeout
    /\ elapsed' = elapsed + 1
    /\ UNCHANGED <<stage, aborted, status, body, result>>

(* An abort rejects what is awaited. *)
Abort == aborted /\ (FetchFails \/ BodyBreaks)

CallStep ==
    \/ HeadersArrive \/ FetchFails
    \/ BodyArrives \/ BodyBreaks
    \/ TimerFires \/ Tick

(* The function is called again. *)
CallAgain ==
    /\ stage = "done"
    /\ stage' = "headers" /\ elapsed' = 0 /\ aborted' = FALSE
    /\ status' = None /\ body' = None /\ result' = NoResult

-----------------------------------------------------------------------------
(* The answer tells the outcomes apart: success exactly on a 2xx status,   *)
(* no reason with it and always one without, and "Timed out" exactly when  *)
(* the timer cut the call before any header (httpExecutor.ts:41-56).       *)
FailureHasReason ==
    stage = "done" =>
        /\ result.ok <=> (result.error = None)
        /\ result.ok <=> status \in 200..299
        /\ result.error = "Timed out" <=> aborted /\ status = None

(* A call the timer has cut is a failed execution (ENGINEERING.md:947).    *)
(* The code fails only a call cut before its headers: a body cut off is    *)
(* read as empty and the call judged by its status (httpExecutor.ts:38).   *)
TimeoutFails == stage = "done" /\ aborted => ~result.ok
=============================================================================
