------------------------------- MODULE Store -------------------------------
(***************************************************************************)
(* The PostgreSQL tables every part of the platform shares                 *)
(* (backend/src/migrations/001_init.sql), reduced to the columns that some *)
(* statement of the code tests or some property talks about, and the two   *)
(* unique indexes that arbitrate between concurrent writers.               *)
(*                                                                         *)
(* The executions table is a function from a bounded set of row ids to     *)
(* rows; a row that was never inserted has status ABSENT.  Ids are given   *)
(* out in order, so the order of ids is the order of created_at.           *)
(***************************************************************************)
EXTENDS Integers, FiniteSets

CONSTANTS
    Job,          \* job ids
    MaxExec,      \* bound on the executions ever inserted
    Worker,       \* worker processes (one WORKER_ID each)
    ClientKey,    \* values of the Idempotency-Key header
    Millis,       \* readings of Date.now() that manual retries may share
    Cron,         \* cron expressions, each the distance between its slots
    BrokenCron,   \* those that cron-parser took once and rejects now
    MaxSlot,      \* bound on the schedule's clock
    MaxVersion,   \* bound on jobs.version
    RetryLimits,  \* values of max_retries
    Delay,        \* backoff delays, in ticks
    AgeCap,       \* an age saturates here, beyond every threshold
    None          \* SQL NULL

ASSUME StoreAssumption ==
    /\ MaxExec \in Nat \ {0} /\ MaxSlot \in Nat
    /\ MaxVersion \in Nat \ {0}
    /\ Cron \subseteq Nat \ {0} /\ BrokenCron \subseteq Cron
    /\ RetryLimits \subseteq Nat
    /\ Delay \subseteq Nat /\ AgeCap \in Nat /\ Millis \subseteq Nat
    /\ None \notin Job \cup Worker \cup ClientKey \cup Int

ExecId == 1..MaxExec

VARIABLES
    jobs,    \* the jobs table
    execs,   \* the executions table
    now      \* the schedule's clock: the current slot

store == <<jobs, execs, now>>

JobStatus == {"ABSENT", "ACTIVE", "PAUSED", "ARCHIVED"}
(* The type execution_status also has CANCELLED, which nothing writes.     *)
ExecStatus == {"ABSENT", "PENDING", "RUNNING", "SUCCEEDED", "FAILED"}

JobRow ==
    [status: JobStatus, maxRetries: RetryLimits, allowConcurrent: BOOLEAN,
     cron: Cron \cup {None}, nextRun: Nat \cup {None},
     version: 1..MaxVersion]

(* An idempotency key: who made it, from what, and a number that tells     *)
(* apart the keys made from the same thing.                                *)
Key ==
    [kind: {"none", "client", "manual", "retry", "manual-retry", "schedule"},
     of: ClientKey \cup Nat \cup {None}, n: Nat]
NoKey == [kind |-> "none", of |-> None, n |-> 0]

ExecRow ==
    [status: ExecStatus, job: Job \cup {None}, attempt: Nat,
     parent: ExecId \cup {None}, key: Key, single: BOOLEAN,
     lockedBy: Worker \cup {None}, wait: Nat, age: 0..AgeCap]

NoRow ==
    [status |-> "ABSENT", job |-> None, attempt |-> 0, parent |-> None,
     key |-> NoKey, single |-> FALSE, lockedBy |-> None, wait |-> 0,
     age |-> 0]

-----------------------------------------------------------------------------
(* Mutant: the key depends on how many rows there are, so a second try     *)
(* makes another key.                                                      *)
RetryKey_PerTry(e, attempt) ==
    [kind |-> "retry", of |-> e,
     n |-> Cardinality({f \in ExecId : execs[f].status # "ABSENT"})]

(* Mutant: a scheduled execution is named after the time it is queued, so  *)
(* that the same slot makes another key later.                             *)
ScheduleKey_Now(slot) == [kind |-> "schedule", of |-> slot, n |-> now]

(* The keys of the code: `schedule-<job>-<slot>`, the header or            *)
(* `manual-<uuid>`, `retry-<parent>-attempt-<n>`, and                      *)
(* `manual-retry-<parent>-<Date.now()>`.                                   *)
ScheduleKey(slot) == [kind |-> "schedule", of |-> slot, n |-> 0]
HeaderKey(k) == [kind |-> "client", of |-> k, n |-> 0]
FreshKey(e) == [kind |-> "manual", of |-> e, n |-> 0]
RetryKey(e, attempt) == [kind |-> "retry", of |-> e, n |-> attempt]
ManualRetryKey(e, ms) == [kind |-> "manual-retry", of |-> e, n |-> ms]

(* A PENDING row as every INSERT of the code makes it. *)
PendingRow(j, attempt, parent, key, single, wait) ==
    [status |-> "PENDING", job |-> j, attempt |-> attempt,
     parent |-> parent, key |-> key, single |-> single,
     lockedBy |-> None, wait |-> wait, age |-> 0]

-----------------------------------------------------------------------------
(* The two unique indexes, as predicates of a table t. *)
Present(t, e) == t[e].status # "ABSENT"
InFlight(t, e) == t[e].status \in {"PENDING", "RUNNING"}

(* uq_job_single_inflight: partial, on the rows that enforce it. *)
SingleIndex(t) ==
    \A e, f \in ExecId :
        /\ InFlight(t, e) /\ t[e].single
        /\ InFlight(t, f) /\ t[f].single
        /\ t[e].job = t[f].job
        => e = f

(* uq_job_idempotency: on (job_id, idempotency_key). *)
KeyIndex(t) ==
    \A e, f \in ExecId :
        /\ Present(t, e) /\ Present(t, f)
        /\ t[e].job = t[f].job /\ t[e].key = t[f].key
        => e = f

KeyTaken(t, row) ==
    \E e \in ExecId : /\ Present(t, e)
                      /\ t[e].job = row.job /\ t[e].key = row.key

(* Mutant: the index covers running rows only. *)
SingleTaken_Running(t, row) ==
    /\ row.single
    /\ \E e \in ExecId : /\ t[e].status = "RUNNING"
                         /\ t[e].single /\ t[e].job = row.job

SingleTaken(t, row) ==
    /\ row.single
    /\ \E e \in ExecId : InFlight(t, e) /\ t[e].single /\ t[e].job = row.job

(* INSERT ... ON CONFLICT (job_id, idempotency_key) DO NOTHING has three   *)
(* outcomes: the key exists already and nothing happens, the other unique  *)
(* index rejects the row (error 23505), or the row is inserted.            *)
Dedupes(row) == KeyTaken(execs, row)
Violates(row) == ~KeyTaken(execs, row) /\ SingleTaken(execs, row)
Accepts(row) == ~KeyTaken(execs, row) /\ ~SingleTaken(execs, row)

(* The id the next inserted row gets. *)
IsNext(e) ==
    /\ e \in ExecId
    /\ ~Present(execs, e)
    /\ \A f \in ExecId : f < e => Present(execs, f)

Insert(e, row) == execs' = [execs EXCEPT ![e] = row]

Exists(j) == jobs[j].status # "ABSENT"

(* Mutant: the slot itself counts as its own successor. *)
NextSlot_NotAfter(cron, slot) == (slot \div cron) * cron

(* cron-parser throws on an expression it does not understand. *)
Parses(cron) == cron \notin BrokenCron

(* The next slot of a cron expression strictly after a given one. *)
NextSlot(cron, slot) == (slot \div cron + 1) * cron

(* computeNextRun: NULL for a job without a schedule. *)
NextRun(cron) == IF cron = None THEN None ELSE NextSlot(cron, now)
=============================================================================
