-------------------------------- MODULE Api --------------------------------
(***************************************************************************)
(* backend/src/routes/jobRoutes.ts and executionRoutes.ts: the handlers    *)
(* that write the jobs and executions tables.  A handler that sends one    *)
(* statement is one action.  A handler that reads first and writes after   *)
(* an await is a request in progress between two actions, holding what it  *)
(* read.  Answers that carry no state worth a property are left out: a     *)
(* request that ends in 404, 400 or 500 changes nothing and has no action. *)
(* POST /:id/cancel is one of these whatever it is sent: its UPDATE joins  *)
(* jobs to executions, both have a column "version", and "version + 1"     *)
(* does not say which is meant, so PostgreSQL rejects the statement        *)
(* (42702) and the answer is 500.                                          *)
(***************************************************************************)
EXTENDS Store

CONSTANTS
    Client,      \* requests that may be in progress at once
    ClientOps,   \* the handlers clients use: names of the routes below
    Patches      \* bodies of PUT: partial records of settings

ASSUME ApiAssumption ==
    /\ ClientOps \subseteq {"create", "put", "pause", "resume", "archive",
                            "run", "retry"}
    /\ \A p \in Patches :
          /\ DOMAIN p \subseteq {"maxRetries", "allowConcurrent", "cron"}
          /\ "maxRetries" \in DOMAIN p => p.maxRetries \in RetryLimits
          /\ "allowConcurrent" \in DOMAIN p => p.allowConcurrent \in BOOLEAN
          /\ "cron" \in DOMAIN p => p.cron \in Cron \cup {None}

VARIABLES
    req,      \* the request each client has in progress
    reply     \* the last Run Now of each client answered by 201 or 200

clients == <<req, reply>>

(* The key a Run Now brings: the header, or none. *)
RequestKey == {NoKey} \cup {HeaderKey(k) : k \in ClientKey}

(* What a handler holds between its statements. *)
Request ==
    [at: {"idle"}]
    \cup [at: {"put"}, job: Job, version: Nat, patch: Patches, merged: JobRow]
    \cup [at: {"resume"}, job: Job, nextRun: Nat \cup {None}]
    \cup [at: {"run", "lookup"}, job: Job, key: RequestKey,
          single: BOOLEAN]
    \cup [at: {"retry"}, exec: ExecId, single: BOOLEAN]

NoReq == [at |-> "idle"]
NoReply == [kind |-> "none", job |-> None, key |-> NoKey, exec |-> None]

Idle(c) == req[c] = NoReq
Begin(c, r) == Idle(c) /\ req' = [req EXCEPT ![c] = r]
End(c) == req' = [req EXCEPT ![c] = NoReq]
Answer(c, kind, r, e) ==
    reply' = [reply EXCEPT ![c] =
        [kind |-> kind, job |-> r.job, key |-> r.key, exec |-> e]]

SetJob(j, row) == jobs' = [jobs EXCEPT ![j] = row]
Bump(row) == [row EXCEPT !.version = @ + 1]
(* Bound: a job is written while its version is below MaxVersion. *)
Writable(j) == Exists(j) /\ jobs[j].version < MaxVersion

-----------------------------------------------------------------------------
(* POST / : a new job, ACTIVE, with its first slot computed. *)
CreateJob(j) ==
    /\ ~Exists(j)
    /\ \E cron \in Cron \cup {None}, limit \in RetryLimits,
          concurrent \in BOOLEAN :
          /\ Parses(cron)
          /\ SetJob(j, [status |-> "ACTIVE", maxRetries |-> limit,
                        allowConcurrent |-> concurrent, cron |-> cron,
                        nextRun |-> NextRun(cron), version |-> 1])
    /\ UNCHANGED <<execs, now, clients>>

(* Mutant: a new cron expression keeps the old next run. *)
Merge_StaleSlot(row, patch) ==
    [f \in DOMAIN row |-> IF f \in DOMAIN patch THEN patch[f] ELSE row[f]]

(* PUT /:id, up to its SELECT.  The body is a patch and the version the    *)
(* client saw last.  What it does not set is taken from the row read here, *)
(* the next run too; the next run of a new cron expression is computed     *)
(* when the request arrives.                                               *)
Merge(row, patch) ==
    [row EXCEPT
        !.maxRetries = IF "maxRetries" \in DOMAIN patch
                       THEN patch.maxRetries ELSE @,
        !.allowConcurrent = IF "allowConcurrent" \in DOMAIN patch
                            THEN patch.allowConcurrent ELSE @,
        !.cron = IF "cron" \in DOMAIN patch THEN patch.cron ELSE @,
        !.nextRun = IF "cron" \in DOMAIN patch THEN NextRun(patch.cron)
                    ELSE @]

PutRead(c, j) ==
    /\ Exists(j)
    /\ \E patch \in Patches, version \in 1..jobs[j].version :
          /\ "cron" \in DOMAIN patch => Parses(patch.cron)
          /\ Begin(c, [at |-> "put", job |-> j, version |-> version,
                       patch |-> patch, merged |-> Merge(jobs[j], patch)])
    /\ UNCHANGED <<store, reply>>

(* Mutant: the version is not tested. *)
VersionMatches_Any(j, version) == TRUE

(* Its UPDATE ... WHERE version = the client's: all the settings at once,  *)
(* but not the status; no row matches when the version has moved on (409). *)
VersionMatches(j, version) == jobs[j].version = version
Overwrite(row, merged) ==
    [merged EXCEPT !.status = row.status, !.version = row.version]

PutWrite(c) ==
    LET r == req[c]
    IN  /\ r.at = "put"
        /\ Writable(r.job)
        /\ IF VersionMatches(r.job, r.version)
           THEN SetJob(r.job, Bump(Overwrite(jobs[r.job], r.merged)))
           ELSE UNCHANGED jobs
        /\ End(c)
        /\ UNCHANGED <<execs, now, reply>>

(* POST /:id/pause and DELETE /:id: no version is asked for or tested. *)
SetStatus(j, status) ==
    /\ Writable(j)
    /\ SetJob(j, Bump([jobs[j] EXCEPT !.status = status]))
    /\ UNCHANGED <<execs, now, clients>>

Pause(j) == SetStatus(j, "PAUSED")
Archive(j) == SetStatus(j, "ARCHIVED")

(* POST /:id/resume: reads the cron expression, then writes the slot it    *)
(* computed from it, whatever the status and the expression are by then.   *)
ResumeRead(c, j) ==
    /\ Exists(j)
    /\ Parses(jobs[j].cron)
    /\ Begin(c, [at |-> "resume", job |-> j,
                 nextRun |-> NextRun(jobs[j].cron)])
    /\ UNCHANGED <<store, reply>>

ResumeWrite(c) ==
    LET r == req[c]
    IN  /\ r.at = "resume"
        /\ Writable(r.job)
        /\ SetJob(r.job, Bump([jobs[r.job] EXCEPT !.status = "ACTIVE",
                                                  !.nextRun = r.nextRun]))
        /\ End(c)
        /\ UNCHANGED <<execs, now, reply>>

-----------------------------------------------------------------------------
(* POST /:id/run: reads the job's concurrency setting, ...  A client       *)
(* without an Idempotency-Key gets a fresh one (None here).                *)
RunRead(c, j) ==
    /\ Exists(j)
    /\ \E k \in ClientKey \cup {None} :
          Begin(c, [at |-> "run", job |-> j,
                    key |-> IF k = None THEN NoKey ELSE HeaderKey(k),
                    single |-> ~jobs[j].allowConcurrent])
    /\ UNCHANGED <<store, reply>>

(* Mutant: the header is ignored. *)
RunRow_FreshKey(r, e) ==
    PendingRow(r.job, 1, None, FreshKey(e), r.single, 0)

RunRow(r, e) ==
    PendingRow(r.job, 1, None, IF r.key = NoKey THEN FreshKey(e) ELSE r.key,
               r.single, 0)

(* ... inserts, without looking at the job's status: the row goes in, the  *)
(* single-inflight index rejects it (409), or the key exists already.      *)
RunAccepted(c, r) ==
    /\ \E e \in ExecId :
          /\ IsNext(e)
          /\ Accepts(RunRow(r, e))
          /\ Insert(e, RunRow(r, e))
          /\ Answer(c, "created", r, e)
    /\ End(c)

RunRejected(c, r) ==
    /\ Violates(RunRow(r, MaxExec + 1))
    /\ End(c)
    /\ UNCHANGED <<execs, reply>>

RunDeduped(c, r) ==
    /\ Dedupes(RunRow(r, MaxExec + 1))
    /\ req' = [req EXCEPT ![c].at = "lookup"]
    /\ UNCHANGED <<execs, reply>>

RunInsert(c) ==
    /\ req[c].at = "run"
    /\ \/ RunAccepted(c, req[c])
       \/ RunRejected(c, req[c])
       \/ RunDeduped(c, req[c])
    /\ UNCHANGED <<jobs, now>>

(* ... and when the key was used before, answers with the newest execution *)
(* of the job still in flight, if there is one.                            *)
Newest(j, e) ==
    LET flying == {f \in ExecId : InFlight(execs, f) /\ execs[f].job = j}
    IN  IF flying = {} THEN e = None
        ELSE e \in flying /\ \A f \in flying : f <= e

RunLookup(c) ==
    /\ req[c].at = "lookup"
    /\ \E e \in ExecId \cup {None} :
          /\ Newest(req[c].job, e)
          /\ Answer(c, "deduped", req[c], e)
    /\ End(c)
    /\ UNCHANGED store

-----------------------------------------------------------------------------
(* POST /:id/retry of an execution: reads the row and its job's setting... *)
RetryRead(c, e) ==
    /\ execs[e].status = "FAILED"
    /\ Begin(c, [at |-> "retry", exec |-> e,
                 single |-> ~jobs[execs[e].job].allowConcurrent])
    /\ UNCHANGED <<store, reply>>

ManualRetryRow(e, single, ms) ==
    PendingRow(execs[e].job, execs[e].attempt + 1, e,
               ManualRetryKey(e, ms), single, 0)

(* ... and inserts a new attempt; a second click within the same           *)
(* millisecond has the same key, a running job rejects the row: both 409.  *)
RetryInsert(c) ==
    LET r == req[c]
    IN  /\ r.at = "retry"
        /\ \E ms \in Millis :
              LET row == ManualRetryRow(r.exec, r.single, ms)
              IN  IF Accepts(row)
                  THEN \E f \in ExecId : IsNext(f) /\ Insert(f, row)
                  ELSE UNCHANGED execs
        /\ End(c)
        /\ UNCHANGED <<jobs, now, reply>>
=============================================================================
