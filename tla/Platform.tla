------------------------------ MODULE Platform ------------------------------
(***************************************************************************)
(* The whole backend: API handlers, scheduler and workers around one       *)
(* database.  index.ts starts a scheduler and a worker inside every API    *)
(* process; docker-compose adds workers of their own.  Any number of       *)
(* schedulers may run, and since each of their steps is a transaction on   *)
(* one locked job, the steps of several are the steps of one.              *)
(***************************************************************************)
EXTENDS Worker, Api, Scheduler

CONSTANTS
    InitJobs,     \* the jobs tables a behaviour may start from
    InitExecs     \* the executions tables: rows no worker has taken yet

ASSUME InitAssumption ==
    /\ InitJobs \subseteq [Job -> JobRow]
    /\ \A t \in InitExecs :
          /\ t \in [ExecId -> ExecRow]
          /\ SingleIndex(t) /\ KeyIndex(t)
          /\ \A e \in ExecId :
                \/ t[e] = NoRow
                \/ /\ t[e].status = "PENDING" /\ t[e].job \in Job
                   /\ t[e].parent = None /\ t[e].lockedBy = None
                   /\ t[e].key.kind \in {"client", "manual", "schedule"}
                   /\ t[e].key.n = 0

vars == <<store, workers, clients>>

Init ==
    /\ jobs \in InitJobs
    /\ execs \in InitExecs
    /\ now = 0
    /\ WorkerInit
    /\ req = [c \in Client |-> NoReq]
    /\ reply = [c \in Client |-> NoReply]

(* The second halves of the handlers that await between two statements. *)
Respond(c) ==
    \/ PutWrite(c) \/ ResumeWrite(c)
    \/ RunInsert(c) \/ RunLookup(c)
    \/ RetryInsert(c)

JobOps(j) ==
    \/ "create" \in ClientOps /\ CreateJob(j)
    \/ "pause" \in ClientOps /\ Pause(j)
    \/ "archive" \in ClientOps /\ Archive(j)
    \/ \E c \in Client :
          \/ "put" \in ClientOps /\ PutRead(c, j)
          \/ "resume" \in ClientOps /\ ResumeRead(c, j)
          \/ "run" \in ClientOps /\ RunRead(c, j)

ExecOps(e) ==
    \E c \in Client : "retry" \in ClientOps /\ RetryRead(c, e)

ApiStep ==
    \/ \E c \in Client : Respond(c)
    \/ \E j \in Job : JobOps(j)
    \/ \E e \in ExecId : ExecOps(e)

SchedulerStep(j) == ScheduleSlot(j) \/ ScheduleBrokenCron(j) \/ SkipSlot(j)

WorkerStep(w) ==
    \/ LoopStep(w) \/ FaultStep(w)
    \/ \E e \in ExecId : TaskStep(w, e)

Next ==
    \/ \E w \in Worker : WorkerStep(w) /\ UNCHANGED clients
    \/ \E j \in Job : SchedulerStep(j) /\ UNCHANGED <<workers, clients>>
    \/ ApiStep /\ UNCHANGED workers
    \/ Tick /\ UNCHANGED clients

Spec == Init /\ [][Next]_vars

(* A live process keeps running its event loop, an HTTP call is ended by   *)
(* its timer, and time passes.  A claim that is tried again and again is   *)
(* not lost every time; beyond that nothing is promised about faults, and  *)
(* nothing about which requests clients send.  The scheduler keeps ticking.*)
Fairness ==
    /\ WF_vars(Tick /\ UNCHANGED clients)
    /\ \A w \in Worker : WF_vars(LoopStep(w) /\ UNCHANGED clients)
    /\ \A w \in Worker : SF_vars(ClaimCommit(w) /\ UNCHANGED clients)
    /\ \A w \in Worker, e \in ExecId :
          WF_vars(TaskStep(w, e) /\ UNCHANGED clients)
    /\ \A j \in Job :
          WF_vars(SchedulerStep(j) /\ UNCHANGED <<workers, clients>>)
    /\ \A c \in Client : WF_vars(Respond(c) /\ UNCHANGED workers)

FairSpec == Spec /\ Fairness

-----------------------------------------------------------------------------
(* Every column holds a value of its type, a row has an owner exactly when *)
(* it has been claimed, and every worker's loop and tasks are in states    *)
(* worker.ts has.                                                          *)
TypeOK ==
    /\ jobs \in [Job -> JobRow]
    /\ execs \in [ExecId -> ExecRow]
    /\ \A e \in ExecId :
          /\ Present(execs, e) => execs[e].job \in Job
          /\ execs[e].lockedBy = None
                <=> execs[e].status \in {"ABSENT", "PENDING"}
    /\ now \in 0..MaxSlot
    /\ pc \in [Worker -> {"off", "reap", "claim", "stamp", "process", "gone"}]
    /\ tasks \in [Worker -> [ExecId -> Task]]
    /\ req \in [Client -> Request]

(* An HTTP call of a single-run job never overlaps another one of the same *)
(* job: what uq_job_single_inflight is there for (001_init.sql:103-108),   *)
(* seen where it matters, in the calls the workers have open.  Rows of     *)
(* distinct executions, or one execution in two workers.                   *)
OneCallPerSingleJob ==
    \A v, w \in Worker, e, f \in ExecId :
        /\ e \in In(v, "calling") /\ f \in In(w, "calling")
        /\ execs[e].job = execs[f].job
        /\ execs[e].single /\ execs[f].single
        => v = w /\ e = f

(* What a worker is about to record about an execution it still owns       *)
(* (worker.ts:99-100, 126-127): the claim is exclusive from the row lock   *)
(* to the last write, even after the reaper has given the row up.          *)
ClaimIsExclusive ==
    \A w \in Worker, e \in ExecId :
        /\ tasks[w][e].phase \in {"calling", "ok", "ko", "retry"}
              => Owns(w, e) /\ execs[e].status \in {"RUNNING", "FAILED"}
        /\ e \in In(w, "selected")
              => /\ execs[e].status = "PENDING"
                 /\ \A v \in Worker \ {w} : tasks[v][e].phase = "none"

(* The automatic retry of an execution exists at most once, whoever made   *)
(* it, the worker or a reaper (worker.ts:78-79), and only for one that     *)
(* ended; it is the next attempt of the same job.                          *)
RetriedOnce ==
    \A f \in ExecId :
        execs[f].key.kind = "retry" =>
            /\ execs[execs[f].parent].status \in {"FAILED", "SUCCEEDED"}
            /\ execs[f].job = execs[execs[f].parent].job
            /\ execs[f].attempt = execs[execs[f].parent].attempt + 1
            /\ \A g \in ExecId :
                  /\ execs[g].key.kind = "retry"
                  /\ execs[g].parent = execs[f].parent
                  => g = f

(* A reaper gives up no execution whose HTTP call is still open            *)
(* (worker.ts:184-185: "because the worker that claimed them died").       *)
NoReapDuringCall ==
    [][\A w \in Worker, e \in ExecId :
          e \in In(w, "calling") /\ execs[e].status = "RUNNING"
              => \/ execs'[e].status = "RUNNING"
                 \/ tasks'[w][e].phase # "calling"]_vars

(* A run that succeeded stays so: no late or second writer, reaper or      *)
(* claim changes it (worker.ts:60-69, 90-136, 195-204).                    *)
SettledIsFinal ==
    [][\A e \in ExecId :
          execs[e].status = "SUCCEEDED"
              => execs'[e].status = "SUCCEEDED"]_vars

(* A failure within the retry limit is never left behind: the retry exists *)
(* or a worker is on its way to insert it, unless the worker that recorded *)
(* the failure died ("When a retry is available, a new execution row is    *)
(* created", ENGINEERING.md section 13; worker.ts:138-171, 226-259).       *)
FailureIsRetried ==
    \A e \in ExecId :
        /\ execs[e].status = "FAILED"
        /\ ShouldRetry(execs[e].attempt, jobs[execs[e].job].maxRetries)
        => \/ \E w \in Worker : tasks[w][e].phase \in {"calling", "ok", "ko", "retry"}
           \/ \E f \in ExecId : /\ execs[f].key.kind = "retry"
                                /\ execs[f].parent = e
           \/ pc[execs[e].lockedBy] = "gone"

(* The reaper's transaction always goes through: no retry it inserts meets *)
(* another execution in flight, so a stale one never keeps the workers     *)
(* from claiming (worker.ts:193-278, 280-302).  False once a job's         *)
(* concurrent runs are switched off while it has two in flight.            *)
ReaperProceeds ==
    \A parent \in Parents : \A wait \in [DOMAIN parent -> Delay] :
        DOMAIN parent # {} => SingleIndex(ReapedTable(parent, wait))

(* Two different requests with the same Idempotency-Key never each create  *)
(* an execution (jobRoutes.ts:175-176).                                    *)
OneCreatorPerKey ==
    \A c, d \in Client :
        /\ reply[c].kind = "created" /\ reply[d].kind = "created"
        /\ reply[c].job = reply[d].job
        /\ reply[c].key = reply[d].key /\ reply[c].key # NoKey
        => c = d

(* "Reusing the same key returns the original execution" (API.md:67-69).   *)
DedupedReturnsOriginal ==
    \A c \in Client :
        reply[c].kind = "deduped" =>
            /\ reply[c].exec # None
            /\ execs[reply[c].exec].key = reply[c].key

(* Whatever a PUT's body leaves out keeps the value some other request has *)
(* committed meanwhile: "reject with 409 rather than silently overwriting" *)
(* (jobRoutes.ts:95-97).                                                   *)
Settings == {"maxRetries", "allowConcurrent", "cron"}
NoLostUpdate ==
    [][\A c \in Client :
          req[c].at = "put" /\ req'[c] = NoReq /\ jobs' # jobs =>
              LET j == req[c].job
              IN  /\ jobs[j].version = req[c].version
                  /\ \A f \in Settings \ DOMAIN req[c].patch :
                        jobs'[j][f] = jobs[j][f]]_vars

(* An ACTIVE job with a cron expression waits for a next run: without one  *)
(* the scheduler never looks at it again (scheduler.ts:30-32).  The only   *)
(* request that may take it away is a resume that read the job before it   *)
(* had its expression (jobRoutes.ts:156-160).                              *)
NeverScheduled(j) ==
    /\ jobs[j].status = "ACTIVE"
    /\ jobs[j].cron # None /\ jobs[j].nextRun = None
NextRunKept ==
    [][\A j \in Job :
          NeverScheduled(j)' /\ ~NeverScheduled(j) =>
              \E c \in Client :
                 /\ req[c].at = "resume" /\ req'[c] = NoReq
                 /\ req[c].job = j /\ req[c].nextRun = None]_vars

(* The scheduler passes over a slot only when the job has an execution for *)
(* it or another one in flight (scheduler.ts:17-19, 106-109).              *)
NoSlotLost ==
    [][\A j \in Job :
          /\ Exists(j) /\ jobs'[j].version = jobs[j].version
          /\ jobs'[j].nextRun # jobs[j].nextRun
          => /\ jobs[j].nextRun <= now /\ jobs[j].nextRun < jobs'[j].nextRun
             /\ \A slot \in jobs[j].nextRun..(jobs'[j].nextRun - 1) :
                   slot % jobs[j].cron = 0 =>
                      \E e \in ExecId :
                         /\ execs'[e].job = j
                         /\ \/ execs'[e].key = ScheduleKey(slot)
                            \/ InFlight(execs', e) /\ execs'[e].single]_vars

(* A slot is never queued twice, not even when a PUT that read the job     *)
(* before the slot was handled writes the old next_run_at back, or another *)
(* tick finds it due again (scheduler.ts:42, 54-77; jobRoutes.ts:103-128). *)
SlotRunsOnce ==
    \A e, f \in ExecId :
        /\ execs[e].key.kind = "schedule" /\ execs[f].key.kind = "schedule"
        /\ execs[e].job = execs[f].job /\ execs[e].key.of = execs[f].key.of
        => e = f

-----------------------------------------------------------------------------
(* The executions table read as the ledger of RunLedger: the platform,     *)
(* with all its actors, locks and faults, keeps that module's promise      *)
(* (001_init.sql:103-112, worker.ts:37-259, jobRoutes.ts:166-209,          *)
(* executionRoutes.ts:46-99).                                              *)
Entry(row) ==
    [status |-> row.status, job |-> row.job, single |-> row.single,
     owner |-> row.lockedBy,
     retryOf |-> IF row.key.kind = "retry" THEN row.parent ELSE None]
ledger == [e \in ExecId |-> Entry(execs[e])]
Ledger == INSTANCE RunLedger WITH Run <- ExecId, Owner <- Worker
KeepsLedger == Ledger!Spec

-----------------------------------------------------------------------------
(* An execution a dead worker has left RUNNING is eventually given up, as  *)
(* long as some worker lives (worker.ts:183-188).                          *)
StaleIsRecovered ==
    \A e \in ExecId :
        (execs[e].status = "RUNNING") ~> (execs[e].status # "RUNNING")

(* A queued execution of an active job is eventually taken.                *)
DueIsTaken ==
    \A e \in ExecId :
        (execs[e].status = "PENDING")
            ~> (\/ execs[e].status # "PENDING"
                \/ jobs[execs[e].job].status # "ACTIVE")

(* A due slot is eventually handled, or its job no longer scheduled; only  *)
(* an expression that cannot be parsed any more may leave it waiting for   *)
(* an execution in flight to end (scheduler.ts:57-135).                    *)
SlotIsHandled ==
    \A j \in Job :
        SlotDue(j) ~> (\/ ~SlotDue(j)
                       \/ ~Parses(jobs[j].cron) /\ Violates(SlotRow(j)))
=============================================================================
