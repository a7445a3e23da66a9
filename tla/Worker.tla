------------------------------- MODULE Worker -------------------------------
(***************************************************************************)
(* backend/src/worker.ts: the polling loop of a worker process.  One cycle *)
(* reaps stale executions, claims a batch of due ones, makes their HTTP    *)
(* calls concurrently and records what came of them.  Every statement or   *)
(* transaction the loop sends to the database is one action: between two   *)
(* of them any other process may act, time may pass, and the process may   *)
(* die.  A restarted process has a new WORKER_ID, so a dead one stays dead.*)
(***************************************************************************)
EXTENDS Store, RetryPolicy, Functions

CONSTANTS
    BatchSize,    \* BATCH_SIZE
    CallLimit,    \* ticks from the start of a claim to the end of its call
    MayCrash,     \* the workers that may die
    DbFaults      \* what may be lost with its connection: a "claim", another "query"

ASSUME WorkerAssumption ==
    /\ BatchSize \in Nat \ {0}
    /\ CallLimit \in Nat
    /\ AgeCap > StaleAfter /\ AgeCap >= CallLimit
    /\ MayCrash \subseteq Worker
    /\ DbFaults \subseteq {"claim", "query"}

VARIABLES
    pc,      \* where a worker's loop is
    tasks    \* what a worker is doing with each execution

workers == <<pc, tasks>>

Phase == {"none", "selected", "calling", "ok", "ko", "retry"}
(* A claimed row carries the retry settings its job had at the claim; time *)
(* counts the ticks since the claim began, until its call ends.            *)
Task == [phase: Phase, time: 0..AgeCap, maxRetries: RetryLimits \cup {0},
         allowConcurrent: BOOLEAN]
NoTask == [phase |-> "none", time |-> 0, maxRetries |-> 0,
           allowConcurrent |-> FALSE]

In(w, phase) == {e \in ExecId : tasks[w][e].phase = phase}
Locked(e) == \E w \in Worker : e \in In(w, "selected")

SetTask(w, e, task) == tasks' = [tasks EXCEPT ![w][e] = task]
Goto(w, label) == pc' = [pc EXCEPT ![w] = label]

-----------------------------------------------------------------------------
Start(w) ==
    /\ pc[w] = "off"
    /\ Goto(w, "reap")
    /\ UNCHANGED <<store, tasks>>

(* The retry of execution e under given settings, due after a delay. *)
RetryRow(e, maxRetries, allowConcurrent, wait) ==
    LET attempt == NextAttempt(execs[e].attempt, maxRetries)
    IN  PendingRow(execs[e].job, attempt, e, RetryKey(e, attempt),
                   ~allowConcurrent, wait)

(* Mutant: looks for running rows that nobody owns. *)
Stale_Unowned(e) ==
    execs[e].status = "RUNNING" /\ execs[e].lockedBy = None

(* Mutants: the row is queued again instead of failed, or loses its owner. *)
FailedRow_Released(e) ==
    [execs[e] EXCEPT !.status = "FAILED", !.age = 0, !.lockedBy = None]
FailedRow_Requeued(e) == [execs[e] EXCEPT !.status = "PENDING", !.age = 0]

(* reapStaleExecutions: the rows it fails, ... *)
Stale(e) == execs[e].status = "RUNNING" /\ IsStale(execs[e].age)
FailedRow(e) == [execs[e] EXCEPT !.status = "FAILED", !.age = 0]

(* ... and those it retries, by the settings their job has now. *)
ReapRetryRow(e, wait) ==
    LET job == jobs[execs[e].job]
    IN  RetryRow(e, job.maxRetries, job.allowConcurrent, wait)
ReapRetries(e) ==
    /\ Stale(e)
    /\ ShouldRetry(execs[e].attempt, jobs[execs[e].job].maxRetries)
    /\ ~Dedupes(ReapRetryRow(e, 0))

(* Every way to number the inserted retries: from new row to its parent. *)
NewIds(n) ==
    {e \in ExecId : /\ ~Present(execs, e)
                    /\ Cardinality({f \in 1..e : ~Present(execs, f)}) <= n}
Parents ==
    LET retried == {e \in ExecId : ReapRetries(e)}
    IN  Bijection(NewIds(Cardinality(retried)), retried)

ReapedTable(parent, wait) ==
    [f \in ExecId |->
        IF f \in DOMAIN parent THEN ReapRetryRow(parent[f], wait[f])
        ELSE IF Stale(f) THEN FailedRow(f)
        ELSE execs[f]]

(* One transaction: it commits whole, ... *)
Reap(w) ==
    /\ pc[w] = "reap"
    /\ \E parent \in Parents : \E wait \in [DOMAIN parent -> Delay] :
          /\ SingleIndex(ReapedTable(parent, wait))
          /\ execs' = ReapedTable(parent, wait)
    /\ Goto(w, "claim")
    /\ UNCHANGED <<jobs, now, tasks>>

(* ... or the retry of a stale row meets another execution in flight, the  *)
(* error rolls everything back, and tick() ends without claiming.          *)
ReapRolledBack(w) ==
    /\ pc[w] = "reap"
    /\ \E parent \in Parents : \E wait \in [DOMAIN parent -> Delay] :
          ~SingleIndex(ReapedTable(parent, wait))
    /\ Goto(w, "reap")
    /\ UNCHANGED <<store, tasks>>

(* Mutants: no test of the status, or of the time the wrong way round. *)
Due_AnyStatus(e) ==
    /\ Present(execs, e)
    /\ execs[e].wait = 0
    /\ jobs[execs[e].job].status = "ACTIVE"
Due_NotYet(e) ==
    /\ execs[e].status = "PENDING"
    /\ execs[e].wait > 0
    /\ jobs[execs[e].job].status = "ACTIVE"

(* claimBatch, first statement: lock up to BATCH_SIZE due rows, passing    *)
(* over those another worker has locked, and read their job's settings.    *)
Due(e) ==
    /\ execs[e].status = "PENDING"
    /\ execs[e].wait = 0
    /\ jobs[execs[e].job].status = "ACTIVE"

(* Mutant: rows another worker has locked are read all the same. *)
Claimable_Unlocked == {e \in ExecId : Due(e)}

Claimable == {e \in ExecId : Due(e) /\ ~Locked(e)}

Batches ==
    {batch \in SUBSET Claimable :
        \/ Cardinality(batch) = BatchSize
        \/ Cardinality(batch) < BatchSize /\ batch = Claimable}

Selected(e) ==
    LET job == jobs[execs[e].job]
    IN  [phase |-> "selected", time |-> 0, maxRetries |-> job.maxRetries,
         allowConcurrent |-> job.allowConcurrent]

ClaimSelect(w) ==
    /\ pc[w] = "claim"
    /\ \E batch \in Batches :
          /\ tasks' = [tasks EXCEPT ![w] =
                [e \in ExecId |-> IF e \in batch THEN Selected(e)
                                  ELSE tasks[w][e]]]
          /\ Goto(w, IF batch = {} THEN "reap" ELSE "stamp")
    /\ UNCHANGED store

(* Mutant: locked_by is not stamped. *)
Stamped_Anonymous(w, e) ==
    [execs[e] EXCEPT !.status = "RUNNING", !.age = tasks[w][e].time]

(* Second statement and COMMIT: stamp the locked rows, whatever their      *)
(* status; locked_at is the time the transaction began.                    *)
Stamped(w, e) ==
    [execs[e] EXCEPT !.status = "RUNNING", !.lockedBy = w,
                     !.age = tasks[w][e].time]
Stamp(w) ==
    execs' = [e \in ExecId |-> IF e \in In(w, "selected") THEN Stamped(w, e)
                               ELSE execs[e]]

ClaimCommit(w) ==
    /\ pc[w] = "stamp"
    /\ Stamp(w)
    /\ tasks' = [tasks EXCEPT ![w] =
          [e \in ExecId |-> IF e \in In(w, "selected")
                            THEN [tasks[w][e] EXCEPT !.phase = "calling"]
                            ELSE tasks[w][e]]]
    /\ Goto(w, "process")
    /\ UNCHANGED <<jobs, now>>

(* executeHttpJob resolves: a 2xx response, or any kind of failure. *)
CallEnds(w, e, result) ==
    /\ e \in In(w, "calling")
    /\ SetTask(w, e, [tasks[w][e] EXCEPT !.phase = result, !.time = 0])
    /\ UNCHANGED <<store, pc>>

(* UPDATE ... WHERE id = .. AND locked_by = ..: the status is not tested. *)
Owns(w, e) == execs[e].lockedBy = w
RecordedTable(w, e, status) ==
    IF Owns(w, e)
    THEN [execs EXCEPT ![e].status = status, ![e].age = 0]
    ELSE execs

RecordSuccess(w, e) ==
    /\ e \in In(w, "ok")
    /\ execs' = RecordedTable(w, e, "SUCCEEDED")
    /\ SetTask(w, e, NoTask)
    /\ UNCHANGED <<jobs, now, pc>>

(* Mutant: one retry too few. *)
AfterFailure_OneLess(w, e) ==
    IF execs[e].attempt < tasks[w][e].maxRetries
    THEN [tasks[w][e] EXCEPT !.phase = "retry"]
    ELSE NoTask

AfterFailure(w, e) ==
    IF ShouldRetry(execs[e].attempt, tasks[w][e].maxRetries)
    THEN [tasks[w][e] EXCEPT !.phase = "retry"]
    ELSE NoTask

RecordFailure(w, e) ==
    /\ e \in In(w, "ko")
    /\ execs' = RecordedTable(w, e, "FAILED")
    /\ SetTask(w, e, AfterFailure(w, e))
    /\ UNCHANGED <<jobs, now, pc>>

(* The retry, in a statement of its own: inserted, or already there, or    *)
(* rejected by the single-inflight index, which is logged and forgotten.   *)
WorkerRetryRow(w, e, wait) ==
    RetryRow(e, tasks[w][e].maxRetries, tasks[w][e].allowConcurrent, wait)

ScheduleRetry(w, e) ==
    /\ e \in In(w, "retry")
    /\ \E wait \in Delay :
          LET row == WorkerRetryRow(w, e, wait)
          IN  IF Accepts(row) THEN \E f \in ExecId : IsNext(f) /\ Insert(f, row)
              ELSE UNCHANGED execs
    /\ SetTask(w, e, NoTask)
    /\ UNCHANGED <<jobs, now, pc>>

(* Promise.all has settled. *)
TickEnds(w) ==
    /\ pc[w] = "process"
    /\ \A e \in ExecId : tasks[w][e] = NoTask
    /\ Goto(w, "reap")
    /\ UNCHANGED <<store, tasks>>

-----------------------------------------------------------------------------
(* The process dies, or is told to stop: nothing waits for the calls in    *)
(* progress.  An open claim transaction is rolled back.                    *)
Crash(w) ==
    /\ w \in MayCrash
    /\ pc[w] \notin {"off", "gone"}
    /\ tasks' = [tasks EXCEPT ![w] = [e \in ExecId |-> NoTask]]
    /\ Goto(w, "gone")
    /\ UNCHANGED store

(* A statement after the call is rejected: the error is logged and the     *)
(* execution is left as it stands.                                         *)
QueryFails(w, e) ==
    /\ "query" \in DbFaults
    /\ tasks[w][e].phase \in {"ok", "ko", "retry"}
    /\ SetTask(w, e, NoTask)
    /\ UNCHANGED <<store, pc>>

(* The claim transaction is rolled back, ... *)
ClaimFails(w) ==
    /\ "claim" \in DbFaults
    /\ pc[w] = "stamp"
    /\ tasks' = [tasks EXCEPT ![w] = [e \in ExecId |-> NoTask]]
    /\ Goto(w, "reap")
    /\ UNCHANGED store

(* ... or committed by a server whose answer never arrives. *)
ClaimAckLost(w) ==
    /\ "claim" \in DbFaults
    /\ pc[w] = "stamp"
    /\ Stamp(w)
    /\ tasks' = [tasks EXCEPT ![w] = [e \in ExecId |-> NoTask]]
    /\ Goto(w, "reap")
    /\ UNCHANGED <<jobs, now>>

-----------------------------------------------------------------------------
(* A tick of the clock: delays run down, locks and calls grow older.  The  *)
(* abort timer of a call ends it within CallLimit.                         *)
Timed(w, e) == tasks[w][e].phase \in {"selected", "calling"}
Older(n) == IF n < AgeCap THEN n + 1 ELSE n

Tick ==
    /\ \A w \in Worker, e \in ExecId :
          Timed(w, e) => tasks[w][e].time < CallLimit
    /\ execs' = [e \in ExecId |-> [execs[e] EXCEPT
          !.wait = IF execs[e].status = "PENDING" /\ @ > 0 THEN @ - 1 ELSE @,
          !.age = IF execs[e].status = "RUNNING" THEN Older(@) ELSE @]]
    /\ tasks' = [w \in Worker |-> [e \in ExecId |->
          IF Timed(w, e) THEN [tasks[w][e] EXCEPT !.time = Older(@)]
          ELSE tasks[w][e]]]
    /\ now' = IF now < MaxSlot THEN now + 1 ELSE now
    /\ UNCHANGED <<jobs, pc>>

TaskStep(w, e) ==
    \/ CallEnds(w, e, "ok") \/ CallEnds(w, e, "ko")
    \/ RecordSuccess(w, e) \/ RecordFailure(w, e)
    \/ ScheduleRetry(w, e)

LoopStep(w) ==
    \/ Start(w)
    \/ Reap(w) \/ ReapRolledBack(w)
    \/ ClaimSelect(w) \/ ClaimCommit(w)
    \/ TickEnds(w)

FaultStep(w) ==
    \/ Crash(w)
    \/ ClaimFails(w) \/ ClaimAckLost(w)
    \/ \E e \in ExecId : QueryFails(w, e)

WorkerInit ==
    /\ pc = [w \in Worker |-> "off"]
    /\ tasks = [w \in Worker |-> [e \in ExecId |-> NoTask]]
=============================================================================
