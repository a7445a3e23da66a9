---------------------------- MODULE RetryProofs ----------------------------
(* Theorems that no failure is left behind and that no reaper is stuck. *)
EXTENDS RequestProofs

(***************************************************************************)
(* When the promise can be kept.  Nobody changes a job's settings, no      *)
(* statement after a call is lost, and whoever does not allow concurrent   *)
(* runs gets no execution but retries: any other one may take the place of *)
(* the retry between the failure and its insert (worker.ts:154-161).  A    *)
(* job that allows concurrent runs may have any traffic beside.            *)
(***************************************************************************)
Undisturbed ==
    /\ "query" \notin DbFaults
    /\ ClientOps \cap {"create", "put"} = {}
    /\ \A s \in InitJobs, j \in Job :
          \/ s[j].allowConcurrent
          \/ s[j].cron = None /\ ClientOps \cap {"run", "retry"} = {}
    /\ \A s \in InitJobs, t \in InitExecs, e \in ExecId :
          t[e] # NoRow => s[t[e].job].allowConcurrent \/ t[e].single

(* No insert of another kind is under way for a job that forbids it. *)
Quiet ==
    /\ \A c \in Client :
          /\ req[c].at # "put"
          /\ "run" \notin ClientOps => req[c].at # "run"
          /\ "retry" \notin ClientOps => req[c].at # "retry"
    /\ \A j \in Job :
          \/ jobs[j].allowConcurrent
          \/ jobs[j].cron = None /\ ClientOps \cap {"run", "retry"} = {}

(* A worker's loop is where its tasks are, and a task has its job's        *)
(* settings.                                                               *)
SettingsOf(task, e) ==
    /\ task.maxRetries = jobs[execs[e].job].maxRetries
    /\ task.allowConcurrent = jobs[execs[e].job].allowConcurrent
WorkingOn(w, e) ==
    /\ tasks[w][e].phase = "selected" => pc[w] = "stamp"
    /\ tasks[w][e].phase \in Held => pc[w] = "process"
    /\ tasks[w][e].phase # "none" => SettingsOf(tasks[w][e], e)
Working == \A w \in Worker, e \in ExecId : WorkingOn(w, e)

(* The executions of a job that forbids concurrency form one chain of      *)
(* retries: only its last link has not been retried.                       *)
Retried(t, e) ==
    \E f \in ExecId : t[f].key.kind = "retry" /\ t[f].parent = e
Unretried(t, e, j) == Present(t, e) /\ t[e].job = j /\ ~Retried(t, e)
Chain(t) ==
    \A j \in Job, e, f \in ExecId :
        /\ ~jobs[j].allowConcurrent
        /\ Unretried(t, e, j) /\ Unretried(t, f, j)
        => e = f

(***************************************************************************)
(* Settings and requests                                                   *)
(***************************************************************************)
SameJob(j) ==
    /\ jobs'[j].maxRetries = jobs[j].maxRetries
    /\ jobs'[j].allowConcurrent = jobs[j].allowConcurrent
    /\ jobs'[j].cron = jobs[j].cron

LEMMA WriteKeepsJob ==
    ASSUME TypeOK, NEW k \in Job, NEW row \in JobRow, SetJob(k, Bump(row)),
           row.maxRetries = jobs[k].maxRetries,
           row.allowConcurrent = jobs[k].allowConcurrent,
           row.cron = jobs[k].cron
    PROVE  \A j \in Job : SameJob(j)
<1>1. /\ Bump(row).maxRetries = row.maxRetries
      /\ Bump(row).allowConcurrent = row.allowConcurrent
      /\ Bump(row).cron = row.cron
  BY DEF Bump, JobRow
<1>2. \A j \in Job : jobs'[j] = IF j = k THEN Bump(row) ELSE jobs[j]
  BY DEF SetJob, TypeOK
<1> QED
  BY <1>1, <1>2 DEF SameJob

LEMMA SettingsStay ==
    ASSUME TypeOK, Quiet, Undisturbed, [Next]_vars
    PROVE  \A j \in Job : SameJob(j)
<1>1. UNCHANGED jobs => \A j \in Job : SameJob(j)
  BY DEF SameJob
<1>2. ASSUME NEW k \in Job, SchedulerStep(k)
      PROVE  \A j \in Job : SameJob(j)
  <2>1. \/ UNCHANGED jobs
        \/ Advance(k)
        \/ jobs' = [jobs EXCEPT ![k] = [jobs[k] EXCEPT !.status = "PAUSED"]]
    BY <1>2 DEF SchedulerStep, ScheduleSlot, ScheduleBrokenCron, PauseBroken,
                SkipSlot, TypeOK
  <2>2. jobs[k] \in JobRow
    BY DEF TypeOK
  <2>3. CASE Advance(k)
    <3> DEFINE n == NextSlot(jobs[k].cron, jobs[k].nextRun)
    <3>1. jobs' = [jobs EXCEPT ![k] = [jobs[k] EXCEPT !.nextRun = n]]
      BY <2>3 DEF Advance, TypeOK
    <3> HIDE DEF n
    <3> QED
      BY <2>2, <3>1 DEF SameJob, TypeOK, JobRow
  <2>4. CASE jobs' = [jobs EXCEPT ![k] = [jobs[k] EXCEPT !.status = "PAUSED"]]
    BY <2>2, <2>4 DEF SameJob, TypeOK, JobRow
  <2> QED
    BY <1>1, <2>1, <2>3, <2>4
<1>3. ASSUME NEW c \in Client, Respond(c)
      PROVE  \A j \in Job : SameJob(j)
  <2>1. CASE ResumeWrite(c)
    <3> DEFINE k == req[c].job
               row == [jobs[k] EXCEPT !.status = "ACTIVE",
                                      !.nextRun = req[c].nextRun]
    <3>1. k \in Job /\ req[c].nextRun \in Nat \cup {None}
      BY <2>1, RequestFields DEF ResumeWrite, TypeOK
    <3>2. jobs[k] \in JobRow
      BY <3>1 DEF TypeOK
    <3>3. /\ row \in JobRow /\ row.maxRetries = jobs[k].maxRetries
          /\ row.allowConcurrent = jobs[k].allowConcurrent
          /\ row.cron = jobs[k].cron
      BY <3>1, <3>2 DEF JobRow, JobStatus
    <3>4. SetJob(k, Bump(row))
      BY <2>1 DEF ResumeWrite
    <3> HIDE DEF k, row
    <3> QED
      BY <3>1, <3>3, <3>4, WriteKeepsJob
  <2>2. ~PutWrite(c)
    BY DEF PutWrite, Quiet
  <2> QED
    BY <1>1, <1>3, <2>1, <2>2
    DEF Respond, RunInsert, RunLookup, RetryInsert, store
<1>4. ASSUME NEW k \in Job, JobOps(k)
      PROVE  \A j \in Job : SameJob(j)
  <2>1. ASSUME NEW status \in {"PAUSED", "ARCHIVED"}, SetStatus(k, status)
        PROVE  \A j \in Job : SameJob(j)
    <3> DEFINE row == [jobs[k] EXCEPT !.status = status]
    <3>1. /\ row \in JobRow /\ row.maxRetries = jobs[k].maxRetries
          /\ row.allowConcurrent = jobs[k].allowConcurrent
          /\ row.cron = jobs[k].cron
      BY DEF TypeOK, JobRow, JobStatus
    <3>2. SetJob(k, Bump(row))
      BY <2>1 DEF SetStatus
    <3> HIDE DEF row
    <3> QED
      BY <3>1, <3>2, WriteKeepsJob
  <2> QED
    BY <1>1, <1>4, <2>1
    DEF JobOps, Undisturbed, Pause, Archive, PutRead, ResumeRead, RunRead, store
<1> QED
  BY <1>1, <1>2, <1>3, <1>4, JobsUntouched DEF Next, ApiStep

(* A request is answered, goes on to its lookup, or is begun by a handler  *)
(* that clients use.                                                       *)
LEMMA RequestStep ==
    ASSUME TypeOK, [Next]_vars, NEW c \in Client
    PROVE  \/ req'[c] = req[c] \/ req'[c].at \in {"idle", "lookup", "resume"}
           \/ \E op \in ClientOps \cap {"put", "run", "retry"} : req'[c].at = op
<1>1. ASSUME NEW d \in Client, Respond(d)
      PROVE  req'[c] = req[c] \/ req'[c].at \in {"idle", "lookup"}
  <2>1. CASE End(d)
    BY <2>1 DEF End, NoReq, TypeOK
  <2>2. CASE RunDeduped(d, req[d])
    <3>1. req' = [req EXCEPT ![d] = [req[d] EXCEPT !.at = "lookup"]]
      BY <2>2 DEF RunDeduped, TypeOK
    <3>2. [req[d] EXCEPT !.at = "lookup"].at = "lookup"
      BY DEF TypeOK, Request
    <3> QED
      BY <3>1, <3>2 DEF TypeOK
  <2> QED
    BY <1>1, <2>1, <2>2 DEF Respond, PutWrite, ResumeWrite, RunInsert,
                            RunAccepted, RunRejected, RunLookup, RetryInsert
<1>2. ASSUME NEW j \in Job, JobOps(j)
      PROVE  \/ req'[c] = req[c] \/ req'[c].at = "resume"
             \/ \E op \in ClientOps \cap {"put", "run"} : req'[c].at = op
  BY <1>2 DEF JobOps, CreateJob, Pause, Archive, SetStatus, PutRead,
              ResumeRead, RunRead, Begin, TypeOK, clients
<1>3. ASSUME NEW e \in ExecId, ExecOps(e)
      PROVE  \/ req'[c] = req[c]
             \/ "retry" \in ClientOps /\ req'[c].at = "retry"
  BY <1>3 DEF ExecOps, RetryRead, Begin, TypeOK, clients
<1> QED
  BY <1>1, <1>2, <1>3 DEF Next, ApiStep, vars, clients

LEMMA QuietStep ==
    ASSUME TypeOK, Quiet, Undisturbed, [Next]_vars
    PROVE  Quiet'
<1>1. \A j \in Job : SameJob(j)
  BY SettingsStay
<1>2. ASSUME NEW c \in Client
      PROVE  /\ req'[c].at # "put"
             /\ "run" \notin ClientOps => req'[c].at # "run"
             /\ "retry" \notin ClientOps => req'[c].at # "retry"
  BY RequestStep DEF Quiet, Undisturbed
<1> QED
  BY <1>1, <1>2 DEF Quiet, SameJob

(***************************************************************************)
(* Tasks                                                                   *)
(***************************************************************************)
(* A step that leaves a task where it was, as far as Working can see.      *)
SameLimits(r, s) ==
    s.maxRetries = r.maxRetries /\ s.allowConcurrent = r.allowConcurrent
Continues(w, e) ==
    \/ tasks'[w][e].phase = "none"
    \/ /\ SameLimits(tasks[w][e], tasks'[w][e])
       /\ pc'[w] = pc[w]
       /\ \/ tasks'[w][e].phase = tasks[w][e].phase
          \/ tasks[w][e].phase \in Held /\ tasks'[w][e].phase \in Held

LEMMA TaskedSettings ==
    ASSUME XInv, Quiet, Undisturbed, [Next]_vars,
           NEW e \in ExecId, Present(execs, e)
    PROVE  /\ execs[e].job \in Job /\ execs'[e].job = execs[e].job
           /\ execs'[e].attempt = execs[e].attempt
           /\ SameJob(execs[e].job)
<1>1. TypeOK /\ execs[e].job \in Job
  BY DEF XInv, IInv, TypeOK
<1>2. SameOrigin(execs[e], execs'[e])
  BY RowsKeepOrigin
<1> QED
  BY <1>1, <1>2, SettingsStay DEF SameOrigin

LEMMA TaskContinues ==
    ASSUME XInv, Quiet, Undisturbed, Working, [Next]_vars,
           NEW w \in Worker, NEW e \in ExecId, Continues(w, e)
    PROVE  WorkingOn(w, e)'
<1> SUFFICES ASSUME tasks'[w][e].phase # "none"
             PROVE  WorkingOn(w, e)'
  BY DEF WorkingOn, Held
<1>1. tasks[w][e].phase # "none" /\ WorkingOn(w, e)
  BY DEF Continues, Working, Held
<1>2. Present(execs, e)
  BY <1>1, TaskedIsPresent DEF XInv, IInv, Present
<1>3. SettingsOf(tasks[w][e], e)'
  BY <1>1, <1>2, TaskedSettings
  DEF WorkingOn, SettingsOf, SameJob, Continues, SameLimits
<1> QED
  BY <1>1, <1>3 DEF Continues, WorkingOn, Held

(* Outside a claim and its calls a worker has no task. *)
LEMMA NoTaskElsewhere ==
    ASSUME TypeOK, Working, NEW w \in Worker, pc[w] \notin {"stamp", "process"},
           NEW e \in ExecId
    PROVE  tasks[w][e].phase = "none"
<1>1. tasks[w][e].phase \in Phase
  BY DEF TypeOK, Task
<1> QED
  BY <1>1 DEF Working, WorkingOn, Phase, Held

LEMMA SelectWorking ==
    ASSUME XInv, Quiet, Undisturbed, Working, [Next]_vars,
           NEW w \in Worker, ClaimSelect(w)
    PROVE  Working'
<1> SUFFICES ASSUME NEW v \in Worker, NEW e \in ExecId
             PROVE  WorkingOn(v, e)'
  BY DEF Working
<1>1. PICK batch \in Batches :
         /\ tasks' = [tasks EXCEPT ![w] =
               [f \in ExecId |-> IF f \in batch THEN Selected(f)
                                 ELSE tasks[w][f]]]
         /\ Goto(w, IF batch = {} THEN "reap" ELSE "stamp")
  BY DEF ClaimSelect
<1>2. /\ tasks'[v][e] = IF v = w /\ e \in batch THEN Selected(e)
                        ELSE tasks[v][e]
      /\ pc'[v] = IF v = w THEN IF batch = {} THEN "reap" ELSE "stamp"
                  ELSE pc[v]
  BY <1>1 DEF XInv, IInv, TypeOK, Goto
<1>3. CASE v = w /\ e \in batch
  <2>1. /\ tasks'[v][e].phase = "selected" /\ pc'[v] = "stamp"
        /\ SettingsOf(tasks'[v][e], e)
    BY <1>2, <1>3 DEF Selected, SettingsOf
  <2>2. SettingsOf(tasks[v][e], e)'
    BY <2>1 DEF ClaimSelect, store, SettingsOf
  <2> QED
    BY <2>1, <2>2 DEF WorkingOn, Held
<1>4. CASE v = w /\ e \notin batch
  <2>1. tasks'[v][e].phase = "none"
    BY <1>2, <1>4, NoTaskElsewhere DEF ClaimSelect, XInv, IInv
  <2> QED
    BY <2>1 DEF WorkingOn, Held
<1>5. CASE v # w
  BY <1>2, <1>5, TaskContinues DEF Continues, SameLimits
<1> QED
  BY <1>3, <1>4, <1>5

LEMMA CommitWorking ==
    ASSUME XInv, Quiet, Undisturbed, Working, [Next]_vars,
           NEW w \in Worker, ClaimCommit(w)
    PROVE  Working'
<1> SUFFICES ASSUME NEW v \in Worker, NEW e \in ExecId
             PROVE  WorkingOn(v, e)'
  BY DEF Working
<1>1. tasks[w][e] \in Task /\ tasks[w][e].phase \in Phase
  BY DEF XInv, IInv, TypeOK, Task
<1>2. /\ tasks'[v][e] = IF v = w /\ e \in In(w, "selected")
                        THEN [tasks[w][e] EXCEPT !.phase = "calling"]
                        ELSE tasks[v][e]
      /\ pc'[v] = IF v = w THEN "process" ELSE pc[v]
  BY DEF ClaimCommit, XInv, IInv, TypeOK, Goto
<1>3. CASE v = w /\ e \in In(w, "selected")
  <2>1. /\ tasks'[v][e].phase = "calling" /\ pc'[v] = "process"
        /\ SameLimits(tasks[v][e], tasks'[v][e])
    BY <1>1, <1>2, <1>3 DEF Task, SameLimits
  <2>2. tasks[v][e].phase # "none" /\ WorkingOn(v, e)
    BY <1>3 DEF In, Working
  <2>3. Present(execs, e)
    BY <2>2, TaskedIsPresent DEF XInv, IInv, Present
  <2>4. SettingsOf(tasks[v][e], e)'
    BY <2>1, <2>2, <2>3, TaskedSettings
    DEF WorkingOn, SettingsOf, SameJob, SameLimits
  <2> QED
    BY <2>1, <2>4 DEF WorkingOn, Held
<1>4. CASE v = w /\ e \notin In(w, "selected")
  <2>1. tasks[w][e].phase = "none"
    BY <1>1, <1>4 DEF Working, WorkingOn, Phase, Held, In, ClaimCommit
  <2> QED
    BY <1>2, <1>4, <2>1, TaskContinues DEF Continues
<1>5. CASE v # w
  BY <1>2, <1>5, TaskContinues DEF Continues, SameLimits
<1> QED
  BY <1>3, <1>4, <1>5

(* What a step of an execution leaves of its task. *)
LEMMA TaskStepTasks ==
    ASSUME TypeOK, NEW w \in Worker, NEW f \in ExecId, TaskStep(w, f),
           NEW v \in Worker, NEW e \in ExecId
    PROVE  \E task : /\ tasks'[v][e] = IF v = w /\ e = f THEN task
                                       ELSE tasks[v][e]
                     /\ \/ task.phase = "none"
                        \/ /\ task.phase \in Held
                           /\ tasks[w][f].phase \in Held
                           /\ SameLimits(tasks[w][f], task)
<1>0. NoTask.phase = "none"
  BY DEF NoTask
<1>1. tasks[w][f] \in Task
  BY DEF TypeOK
<1>2. ASSUME NEW result \in {"ok", "ko"}, CallEnds(w, f, result)
      PROVE  LET task == [tasks[w][f] EXCEPT !.phase = result, !.time = 0]
             IN  /\ SetTask(w, f, task) /\ tasks[w][f].phase \in Held
                 /\ task.phase \in Held /\ SameLimits(tasks[w][f], task)
  BY <1>1, <1>2 DEF CallEnds, In, Task, Held, SameLimits
<1>3. CASE RecordFailure(w, f)
  <2>1. tasks[w][f].phase = "ko" /\ SetTask(w, f, AfterFailure(w, f))
    BY <1>3 DEF RecordFailure, In
  <2>2. \/ AfterFailure(w, f).phase = "none"
        \/ /\ AfterFailure(w, f).phase = "retry"
           /\ SameLimits(tasks[w][f], AfterFailure(w, f))
    BY <1>0, <1>1 DEF AfterFailure, Task, SameLimits
  <2>3. tasks'[v][e] = IF v = w /\ e = f THEN AfterFailure(w, f)
                       ELSE tasks[v][e]
    BY <2>1, SetTaskPhases
  <2> HIDE DEF AfterFailure
  <2> QED
    BY <2>1, <2>2, <2>3 DEF Held
<1>4. CASE RecordSuccess(w, f) \/ ScheduleRetry(w, f)
  <2>1. tasks'[v][e] = IF v = w /\ e = f THEN NoTask ELSE tasks[v][e]
    BY <1>4, SetTaskPhases DEF RecordSuccess, ScheduleRetry
  <2> QED
    BY <1>0, <2>1
<1>5. ASSUME NEW result \in {"ok", "ko"}, CallEnds(w, f, result)
      PROVE  \E task : /\ tasks'[v][e] = IF v = w /\ e = f THEN task
                                         ELSE tasks[v][e]
                       /\ task.phase \in Held
                       /\ tasks[w][f].phase \in Held
                       /\ SameLimits(tasks[w][f], task)
  <2> DEFINE task == [tasks[w][f] EXCEPT !.phase = result, !.time = 0]
  <2>1. /\ SetTask(w, f, task) /\ tasks[w][f].phase \in Held
        /\ task.phase \in Held /\ SameLimits(tasks[w][f], task)
    BY <1>2, <1>5
  <2> HIDE DEF task
  <2>2. tasks'[v][e] = IF v = w /\ e = f THEN task ELSE tasks[v][e]
    BY <2>1, SetTaskPhases
  <2> QED
    BY <2>1, <2>2
<1> QED
  BY <1>3, <1>4, <1>5 DEF TaskStep

LEMMA WorkerContinues ==
    ASSUME XInv, Working, NEW w \in Worker,
           WorkerStep(w), ~ClaimSelect(w), ~ClaimCommit(w),
           NEW v \in Worker, NEW e \in ExecId
    PROVE  Continues(v, e)
<1> USE DEF XInv, IInv
<1>1. NoTask.phase = "none"
  BY DEF NoTask
<1>2. CASE LoopStep(w)
  <2>1. tasks' = tasks /\ (v # w => pc'[v] = pc[v])
    BY <1>2 DEF LoopStep, Start, Reap, ReapRolledBack, TickEnds, Goto, TypeOK
  <2>2. v = w => tasks[v][e].phase = "none"
    <3>1. TickEnds(w) => tasks[w][e] = NoTask
      BY DEF TickEnds
    <3> QED
      BY <1>1, <1>2, <3>1, NoTaskElsewhere
      DEF LoopStep, Start, Reap, ReapRolledBack
  <2> QED
    BY <2>1, <2>2 DEF Continues, SameLimits
<1>3. CASE FaultStep(w)
  <2>1. ASSUME NEW f \in ExecId, QueryFails(w, f)
        PROVE  Continues(v, e)
    <3>1. /\ tasks'[v][e] = IF v = w /\ e = f THEN NoTask ELSE tasks[v][e]
          /\ UNCHANGED pc
      BY <2>1, SetTaskPhases DEF QueryFails
    <3> QED
      BY <1>1, <3>1 DEF Continues, SameLimits
  <2>2. CASE Crash(w) \/ ClaimFails(w) \/ ClaimAckLost(w)
    <3>1. /\ tasks'[v][e] = IF v = w THEN NoTask ELSE tasks[v][e]
          /\ v # w => pc'[v] = pc[v]
      BY <2>2, NoTasksPhases
      DEF Crash, ClaimFails, ClaimAckLost, Goto, TypeOK
    <3> QED
      BY <1>1, <3>1 DEF Continues, SameLimits
  <2> QED
    BY <1>3, <2>1, <2>2 DEF FaultStep
<1>4. ASSUME NEW f \in ExecId, TaskStep(w, f)
      PROVE  Continues(v, e)
  <2>1. UNCHANGED pc
    BY <1>4 DEF TaskStep, CallEnds, RecordSuccess, RecordFailure, ScheduleRetry
  <2> QED
    BY <1>4, <2>1, TaskStepTasks DEF Continues, SameLimits
<1> QED
  BY <1>2, <1>3, <1>4 DEF WorkerStep

LEMMA TickTasks ==
    ASSUME TypeOK, Tick, NEW w \in Worker, NEW e \in ExecId
    PROVE  /\ tasks'[w][e].phase = tasks[w][e].phase
           /\ SameLimits(tasks[w][e], tasks'[w][e])
<1>1. \/ tasks'[w][e] = tasks[w][e]
      \/ tasks'[w][e] = [tasks[w][e] EXCEPT !.time = Older(tasks[w][e].time)]
  BY DEF Tick
<1>2. tasks[w][e] \in Task
  BY DEF TypeOK
<1> QED
  BY <1>1, <1>2 DEF Task, SameLimits

LEMMA WorkingStep ==
    ASSUME XInv, Quiet, Undisturbed, Working, [Next]_vars
    PROVE  Working'
<1>1. UNCHANGED workers => \A w \in Worker, e \in ExecId : Continues(w, e)
  BY DEF workers, Continues, SameLimits
<1>2. Tick => \A w \in Worker, e \in ExecId : Continues(w, e)
  <2> SUFFICES ASSUME Tick
               PROVE  \A w \in Worker, e \in ExecId : Continues(w, e)
    OBVIOUS
  <2>1. UNCHANGED pc
    BY DEF Tick
  <2> QED
    BY <2>1, TickTasks DEF Continues, XInv, IInv
<1>3. (\A w \in Worker, e \in ExecId : Continues(w, e)) => Working'
  BY TaskContinues DEF Working
<1>4. ASSUME NEW w \in Worker, WorkerStep(w)
      PROVE  Working'
  BY <1>3, <1>4, SelectWorking, CommitWorking, WorkerContinues
<1> QED
  BY <1>1, <1>2, <1>3, <1>4 DEF Next, vars

(***************************************************************************)
(* The chain of retries                                                    *)
(***************************************************************************)
LEMMA RetriedStays ==
    ASSUME XInv, [Next]_vars, NEW e \in ExecId, Retried(execs, e)
    PROVE  Retried(execs', e)
<1>1. PICK f \in ExecId : execs[f].key.kind = "retry" /\ execs[f].parent = e
  BY DEF Retried
<1>2. Present(execs, f)
  BY <1>1 DEF XInv, Blank, NoKey
<1>3. SameOrigin(execs[f], execs'[f])
  BY <1>2, RowsKeepOrigin
<1> QED
  BY <1>1, <1>3 DEF SameOrigin, Retried

(* A row in flight has no retry yet. *)
LEMMA FlyingUnretried ==
    ASSUME XInv, NEW e \in ExecId, InFlight(execs, e)
    PROVE  Unretried(execs, e, execs[e].job)
BY DEF XInv, Indexed, Lineage, RetryOf, InFlight, Present, Unretried, Retried

(* The key of a retry is free exactly while there is none. *)
LEMMA RetryTaken ==
    ASSUME XInv, NEW e \in ExecId, NEW row, RetryOf(execs, row),
           row.parent = e
    PROVE  KeyTaken(execs, row) <=> Retried(execs, e)
<1>1. ASSUME NEW f \in ExecId, execs[f].key.kind = "retry",
             execs[f].parent = e
      PROVE  KeyTaken(execs, row)
  <2>1. RetryOf(execs, execs[f]) /\ Present(execs, f)
    BY <1>1 DEF XInv, Indexed, Lineage, Blank, NoKey
  <2>2. execs[f].key = row.key /\ execs[f].job = row.job
    BY <1>1, <2>1 DEF RetryOf
  <2> QED
    BY <2>1, <2>2 DEF KeyTaken
<1>2. ASSUME NEW f \in ExecId, execs[f].key = row.key
      PROVE  Retried(execs, e)
  <2>1. execs[f].key.kind = "retry" /\ execs[f].key.of = e
    BY <1>2 DEF RetryOf, RetryKey
  <2>2. RetryOf(execs, execs[f])
    BY <2>1 DEF XInv, Indexed, Lineage
  <2>3. execs[f].parent = e
    BY <2>1, <2>2 DEF RetryOf, RetryKey
  <2> QED
    BY <2>1, <2>3 DEF Retried
<1> QED
  BY <1>1, <1>2 DEF KeyTaken, Retried

(* What is inserted one row at a time: a retry, or an execution of a job   *)
(* that allows concurrent runs.                                            *)
QuietInserts ==
    \E e \in ExecId : \E row :
        /\ Accepts(row) /\ ~Present(execs, e) /\ Insert(e, row)
        /\ jobs[row.job].allowConcurrent \/ RetryOf(execs, row)

LEMMA ApiQuiet ==
    ASSUME XInv, Quiet, ApiStep
    PROVE  QuietInserts \/ Steady
<1>1. UNCHANGED execs => Steady
  BY DEF Steady, SameOrigin
<1>2. ASSUME NEW c \in Client, RunInsert(c)
      PROVE  QuietInserts \/ UNCHANGED execs
  <2>1. "run" \in ClientOps /\ req[c].job \in Job
    BY <1>2, RequestFields DEF RunInsert, Quiet, XInv, IInv, TypeOK
  <2>2. jobs[req[c].job].allowConcurrent
    BY <2>1 DEF Quiet
  <2>3. \A e : RunRow(req[c], e).job = req[c].job
    BY DEF RunRow, PendingRow
  <2> QED
    BY <1>2, <2>2, <2>3 DEF RunInsert, RunAccepted, RunRejected, RunDeduped,
                            IsNext, QuietInserts
<1>3. ASSUME NEW c \in Client, RetryInsert(c)
      PROVE  QuietInserts \/ UNCHANGED execs
  <2>1. /\ "retry" \in ClientOps /\ req[c].exec \in ExecId
        /\ Present(execs, req[c].exec)
    BY <1>3, RequestFields
    DEF RetryInsert, Quiet, XInv, IInv, TypeOK, RetryKnown
  <2>2. jobs[execs[req[c].exec].job].allowConcurrent
    BY <2>1 DEF Quiet, XInv, IInv, TypeOK
  <2>3. \A ms : ManualRetryRow(req[c].exec, req[c].single, ms).job
                   = execs[req[c].exec].job
    BY DEF ManualRetryRow, PendingRow
  <2> QED
    BY <1>3, <2>2, <2>3 DEF RetryInsert, IsNext, QuietInserts
<1>4. ASSUME NEW c \in Client, Respond(c)
      PROVE  QuietInserts \/ UNCHANGED execs
  BY <1>2, <1>3, <1>4 DEF Respond, PutWrite, ResumeWrite, RunLookup, store
<1>5. ASSUME NEW j \in Job, JobOps(j)
      PROVE  UNCHANGED execs
  BY <1>5 DEF JobOps, CreateJob, Pause, Archive, SetStatus, PutRead,
              ResumeRead, RunRead, store
<1>6. ASSUME NEW e \in ExecId, ExecOps(e)
      PROVE  UNCHANGED execs
  BY <1>6 DEF ExecOps, RetryRead, store
<1> QED
  BY <1>1, <1>4, <1>5, <1>6 DEF ApiStep

LEMMA SchedulerQuiet ==
    ASSUME Quiet, NEW j \in Job, SchedulerStep(j)
    PROVE  QuietInserts \/ UNCHANGED execs
<1>1. SlotDue(j) => jobs[j].allowConcurrent
  BY DEF SlotDue, Quiet
<1>2. SlotRow(j).job = j
  BY DEF SlotRow, PendingRow
<1> QED
  BY <1>1, <1>2 DEF SchedulerStep, ScheduleSlot, ScheduleBrokenCron, SkipSlot,
                    Enqueue, IsNext, QuietInserts

(* The retry a worker inserts, and what it does to a full table. *)
LEMMA RetryQuiet ==
    ASSUME XInv, NEW w \in Worker, NEW e \in ExecId, ScheduleRetry(w, e)
    PROVE  /\ QuietInserts \/ UNCHANGED execs
           /\ \E row : /\ RetryOf(execs, row) /\ row.parent = e
                       /\ row.single = ~tasks[w][e].allowConcurrent
                       /\ \/ ~Accepts(row)
                          \/ \E f \in ExecId : Insert(f, row)
<1>1. PICK wait \in Delay :
         LET row == WorkerRetryRow(w, e, wait)
         IN  IF Accepts(row) THEN \E f \in ExecId : IsNext(f) /\ Insert(f, row)
             ELSE UNCHANGED execs
  BY DEF ScheduleRetry
<1> DEFINE row == WorkerRetryRow(w, e, wait)
<1>2. execs[e].status = "FAILED"
      /\ ShouldRetry(execs[e].attempt, tasks[w][e].maxRetries)
  BY DEF ScheduleRetry, XInv, InProgress, RetryPhase
<1>3. /\ RetryOf(execs, row) /\ row.parent = e
      /\ row.single = ~tasks[w][e].allowConcurrent
  BY <1>2 DEF WorkerRetryRow, RetryRow, PendingRow, NextAttempt, RetryOf, RetryKey
<1>4. IF Accepts(row) THEN \E f \in ExecId : IsNext(f) /\ Insert(f, row)
      ELSE UNCHANGED execs
  BY <1>1
<1> HIDE DEF row
<1> QED
  BY <1>3, <1>4 DEF QuietInserts, IsNext

LEMMA QuietTable ==
    ASSUME XInv, Quiet, [Next]_vars
    PROVE  QuietInserts \/ Reaps \/ Steady
<1>1. UNCHANGED execs => Steady
  BY DEF Steady, SameOrigin
<1>2. ASSUME NEW w \in Worker, WorkerStep(w)
      PROVE  QuietInserts \/ Reaps \/ Steady
  BY <1>1, <1>2, WorkerTable, RetryQuiet DEF XInv
<1>3. CASE Tick
  BY <1>3, TickSteady DEF XInv, IInv
<1> QED
  BY <1>1, <1>2, <1>3, ApiQuiet, SchedulerQuiet DEF Next, vars, store

(* Who has no retry after a step had none before, if it was there. *)
LEMMA UnretriedBefore ==
    ASSUME XInv, [Next]_vars, NEW e \in ExecId, NEW j \in Job,
           Present(execs, e), Unretried(execs', e, j)
    PROVE  Unretried(execs, e, j)
<1>1. SameOrigin(execs[e], execs'[e])
  BY RowsKeepOrigin
<1> QED
  BY <1>1, RetriedStays DEF Unretried, SameOrigin

LEMMA InsertChain ==
    ASSUME XInv, Chain(execs), [Next]_vars, QuietInserts,
           NEW j \in Job, ~jobs[j].allowConcurrent,
           NEW e \in ExecId, NEW f \in ExecId,
           Unretried(execs', e, j), Unretried(execs', f, j)
    PROVE  e = f
<1>1. PICK g, row :
         /\ g \in ExecId /\ Accepts(row) /\ ~Present(execs, g)
         /\ Insert(g, row)
         /\ jobs[row.job].allowConcurrent \/ RetryOf(execs, row)
  BY DEF QuietInserts
<1>2. /\ execs'[g] = row
      /\ \A h \in ExecId \ {g} : execs'[h] = execs[h]
  BY <1>1 DEF Insert, XInv, IInv, TypeOK
<1>3. ASSUME NEW h \in ExecId, h # g, Unretried(execs', h, j)
      PROVE  Present(execs, h) /\ Unretried(execs, h, j)
  BY <1>2, <1>3, UnretriedBefore DEF Unretried, Present
<1>4. ASSUME NEW h \in ExecId, h # g, Unretried(execs', h, j), row.job = j
      PROVE  FALSE
  <2>1. RetryOf(execs, row)
    BY <1>1, <1>4
  <2> DEFINE p == row.parent
  <2>2. p \in ExecId /\ Present(execs, p) /\ execs[p].job = j
    BY <1>4, <2>1 DEF RetryOf, Present
  <2>3. ~Retried(execs, p)
    BY <1>1, <2>1, <2>2, RetryTaken DEF Accepts
  <2>4. h = p
    BY <1>3, <1>4, <2>2, <2>3 DEF Chain, Unretried
  <2>5. Retried(execs', p)
    BY <1>1, <1>2, <2>1 DEF Retried, RetryOf, RetryKey
  <2> QED
    BY <1>4, <2>4, <2>5 DEF Unretried
<1> QED
  BY <1>2, <1>3, <1>4 DEF Chain, Unretried

LEMMA ReapChain ==
    ASSUME XInv, Chain(execs), [Next]_vars, Reaps,
           NEW j \in Job, ~jobs[j].allowConcurrent,
           NEW e \in ExecId, NEW f \in ExecId,
           Unretried(execs', e, j), Unretried(execs', f, j)
    PROVE  e = f
<1>1. PICK parent \in Parents : \E wait \in [DOMAIN parent -> Delay] :
         execs' = ReapedTable(parent, wait)
  BY DEF Reaps
<1>2. ASSUME NEW h \in DOMAIN parent
      PROVE  /\ h \in ExecId /\ parent[h] \in ExecId
             /\ execs'[h].parent = parent[h] /\ execs'[h].key.kind = "retry"
             /\ execs'[h].job = execs[parent[h]].job
             /\ Unretried(execs, parent[h], execs[parent[h]].job)
  <2>1. /\ h \in ExecId /\ parent[h] \in ExecId /\ ReapRetries(parent[h])
        /\ execs'[h].parent = parent[h]
        /\ execs'[h].job = execs[parent[h]].job
        /\ execs'[h].key = RetryKey(parent[h], execs'[h].attempt)
    BY <1>1, ReapRows DEF ReapedAs, XInv, IInv
  <2>2. InFlight(execs, parent[h])
    BY <2>1 DEF ReapRetries, Stale, InFlight
  <2> QED
    BY <2>1, <2>2, FlyingUnretried DEF RetryKey
<1>3. \A g, h \in DOMAIN parent : parent[g] = parent[h] => g = h
  BY <1>1, ReapRows DEF ReapedAs, XInv, IInv
<1>4. ASSUME NEW h \in ExecId \ DOMAIN parent, Unretried(execs', h, j)
      PROVE  Unretried(execs, h, j)
  <2>1. Present(execs, h)
    BY <1>1, <1>4, ReapRows DEF ReapedAs, Unretried, Present, Stale, XInv, IInv
  <2> QED
    BY <1>4, <2>1, UnretriedBefore
<1>5. ASSUME NEW g \in DOMAIN parent, NEW h \in ExecId \ DOMAIN parent,
             Unretried(execs', g, j), Unretried(execs', h, j)
      PROVE  FALSE
  <2>1. h = parent[g]
    BY <1>2, <1>4, <1>5 DEF Chain, Unretried
  <2>2. Retried(execs', h)
    BY <1>2, <2>1 DEF Retried
  <2> QED
    BY <1>5, <2>2 DEF Unretried
<1>6. ASSUME NEW g \in DOMAIN parent, NEW h \in DOMAIN parent,
             Unretried(execs', g, j), Unretried(execs', h, j)
      PROVE  g = h
  <2>1. parent[g] = parent[h]
    BY <1>2, <1>6 DEF Chain, Unretried
  <2> QED
    BY <1>3, <2>1
<1>7. CASE e \notin DOMAIN parent /\ f \notin DOMAIN parent
  BY <1>4, <1>7 DEF Chain
<1> QED
  BY <1>5, <1>6, <1>7

LEMMA ChainStep ==
    ASSUME XInv, Quiet, Undisturbed, Chain(execs), [Next]_vars
    PROVE  Chain(execs)'
<1>1. \A j \in Job : jobs'[j].allowConcurrent = jobs[j].allowConcurrent
  BY SettingsStay DEF SameJob, XInv, IInv
<1>2. ASSUME NEW j \in Job, ~jobs[j].allowConcurrent,
             NEW e \in ExecId, NEW f \in ExecId,
             Unretried(execs', e, j), Unretried(execs', f, j)
      PROVE  e = f
  <2>1. CASE Steady
    <3>1. Present(execs, e) /\ Present(execs, f)
      BY <1>2, <2>1 DEF Steady, Unretried
    <3> QED
      BY <1>2, <3>1, UnretriedBefore DEF Chain
  <2> QED
    BY <1>2, <2>1, QuietTable, InsertChain, ReapChain
<1> QED
  BY <1>1, <1>2 DEF Chain, Unretried, Retried, Present

(***************************************************************************)
(* Failures                                                                *)
(***************************************************************************)
WithinLimit(e) ==
    ShouldRetry(execs[e].attempt, jobs[execs[e].job].maxRetries)
(* Some worker is on its way to record or retry the execution. *)
Awaited(e) == \E w \in Worker : tasks[w][e].phase \in Held
Orphan(e) == pc[execs[e].lockedBy] = "gone"
Cared(e) == Awaited(e) \/ Retried(execs, e) \/ Orphan(e)

LEMMA FailureCared ==
    FailureIsRetried <=>
        \A e \in ExecId :
            execs[e].status = "FAILED" /\ WithinLimit(e) => Cared(e)
BY DEF FailureIsRetried, WithinLimit, Awaited, Held, Orphan, Cared, Retried

LEMMA GoneStays ==
    ASSUME TypeOK, [Next]_vars, NEW w \in Worker, pc[w] = "gone"
    PROVE  pc'[w] = "gone"
<1>1. ASSUME NEW v \in Worker, WorkerStep(v)
      PROVE  pc'[w] = "gone"
  BY <1>1 DEF WorkerStep, LoopStep, FaultStep, TaskStep, Start, Reap,
              ReapRolledBack, ClaimSelect, ClaimCommit, TickEnds, Crash,
              ClaimFails, ClaimAckLost, QueryFails, CallEnds, RecordSuccess,
              RecordFailure, ScheduleRetry, Goto, TypeOK
<1> QED
  BY <1>1 DEF Next, Tick, vars, workers

(* Who was on its way and is not any more has recorded a success, found    *)
(* the limit reached, scheduled the retry, or died.                        *)
LEMMA HeldUntil ==
    ASSUME XInv, Quiet, Undisturbed, Working, [Next]_vars,
           NEW w \in Worker, NEW e \in ExecId, tasks[w][e].phase \in Held,
           tasks'[w][e].phase \notin Held
    PROVE  \/ RecordSuccess(w, e) \/ ScheduleRetry(w, e)
           \/ Crash(w)
           \/ ~ShouldRetry(execs[e].attempt, tasks[w][e].maxRetries)
<1> USE DEF XInv, IInv
<1>1. pc[w] = "process" /\ tasks[w][e] # NoTask
  BY DEF Working, WorkingOn, NoTask, Held
<1>2. ~(UNCHANGED tasks)
  OBVIOUS
<1>3. ~Tick
  BY TickTasks
<1>4. PICK v \in Worker : WorkerStep(v)
  BY <1>2, <1>3 DEF Next, vars, workers
<1>5. ASSUME v # w
      PROVE  FALSE
  <2>1. tasks'[w] = tasks[w]
    BY <1>4, <1>5 DEF WorkerStep, LoopStep, FaultStep, TaskStep, Start, Reap,
                 ReapRolledBack, ClaimSelect, ClaimCommit, TickEnds, Crash,
                 ClaimFails, ClaimAckLost, QueryFails, CallEnds,
                 RecordSuccess, RecordFailure, ScheduleRetry, SetTask, TypeOK
  <2> QED
    BY <2>1
<1>6. ~LoopStep(w)
  BY <1>1, <1>2 DEF LoopStep, Start, Reap, ReapRolledBack, ClaimSelect,
                    ClaimCommit, TickEnds
<1>7. FaultStep(w) => Crash(w)
  BY <1>1 DEF FaultStep, ClaimFails, ClaimAckLost, QueryFails, Undisturbed
<1>8. ASSUME NEW f \in ExecId, TaskStep(w, f)
      PROVE  \/ RecordSuccess(w, e) \/ ScheduleRetry(w, e)
             \/ ~ShouldRetry(execs[e].attempt, tasks[w][e].maxRetries)
  <2>1. f = e
    <3>1. \E task : SetTask(w, f, task)
      BY <1>8 DEF TaskStep, CallEnds, RecordSuccess, RecordFailure,
                  ScheduleRetry
    <3> QED
      BY <3>1, SetTaskPhases
  <2>2. tasks[w][e] \in Task
    BY DEF TypeOK
  <2>3. ASSUME NEW result \in {"ok", "ko"}, CallEnds(w, e, result)
        PROVE  FALSE
    <3> DEFINE task == [tasks[w][e] EXCEPT !.phase = result, !.time = 0]
    <3>1. task.phase \in Held
      BY <2>2 DEF Task, Held
    <3>2. SetTask(w, e, task)
      BY <2>3 DEF CallEnds
    <3> HIDE DEF task
    <3> QED
      BY <3>1, <3>2, SetTaskPhases
  <2>4. ASSUME RecordFailure(w, e),
               ShouldRetry(execs[e].attempt, tasks[w][e].maxRetries)
        PROVE  FALSE
    <3>1. tasks'[w][e] = AfterFailure(w, e)
      BY <2>4, SetTaskPhases DEF RecordFailure
    <3>2. AfterFailure(w, e).phase = "retry"
      BY <2>2, <2>4 DEF AfterFailure, Task
    <3> QED
      BY <3>1, <3>2 DEF Held
  <2> QED
    BY <1>8, <2>1, <2>3, <2>4 DEF TaskStep
<1> QED
  BY <1>4, <1>5, <1>6, <1>7, <1>8 DEF WorkerStep

(* The insert of a retry that has not been made succeeds. *)
LEMMA RetryGoesIn ==
    ASSUME XInv, Working, Chain(execs), NEW w \in Worker, NEW e \in ExecId,
           ScheduleRetry(w, e)
    PROVE  Retried(execs, e) \/ Retried(execs', e)
<1> SUFFICES ASSUME ~Retried(execs, e)
             PROVE  Retried(execs', e)
  OBVIOUS
<1>1. PICK row : /\ RetryOf(execs, row) /\ row.parent = e
                 /\ row.single = ~tasks[w][e].allowConcurrent
                 /\ \/ ~Accepts(row)
                    \/ \E f \in ExecId : Insert(f, row)
  BY RetryQuiet
<1>2. /\ e \in In(w, "retry") /\ execs[e].status = "FAILED"
      /\ tasks[w][e].phase # "none"
  BY DEF ScheduleRetry, XInv, InProgress, RetryPhase, In
<1> DEFINE j == execs[e].job
<1>3. /\ Unretried(execs, e, j) /\ j \in Job
      /\ tasks[w][e].allowConcurrent = jobs[j].allowConcurrent
  BY <1>2 DEF Working, WorkingOn, SettingsOf, Unretried, Present, XInv, IInv,
              TypeOK
<1>4. ~SingleTaken(execs, row)
  <2> SUFFICES ASSUME row.single, NEW f \in ExecId,
                      InFlight(execs, f), execs[f].job = row.job
               PROVE  FALSE
    BY DEF SingleTaken
  <2>1. ~jobs[j].allowConcurrent /\ execs[f].job = j
    BY <1>1, <1>3 DEF RetryOf
  <2>2. Unretried(execs, f, j)
    BY <2>1, FlyingUnretried
  <2>3. e = f
    BY <1>3, <2>1, <2>2 DEF Chain
  <2> QED
    BY <1>2, <2>3 DEF InFlight
<1>5. ~KeyTaken(execs, row)
  BY <1>1, RetryTaken
<1>6. PICK f \in ExecId : Insert(f, row)
  BY <1>1, <1>4, <1>5 DEF Accepts
<1>7. execs'[f] = row
  BY <1>6 DEF Insert, XInv, IInv, TypeOK
<1> QED
  BY <1>1, <1>7 DEF Retried, RetryOf, RetryKey

(* A failure of before the step. *)
LEMMA OldFailure ==
    ASSUME XInv, Quiet, Undisturbed, Working, Chain(execs), [Next]_vars,
           NEW e \in ExecId, execs[e].status = "FAILED",
           execs'[e].status = "FAILED", WithinLimit(e), Cared(e)
    PROVE  Cared(e)'
<1>1. execs'[e].lockedBy = execs[e].lockedBy
  BY NextIInv DEF XInv, RowSteps, RowStep
<1>2. Present(execs, e)
  BY DEF Present
<1>3. CASE Orphan(e)
  <2>1. execs[e].lockedBy \in Worker
    <3>1. execs[e].lockedBy # None /\ execs[e] \in ExecRow
      BY DEF XInv, IInv, TypeOK
    <3> QED
      BY <3>1 DEF ExecRow
  <2>2. pc'[execs[e].lockedBy] = "gone"
    BY <1>3, <2>1, GoneStays DEF Orphan, XInv, IInv
  <2> QED
    BY <1>1, <2>2 DEF Cared, Orphan
<1>4. CASE Retried(execs, e)
  BY <1>4, RetriedStays DEF Cared, Retried
<1>5. ASSUME NEW w \in Worker, tasks[w][e].phase \in Held
      PROVE  Cared(e)'
  <2>1. execs[e].lockedBy = w
    BY <1>5 DEF XInv, IInv, ClaimIsExclusive, Owns, Held
  <2>2. ShouldRetry(execs[e].attempt, tasks[w][e].maxRetries)
    BY <1>5 DEF WithinLimit, Working, WorkingOn, SettingsOf, Held
  <2>3. CASE tasks'[w][e].phase \in Held
    BY <2>3 DEF Cared, Awaited
  <2>4. CASE ScheduleRetry(w, e)
    BY <2>4, RetryGoesIn, RetriedStays DEF Cared, Retried
  <2>5. CASE Crash(w)
    BY <1>1, <2>1, <2>5 DEF Crash, Goto, XInv, IInv, TypeOK, Cared, Orphan
  <2>6. ASSUME RecordSuccess(w, e)
        PROVE  FALSE
    BY <2>6, RecordSteps DEF RecordSuccess, In, XInv, IInv
  <2> QED
    BY <1>5, <2>2, <2>3, <2>4, <2>5, <2>6, HeldUntil
<1> QED
  BY <1>3, <1>4, <1>5 DEF Cared, Awaited

(* A failure the step records: by the worker that made the call, or by a   *)
(* reaper, which inserts the retry in the same transaction.                *)
LEMMA ReapedRetried ==
    ASSUME XInv, [Next]_vars, Reaps, NEW e \in ExecId,
           execs[e].status # "FAILED", execs'[e].status = "FAILED",
           WithinLimit(e)
    PROVE  Retried(execs', e)
<1>1. PICK parent \in Parents : \E wait \in [DOMAIN parent -> Delay] :
         execs' = ReapedTable(parent, wait)
  BY DEF Reaps
<1>2. PICK wait \in [DOMAIN parent -> Delay] :
         execs' = ReapedTable(parent, wait)
  BY <1>1
<1>3. /\ e \notin DOMAIN parent
      /\ ~Stale(e) => execs'[e] = execs[e]
  BY <1>2, ReapRows DEF ReapedAs, XInv, IInv
<1>4. Stale(e)
  BY <1>3
<1>5. CASE Dedupes(ReapRetryRow(e, 0))
  <2> DEFINE row == ReapRetryRow(e, 0)
  <2>1. PICK f \in ExecId : execs[f].key = row.key
    BY <1>5 DEF Dedupes, KeyTaken
  <2>2. row.key.kind = "retry" /\ row.key.of = e
    BY DEF ReapRetryRow, RetryRow, PendingRow, RetryKey
  <2> HIDE DEF row
  <2>3. RetryOf(execs, execs[f])
    BY <2>1, <2>2 DEF XInv, Indexed, Lineage
  <2>4. execs[f].parent = e
    BY <2>1, <2>2, <2>3 DEF RetryOf, RetryKey
  <2> QED
    BY <2>1, <2>2, <2>4, RetriedStays DEF Retried
<1>6. CASE ~Dedupes(ReapRetryRow(e, 0))
  <2>1. ReapRetries(e)
    BY <1>4, <1>6 DEF ReapRetries, WithinLimit
  <2>2. PICK f \in DOMAIN parent : parent[f] = e
    BY <2>1 DEF Parents, Bijection, Surjection
  <2>3. /\ f \in ExecId /\ execs'[f].parent = e
        /\ execs'[f].key = RetryKey(e, execs'[f].attempt)
    BY <1>2, <2>2, ReapRows DEF ReapedAs, XInv, IInv
  <2> QED
    BY <2>3 DEF Retried, RetryKey
<1> QED
  BY <1>5, <1>6

LEMMA NewFailure ==
    ASSUME XInv, Quiet, Undisturbed, Working, [Next]_vars,
           NEW e \in ExecId, execs[e].status # "FAILED",
           execs'[e].status = "FAILED", WithinLimit(e)
    PROVE  Cared(e)'
<1>1. CASE Reaps
  BY <1>1, ReapedRetried DEF Cared, Retried
<1>2. CASE ~Reaps
  <2> USE DEF XInv, IInv
  <2>1. PICK w \in Worker : tasks[w][e].phase \in Held
    <3>1. ASSUME NEW w \in Worker, WorkerStep(w)
          PROVE  \E f \in ExecId : RecordFailure(w, f)
      <4>1. ~Stamp(w)
        BY StampSteps
      <4>2. ASSUME NEW f \in ExecId, RecordSuccess(w, f)
            PROVE  FALSE
        <5>1. /\ execs'[f].status = "SUCCEEDED"
              /\ \A g \in ExecId \ {f} : execs'[g] = execs[g]
          BY <4>2, RecordSteps DEF RecordSuccess, In
        <5> QED
          BY <5>1
      <4>3. ASSUME NEW f \in ExecId, ScheduleRetry(w, f)
            PROVE  FALSE
        <5>1. Inserts \/ UNCHANGED execs
          BY <4>3, RetryInserts DEF InProgress
        <5> QED
          BY <5>1 DEF Inserts, Insert, TypeOK
      <4>4. ~Reap(w)
        BY <1>2 DEF Reap, Reaps
      <4> QED
        BY <3>1, <4>1, <4>2, <4>3, <4>4
        DEF WorkerStep, LoopStep, FaultStep, TaskStep, Start, ReapRolledBack,
            ClaimSelect, ClaimCommit, TickEnds, Crash, ClaimFails,
            ClaimAckLost, QueryFails, CallEnds, store
    <3>2. ~Tick
      BY TickSteps
    <3>3. ~Inserts
      BY DEF Inserts, Insert, TypeOK
    <3>4. PICK w \in Worker, f \in ExecId : RecordFailure(w, f)
      BY <3>1, <3>2, <3>3, ApiInserts, SchedulerInserts
      DEF Next, vars, store
    <3>5. f = e /\ tasks[w][f].phase = "ko"
      <4>1. tasks[w][f].phase = "ko" /\ execs' = RecordedTable(w, f, "FAILED")
        BY <3>4 DEF RecordFailure, In
      <4> QED
        BY <4>1, RecordSteps
    <3> QED
      BY <3>5 DEF Held
  <2>2. /\ execs[e].lockedBy = w
        /\ Present(execs, e)
    BY <2>1 DEF ClaimIsExclusive, Owns, Held, Present
  <2>3. ShouldRetry(execs[e].attempt, tasks[w][e].maxRetries)
    BY <2>1 DEF WithinLimit, Working, WorkingOn, SettingsOf, Held
  <2>4. execs'[e].lockedBy = execs[e].lockedBy
    BY <2>1, NextIInv DEF RowSteps, RowStep, ClaimIsExclusive, Held
  <2>5. ~RecordSuccess(w, e)
    BY RecordSteps DEF RecordSuccess, In
  <2>6. ~ScheduleRetry(w, e)
    BY DEF ScheduleRetry, InProgress, RetryPhase
  <2>7. Crash(w) => Cared(e)'
    BY <2>2, <2>4 DEF Crash, Goto, TypeOK, Cared, Orphan
  <2> QED
    BY <2>1, <2>3, <2>5, <2>6, <2>7, HeldUntil DEF Cared, Awaited
<1> QED
  BY <1>1, <1>2

LEMMA FailureStep ==
    ASSUME XInv, Quiet, Undisturbed, Working, Chain(execs), FailureIsRetried,
           [Next]_vars
    PROVE  FailureIsRetried'
<1> SUFFICES ASSUME NEW e \in ExecId,
                    execs'[e].status = "FAILED", WithinLimit(e)'
             PROVE  Cared(e)'
  BY DEF FailureIsRetried, WithinLimit, Awaited, Held, Orphan, Cared, Retried
<1>1. Present(execs, e)
  <2>1. RowSteps
    BY NextIInv DEF XInv
  <2> QED
    BY <2>1 DEF RowSteps, RowStep, Present
<1>2. WithinLimit(e)
  BY <1>1, TaskedSettings DEF WithinLimit, SameJob
<1>3. execs[e].status = "FAILED" => Cared(e)
  BY <1>2, FailureCared
<1> QED
  BY <1>2, <1>3, OldFailure, NewFailure

(***************************************************************************)
(* The invariant and the theorem                                           *)
(***************************************************************************)
RInv == XInv /\ Quiet /\ Working /\ Chain(execs) /\ FailureIsRetried

LEMMA InitRInv ==
    ASSUME Undisturbed, Init
    PROVE  RInv
<1>1. XInv
  BY InitXInv
<1>2. Quiet
  BY DEF Init, Undisturbed, Quiet, NoReq
<1>3. Working
  BY DEF Init, WorkerInit, NoTask, Working, WorkingOn, Held
<1>4. ASSUME NEW e \in ExecId, Present(execs, e)
      PROVE  /\ execs[e] # NoRow
             /\ execs[e].status = "PENDING" /\ InFlight(execs, e)
  BY <1>4, InitAssumption DEF Init, Present, NoRow, InFlight
<1>5. Chain(execs)
  <2> SUFFICES ASSUME NEW j \in Job, ~jobs[j].allowConcurrent,
                      NEW e \in ExecId, NEW f \in ExecId,
                      Unretried(execs, e, j), Unretried(execs, f, j)
               PROVE  e = f
    BY DEF Chain
  <2>1. execs[e].single /\ execs[f].single
    BY <1>4 DEF Init, Undisturbed, Unretried
  <2> QED
    BY <1>1, <1>4, <2>1 DEF XInv, Indexed, SingleIndex, Unretried
<1>6. FailureIsRetried
  BY <1>4 DEF FailureIsRetried, Present
<1> QED
  BY <1>1, <1>2, <1>3, <1>5, <1>6 DEF RInv

LEMMA NextRInv ==
    ASSUME Undisturbed, RInv, [Next]_vars
    PROVE  RInv'
<1> USE DEF RInv
<1>1. XInv' /\ TypeOK
  BY NextXInv DEF XInv, IInv
<1>2. Quiet' /\ Working'
  BY <1>1, QuietStep, WorkingStep
<1>3. Chain(execs)'
  BY ChainStep
<1>4. FailureIsRetried'
  BY FailureStep
<1> QED
  BY <1>1, <1>2, <1>3, <1>4

(* Undisturbed, a failure within the retry limit is never left behind, for *)
(* any workers, crashes of them, lost claims and reapers: either the retry *)
(* exists, or a worker is on its way to it, or the worker that recorded    *)
(* the failure died (worker.ts:138-171, 226-259; ENGINEERING.md section    *)
(* 13).  In general the retry can be lost, as the run retry_lost shows.    *)
THEOREM FailuresRetried ==
    ASSUME Undisturbed
    PROVE  Spec => []FailureIsRetried
<1>1. Init => RInv
  BY InitRInv
<1>2. RInv /\ [Next]_vars => RInv'
  BY NextRInv
<1>3. RInv => FailureIsRetried
  BY DEF RInv
<1> QED
  BY <1>1, <1>2, <1>3, PTL DEF Spec

(***************************************************************************)
(* The reaper                                                              *)
(***************************************************************************)
(* When the reaper cannot be stuck: no PUT switches concurrent runs off,   *)
(* and the rows there at the start were made under their job's setting.    *)
(* Crashes, faults and every other request are allowed.                    *)
NeverForbidden ==
    /\ \A p \in Patches : "allowConcurrent" \in DOMAIN p => p.allowConcurrent
    /\ \A s \in InitJobs, t \in InitExecs, e \in ExecId :
          Present(t, e) => /\ s[t[e].job].status # "ABSENT"
                           /\ s[t[e].job].allowConcurrent \/ t[e].single

Forbids(j) == Exists(j) /\ ~jobs[j].allowConcurrent

(* Rows, workers and requests heed the setting of a job: what is in flight *)
(* for a job that forbids concurrent runs enforces it, and so does what    *)
(* anybody will still insert, although it was read some time ago.          *)
Rooted == \A e \in ExecId : Present(execs, e) => Exists(execs[e].job)
RowsHeed ==
    \A e \in ExecId :
        InFlight(execs, e) /\ Forbids(execs[e].job) => execs[e].single
TasksHeed ==
    \A w \in Worker, e \in ExecId :
        tasks[w][e].phase # "none" /\ Forbids(execs[e].job)
            => ~tasks[w][e].allowConcurrent
RequestHeeds(r) ==
    /\ r.at = "put" /\ ~r.merged.allowConcurrent
          => "allowConcurrent" \notin DOMAIN r.patch
    /\ r.at = "run" => Exists(r.job) /\ (Forbids(r.job) => r.single)
    /\ r.at = "retry" /\ Forbids(execs[r.exec].job) => r.single
Heeded ==
    /\ Rooted /\ RowsHeed /\ TasksHeed
    /\ \A c \in Client : RequestHeeds(req[c])

(* Concurrent runs are forbidden to no job that allowed them. *)
LEMMA ForbidsBefore ==
    ASSUME TypeOK, PutKnown, Heeded, NeverForbidden, [Next]_vars,
           NEW j \in Job, Exists(j)
    PROVE  Exists(j)' /\ (Forbids(j)' => Forbids(j))
<1>1. jobs[j] \in JobRow
  BY DEF TypeOK
<1>2. Exists(j)'
  BY JobsLater DEF Exists, Later
<1>3. ASSUME NEW c \in Client, Puts(c, j)
      PROVE  jobs'[j].allowConcurrent = req[c].merged.allowConcurrent
  <2>1. req[c].merged \in JobRow
    BY <1>3, PutFields DEF Puts, TypeOK
  <2> QED
    BY <1>1, <1>3, <2>1 DEF Puts, Bump, Overwrite, JobRow
<1>4. ASSUME NEW c \in Client, Puts(c, j), ~req[c].merged.allowConcurrent
      PROVE  ~jobs[j].allowConcurrent
  <2>1. /\ "allowConcurrent" \notin DOMAIN req[c].patch
        /\ Kept(jobs[j], req[c])
    BY <1>4 DEF Puts, Heeded, RequestHeeds, PutKnown
  <2> QED
    BY <1>4, <2>1 DEF Puts, Kept, Settings
<1>5. ASSUME NEW c \in Client, Resumes(c, j)
      PROVE  jobs'[j].allowConcurrent = jobs[j].allowConcurrent
  BY <1>1, <1>5 DEF Resumes, Bump, JobRow
<1>6. Advances(j) => jobs'[j].allowConcurrent = jobs[j].allowConcurrent
  BY <1>1 DEF Advances, Advance, TypeOK, JobRow
<1>7. Written(j)
  BY JobWrites
<1> QED
  BY <1>2, <1>3, <1>4, <1>5, <1>6, <1>7
  DEF Written, Creates, Stops, Forbids, Exists

LEMMA RowForbidsBefore ==
    ASSUME XInv, PutKnown, Heeded, NeverForbidden, [Next]_vars,
           NEW e \in ExecId, Present(execs, e)
    PROVE  /\ SameOrigin(execs[e], execs'[e])
           /\ Exists(execs[e].job)'
           /\ Forbids(execs[e].job)' => Forbids(execs[e].job)
<1>1. execs[e].job \in Job /\ Exists(execs[e].job) /\ TypeOK
  BY DEF XInv, IInv, TypeOK, Heeded, Rooted
<1>2. SameOrigin(execs[e], execs'[e])
  BY RowsKeepOrigin
<1> QED
  BY <1>1, <1>2, ForbidsBefore DEF SameOrigin, Forbids, Exists

(* Only RunRead starts a Run Now, and only RetryRead a manual retry. *)
LEMMA InsertStarts ==
    ASSUME TypeOK, [Next]_vars, NEW c \in Client,
           req'[c].at \in {"run", "retry"}, req'[c] # req[c]
    PROVE  \/ \E j \in Job : RunRead(c, j)
           \/ \E e \in ExecId : RetryRead(c, e)
<1>1. ApiStep
  BY DEF Next, vars, clients
<1>2. ASSUME NEW d \in Client, Respond(d)
      PROVE  FALSE
  <2>1. \/ req' = [req EXCEPT ![d] = NoReq]
        \/ req' = [req EXCEPT ![d] = [req[d] EXCEPT !.at = "lookup"]]
    BY <1>2 DEF Respond, PutWrite, ResumeWrite, RunInsert, RunAccepted,
                RunRejected, RunDeduped, RunLookup, RetryInsert, End, TypeOK
  <2>2. /\ NoReq.at = "idle"
        /\ [req[d] EXCEPT !.at = "lookup"].at = "lookup"
    BY DEF NoReq, TypeOK, Request
  <2> QED
    BY <2>1, <2>2 DEF TypeOK
<1>3. ASSUME NEW j \in Job, JobOps(j)
      PROVE  RunRead(c, j)
  <2>1. PICK d \in Client : PutRead(d, j) \/ ResumeRead(d, j) \/ RunRead(d, j)
    BY <1>3 DEF JobOps, CreateJob, Pause, Archive, SetStatus, clients
  <2>2. d = c
    BY <2>1 DEF PutRead, ResumeRead, RunRead, Begin, TypeOK
  <2> QED
    BY <2>1, <2>2 DEF PutRead, ResumeRead, Begin, TypeOK
<1>4. ASSUME NEW e \in ExecId, ExecOps(e)
      PROVE  RetryRead(c, e)
  <2>1. PICK d \in Client : RetryRead(d, e)
    BY <1>4 DEF ExecOps, clients
  <2>2. d = c
    BY <2>1 DEF RetryRead, Begin, TypeOK
  <2> QED
    BY <2>1, <2>2
<1> QED
  BY <1>1, <1>2, <1>3, <1>4 DEF ApiStep

LEMMA RequestsHeed ==
    ASSUME XInv, PutKnown, Heeded, NeverForbidden, [Next]_vars,
           NEW c \in Client
    PROVE  RequestHeeds(req[c])'
<1> USE DEF XInv, IInv
<1>1. RequestHeeds(req[c]) /\ req[c] \in Request
  BY DEF Heeded, TypeOK
<1>2. ASSUME req'[c].at = "put", ~req'[c].merged.allowConcurrent
      PROVE  "allowConcurrent" \notin DOMAIN req'[c].patch
  <2>1. CASE req'[c] = req[c]
    BY <1>1, <1>2, <2>1 DEF RequestHeeds
  <2>2. CASE req'[c] # req[c]
    <3>1. PICK j \in Job : PutRead(c, j)
      BY <1>2, <2>2, PutStarts DEF vars, clients
    <3>2. PICK patch \in Patches, version \in 1..jobs[j].version :
             req'[c] = [at |-> "put", job |-> j, version |-> version,
                        patch |-> patch, merged |-> Merge(jobs[j], patch)]
      BY <3>1 DEF PutRead, Begin, TypeOK
    <3>3. jobs[j] \in JobRow
      BY DEF TypeOK
    <3>4. "allowConcurrent" \in DOMAIN patch =>
             Merge(jobs[j], patch).allowConcurrent = patch.allowConcurrent
      BY <3>3 DEF Merge, JobRow
    <3> QED
      BY <1>2, <3>2, <3>4 DEF NeverForbidden
  <2> QED
    BY <2>1, <2>2
<1>3. ASSUME req'[c].at = "run"
      PROVE  /\ Exists(req[c].job)'
             /\ Forbids(req[c].job)' => req'[c].single
  <2>1. CASE req'[c] = req[c]
    <3>1. req[c].job \in Job /\ Exists(req[c].job)
      BY <1>1, <1>3, <2>1, RequestFields DEF RequestHeeds
    <3> QED
      BY <1>1, <1>3, <2>1, <3>1, ForbidsBefore
      DEF RequestHeeds, Exists, Forbids
  <2>2. CASE req'[c] # req[c]
    <3>1. PICK j \in Job : RunRead(c, j)
      BY <1>3, <2>2, InsertStarts DEF RetryRead, Begin, TypeOK
    <3>2. /\ req'[c].job = j /\ req'[c].single = ~jobs[j].allowConcurrent
          /\ Exists(j) /\ UNCHANGED jobs
      BY <3>1 DEF RunRead, Begin, TypeOK, store
    <3> QED
      BY <3>2 DEF Exists, Forbids
  <2> QED
    BY <2>1, <2>2
<1>4. ASSUME req'[c].at = "retry", Forbids(execs[req[c].exec].job)'
      PROVE  req'[c].single
  <2>1. CASE req'[c] = req[c]
    <3>1. req[c].exec \in ExecId /\ Present(execs, req[c].exec)
      BY <1>1, <1>4, <2>1, RequestFields DEF RetryKnown
    <3> QED
      BY <1>1, <1>4, <2>1, <3>1, RowForbidsBefore
      DEF RequestHeeds, Exists, Forbids, SameOrigin
  <2>2. CASE req'[c] # req[c]
    <3>1. PICK e \in ExecId : RetryRead(c, e)
      BY <1>4, <2>2, InsertStarts DEF RunRead, Begin, TypeOK
    <3>2. /\ req'[c].exec = e /\ UNCHANGED <<jobs, execs>>
          /\ req'[c].single = ~jobs[execs[e].job].allowConcurrent
      BY <3>1 DEF RetryRead, Begin, TypeOK, store
    <3> QED
      BY <1>4, <3>2 DEF Forbids
  <2> QED
    BY <2>1, <2>2
<1> QED
  BY <1>2, <1>3, <1>4 DEF RequestHeeds

(* A task was there before with the same settings, or its worker has just  *)
(* read them.                                                              *)
LEMMA TaskOrigin ==
    ASSUME TypeOK, [Next]_vars, NEW w \in Worker, NEW e \in ExecId,
           tasks'[w][e].phase # "none"
    PROVE  \/ /\ tasks[w][e].phase # "none"
              /\ SameLimits(tasks[w][e], tasks'[w][e])
           \/ tasks'[w][e] = Selected(e) /\ UNCHANGED <<jobs, execs>>
<1>1. CASE UNCHANGED tasks
  BY <1>1 DEF SameLimits
<1>2. CASE Tick
  BY <1>2, TickTasks
<1>3. ASSUME NEW v \in Worker, LoopStep(v)
      PROVE  \/ /\ tasks[w][e].phase # "none"
                /\ SameLimits(tasks[w][e], tasks'[w][e])
             \/ tasks'[w][e] = Selected(e) /\ UNCHANGED <<jobs, execs>>
  <2>1. CASE ClaimSelect(v)
    <3>1. /\ tasks'[w][e] \in {tasks[w][e], Selected(e)}
          /\ UNCHANGED <<jobs, execs>>
      BY <2>1 DEF ClaimSelect, TypeOK, store
    <3> QED
      BY <3>1 DEF SameLimits
  <2>2. CASE ClaimCommit(v)
    <3>1. \/ tasks'[w][e] = tasks[w][e]
          \/ /\ tasks[w][e].phase = "selected"
             /\ tasks'[w][e] = [tasks[w][e] EXCEPT !.phase = "calling"]
      BY <2>2 DEF ClaimCommit, In, TypeOK
    <3>2. tasks[w][e] \in Task
      BY DEF TypeOK
    <3> QED
      BY <3>1, <3>2 DEF Task, SameLimits
  <2> QED
    BY <1>1, <1>3, <2>1, <2>2
    DEF LoopStep, Start, Reap, ReapRolledBack, TickEnds
<1>4. ASSUME NEW v \in Worker, FaultStep(v)
      PROVE  tasks'[w][e] = tasks[w][e]
  <2>1. NoTask.phase = "none"
    BY DEF NoTask
  <2>2. tasks'[w][e] \in {tasks[w][e], NoTask}
    BY <1>4, SetTaskPhases, NoTasksPhases
    DEF FaultStep, Crash, ClaimFails, ClaimAckLost, QueryFails
  <2> QED
    BY <2>1, <2>2
<1>5. ASSUME NEW v \in Worker, NEW f \in ExecId, TaskStep(v, f)
      PROVE  /\ tasks[w][e].phase # "none"
             /\ SameLimits(tasks[w][e], tasks'[w][e])
  BY <1>5, TaskStepTasks DEF SameLimits, Held
<1> QED
  BY <1>1, <1>2, <1>3, <1>4, <1>5
  DEF Next, WorkerStep, SameLimits, vars, workers

LEMMA TasksHeedStep ==
    ASSUME XInv, PutKnown, Heeded, NeverForbidden, [Next]_vars
    PROVE  TasksHeed'
<1> SUFFICES ASSUME NEW w \in Worker, NEW e \in ExecId,
                    tasks'[w][e].phase # "none", Forbids(execs[e].job)'
             PROVE  ~tasks'[w][e].allowConcurrent
  BY DEF TasksHeed
<1>1. CASE /\ tasks[w][e].phase # "none"
           /\ SameLimits(tasks[w][e], tasks'[w][e])
  <2>1. Present(execs, e)
    BY <1>1, TaskedIsPresent DEF XInv, IInv, Present
  <2>2. Forbids(execs[e].job)
    BY <2>1, RowForbidsBefore DEF SameOrigin, Forbids, Exists
  <2> QED
    BY <1>1, <2>2 DEF Heeded, TasksHeed, SameLimits
<1>2. CASE tasks'[w][e] = Selected(e) /\ UNCHANGED <<jobs, execs>>
  BY <1>2 DEF Selected, Forbids
<1> QED
  BY <1>1, <1>2, TaskOrigin DEF XInv, IInv

(* An inserted row belongs to a job that exists, and heeds its setting. *)
HeedingInserts ==
    \E e \in ExecId : \E row :
        /\ ~Present(execs, e) /\ Insert(e, row)
        /\ row.job \in Job /\ Exists(row.job)
        /\ Forbids(row.job) => row.single

LEMMA WorkerHeeds ==
    ASSUME XInv, Heeded, NEW w \in Worker, NEW e \in ExecId,
           ScheduleRetry(w, e)
    PROVE  HeedingInserts \/ UNCHANGED execs
<1>1. PICK wait \in Delay :
         LET row == WorkerRetryRow(w, e, wait)
         IN  IF Accepts(row) THEN \E f \in ExecId : IsNext(f) /\ Insert(f, row)
             ELSE UNCHANGED execs
  BY DEF ScheduleRetry
<1> DEFINE row == WorkerRetryRow(w, e, wait)
<1>2. tasks[w][e].phase = "retry" /\ execs[e].status = "FAILED"
  BY DEF ScheduleRetry, In, XInv, InProgress, RetryPhase
<1>3. execs[e].job \in Job /\ Exists(execs[e].job)
  BY <1>2 DEF XInv, IInv, TypeOK, Present, Heeded, Rooted
<1>4. Forbids(execs[e].job) => ~tasks[w][e].allowConcurrent
  BY <1>2 DEF Heeded, TasksHeed
<1>5. row.job = execs[e].job /\ row.single = ~tasks[w][e].allowConcurrent
  BY DEF WorkerRetryRow, RetryRow, PendingRow
<1>6. UNCHANGED execs \/ \E f \in ExecId : IsNext(f) /\ Insert(f, row)
  BY <1>1
<1> HIDE DEF row
<1> QED
  BY <1>3, <1>4, <1>5, <1>6 DEF HeedingInserts, IsNext

LEMMA SchedulerHeeds ==
    ASSUME NEW j \in Job, SchedulerStep(j)
    PROVE  HeedingInserts \/ UNCHANGED execs
<1>1. /\ SlotRow(j).job = j
      /\ SlotRow(j).single = ~jobs[j].allowConcurrent
  BY DEF SlotRow, PendingRow
<1>2. SlotDue(j) => Exists(j)
  BY DEF SlotDue, Exists
<1> QED
  BY <1>1, <1>2 DEF SchedulerStep, ScheduleSlot, ScheduleBrokenCron, SkipSlot,
                    Enqueue, IsNext, Forbids, HeedingInserts

LEMMA ApiHeeds ==
    ASSUME XInv, Heeded, ApiStep
    PROVE  HeedingInserts \/ Steady
<1>1. UNCHANGED execs => Steady
  BY DEF Steady, SameOrigin
<1>2. ASSUME NEW c \in Client, RunInsert(c)
      PROVE  HeedingInserts \/ UNCHANGED execs
  <2>1. /\ req[c].job \in Job /\ Exists(req[c].job)
        /\ Forbids(req[c].job) => req[c].single
    BY <1>2, RequestFields
    DEF RunInsert, Heeded, RequestHeeds, XInv, IInv, TypeOK
  <2>2. \A e : /\ RunRow(req[c], e).job = req[c].job
               /\ RunRow(req[c], e).single = req[c].single
    BY DEF RunRow, PendingRow
  <2> QED
    BY <1>2, <2>1, <2>2 DEF RunInsert, RunAccepted, RunRejected, RunDeduped,
                            IsNext, HeedingInserts
<1>3. ASSUME NEW c \in Client, RetryInsert(c)
      PROVE  HeedingInserts \/ UNCHANGED execs
  <2> DEFINE j == execs[req[c].exec].job
  <2>1. req[c].exec \in ExecId /\ Present(execs, req[c].exec)
    BY <1>3, RequestFields DEF RetryInsert, XInv, IInv, TypeOK, RetryKnown
  <2>2. j \in Job /\ Exists(j) /\ (Forbids(j) => req[c].single)
    BY <1>3, <2>1
    DEF RetryInsert, Heeded, Rooted, RequestHeeds, XInv, IInv, TypeOK
  <2>3. \A ms : LET row == ManualRetryRow(req[c].exec, req[c].single, ms)
                IN  row.job = j /\ row.single = req[c].single
    BY DEF ManualRetryRow, PendingRow
  <2> HIDE DEF j
  <2> QED
    BY <1>3, <2>2, <2>3 DEF RetryInsert, IsNext, HeedingInserts
<1>4. ASSUME NEW c \in Client, Respond(c)
      PROVE  HeedingInserts \/ UNCHANGED execs
  BY <1>2, <1>3, <1>4 DEF Respond, PutWrite, ResumeWrite, RunLookup, store
<1>5. ASSUME NEW j \in Job, JobOps(j)
      PROVE  UNCHANGED execs
  BY <1>5 DEF JobOps, CreateJob, Pause, Archive, SetStatus, PutRead,
              ResumeRead, RunRead, store
<1>6. ASSUME NEW e \in ExecId, ExecOps(e)
      PROVE  UNCHANGED execs
  BY <1>6 DEF ExecOps, RetryRead, store
<1> QED
  BY <1>1, <1>4, <1>5, <1>6 DEF ApiStep

LEMMA HeedingTable ==
    ASSUME XInv, Heeded, [Next]_vars
    PROVE  HeedingInserts \/ (Reaps /\ UNCHANGED jobs) \/ Steady
<1>1. UNCHANGED execs => Steady
  BY DEF Steady, SameOrigin
<1>2. ASSUME NEW w \in Worker, WorkerStep(w)
      PROVE  HeedingInserts \/ (Reaps /\ UNCHANGED jobs) \/ Steady
  BY <1>1, <1>2, WorkerTable, WorkerHeeds, JobsUntouched DEF XInv
<1>3. CASE Tick
  BY <1>3, TickSteady DEF XInv, IInv
<1> QED
  BY <1>1, <1>2, <1>3, ApiHeeds, SchedulerHeeds DEF Next, vars, store

(* What a step makes of the rows: those that were there keep their origin  *)
(* and only a new one is put in flight, for a job that exists and with its *)
(* present setting.                                                        *)
NewRow(e) ==
    /\ execs'[e].job \in Job /\ Exists(execs'[e].job)
    /\ Forbids(execs'[e].job) => execs'[e].single

LEMMA RowsNewOrOld ==
    ASSUME XInv, Heeded, [Next]_vars, NEW e \in ExecId, Present(execs', e)
    PROVE  NewRow(e) \/ (Present(execs, e) /\ (InFlight(execs', e) =>
                                                   InFlight(execs, e)))
<1>1. CASE HeedingInserts
  <2>1. PICK g, row :
           /\ g \in ExecId /\ Insert(g, row) /\ row.job \in Job /\ Exists(row.job)
           /\ Forbids(row.job) => row.single
    BY <1>1 DEF HeedingInserts
  <2>2. execs'[e] = IF e = g THEN row ELSE execs[e]
    BY <2>1 DEF Insert, XInv, IInv, TypeOK
  <2> QED
    BY <2>1, <2>2 DEF NewRow, Present, InFlight
<1>2. CASE Reaps
  <2>1. PICK parent \in Parents : \E wait \in [DOMAIN parent -> Delay] :
           execs' = ReapedTable(parent, wait)
    BY <1>2 DEF Reaps
  <2>2. ReapedAs(parent, execs')
    BY <2>1, ReapRows DEF XInv, IInv
  <2>3. CASE e \in DOMAIN parent
    <3>1. /\ parent[e] \in ExecId /\ Present(execs, parent[e])
          /\ execs'[e].job = execs[parent[e]].job
          /\ execs'[e].single = ~jobs[execs'[e].job].allowConcurrent
      BY <2>2, <2>3 DEF ReapedAs, ReapRetries, Stale, Present
    <3> QED
      BY <3>1 DEF NewRow, Forbids, Heeded, Rooted, XInv, IInv, TypeOK
  <2>4. CASE e \notin DOMAIN parent
    BY <2>2, <2>4 DEF ReapedAs, Stale, Present, InFlight
  <2> QED
    BY <2>3, <2>4
<1>3. CASE Steady
  BY <1>3 DEF Steady
<1> QED
  BY <1>1, <1>2, <1>3, HeedingTable

LEMMA RowsHeedStep ==
    ASSUME XInv, PutKnown, Heeded, NeverForbidden, [Next]_vars
    PROVE  Rooted' /\ RowsHeed'
<1> SUFFICES ASSUME NEW e \in ExecId, Present(execs', e)
             PROVE  /\ Exists(execs[e].job)'
                    /\ InFlight(execs', e) /\ Forbids(execs[e].job)'
                          => execs'[e].single
  BY DEF Rooted, RowsHeed, Present, InFlight
<1>1. CASE NewRow(e)
  BY <1>1, ForbidsBefore DEF NewRow, Exists, Forbids, XInv, IInv
<1>2. CASE /\ Present(execs, e)
           /\ InFlight(execs', e) => InFlight(execs, e)
  BY <1>2, RowForbidsBefore
  DEF SameOrigin, Heeded, RowsHeed, Exists, Forbids
<1> QED
  BY <1>1, <1>2, RowsNewOrOld

(* Where all heed the settings, the retries of a reaper find their place:  *)
(* that of the execution each of them repeats.                             *)
LEMMA ReapFits ==
    ASSUME XInv, Heeded, NEW parent \in Parents,
           NEW wait \in [DOMAIN parent -> Delay]
    PROVE  SingleIndex(ReapedTable(parent, wait))
<1> DEFINE t == ReapedTable(parent, wait)
<1>1. ReapedAs(parent, t)
  BY ReapRows DEF XInv, IInv
<1> HIDE DEF t
<1>2. ASSUME NEW e \in DOMAIN parent, t[e].single
      PROVE  /\ parent[e] \in ExecId /\ Stale(parent[e])
             /\ InFlight(execs, parent[e]) /\ execs[parent[e]].single
             /\ Forbids(t[e].job) /\ execs[parent[e]].job = t[e].job
  <2>1. /\ parent[e] \in ExecId /\ Stale(parent[e])
        /\ execs[parent[e]].job = t[e].job /\ ~jobs[t[e].job].allowConcurrent
    BY <1>1, <1>2 DEF ReapedAs, ReapRetries
  <2>2. Present(execs, parent[e]) /\ InFlight(execs, parent[e])
    BY <2>1 DEF Stale, Present, InFlight
  <2> QED
    BY <2>1, <2>2 DEF Heeded, Rooted, RowsHeed, Forbids
<1>3. ASSUME NEW e \in ExecId \ DOMAIN parent, InFlight(t, e)
      PROVE  t[e] = execs[e] /\ InFlight(execs, e) /\ ~Stale(e)
  BY <1>1, <1>3 DEF ReapedAs, InFlight
<1> SUFFICES ASSUME NEW e \in ExecId, NEW f \in ExecId,
                    InFlight(t, e), t[e].single, InFlight(t, f), t[f].single,
                    t[e].job = t[f].job
             PROVE  e = f
  BY DEF SingleIndex, t
<1>4. SingleIndex(execs)
  BY DEF XInv, Indexed
<1>5. CASE e \in DOMAIN parent /\ f \in DOMAIN parent
  <2>1. parent[e] = parent[f]
    BY <1>2, <1>4, <1>5 DEF SingleIndex
  <2> QED
    BY <1>1, <1>5, <2>1 DEF ReapedAs
<1>6. CASE e \in DOMAIN parent /\ f \notin DOMAIN parent
  <2>1. parent[e] = f
    BY <1>2, <1>3, <1>4, <1>6 DEF SingleIndex
  <2> QED
    BY <1>2, <1>3, <1>6, <2>1
<1>7. CASE e \notin DOMAIN parent /\ f \in DOMAIN parent
  <2>1. e = parent[f]
    BY <1>2, <1>3, <1>4, <1>7 DEF SingleIndex
  <2> QED
    BY <1>2, <1>3, <1>7, <2>1
<1>8. CASE e \notin DOMAIN parent /\ f \notin DOMAIN parent
  BY <1>3, <1>4, <1>8 DEF SingleIndex
<1> QED
  BY <1>5, <1>6, <1>7, <1>8

HInv == XInv /\ PutKnown /\ Heeded

LEMMA InitHInv ==
    ASSUME NeverForbidden, Init
    PROVE  HInv
<1>1. XInv
  BY InitXInv
<1>2. \A c \in Client : req[c].at = "idle"
  BY DEF Init, NoReq
<1>3. PutKnown /\ \A c \in Client : RequestHeeds(req[c])
  BY <1>2 DEF PutKnown, RequestHeeds
<1>4. TasksHeed
  BY DEF Init, WorkerInit, NoTask, TasksHeed
<1>5. ASSUME NEW e \in ExecId, Present(execs, e)
      PROVE  Exists(execs[e].job) /\ (Forbids(execs[e].job) => execs[e].single)
  BY <1>5 DEF Init, NeverForbidden, Exists, Forbids
<1> QED
  BY <1>1, <1>3, <1>4, <1>5
  DEF HInv, Heeded, Rooted, RowsHeed, InFlight, Present

LEMMA NextHInv ==
    ASSUME NeverForbidden, HInv, [Next]_vars
    PROVE  HInv'
<1> USE DEF HInv
<1>1. XInv' /\ TypeOK /\ TypeOK'
  BY NextXInv DEF XInv, IInv
<1>2. PutKnown'
  BY <1>1, PutKnownStep
<1>3. Heeded'
  BY RowsHeedStep, TasksHeedStep, RequestsHeed DEF Heeded
<1> QED
  BY <1>1, <1>2, <1>3

(* As long as no PUT switches concurrent runs off, no reaper is ever kept  *)
(* from committing, whatever the workers, clients and faults: its retries  *)
(* take the places of the executions they repeat (worker.ts:193-278,       *)
(* 280-302).  With such a PUT it can be stuck for ever, as the run         *)
(* reaper_stuck shows.                                                     *)
THEOREM ReaperNeverStuck ==
    ASSUME NeverForbidden
    PROVE  Spec => []ReaperProceeds
<1>1. Init => HInv
  BY InitHInv
<1>2. HInv /\ [Next]_vars => HInv'
  BY NextHInv
<1>3. HInv => ReaperProceeds
  BY ReapFits DEF HInv, ReaperProceeds
<1> QED
  BY <1>1, <1>2, <1>3, PTL DEF Spec
=============================================================================
